# A TLA+ verification of the JAWAKER control panel

JAWAKER manages Linux servers from one controller. The controller keeps its state
in PostgreSQL, runs long work as durable jobs, and calls typed operations on node
agents over mutual TLS. This directory holds TLA+ models of the parts where that
can go wrong in ways tests hardly reach, the TLC configurations that check them,
and TLAPS proofs of the main results. Paths below are relative to the repository
(`src/` here).

## 1. Inventory

The system is a controller process (possibly several replicas on one database), a
browser interface, and one agent per managed server. Handlers write rows and enqueue
jobs; workers claim the jobs and call operations on nodes; loops in every controller
(scheduler, notifier, webhook worker, health probe, evaluator, Git sync, retention)
read and write the same rows.

### Modelled

| Component | State | Operations | Interacts with | What is hard | What makes it correct |
|---|---|---|---|---|---|
| Durable job engine (`internal/jobs`) | `jobs`, `job_resource_locks`, `job_attempts`, `job_steps`; per worker the lease, its heartbeat, the handler | `Enqueue`, `Claim`, `Renew`, `Checkpoint`, step writes, `Complete`/`Fail`/`Cancel`, `ReclaimExpiredLeases`, `RequestCancel` | every handler; the cancel endpoint; retention | claim races on lock rows, leases that expire under a live worker, late writes, crashes | exclusion per resource, fencing, terminal states final, nothing stuck |
| Node deploy executor (`nodeagent/deploy.go`) | release directories, the `current` symlink, the unit file and its backup, what systemd runs | `DeployApp` with rollback and pruning | systemd, the file system, the dispatcher | a failure after any step, a canceled context, a restart, two operations at once | symlink and service never lose their directory; the answer is true |
| Application deployments (`controller/apps.go`, `apps_worker.go`, `apps`) | `apps`, `app_deployments`, `app_releases`, webhook tokens, the job, what the node serves | deploy, redeploy, roll back, a Git push, the `app.deploy` handler, cancel | job engine, dispatcher | unfenced writes, lost answers, retries, redelivered pushes, a client that hangs up | records agree with the node; one deployment per push and under way |
| Configuration revisions (`revisions`) | `revisions` rows, Git sync state, the mirror | `Create`, `MarkValidated`, `Apply`, `RecordHealth`, `Rollback`, the sync worker | site and database handlers; GitHub | concurrent applies at READ COMMITTED, pushes whose mark is lost | one revision in force, no lost update, the mirror moves forward |
| Enrollment, inventory, heartbeats (`nodes`, `nodeagent/enroll.go`, `state.go`, `heartbeat.go`) | tokens, `servers`, certificates, heartbeats; three files per host | tokens, `Redeem`, `Enroll`, `LoadState`, `Beat`, delete a server | operators, agents | one token presented twice, lost answers, crashes between files, late heartbeats | a token buys one server; a deleted server is silent |
| Site configuration (`controller/sites*.go`, `nodeagent/webconfig.go`) | the site, its revisions and jobs; candidate, live and backup file, what nginx runs | apply, roll back, the `site.apply` handler, the node's test, switch, reload, restore | revisions, job engine, nginx | a failure after any file step, retries after a recorded validation, late operations | nothing untested serves; the file is that of the applied revision |
| Managed databases (`databases`, `controller/databases*.go`, `nodeagent/database.go`) | rows of databases, users, dumps; secrets; the node's database, account and dump files | create, users, dump, restore, delete, their jobs | job engine, node | retries of what took effect, abandoned operations | accounts and dumps match the rows; no drop without a dump |
| Backups (`backups`, `controller/backups*.go`, `nodeagent/backup.go`) | plans, runs, jobs, archives, the target | the scheduler's tick, run, verify, restore, retention | job engine, node, target | ticks in two controllers, jobs that die, retries that archive again | one run at a time; what is recorded is stored; retention keeps the newest |
| Notifications (`notify`) | channels, routes, deliveries | `Publish`, `DeliverOnce`, redelivery | observability, senders | two loops, lapsed leases, deduplication | one sender per row, one notice per condition |
| Outbound webhooks (`webhook`, `controller/automation.go`) | webhook, deliveries | queue, claim, send, retry, dead letter | receivers | a lease shorter than a batch, lost writes | sent once, at most `max_attempts` |
| Event stream (`eventstream`) | replay log, subscriber buffers | publish, subscribe, resume, write frames | clients | slow consumers, replay from a last id | no gap without a mark |
| Observability (`observe`) | rules, samples, incidents, report schedules | the evaluator's tick, edits, pruning | notifications | a tick of many statements, restarts, edits under it | one open incident, told once |
| High availability (`ha`) | pools, members, drains, drills | probe pass, handlers | the nodes | rows edited during a pass, lost writes | an undisturbed pass leaves true rows |
| Certificates and DNS (`certs`, `dns`, `controller/dns_tls.go`) | providers, zones, records, orders, certificates, secrets | create, delete, import, revoke, cancel | secret store | a secret and its row in two transactions | credentials belong to what exists |
| Sessions and identity (`identity`, `authsession`) | users, factors, recovery codes, sessions | login, step-up, enrollment, recovery, lockout | all handlers | racing use of one code, a factor removed under a login | one-time means once; expiry is never stretched |
| Wire protocol, dispatcher, node agent server (`nodewire`, `nodes/dispatch.go`, `nodeagent/server.go`) | a call, the agent's admission, the target's identity | typed call, decode, admit, run, answer | every operation | lost answers, reused addresses, limits | the outcome told is the outcome |
| Migrations, authority, start of the controller (`db/migrate`, `nodes/authority.go`, `cmd/controller`) | `schema_migrations`, the advisory lock, the identity and the roots | `Up`, `EnsureAuthority`, `Build` | two controllers | crashes in between, older binaries, other keys | each migration once; one identity and pair of roots |
| Serving and shutdown (`httpserver`, `nodes/listener.go`, `cmd/controller`) | open requests, their goroutines and contexts | timeout, recovery, drain, exit | clients, nodes | deadlines, disconnections and signals that meet | one whole answer; a clean exit drops none |
| Updates (`updates`, `controller/updates.go`, `nodeagent/update.go`) | releases, jobs, rollout rows, the agent's binary | sync, preflight, rollout, canary step, install | dispatcher, nodes | clients that leave, lost answers | `done` means installed |

### Not modelled

| Component | Why |
|---|---|
| Cron expressions, rate limiter, authorization rules | a calendar search, floating-point refill and a table lookup: a bounded model would be the table or the calendar again |
| Projects and sites inventory | single-row writes; the functions that would make a life cycle (`Suspend`, `Resume`, `RequestDelete`, `CancelDelete`, `FinalizeDelete`) have no caller outside tests |
| Containers, networking, security center | one-row writes; applying a firewall only marks rows, bans and WAF settings never reach a node, so there is no second state to compare with |
| Mail, plugins, copilot, API tokens, quotas, users, hardening, terminal, host tools | one guarded statement each, or reads of the host |
| Backup targets | writers of bytes with no state of their own |
| Cryptography, password hashing, configuration, logging, doctor, CLI, installer, web interface | nothing a state model reaches, or no state of their own |

`PROJECT.json` lists every component with its files, and the hazards found in
reading, each at its line, with the properties that cover it.

## 2. How the project was ordered, and what is left

First the job engine and what it promises; then what runs on it (deployments, sites,
databases, backups); what several controllers do to the same rows (deliveries,
webhooks, evaluator, probe); what crosses the network (enrollment, wire, updates,
event stream); and the life of the process itself. Left for later:

- `AppDeploy`, `Sites`, `Databases` and `Backups` each describe their jobs in their
  own terms; only `AppDeploy` takes them from `JobQueue` by `INSTANCE`;
- liveness of the loops beyond the job engine and deployments. Several of the loops do
  not have it in the code (section 7: `LapsedIsDue`, `EnabledPlanIsScheduled`).

## 3. Modules

| Module | Code | State in brief |
|---|---|---|
| `JobQueue` | the engine's promise | a job's state, its holder, its attempts |
| `JobEngine` | `internal/jobs` | rows, lock rows, attempts, steps; per worker its place, lease, heartbeat |
| `NodeDeploy` | `nodeagent/deploy.go` | directories, symlink, unit, systemd, operations |
| `AppDeploy` | `apps_worker.go`, the deploy request | rows, jobs (an instance of `JobQueue`), requests, handlers, the node |
| `Apps` | `apps/apps.go`, `controller/apps.go` | application, token, deployments, requests |
| `Revisions` | `revisions` | rows, applies in their transactions, sync passes |
| `Enrollment` | `nodes`, `nodeagent` | tokens, servers, requests, hosts, heartbeats, deletions |
| `Sites` | `sites.go`, `sites_worker.go`, `webconfig.go` | site, revisions, jobs, node operations, files |
| `Databases` | `databases*.go`, `nodeagent/database.go` | rows, secret, jobs, node, late operations |
| `Backups` | `backups*.go`, `nodeagent/backup.go` | plan, runs, jobs, archive, target, two schedulers |
| `Delivery` | `notify` | channels, routes, publishing transactions, rows, loops |
| `Webhooks` | `webhook`, `automation.go` | webhook, rows, loops |
| `Events` | `eventstream` | ids, replay log, subscriptions, clients |
| `Alerts` | `observe` | rule, samples, incidents, the tick's statement |
| `Pools` | `ha` | pool, members, drains, drills, the pass's statement |
| `Dns` | `dns`, `certs`, `dns_tls.go` | providers, the shared token reference, zones, records, order, certificate |
| `Sessions` | `identity`, `authsession` | users, factors, codes, sessions, requests |
| `Wire` | `nodewire`, `dispatch.go`, `server.go` | hosts, calls, operations |
| `Startup` | `migrate.go`, `authority.go`, `main.go` | rows, lock, identity, secrets, processes |
| `Serving` | `server.go`, `listener.go`, `main.go` | requests, main, the node listener |
| `Updates` | `updates`, `update.go` | releases, rollout rows, requests, operations |

`JobEngine` implements `JobQueue` (`Queue == INSTANCE JobQueue WITH ...`), and
`AppDeploy` takes its jobs from it, so what is proved about the engine carries over.
`NodeDeploy` is the node's side of the `Dispatch` action of `AppDeploy`, `Wire` the
call in between. `MCJobEngine` and `MCEnrollment` hold constants and symmetry sets.

`MCHosting`, `MCPanel` and `MCFleet` each check several components that share no
state in one run. `part`, chosen at the start, names the component that runs; the
others keep their initial state. So the reachable states are the disjoint union of
those of the parts, every property speaks about the part that runs, and nothing is
claimed about the product of components that do not interact. `part # c => ...` in
an `Init` only fixes initial choices that a resting component would multiply.

Actions carry the names of the functions, and each SQL statement or transaction is one
step, as PostgreSQL makes it atomic. A transaction is split where it reads what
others may change before it commits:

- `JobEngine`: `ClaimSelect` locks a row that passes the lock check, `ClaimCommit` or
  `ClaimAbort` ends the transaction; the primary key of `job_resource_locks` refuses
  the second of two claims. `lease_age` counts half lease TTLs. A worker that dies
  does not return: owner ids contain a timestamp. `RequestCancel` and
  `HandleCancelJob` are two actions because the repository has two implementations.
- `NodeDeploy`: one application; an operation names its release directory, whose
  prefix is the time. `ContextDone` is the request context that ends: later commands
  are refused, file operations go on. `Serial` says whether an operation the
  controller gave up on has ended before the next one starts. `static`, chosen by
  `Init`, is an application without a unit.
- `AppDeploy`: the lease guards the job's row (`Owned`), nothing guards the deployment
  row. `LoseLease` ends an attempt at the queue while its handler goes on. A handler
  whose `lease.Fail` fails returns nil and the job completes: a disjunct of `FailJob`.
- `Revisions`: `ApplyBegin` takes the snapshot, may wait for a row lock, and re-checks
  only the row it found; the partial unique index is `IndexAllows`.
- `Enrollment`: `RedeemClaim` is the `UPDATE` that locks the token's row, `RedeemCommit`
  the inserts and the commit. `WriteIdentity`, `WriteRoot`, `WriteConfig` are the
  renames on the host, with `EnrollFails` before each. A deletion is three statements.
- `Apps`, `Dns`, `Updates`, `Sessions`: a handler is one step per statement, and a
  client that hangs up ends it between any two.
- `Delivery`, `Webhooks`: a claim marks rows; the request and the write of its outcome
  are one step per row, later; the lease may lapse in between.
- `Alerts`, `Pools`: a tick or pass is a list of statements that commit one by one,
  with handlers, failures and restarts between them.
- `Sites`, `Databases`, `Backups`: a job's attempt is one step per call to the node and
  per row; an operation the controller gave up on goes on (`siteOp`, `dbLate`).
- `Wire`: send, decode, admit, run, answer; the address of a server may belong to
  another one by now. The field rules of an operation's parameters are one Boolean.
- `Serving`: a handler and the goroutine that waits for it are apart, as in
  `withTimeout`; a deadline may pass at any moment.
- `Events`: `Publish` never waits; a full buffer drops the event and marks the
  subscription. `Startup`: each migration is a transaction; a process may die between
  any two steps and come back with another binary or other keys.

Variables whose comment says "history" record what has happened and change nothing.
Sets like `whHarm` record which faults have occurred: a property that needs their
absence says so (`whHarm = {} => ...`), while the run contains the behaviours with
them for the other properties. Operators with the comment "mutant" are the changed
definitions that `PROJECT.json` pairs with each property.

## 4. Runs

Passing runs (state counts are distinct states):

| Run | Question | Bounds and why they are enough |
|---|---|---|
| `JobEngine_safety` | Are locks, leases, attempts and terminal states consistent, and is the engine a `JobQueue`? | 2 jobs with a common key, one with two attempts; 2 workers: a lost claim race, a reclaim under a live worker, a crash with a survivor |
| `JobEngine_timely` | Can two live handlers work on one resource when heartbeats are on time? | as above, `Timely = TRUE`, one database error, before which the answer is no |
| `JobEngine_retry` | Does every job end, and can a late worker overwrite a newer attempt's step? | 1 job with a step and a retry, 2 workers, crashes |
| `AppDeploy_records` | Do records and node agree when nothing is going on, and is every success real? | 2 deployments, 2 attempts, one each of fault, hang-up, lost lease, cancel and lost answer; 2.2 million states |
| `AppDeploy_live` | Does every deployment end and unblock the next? | 3 deployments, 2 attempts, one lost answer |
| `Enrollment_safety` | Is a token spent once, are names unique, is a deleted server silent, is an agent the server its host enrolled? | 2 hosts, 2 tokens for 1 name, 2 requests, 2 heartbeats, 2 delete requests: two of everything that races |
| `Hosting_safety` | Files, answers, configuration, accounts, dumps, runs and archives on the node against the rows | 1.8 million states. `nodedeploy`: 5 operations, more than `Keep = 3`, so pruning has happened, one fault, cancellation and crash. `sites`: 3 revisions, one bad configuration, 2 attempts. `databases`: 2 user rows of one name, a dump, 2 attempts. `backups`: `BkSize = 3`, either two schedulers and one run row or one scheduler and two |
| `Panel_safety` | Revisions, deliveries, webhooks, deployments, credentials, streams, updates | 1.3 million states. Two of each racing actor; deliveries and webhooks with 2 tries and 2 loops; 3 deployments by 2 requests over 2 commits; 3 providers of one name; 4 events for a log and buffers of 2; 2 servers and 2 canary steps; one fault in each |
| `Fleet_safety` | Calls, probe passes, incidents, sign-ins, starts, answers | 2.1 million states. 2 calls of each kind of operation with a limit of 1; 2 hosts, 2 edits and a fault in a pass; one rule over 2 periods with 2 incident rows; one user with 2 enrollments and 2 concurrent requests; 2 controllers, 2 migrations, 2 keys, 3 starts; 2 requests of each kind |

The properties, one line each, are in `PROJECT.json` with the run that checks them;
the comment above each definition states it in full. Those that matter most:

- `ImplementsQueue`, `LocksSound`, `LeaseFencesAttempt`: the engine is the queue that
  every handler assumes;
- `FilesAreSound`, `AnswersAreTrue`: the node's symlink and service keep their
  directories after any failure, and the answer says what happened;
- `LinearHistory`: no revision is applied over one its author had not seen;
- `RecordsMatchNode`, `LiveConfigIsSound`, `UsersMatchNode`, `ArchivesAreSound`: rows
  in PostgreSQL and files on the node agree once nothing is under way;
- `DeliveriesAreSound`, `HookSentOnce`, `ToldOnce`, `OnePushOneDeployment`: two
  controllers do once what is to be done once;
- `SignInsSound`: a code is accepted once whatever requests race;
- `OutcomeIsTrue`, `CanaryTellsTruth`: an outcome is told only when it is known;
- `AnswersAreWhole`, `BootSound`: the process starts and stops cleanly;
- `JobsFinish`, `DeploymentsEnd`: what was started ends.

`CHECK_DEADLOCK FALSE` is set where a bound ends the behaviour; the job engine's runs
check for deadlock.

Runs that must be violated, each a disagreement between the code and what the
repository says of it (the quotations are in `PROJECT.json`):

| Run | What it shows |
|---|---|
| `AppDeploy_hangup` | the compensating write fails with the request it compensates |
| `Serving_panic` | a panic of an API handler is raised in a goroutine of its own, below the recovery middleware, and ends the process |
| `Sites_actor` | the worker's actor is no uuid, so marking a revision validated fails and no `site.apply` job succeeds. The other checks of `Sites` use `siteActorOk` both ways |

### Fairness

`JobEngine!Fairness`: a worker goroutine that can go on does (`Worker.Run` polls, so
a claim is retried without a notification); a handler returns, because every call it
makes has a timeout; backoffs and lease periods elapse, because they are clock time;
the retention sweep runs on a ticker. Heartbeats, cancels, enqueues, crashes and errors
are not fair. `AppDeploy!FairSpec`: requests and handlers take their next step, and a
waiting job is claimed, which is what `JobsFinish` checks of the engine. The other
modules state safety only.

## 5. Proofs

Every safety property that a passing run checks is also a theorem for all values of
the constants; `PROJECT.json` lists them. A proof follows one pattern: an inductive
invariant that every initial state satisfies; a lemma per
action that a step preserves it; and the property, which it implies. Assumptions on
constants are the named `ASSUME`s of the component's module (bounds are natural
numbers, a job is tried at least once, names differ from "none"); TLC evaluates them
in each run. Some theorems have a hypothesis of their own, always one that is named
and that the run of the property makes as well:

| Hypothesis | Theorems | Without it |
|---|---|---|
| `Timely`: the next heartbeat comes before the lease is half over | `HandlersNeverMeet` | a reclaimed job runs beside its old handler |
| `Serial`: operations of an application do not overlap | `FilesCorrect`, `NodeAnswersCorrect`, `DeployedIsNotUndone` | section 7, `DeployedStays` |
| `Calm`: no failed call, lost lease or cancel, and no worker before its request | `EndedJobFrees` | each leaves a row queued or running behind an ended job (section 7) |
| `~MarkErrors`: the mark of a pushed revision is written | `MirrorForward` | the mirror moves back (section 7) |

| Module | Components | What carries the proof |
|---|---|---|
| `JobEngineProofs` | `JobEngine` | `IInv`, then `LeasesHeld` |
| `RevisionsProofs` | `Revisions` | `IInv`, then `MirrorInv` |
| `EnrollmentProofs` | `Enrollment` | `IInv` |
| `AppDeployProofs` | `AppDeploy` | `AppDeployInv`, then `CalmInv` |
| `HostingProofs` | `NodeDeploy`, `Sites`, `Databases`, `Backups` | `NodeInv`, `SiteInv`, `DbInv`, `BkInv` |
| `PanelProofs` | `Webhooks`, `Delivery`, `Apps`, `Dns`, `Updates` | `WebhookInv`, `DeliveryInv`, `AppsInv`, `DnsInv`, `UpdateInv` |
| `ControllerProofs` | `Startup`, `Serving`, `Events` | `StartupInv`, `ServingInv`, `EventInv` |
| `FleetProofs` | `Wire`, `Pools`, `Alerts`, `Sessions` | `WireInv`, `PoolInv`, `AlertInv`, `SessionsInv` |

**JobEngine.** For any sets of jobs, workers, keys and steps, any lock sets,
priorities and types, any attempt and fault bounds: `TypeCorrect`, `LocksCorrect`,
`Exclusion`, `Fencing`, `HistoryCorrect`, `LocksAreSound`, the action properties
`TerminalFinal` and `StepsMonotone`, and `Refinement` (`Spec => ImplementsQueue`).
`IInv` adds `ClaimsHoldRow` (an open claim holds a queued row that no other one holds)
and `RowsBounded` (counters and step rows agree with the row's life). `LockRowsExact`
carries exclusion: a claim commits only if none of its keys has a row, and rows are
exactly the keys of active jobs. Fencing holds although the guards compare only the
owner, because an owner that lost its lease cannot claim before it has dropped it.
`HandlersNeverMeet` needs more than the rows: a handler may outlive its lease.
`LeasesHeld` says that with timely heartbeats and a database that answers it does not:
its heartbeat runs, its lease has not expired, so no reclaim meets it.

**Revisions.** For any number of revisions, applies and passes: `TypeCorrect`,
`OneInForce`, `NoLostUpdate`, `RollbackCorrect`, `OnlyValidatedInForce`,
`DocumentsAreSound`. `IInv` adds `PassedDocs`, `PendingHeld` and `UndoIsBase`. `NoLostUpdate`
rests on `ApplyCommit`, which requires the base to be the row it supersedes, and on
the index, which refuses the case in which the snapshot missed a newer applied row.
`MirrorForward`: what a pass has not read is newer than all that it has
(`BacklogRead`), so a push never has an older revision waiting behind it.

**Enrollment.** For any hosts, names and delete requests and any numbers of
tokens, requests, heartbeats and times: `TypeCorrect`, `TokenOnce`, `NamesUnique`,
`TokensAreSound`, `DeletedRevoked`, `AgentIdentity`, `LastSeenCorrect` and the action
property `TombstoneFinal`. `TokenOnce` rests on `ClaimsHeld` (a request in its transaction
holds an unspent token alone: the row lock), `AgentIdentity` on `HostsOwn` and
`MadeOnce` (two hosts that run as one server would share the request that made it).

**AppDeploy.** `RecordsCorrect`, `SuccessesCorrect` and `EndedJobFrees` for any number
of deployments and attempts. `Mirrored`: record and node differ only between the
node's answer and the write of the release; `Exclusive` (the application's lock) and
`Fenced` (an alive handler owns its job until a lease is lost) keep a second handler
out of that window. `CalmInv` adds that a handler closes its row before its job.

**NodeDeploy.** `FilesCorrect`, `NodeAnswersCorrect` and the action property
`DeployedIsNotUndone`. The invariant says of every step of an operation which release
the symlink, the unit file, systemd's copy and the process belong to (`SymlinkAt`,
`ServiceAt`, and `UnitAt` for the file that a rollback puts back), with what may have
been canceled before. Pruning is safe because it keeps the greatest names and the
operation's own is the greatest (`NewestKeepsMax`).

**Sites.** `LiveConfigCorrect`. `SiteInv` relates one job, its operation on the node and
the two files at each step; at most one operation runs unless one was given up, and
then `siteHarm` says so. The live file is the applied revision's, the running
operation's, or a failed or retried job's.

**Databases.** `UsersCorrect` and `DumpsCorrect`. Without faults the jobs on an account
run in the order in which their rows were written, so what the last one that has run
did is what the rows say; without a crash a dump is started once.

**Backups.** `RunsCorrect` and `ArchivesCorrect`. A row and its job are one record to the
proof (`BkRow`: the states in which the pair can be), and the pairs do not touch each
other except through the check of an active run. That retention keeps the newest is
counted once: a completed run stays completed, so the number of newer ones only grows.

**Webhooks.** `DeliveriesCorrect` for any number of deliveries, attempts and
controllers. `HeldClean`: without faults a held row is pending under its lease, or
deleted, and has one holder. `Bounded` is the bookkeeping behind `max_attempts`: every
attempt beyond it is paid for by a fault, even when an older holder's late write
brings a finished row back.

**Delivery.** `NoticesCorrect`. A held row is `sending` with the attempt of its holder's
claim (`RowSound`), which neither a claim nor an elapsed lease can take over. That a
condition is told once rests on the transaction that reads earlier events of the key.

**Apps.** `DeploymentsCorrect` for any number of deployments, requests and commits:
what the unique indexes refuse at the insert stays refused, because later steps only
end deployments and never change what they are for.

**Dns.** `CredentialsCorrect` for any number of providers, requests, zones and
records. Providers of one name share a token reference. `OwnersAlone`: at most one
request is between its two writes, the token is its provider's, and that provider is
not in use; so a token that is taken back is never that of a live provider.

**Updates.** `RolloutCorrect`. A request carries what it has read across four steps
while the release is edited: `RequestSound` says that its artifact is one that the
release has had and that a success it is about to write is an installation.

**Startup.** `StartsAreSound` for any number of controllers, migrations, keys and
starts. In `StartupInv`, `EffectsAreRows` ties each row to one commit of its SQL;
`Migrator` says that what the holder of the advisory lock has passed is recorded and
that what lies ahead is still as it read it; `Identified` and `RootsHeld` say that what
a process has read of the identity and the roots is what is stored: neither is replaced.

**Serving.** `AnswersCorrect` for any set of requests. What is claimed of a
request that is over rests on what an open one looks like (`OpenIsSilent`) and on why a
handler may run with nobody waiting (`AbandonedIsTold`: its context is over).

**Events.** `StreamsCorrect` for any sizes of the channel and the log. What a client
has been sent and what waits in its channel follow each other, except over holes that
lie behind a mark (`Written`, `Waiting`), and the channel ends at the newest event or is
marked (`UpTo`). `Missed`, the part of the log newer than an id, is a subsequence by the
order of the log, which spares an induction.

**Wire.** `OutcomesCorrect`. `WireSound` is about one call, so a step on another one
leaves it alone; only the limit of an agent is about several.

**Pools.** `PassesCorrect`. Between the steps of a pass that nothing disturbed, the members
it has seen have the right state but for the one it is about to write, and it has
counted those that answer (`PassSound`).

**Alerts.** `NoticesTold`. A notice goes out one statement before the row says so;
`IncidentTold` bounds what was told by the row, the evaluator's next statement and the
number of failed statements.

**Sessions.** `SignInsCorrect`. `StepsCounted`: an accepted code's step is not later than
`last_used_step`, and the `UPDATE` that accepts a code wants a later one.

What the prover cannot do stays with TLC: liveness (`JobsFinish`, `DeploymentsEnd`,
under fairness), and what the violated runs show.

## 6. Abstractions

Payloads, log lines, step outputs and error texts are left out. Names, documents,
digests and codes are numbers or model values. Time is counted in heartbeat periods in
`JobEngine`, in ticks in `Alerts`, `Backups`, `Databases` and `Sessions`, and is an
unordered event elsewhere. PostgreSQL is taken to provide atomic statements, row locks
and unique indexes at READ COMMITTED. systemd, nginx, Git, the database server, the
backup target and receivers of messages are external, modelled as the code uses them.
Idempotency keys are in `Enqueue` (`JobKey`) and unused in the engine's instances. A
server has one certificate, because nothing issues a second one. Every resource that
does not interact with others of its kind is modelled once: one application, site,
database, plan, webhook, pool, alert rule, topic.

## 7. Disagreements without a run

Met in reading, or as counterexamples to properties that are stated in the modules and
that no run lists. To reproduce the latter, add the property to the component's run:

| Property | Change | What happens |
|---|---|---|
| `NodeDeploy!RollbackRestores` | none | the rollback's commands are refused by the expired context and the answer is `rolled_back` (`nodeagent/deploy.go:222` against `nodewire/registry.go:282`) |
| `NodeDeploy!DeployedStays` | `Serial = FALSE` | a rollback of an operation nobody waits for undoes a newer release (`deploy.go:215`, `wire.go:279`) |
| `Delivery!LapsedIsDue` | none | rows left in `sending` are not claimed again (`notify/delivery.go:103-107` against `:176`) |
| `Wire!ValidCallIsSent` | none | five operations are refused for their target before they are sent (`registry.go:516-517` against `wire.go:549-551`) |
| `Backups!EnabledPlanIsScheduled` | `NextRunCases = {FALSE}` | nothing sets `next_run_at`, so the scheduler never starts a run |

Job engine and deployments:

- one failed renewal ends the heartbeat, against "a single missed heartbeat does not
  forfeit the job" (`internal/jobs/engine.go`); `JobEngine_timely` shows the
  consequence: `HandlersExclude` holds only until a database error;
- the retention sweep lists `'cancelled'` (`internal/cleanup/cleanup.go:56`) and the
  state is `canceled`: canceled jobs are never pruned;
- `lease.Fail` requeues, so a retry runs under the failed record instead of "after a
  fresh deploy record" (`nodewire/registry.go:278`); a database error in it completes a
  failed job (`apps_worker.go:321`); `AttachJob` writes `queued` over what the worker
  has written; no handler calls `Checkpoint`. A job whose last attempt loses its lease,
  or that is canceled before it is claimed, leaves its deployment queued or running,
  which blocks the next one;
- an agent that dies between the unit and the symlink leaves a unit that the next
  deployment takes for the previous one (`nodeagent/deploy.go:153`); a failed release is
  not pruned by the next successful one while it is among the newest `Keep`;
- a redelivered push of a finished deployment is answered as a conflict, and a push
  whose enqueue failed can never be deployed by redelivery; an application in
  `pending_delete` keeps its slug, as nothing finalizes it.

Revisions, sites, databases, backups:

- a rollback's revision takes force without a validation of its own (`lifecycle.go:334`);
  a change that names no base is compared with the base at insert time
  (`revisions.go:98`); drafts and failed revisions are in the Git backlog, and a mark
  lost after its push moves the mirror back (`MarkErrors = TRUE`);
- the idempotency key of `site.apply` is the content's hash: applying earlier content
  again is taken for the old job and leaves a draft; the job has no lock keys;
- `createdb --if-not-exists` is not an option of PostgreSQL's tool; `set_grants` is
  never executed; rotating a password never tells the node; a dump can be restored
  once, as its path is the key; an abandoned dump's deferred removal deletes the
  retry's file; the client's 60 s timeout is shorter than the 30 min of a dump;
- two schedulers in one minute: the loser's `ErrDuplicate` fails the winner's run
  (against `backups_scheduler.go:12-14`); a crash between row and job blocks the plan;
  an expired run whose delete could not be enqueued is never retried; a node's archive
  is never removed; a plan in `pending_delete` is brought back by an update.

Messages, observability, availability:

- only `email` and `telegram` have senders, so in-panel deliveries are claimed every
  minute and never delivered; concurrent `Publish` calls can duplicate;
- a webhook's lease lasts 15 s for a batch of 25 sequential requests of 15 s; attempts
  of loops that died are never dead-lettered; only the test handler queues deliveries;
- `PruneSamples` (`observe.go:167-191`) deletes the newest rows beyond the cap though its
  comment says oldest; nothing records samples, so no alert fires;
  `MarkIncidentNotified` runs when publishing failed; disabling a rule leaves its
  incident open; resolving by hand sends no recovery;
- the probe's event types violate the `CHECK` of `failover_events` and its "from" and
  "to" are swapped (`probe.go:4-5`, `:104-110`); `handleStartDrain` passes a server id as
  a member id; the quorum settings are read by nothing;
- the event broker has no publisher; ids restart with the controller, and a client that
  resumes from a larger id gets no replay and is not told (`broker.go:153-156`).

Identity, certificates, nodes:

- `ConfirmTOTPEnrollment` demotes factors without naming the user (`totp.go:161-164`); an
  enrollment commits before its secret is stored;
- `certs.Worker` is never started, and most transitions of orders, zones and records
  have no caller; updating a record that is being deleted makes it pending again
  (`dns.go:504-518`); a token whose removal failed makes its provider's name unusable;
- migration 0012 says that re-enrollment rotates an identity; `Redeem` always inserts a
  new server. A node whose answer was lost needs more than the "new token" of
  `enroll.go:31`: the committed server holds the name;
- refusals before the envelope is decoded carry no request id, which the dispatcher
  takes for an invalid reply, so `Unsupported()` is never true; replies over 1 MiB are
  truncated; the peer's identity is checked after the request was sent.

Updates and the process:

- update jobs stay `pending`; a rollout ignores the batch size and the preflight, which
  is always true; a canary row stays `applying` when the client left; a `failed` row may
  have been installed;
- a controller whose keys lack the roots' key version, or that starts on an empty
  database without migrating, serves without node management;
- a signal can race the node listener's clean return, which `main` takes for its
  failure, skipping the drain; streams are not ended at shutdown, so it times out after
  15 s; 500 and 503 answers of the outer middleware carry no request id
  (against `server.go:115-116`).
