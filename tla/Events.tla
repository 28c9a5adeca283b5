------------------------------- MODULE Events --------------------------------
(***************************************************************************)
(* The live event stream (eventstream): a broker that numbers the events   *)
(* of a topic, remembers the newest and never waits for a subscriber; the  *)
(* loop that writes one client's frames; and clients that lose their       *)
(* connection and resume from the id of the last frame they got.  Topics   *)
(* do not interfere, so there is one.                                      *)
(***************************************************************************)
EXTENDS Naturals, Sequences, FiniteSets

CONSTANTS
    EvClients,       \* clients, with one stream each at a time
    EvBuffer,        \* SubscriptionBuffer
    EvReplay,        \* ReplayBuffer
    EvMaxSubs,       \* MaxSubscribers
    MaxEvEvents,     \* bound: events published
    MaxEvConnects    \* bound: streams opened

\* A channel and a log hold something, and the bound counts.
ASSUME EventAssumption == EvBuffer \in Nat \ {0} /\ EvReplay \in Nat \ {0} /\ MaxEvEvents \in Nat

VARIABLES
    evNext,       \* topicState.nextID
    evLog,        \* topicState.replay: the ids of the events that are remembered
    evSub,        \* evSub[k]: the subscription of client k, NoSub without one
    evLast,       \* evLast[k]: the id of the last frame that client k got
    evConnects

eventVars == <<evNext, evLog, evSub, evLast, evConnects>>

\* at: "none", "new" (headers written), "run" (selecting), "wrote" (an event's
\* frame written, the lag flag not looked at yet).  since: where it resumed from.
\* got: the ids written to it; told: how many it had got when it was first told
\* of a gap, MaxEvEvents + 1 for never.
NoSub == [at |-> "none", buf |-> <<>>, lagged |-> FALSE, since |-> 0, got |-> <<>>, told |-> MaxEvEvents + 1]

EventInit ==
    /\ evNext = 0 /\ evLog = <<>>
    /\ evSub = [k \in EvClients |-> NoSub] /\ evLast = [k \in EvClients |-> 0]
    /\ evConnects = 0

Live == {k \in EvClients : evSub[k].at # "none"}

-----------------------------------------------------------------------------
\* The broker, under its mutex.

\* Every subscriber's channel takes an event or the subscriber is marked.
Push(sub, id) == IF Len(sub.buf) < EvBuffer THEN [sub EXCEPT !.buf = Append(@, id)] ELSE [sub EXCEPT !.lagged = TRUE]

\* The log has to start two events late to be noticed.
MissesTwo(since) == evLog # <<>> /\ since + 2 < Head(evLog)

\* The client is further behind than the log reaches.
Misses(since) == evLog # <<>> /\ since + 1 < Head(evLog)

\* What the log remembers that is newer: the log is in the order of the ids.
Missed(since) ==
    LET seen == CHOOSE n \in 0 .. Len(evLog) : \A i \in 1 .. Len(evLog) : evLog[i] <= since <=> i <= n
    IN SubSeq(evLog, seen + 1, Len(evLog))

\* Catch-up, oldest first, for a client that names the last id it saw: what does
\* not fit is dropped and marks the subscription.
CaughtUp(sub, since) ==
    LET full == Len(Missed(since)) > EvBuffer
    IN IF since = 0 THEN sub
       ELSE [sub EXCEPT !.buf = IF full THEN SubSeq(Missed(since), 1, EvBuffer) ELSE Missed(since),
                        !.lagged = Misses(since) \/ full]

Subscribe(k) ==
    /\ evConnects < MaxEvConnects /\ evConnects' = evConnects + 1
    /\ evSub[k] = NoSub /\ Cardinality(Live) < EvMaxSubs
    /\ evSub' = [evSub EXCEPT ![k] = CaughtUp([NoSub EXCEPT !.at = "new", !.since = evLast[k]], evLast[k])]
    /\ UNCHANGED <<evNext, evLog, evLast>>

\* The replay window slides.
Remember(log, id) ==
    LET all == Append(log, id) IN IF Len(all) > EvReplay THEN Tail(all) ELSE all

PublishEvent ==
    /\ evNext < MaxEvEvents /\ evNext' = evNext + 1
    /\ evLog' = Remember(evLog, evNext + 1)
    /\ evSub' = [k \in EvClients |-> IF k \in Live THEN Push(evSub[k], evNext + 1) ELSE evSub[k]]
    /\ UNCHANGED <<evLast, evConnects>>

-----------------------------------------------------------------------------
\* Subscription.Run.

\* The frame that tells of a gap carries the id of the last event written, 0 when
\* there is none, and the client resumes from that.
Told(sub) == [sub EXCEPT !.told = IF @ > Len(sub.got) THEN Len(sub.got) ELSE @]
LastGot(sub) == IF sub.got = <<>> THEN 0 ELSE sub.got[Len(sub.got)]

RunStarts(k) ==
    /\ evSub[k].at = "new"
    /\ evSub' = [evSub EXCEPT ![k] = [(IF @.lagged THEN Told(@) ELSE @) EXCEPT !.at = "run"]]
    /\ evLast' = [evLast EXCEPT ![k] = IF evSub[k].lagged THEN 0 ELSE @]
    /\ UNCHANGED <<evNext, evLog, evConnects>>

WriteEvent(k) ==
    /\ evSub[k].at = "run" /\ evSub[k].buf # <<>>
    /\ LET id == Head(evSub[k].buf)
       IN /\ evSub' = [evSub EXCEPT ![k].at = "wrote", ![k].buf = Tail(@), ![k].got = Append(@, id)]
          /\ evLast' = [evLast EXCEPT ![k] = id]
    /\ UNCHANGED <<evNext, evLog, evConnects>>

WriteLag(k) ==
    /\ evSub[k].at = "wrote"
    /\ evSub' = [evSub EXCEPT ![k] = [(IF @.lagged THEN Told(@) ELSE @) EXCEPT !.at = "run"]]
    /\ evLast' = [evLast EXCEPT ![k] = IF evSub[k].lagged THEN LastGot(evSub[k]) ELSE @]
    /\ UNCHANGED <<evNext, evLog, evConnects>>

\* The connection is lost or closed: a write fails or the request's context
\* ends, and the handler's deferred Close unsubscribes.
Unsubscribe(k) ==
    /\ evSub[k] # NoSub /\ evSub' = [evSub EXCEPT ![k] = NoSub]
    /\ UNCHANGED <<evNext, evLog, evLast, evConnects>>

EventNext ==
    \/ PublishEvent
    \/ \E k \in EvClients : Subscribe(k) \/ RunStarts(k) \/ WriteEvent(k) \/ WriteLag(k) \/ Unsubscribe(k)

EventSpec == EventInit /\ [][EventNext]_eventVars

-----------------------------------------------------------------------------
\* A client never resumes with a hole that it does not know of (broker.go:147-156,
\* 225-233; subscription.go:75-112): an event that does not follow the one before
\* it, or the one that the stream resumed after, comes after the client was told;
\* and a stream that waits for events, and was resumed or has delivered one, is
\* up to date unless it is marked.
NoSilentGap ==
    \A k \in Live :
        LET sub == evSub[k]
            before(i) == IF i = 1 THEN sub.since ELSE sub.got[i - 1]
        IN /\ \A i \in 1 .. Len(sub.got) :
                before(i) = 0 \/ sub.got[i] = before(i) + 1 \/ (sub.got[i] > before(i) /\ sub.told < i)
           /\ sub.at = "run" /\ sub.buf = <<>> /\ ~sub.lagged /\ evLast[k] > 0 => evLast[k] = evNext
=============================================================================
