---------------------------- MODULE MCJobEngine ----------------------------
(***************************************************************************)
(* Instances of JobEngine for TLC: two jobs that need the same resource.   *)
(***************************************************************************)
EXTENDS JobEngine, TLC

CONSTANTS j1, j2, w1, w2, w3, k1, k2

\* j1 and j2 contend for k1; j1 also needs k2.
MCJobLocks == [j \in Jobs |-> IF j = j1 THEN {k1, k2} ELSE {k1}]
\* No idempotency keys.
MCNoKeys == [j \in Jobs |-> NoOne]
MCPriority == [j \in Jobs |-> IF j = j1 THEN 100 ELSE 101]
MCAttempts == [j \in Jobs |-> IF j = j1 THEN AttemptBound ELSE 1]
\* The workers are interchangeable.
WorkerSymmetry == Permutations(Workers)
MCTypes == [w \in Workers |-> Jobs]
=============================================================================
