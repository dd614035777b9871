---------------------------- MODULE MC_ThreadPool ----------------------------
(***************************************************************************)
(* Instances of ThreadPool.  One client "c1" creates and ends the pool; "c2"*)
(* is a second client.  Job "bad" has priority 0, which the pool refuses.   *)
(***************************************************************************)
EXTENDS PoolRefinement, TLC

CONSTANTS w1, w2, j1, j2, j3, c1, c2, bad

Workers2 == {w1, w2}
OneWorker == {w1}
OneClient == {c1}
TwoClients == {c1, c2}
Nobody == {}

Jobs4 == {j1, j2, j3, bad}
Jobs3 == {j1, j2, j3}
Jobs2 == {j1, j2}
Prio4 == (j1 :> 1) @@ (j2 :> 1) @@ (j3 :> 2) @@ (bad :> 0)
Prio3 == (j1 :> 1) @@ (j2 :> 1) @@ (j3 :> 2)
Prio2 == (j1 :> 1) @@ (j2 :> 2)

\* c1 assigns everything, jobs assign nothing.
AllByC1 == (c1 :> Jobs)
NoSpawns == [j \in Jobs |-> {}]

\* Both clients assign; j1 assigns j3 while it runs.
Split == (c1 :> {j1}) @@ (c2 :> {j2, bad} \cap Jobs)
J1SpawnsJ3 == [j \in Jobs |-> IF j = j1 THEN {j3} ELSE {}]
OneAndRest == (c1 :> {j1}) @@ (c2 :> Jobs \ {j1})

WorkerSymmetry == Permutations({w1, w2})
=============================================================================
