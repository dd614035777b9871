--------------------------- MODULE PoolRefinement ---------------------------
(***************************************************************************)
(* ThreadPool implements JobPool.  A job is accepted when it is put on the  *)
(* heap, and it is done when its function has returned.  A pool that could  *)
(* not create its threads (slot 0 was never taken) stays open, unused.       *)
(***************************************************************************)
EXTENDS ThreadPoolInv

StateOf(how) ==
    CASE how \in {"new", "assigning", "refused"} -> "absent"
      [] how = "queued"  -> "waiting"
      [] how = "running" -> "running"
      [] how \in {"ran", "lost", "published"} -> "done"

JobStates == [j \in Jobs |-> StateOf(status[j])]

Unmanned == \A w \in Workers : pc[w] = "stillborn"

Stage ==
    CASE phase = "joining" -> "joining"
      [] phase = "exiting" -> "exiting"
      [] phase = "freed" /\ 0 \in bits /\ ~Unmanned -> "closed"
      [] phase = "freed" /\ 0 \in bits /\ Unmanned  -> "abandoned"
      [] OTHER -> "open"

Abstract == INSTANCE JobPool WITH stage <- Stage, job <- JobStates

ImplementsJobPool == Abstract!Spec
=============================================================================
