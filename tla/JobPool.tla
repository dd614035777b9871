------------------------------- MODULE JobPool -------------------------------
(***************************************************************************)
(* What the thread pool promises those who assign jobs, without slots,      *)
(* mutex or threads: an accepted job is run at most once, a more urgent     *)
(* one first; a pool that is joined ends when every accepted job has been   *)
(* run; a pool that is made to exit ends when the running jobs have.  A pool *)
(* none of whose threads got its buffer never runs anything: it is abandoned *)
(* and not closed.                                                          *)
(* Implemented by ThreadPool (see PoolRefinement).                          *)
(***************************************************************************)
EXTENDS Naturals

CONSTANTS Jobs, Prio

VARIABLES
    stage,  \* "open", "joining", "exiting", "closed", "abandoned"
    job     \* how far each job has come

vars == <<stage, job>>

Over == stage \in {"closed", "abandoned"}
With(state) == {j \in Jobs : job[j] = state}

Init ==
    /\ stage = "open"
    /\ job = [j \in Jobs |-> "absent"]

\* Once the pool is ending only the jobs that still run assign new ones.
Accept(j) ==
    /\ job[j] = "absent"
    /\ stage = "open" \/ (~Over /\ With("running") # {})
    /\ Prio[j] > 0
    /\ job' = [job EXCEPT ![j] = "waiting"]
    /\ UNCHANGED stage

Run(j) ==
    /\ job[j] = "waiting"
    /\ ~Over
    /\ \A k \in With("waiting") : Prio[k] <= Prio[j]
    /\ job' = [job EXCEPT ![j] = "running"]
    /\ UNCHANGED stage

Done(j) ==
    /\ job[j] = "running"
    /\ job' = [job EXCEPT ![j] = "done"]
    /\ UNCHANGED stage

End(how) ==
    /\ stage = "open"
    /\ stage' = how
    /\ UNCHANGED job

Close ==
    /\ stage \in {"joining", "exiting"}
    /\ With("running") = {}
    /\ stage = "joining" => With("waiting") = {}
    /\ stage' = "closed"
    /\ UNCHANGED job

Abandon ==
    /\ stage \in {"joining", "exiting"}
    /\ \A j \in Jobs : job[j] \in {"absent", "waiting"}
    /\ stage' = "abandoned"
    /\ UNCHANGED job

Next ==
    \/ \E j \in Jobs : Accept(j) \/ Run(j) \/ Done(j)
    \/ End("joining") \/ End("exiting")
    \/ Close \/ Abandon

Spec == Init /\ [][Next]_vars
=============================================================================
