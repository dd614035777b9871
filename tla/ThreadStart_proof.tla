-------------------------- MODULE ThreadStart_proof --------------------------
(***************************************************************************)
(* Proofs about ThreadStart, for every set of calls and any number of       *)
(* failures.                                                                *)
(***************************************************************************)
EXTENDS ThreadStart, TLAPS

\* The calls that have the mutex: their own, or that of the thread they made.
Holds(c) == pc[c] \in {"setting", "creating"} \/ thread[c] \in {"created", "starting"}

\* One call at a time has the mutex, and what it wrote stays until it is read.
Handoff ==
    /\ \A c \in Calls : Holds(c) => locked
    /\ \A c, d \in Calls : Holds(c) /\ Holds(d) => c = d
    /\ \A c \in Calls : pc[c] \in {"idle", "locking", "setting", "creating"}
                            => thread[c] = "none"
    /\ \A c \in Calls : pc[c] = "creating" \/ thread[c] = "created"
                            => threadFunctionToExec = c
    /\ \A c \in Calls : thread[c] \in {"starting", "running"} => realFunction[c] = c

IInv == TypeOK /\ Handoff

\* Before any start.
LEMMA InitIInv == Init => IInv
<1> SUFFICES ASSUME Init PROVE IInv
  OBVIOUS
<1>1. TypeOK
  <2>1. faults \in 0 .. MaxFaults
    BY FaultsAssumption DEF Init
  <2> QED
    BY <2>1, Zenon DEF Init, TypeOK
<1>2. Handoff
  BY DEF Init, Handoff, Holds
<1> QED
  BY <1>1, <1>2 DEF IInv

\* Every step keeps it.
LEMMA NextIInv == IInv /\ [Next]_vars => IInv'
<1> SUFFICES ASSUME IInv, [Next]_vars PROVE IInv'
  OBVIOUS
<1> USE CallsAssumption, FaultsAssumption DEF IInv, TypeOK, Handoff, Holds, Goes, Fault
<1>1. ASSUME NEW c \in Calls, Call(c) PROVE IInv'
  BY <1>1 DEF Call
<1>2. ASSUME NEW c \in Calls, LockFails(c) PROVE IInv'
  BY <1>2 DEF LockFails
<1>3. ASSUME NEW c \in Calls, CreateFails(c) PROVE IInv'
  BY <1>3 DEF CreateFails
<1>4. ASSUME NEW c \in Calls, Lock(c) PROVE IInv'
  BY <1>4 DEF Lock
<1>5. ASSUME NEW c \in Calls, SetFunction(c) PROVE IInv'
  BY <1>5 DEF SetFunction
<1>6. ASSUME NEW c \in Calls, Create(c) PROVE IInv'
  BY <1>6 DEF Create
<1>7. ASSUME NEW c \in Calls, ReadFunction(c) PROVE IInv'
  BY <1>7 DEF ReadFunction
<1>8. ASSUME NEW c \in Calls, Run(c) PROVE IInv'
  <2>1. /\ thread[c] = "starting"
        /\ thread' = [thread EXCEPT ![c] = "running"]
        /\ locked' = FALSE
        /\ UNCHANGED <<threadFunctionToExec, pc, isValid, realFunction, faults>>
    BY <1>8 DEF Run
  <2>2. TypeOK'
    BY <2>1
  <2>3. \A d \in Calls : ~Holds(d)'
    BY <2>1
  <2>4. Handoff'
    BY <2>1, <2>3
  <2> QED
    BY <2>2, <2>4
<1>9. CASE UNCHANGED vars
  BY <1>9 DEF vars
<1> QED
  BY <1>1, <1>2, <1>3, <1>4, <1>5, <1>6, <1>7, <1>8, <1>9 DEF Next, CallStep, ThreadStep

\* So it always holds.
LEMMA InvariantHolds == Spec => []IInv
  BY InitIInv, NextIInv, PTL DEF Spec

(* The variables range over their types, and no thread reads a missing      *)
(* function from threadFunctionToExec (ConcurrencyDefines.c, line 18).      *)
THEOREM TypeCorrect == Spec => []TypeOK
<1>1. IInv => TypeOK
  BY DEF IInv
<1> QED
  BY <1>1, InvariantHolds, PTL

(* However many calls interleave and whichever fail, a new thread runs the  *)
(* function of the call that made it (ConcurrencyDefines.c, lines 17-34).   *)
THEOREM RunsItsFunction == Spec => []RightFunction
<1>1. IInv => RightFunction
  BY DEF IInv, Handoff, RightFunction
<1> QED
  BY <1>1, InvariantHolds, PTL

(* The global is not written while a new thread has still to read it        *)
(* (ConcurrencyDefines.c, lines 33 and 18).                                 *)
THEOREM KeptUntilRead == Spec => NotOverwritten
<1>1. IInv /\ [Next]_vars
        => [(\E c \in Calls : thread[c] = "created")
                => threadFunctionToExec' = threadFunctionToExec]_vars
  <2> SUFFICES ASSUME IInv, [Next]_vars, NEW d \in Calls, thread[d] = "created"
               PROVE  threadFunctionToExec' = threadFunctionToExec
    OBVIOUS
  <2>1. ASSUME NEW c \in Calls PROVE ~SetFunction(c)
    BY DEF IInv, Handoff, Holds, SetFunction, Goes
  <2> QED
    BY <2>1 DEF Next, CallStep, ThreadStep, Call, LockFails, CreateFails, Lock, Create,
                ReadFunction, Run, vars
<1> QED
  BY <1>1, InvariantHolds, PTL DEF Spec, NotOverwritten
=============================================================================
