----------------------------- MODULE ThreadStart -----------------------------
(***************************************************************************)
(* bl_thread_create of src/Concurrency/ConcurrencyDefines.c as built over   *)
(* POSIX threads.  A new thread is given its function through one global    *)
(* variable, guarded by a mutex that the creator locks and the new thread   *)
(* unlocks.                                                                 *)
(***************************************************************************)
EXTENDS Naturals

CONSTANTS
    Calls,      \* the calls of bl_thread_create, each by a thread of its own
    NULL,       \* no function
    MaxFaults   \* bound: the library calls that may fail

ASSUME CallsAssumption == NULL \notin Calls
ASSUME FaultsAssumption == MaxFaults \in Nat

(***************************************************************************)
(* A call's function argument is named by the call itself: the function of  *)
(* call c is c.                                                             *)
(***************************************************************************)
VARIABLES
    locked,                \* threadStartMutex
    threadFunctionToExec,  \* the global the new thread reads
    pc,                    \* where each call is
    isValid,               \* what each call's result says
    thread,                \* the new thread of each call
    realFunction,          \* what that thread read
    faults                 \* the library calls that have failed

vars == <<locked, threadFunctionToExec, pc, isValid, thread, realFunction, faults>>

Init ==
    /\ locked = FALSE
    /\ threadFunctionToExec = NULL
    /\ pc = [c \in Calls |-> "idle"]
    /\ isValid = [c \in Calls |-> FALSE]
    /\ thread = [c \in Calls |-> "none"]
    /\ realFunction = [c \in Calls |-> NULL]
    /\ faults = 0

Goes(c, from, to) == pc[c] = from /\ pc' = [pc EXCEPT ![c] = to]

Fault == faults < MaxFaults /\ faults' = faults + 1

Call(c) ==
    /\ Goes(c, "idle", "locking")
    /\ UNCHANGED <<locked, threadFunctionToExec, isValid, thread, realFunction, faults>>

Lock(c) ==
    /\ Goes(c, "locking", "setting")
    /\ ~locked
    /\ locked' = TRUE
    /\ UNCHANGED <<threadFunctionToExec, isValid, thread, realFunction, faults>>

LockFails(c) ==
    /\ Goes(c, "locking", "returned")
    /\ Fault
    /\ UNCHANGED <<locked, threadFunctionToExec, isValid, thread, realFunction>>

\* Mutant: the global is not set before the thread starts.
SetNothing(c) ==
    /\ Goes(c, "setting", "creating")
    /\ UNCHANGED <<locked, threadFunctionToExec, isValid, thread, realFunction, faults>>

SetFunction(c) ==
    /\ Goes(c, "setting", "creating")
    /\ threadFunctionToExec' = c
    /\ UNCHANGED <<locked, isValid, thread, realFunction, faults>>

\* Mutant: the creator unlocks the mutex itself.
CreateAndUnlock(c) ==
    /\ Goes(c, "creating", "returned")
    /\ thread' = [thread EXCEPT ![c] = "created"]
    /\ isValid' = [isValid EXCEPT ![c] = TRUE]
    /\ locked' = FALSE
    /\ UNCHANGED <<threadFunctionToExec, realFunction, faults>>

Create(c) ==
    /\ Goes(c, "creating", "returned")
    /\ thread' = [thread EXCEPT ![c] = "created"]
    /\ isValid' = [isValid EXCEPT ![c] = TRUE]
    /\ UNCHANGED <<locked, threadFunctionToExec, realFunction, faults>>

\* Mutant: the result is valid although there is no thread.
CreateFailsValid(c) ==
    /\ Goes(c, "creating", "returned")
    /\ Fault
    /\ isValid' = [isValid EXCEPT ![c] = TRUE]
    /\ UNCHANGED <<locked, threadFunctionToExec, thread, realFunction>>

\* pthread_create fails: the call returns and the mutex stays locked.
CreateFails(c) ==
    /\ Goes(c, "creating", "returned")
    /\ Fault
    /\ UNCHANGED <<locked, threadFunctionToExec, isValid, thread, realFunction>>

ReadFunction(c) ==
    /\ thread[c] = "created"
    /\ thread' = [thread EXCEPT ![c] = "starting"]
    /\ realFunction' = [realFunction EXCEPT ![c] = threadFunctionToExec]
    /\ UNCHANGED <<locked, threadFunctionToExec, pc, isValid, faults>>

\* Mutant: the thread runs its function with the mutex locked.
RunLocked(c) ==
    /\ thread[c] = "starting"
    /\ thread' = [thread EXCEPT ![c] = "running"]
    /\ UNCHANGED <<locked, threadFunctionToExec, pc, isValid, realFunction, faults>>

Run(c) ==
    /\ thread[c] = "starting"
    /\ thread' = [thread EXCEPT ![c] = "running"]
    /\ locked' = FALSE
    /\ UNCHANGED <<threadFunctionToExec, pc, isValid, realFunction, faults>>

CallStep(c) == Lock(c) \/ SetFunction(c) \/ Create(c)

ThreadStep(c) == ReadFunction(c) \/ Run(c)

Next ==
    \E c \in Calls : \/ Call(c)
                     \/ LockFails(c) \/ CreateFails(c)
                     \/ CallStep(c) \/ ThreadStep(c)

Spec == Init /\ [][Next]_vars

\* Threads that can run do, and a free mutex is given to one of those that wait;
\* as the calls are finitely many, that is enough for each to get it.
FairSpec == Spec /\ \A c \in Calls : WF_vars(CallStep(c)) /\ WF_vars(ThreadStep(c))
-----------------------------------------------------------------------------
(* Where each variable ranges; a thread that has read the global read a     *)
(* function (threadFunctionToExec, line 18).                                *)
TypeOK ==
    /\ locked \in BOOLEAN
    /\ threadFunctionToExec \in Calls \union {NULL}
    /\ pc \in [Calls -> {"idle", "locking", "setting", "creating", "returned"}]
    /\ isValid \in [Calls -> BOOLEAN]
    /\ thread \in [Calls -> {"none", "created", "starting", "running"}]
    /\ realFunction \in [Calls -> Calls \union {NULL}]
    /\ \A c \in Calls : thread[c] \in {"starting", "running"} => realFunction[c] # NULL
    /\ faults \in 0 .. MaxFaults

(* A new thread runs the function of the call that made it and of no other, *)
(* however the calls interleave and whichever of them fail (lines 17-34).   *)
RightFunction == \A c \in Calls : thread[c] = "running" => realFunction[c] = c

(* The global is not overwritten while a thread that was made has still to  *)
(* read it (lines 33 and 18).                                               *)
NotOverwritten ==
    [][(\E c \in Calls : thread[c] = "created")
           => threadFunctionToExec' = threadFunctionToExec]_vars

(* A call returns: it waits for the mutex no longer than other threads take *)
(* to start (lines 26-48).                                                  *)
Returns == \A c \in Calls : pc[c] = "locking" ~> pc[c] = "returned"

(* The same, where the mutex may be left locked by a call that failed.      *)
ReturnsUnlessFailed ==
    \A c \in Calls : pc[c] = "locking" ~> (pc[c] = "returned" \/ faults > 0)

(* A result that says its thread is valid is that of a thread that runs the *)
(* call's function sooner or later (lines 19-20 and 45-47).                 *)
ValidRuns == \A c \in Calls : isValid[c] ~> thread[c] = "running"
=============================================================================
