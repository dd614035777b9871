----------------------------- MODULE EventLogging -----------------------------
(***************************************************************************)
(* The event handler with the logger: functions that log, in the workers'   *)
(* threads and in the cleanup, and exit, which calls the cleanups of both   *)
(* in the reverse of the order they were initialized in.                    *)
(***************************************************************************)
EXTENDS Integers, Sequences, FiniteSets

CONSTANTS
    NoProc, NULL, Main, Clients, Workers, Names, Functions, JobsPerThread,
    Levels, Files, BufferSize, Sizes,
    Orders,  \* which is initialized first: "log", "event"
    Limits   \* bounds: the clients that call, the functions they register, and
             \* how many jobs, calls that fail and messages there may be

VARIABLES
    handler, shouldExit, eventMap, eventMutex, mutex, jobs, threads, room, pc, call, left,
    owed, failed,                                                     \* Event
    files, logMutex, buffer, batches, text, out, closed, logged, dropped, stray,  \* Logging
    first, limits                                       \* one of Orders and of Limits

ASSUME ActorsAssumption ==
    /\ Main \in Clients /\ NoProc \notin Clients \union DOMAIN Workers
    /\ Clients \intersect DOMAIN Workers = {}

\* JobsPerThread divides (BL_EVENT_JOBS_PER_THREAD), and what is registered is a function.
ASSUME JobsAssumption == JobsPerThread \in Nat \ {0}
ASSUME LimitsAssumption == \A l \in Limits : l.functions \subseteq Functions

Loggers == {Main} \union DOMAIN Workers

E == INSTANCE Event
L == INSTANCE Logging WITH Threads <- Loggers, NoThread <- NoProc

eventVars   == <<handler, shouldExit, eventMap, eventMutex, mutex, jobs, threads, room, pc,
                 call, left, owed, failed>>
loggingVars == <<files, logMutex, buffer, batches, text, out, closed, logged, dropped, stray>>
vars        == <<eventVars, loggingVars, first, limits>>

Init == E!Init /\ L!Init /\ first \in Orders /\ limits \in Limits

Messages == LET Count[S \in SUBSET Loggers] ==
                    IF S = {} THEN 0
                    ELSE LET t == CHOOSE t \in S : TRUE IN Len(logged[t]) + Count[S \ {t}]
            IN  Count[Loggers]

-----------------------------------------------------------------------------
OnlyEvent == UNCHANGED <<loggingVars, first, limits>>
OnlyLog   == UNCHANGED <<eventVars, first, limits>>

\* The calls of the program; none once it exits.
Client(c) ==
    /\ c \in limits.clients /\ ~closed /\ OnlyEvent
    /\ \/ \E name \in Names :
              \/ E!Unregister(c, name)
              \/ E!InvokeFinds(c, name) /\ Len(jobs) + Len(eventMap[name]) <= limits.jobs
              \/ \E f \in limits.functions : E!RegisterFunc(c, name, f) \/ E!UnregisterFunc(c, name, f)
              \/ \E f, g \in limits.functions : f # g /\ E!Register(c, name, E!WithFunction(<<f>>, g))
       \/ \E w \in DOMAIN Workers : E!InvokeCreates(c, w)
       \/ E!InvokeRefused(c) \/ E!InvokeAppends(c)
       \/ E!InvokeCreatesNone(c) \/ E!InvokeReturns(c)
    /\ Cardinality(failed') <= limits.faults

RegistersFile == handler = "up" /\ limits.messages > 0 /\ OnlyLog /\ \E f \in DOMAIN Files : L!Register(f)

Worker(w) ==
    /\ OnlyEvent
    /\ \/ E!WorkerChecks(w) \/ E!WorkerReads(w) \/ E!WorkerCalls(w)
       \/ L!IsIdle(w) /\ E!FunctionReturns(w)

\* A function may log and flush.
Function(t) ==
    /\ pc[t] = "in function" /\ OnlyLog
    /\ \/ Messages < limits.messages /\ \E level \in Levels, size \in Sizes : L!Log(t, level, size)
       \/ L!Flush(t)

Logger(t) == OnlyLog /\ L!Writes(t)
LoggerFails(t) == limits.faults > 0 /\ OnlyLog /\ L!WriteFails(t)

\* exit: the handler that was registered last is called first.
EventCleanup ==
    /\ OnlyEvent
    /\ \/ (first = "log" \/ closed) /\ E!CleanupBegins
       \/ E!CleanupJoins \/ E!CleanupJoined \/ E!CleanupCalls \/ E!CleanupEnds
       \/ L!IsIdle(Main) /\ E!CleanupCalled

LogCleanup ==
    /\ IF first = "log" THEN handler = "down"
       ELSE handler = "up" /\ \A c \in Clients : pc[c] = "idle"
    /\ OnlyLog /\ L!Cleanup

Next ==
    \/ \E c \in Clients : Client(c)
    \/ RegistersFile
    \/ \E w \in DOMAIN Workers : Worker(w)
    \/ \E t \in Loggers : Function(t) \/ Logger(t) \/ LoggerFails(t)
    \/ EventCleanup \/ LogCleanup

Spec == Init /\ [][Next]_vars

\* The system schedules every thread, functions return and mutexes are given to
\* who waits for them; nothing makes the program call, exit or fail.
Exits == handler # "up" /\ EventCleanup

FairSpec ==
    /\ Spec
    /\ \A w \in DOMAIN Workers : WF_vars(Worker(w)) /\ WF_vars(Logger(w))
    /\ WF_vars(Logger(Main)) /\ WF_vars(Exits)
-----------------------------------------------------------------------------
(* What was invoked runs, and there are workers for it (Event.c).           *)
InvokedRun == E!InvokedHasRun /\ E!WorkersFollowJobs

(* Lines reach the files whole, in order and once (Logging.c).              *)
LogsLines == L!LogsLines

(* No line goes to a file after the logger's cleanup closed it when the     *)
(* logger was initialized first: the event handler's cleanup, which calls   *)
(* every job again, comes before (Logging.c, lines 31-40 and 150, and       *)
(* Event.c, lines 46-49 and 82).                                            *)
NothingToClosed == first = "log" /\ "thread" \notin failed => ~stray

(* Nothing runs or writes when a cleanup has destroyed what it uses         *)
(* (Event.c and Logging.c).                                                 *)
QuietAtExit == E!QuietAfterJoin /\ NothingToClosed
=============================================================================
