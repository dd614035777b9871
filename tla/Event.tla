--------------------------------- MODULE Event ---------------------------------
(***************************************************************************)
(* The global event handler of src/Event/Event.c: the functions registered  *)
(* for each name, the jobs that invocations append, the workers that run    *)
(* the last job and leave it there, and the cleanup at exit, which joins    *)
(* the workers and runs every job once more.                                *)
(***************************************************************************)
EXTENDS Integers, Sequences
S == INSTANCE SequencesExt

CONSTANTS
    NoProc, NULL,
    Main, Clients,  \* Main is the client that exits
    Workers,        \* worker -> the place in which it is created, from 1
    Names, Functions,
    JobsPerThread   \* BL_EVENT_MAX_JOBS_PER_THREAD

Procs == Clients \union DOMAIN Workers

VARIABLES
    handler,      \* "up", and in the cleanup "joining", "calling", then "down";
                  \* "stray" when it is lost in a thread that is none
    shouldExit,
    eventMap,     \* name -> functions
    eventMutex, mutex,
    jobs, threads,
    room,         \* of threads: its containerMaxSize
    pc, call,     \* what each thread is about to do, and the name or the function
                  \* that it is about
    left,         \* the threads an invocation has still to create, the place in
                  \* threads or jobs the cleanup has come to
    owed,         \* history: what was invoked and has not been run since
    failed        \* history: what has failed

registry  == <<eventMap, eventMutex>>
work      == <<jobs, threads, room>>
eventVars == <<handler, shouldExit, registry, mutex, work, pc, call, left, owed, failed>>

\* After bl_event_global_init.
Init ==
    /\ handler = "up" /\ shouldExit = FALSE
    /\ eventMap = <<>> /\ eventMutex = NoProc /\ mutex = NoProc
    /\ jobs = <<>> /\ threads = <<>> /\ room = 0
    /\ pc = [p \in Procs |-> IF p \in Clients THEN "idle" ELSE "unborn"]
    /\ call = [p \in Procs |-> NULL] /\ left = 0
    /\ owed = {} /\ failed = {}

Goes(p, where, what) == pc' = [pc EXCEPT ![p] = where] /\ call' = [call EXCEPT ![p] = what]

Fails(what) == what \notin failed /\ failed' = failed \union {what}

-----------------------------------------------------------------------------
(* The functions of an event, and the events by name.                       *)

\* bl_event_register and bl_event_unregister: the first that equals f.
WithFunction(functions, f) == Append(functions, f)
WithoutFunction(functions, f) ==
    IF f \in S!ToSet(functions) THEN S!RemoveFirst(functions, f) ELSE functions

\* A client calls, and gets the eventMutex.
Calls(c) == handler = "up" /\ pc[c] = "idle" /\ eventMutex = NoProc

Maps(map) ==
    /\ eventMap' = map
    /\ UNCHANGED <<handler, shouldExit, eventMutex, mutex, work, pc, call, left, owed, failed>>

\* bl_event_global_register
Register(c, name, functions) ==
    /\ Calls(c) /\ name \notin DOMAIN eventMap
    /\ Maps([n \in DOMAIN eventMap \union {name} |->
                IF n = name THEN functions ELSE eventMap[n]])

\* bl_event_global_register_func gives bl_hashmap_get the size of an event, more
\* than a key has where pointers have 8 bytes: it finds no event, and what it then
\* inserts is refused where there is one.
RegisterFunc(c, name, f) == Register(c, name, WithFunction(<<>>, f))

\* bl_event_global_unregister
Unregister(c, name) ==
    /\ Calls(c) /\ name \in DOMAIN eventMap
    /\ Maps([n \in DOMAIN eventMap \ {name} |-> eventMap[n]])

\* bl_event_global_unregister_func
UnregisterFunc(c, name, f) ==
    /\ Calls(c) /\ name \in DOMAIN eventMap
    /\ LET rest == WithoutFunction(eventMap[name], f) IN
       Maps(IF rest = <<>> THEN [n \in DOMAIN eventMap \ {name} |-> eventMap[n]]
            ELSE [eventMap EXCEPT ![name] = rest])

-----------------------------------------------------------------------------
(* bl_event_global_invoke: under the eventMutex, then under both, then      *)
(* under the mutex.                                                         *)

InvokeFinds(c, name) ==
    /\ Calls(c) /\ name \in DOMAIN eventMap
    /\ eventMutex' = c
    /\ Goes(c, "append", name)
    /\ UNCHANGED <<handler, shouldExit, eventMap, mutex, work, left, owed, failed>>

\* The mutex cannot be locked, or the jobs' memory cannot be reserved.
InvokeRefused(c) ==
    /\ pc[c] = "append" /\ Fails("invoke")
    /\ eventMutex' = NoProc
    /\ Goes(c, "idle", NULL)
    /\ UNCHANGED <<handler, shouldExit, eventMap, mutex, work, left, owed>>

CeilDiv(n, d) == (n + d - 1) \div d

ThreadsToAdd(amount) ==
    IF threads = <<>> THEN CeilDiv(amount, JobsPerThread)
    ELSE IF amount \div Len(threads) > JobsPerThread
    THEN CeilDiv(amount, JobsPerThread) - Len(threads)
    ELSE 0

\* Mutant: the jobs before are overwritten.
AppendsOver(c, new, added) ==
    /\ jobs' = new
    /\ eventMutex' = NoProc /\ mutex' = c
    /\ left' = added
    /\ room' = IF room - Len(threads) < added THEN Len(threads) + added ELSE room
    /\ owed' = owed \union S!ToSet(eventMap[call[c]])
    /\ Goes(c, "create", NULL)
    /\ UNCHANGED <<handler, shouldExit, eventMap, threads>>

\* The jobs get new behind them, and threads is reserved for those added.
Appends(c, new, added) ==
    /\ jobs' = jobs \o new
    /\ eventMutex' = NoProc /\ mutex' = c
    /\ left' = added
    /\ room' = IF room - Len(threads) < added THEN Len(threads) + added ELSE room
    /\ owed' = owed \union S!ToSet(eventMap[call[c]])
    /\ Goes(c, "create", NULL)
    /\ UNCHANGED <<handler, shouldExit, eventMap, threads>>

\* The result of the insertion is not looked at.
InvokeAppends(c) ==
    LET new   == eventMap[call[c]]
        added == ThreadsToAdd(Len(jobs) + Len(new))
    IN  /\ pc[c] = "append" /\ mutex = NoProc
        /\ \/ Appends(c, new, added) /\ UNCHANGED failed
           \/ Appends(c, <<>>, ThreadsToAdd(Len(jobs))) /\ Fails("append")
           \/ room - Len(threads) < added /\ Appends(c, new, 0) /\ Fails("reserve")

IsNext(w) ==
    /\ pc[w] = "unborn"
    /\ \A v \in DOMAIN Workers : pc[v] = "unborn" => Workers[w] <= Workers[v]

\* A thread that cannot be created leaves the mutex of bl_thread_create locked,
\* and the next call of it never returns.
MayCreate(c) == pc[c] = "create" /\ left > 0 /\ "create" \notin failed

InvokeCreates(c, w) ==
    LET full == Len(threads) + 1 >= room IN
    /\ MayCreate(c) /\ IsNext(w)
    /\ pc' = [pc EXCEPT ![w] = "check"]
    /\ left' = left - 1
    /\ \/ /\ threads' = Append(threads, w)
          /\ room' = IF full THEN 2 * (Len(threads) + 1) + 1 ELSE room
          /\ UNCHANGED failed
       \* The append, whose result is not looked at.
       \/ full /\ Fails("thread") /\ UNCHANGED <<threads, room>>
    /\ UNCHANGED <<handler, shouldExit, registry, mutex, jobs, call, owed>>

InvokeCreatesNone(c) ==
    /\ MayCreate(c) /\ Fails("create")
    /\ left' = 0
    /\ UNCHANGED <<handler, shouldExit, registry, mutex, work, pc, call, owed>>

InvokeReturns(c) ==
    /\ pc[c] = "create" /\ left = 0
    /\ mutex' = NoProc
    /\ Goes(c, "idle", NULL)
    /\ UNCHANGED <<handler, shouldExit, registry, work, left, owed, failed>>

-----------------------------------------------------------------------------
(* internal_thread_function                                                 *)

WorkerChecks(w) ==
    /\ pc[w] = "check"
    /\ Goes(w, IF shouldExit THEN "ended" ELSE "read", NULL)
    /\ UNCHANGED <<handler, shouldExit, registry, mutex, work, left, owed, failed>>

\* Under the mutex.  No worker is created before there is a job, and no job goes.
WorkerReads(w) ==
    /\ pc[w] = "read" /\ mutex = NoProc
    /\ Goes(w, "call", S!Last(jobs))
    /\ UNCHANGED <<handler, shouldExit, registry, mutex, work, left, owed, failed>>

WorkerCalls(w) ==
    /\ pc[w] = "call"
    /\ owed' = owed \ {call[w]}
    /\ Goes(w, "in function", NULL)
    /\ UNCHANGED <<handler, shouldExit, registry, mutex, work, left, failed>>

FunctionReturns(w) ==
    /\ pc[w] = "in function"
    /\ Goes(w, "check", NULL)
    /\ UNCHANGED <<handler, shouldExit, registry, mutex, work, left, owed, failed>>

-----------------------------------------------------------------------------
(* internal_cleanup, called by exit                                         *)

\* Mutant: the workers are not told.
CleanupBeginsUnsaid ==
    /\ handler = "up" /\ \A c \in Clients : pc[c] = "idle"
    /\ handler' = "joining" /\ left' = 1
    /\ UNCHANGED <<shouldExit, registry, mutex, work, pc, call, owed, failed>>

\* The program exits when the other clients have done.
CleanupBegins ==
    /\ handler = "up" /\ \A c \in Clients : pc[c] = "idle"
    /\ handler' = "joining" /\ shouldExit' = TRUE /\ left' = 1
    /\ UNCHANGED <<registry, mutex, work, pc, call, owed, failed>>

CleanupJoins ==
    /\ handler = "joining" /\ left <= Len(threads) /\ pc[threads[left]] = "ended"
    /\ left' = left + 1
    /\ UNCHANGED <<handler, shouldExit, registry, mutex, work, pc, call, owed, failed>>

\* Mutant: the last worker is not waited for.
JoinedAlmost == left >= Len(threads)

Joined == left > Len(threads)

\* The front of a container with memory and no elements is not NULL: a thread that
\* was never created is joined, and whether that returns is undefined.
CleanupJoined ==
    /\ handler = "joining" /\ Joined
    /\ handler' \in {"calling"} \union (IF threads = <<>> /\ room > 0 THEN {"stray"} ELSE {})
    /\ left' = 1
    /\ UNCHANGED <<shouldExit, registry, mutex, work, pc, call, owed, failed>>

JobsLeft == left <= Len(jobs)

CleanupCalls ==
    /\ handler = "calling" /\ JobsLeft /\ pc[Main] = "idle"
    /\ owed' = owed \ {jobs[left]}
    /\ Goes(Main, "in function", NULL)
    /\ UNCHANGED <<handler, shouldExit, registry, mutex, work, left, failed>>

CleanupCalled ==
    /\ handler = "calling" /\ pc[Main] = "in function"
    /\ left' = left + 1
    /\ Goes(Main, "idle", NULL)
    /\ UNCHANGED <<handler, shouldExit, registry, mutex, work, owed, failed>>

CleanupEnds ==
    /\ handler = "calling" /\ ~JobsLeft
    /\ handler' = "down" /\ eventMap' = <<>>
    /\ UNCHANGED <<shouldExit, eventMutex, mutex, work, pc, call, left, owed, failed>>
-----------------------------------------------------------------------------
(* Every function that was invoked has run after that when the cleanup has  *)
(* ended, though the workers run only the last job: whatever invocations,   *)
(* registrations and workers did meanwhile, unless the memory for a job     *)
(* failed (lines 27-35, 40-49 and 222).                                     *)
InvokedHasRun == handler = "down" /\ "append" \notin failed => owed = {}

(* Once the workers are joined, none of them is left to use the jobs, the   *)
(* functions or the mutex that the cleanup destroys, unless a thread was    *)
(* created and could not be remembered (lines 44-51 and 226-238).           *)
QuietAfterJoin ==
    handler \in {"calling", "down"} /\ "thread" \notin failed =>
        /\ \A w \in DOMAIN Workers : pc[w] \in {"unborn", "ended"}
        /\ mutex = NoProc /\ eventMutex = NoProc

(* When nobody is invoking, there is a worker for every JobsPerThread jobs, *)
(* and none too many (lines 226-238).                                       *)
WorkersFollowJobs ==
    mutex \notin Clients /\ failed = {} =>
        /\ jobs # <<>> => threads # <<>> /\ Len(jobs) \div Len(threads) <= JobsPerThread
        /\ Len(threads) <= CeilDiv(Len(jobs), JobsPerThread)

(* The cleanup ends, if the functions return, unless no thread that was     *)
(* reserved could be created or remembered and it joins one that is none    *)
(* (lines 44-52).                                                           *)
CleanupReturns ==
    handler = "joining" ~>
        \/ handler = "down"
        \/ handler = "stray" /\ threads = <<>> /\ ("create" \in failed \/ "thread" \in failed)
=============================================================================
