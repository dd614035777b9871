-------------------------- MODULE EventLogging_proof --------------------------
(***************************************************************************)
(* What exit leaves behind: once the workers are joined nothing uses what   *)
(* the event handler's cleanup destroys, and nothing is written after the   *)
(* logger's cleanup (QuietExit, from IInv: who holds a mutex, which workers *)
(* are joined, and that only a function that runs has lines to write).      *)
(* And every invocation is answered (InvokedRuns, from RunInv: what is owed *)
(* is in a job or in the hands of a worker, and how many workers there are  *)
(* for the jobs at each point of a call).  And lines come to the files whole *)
(* and in order (LinesLogged, from LinesInv: what waits of a thread is the   *)
(* last of what it logged, and which line of a file is half written).        *)
(***************************************************************************)
EXTENDS EventLogging, WellFoundedInduction, TLAPS

ClientPc == {"idle", "append", "create", "in function"}
WorkerPc == {"unborn", "check", "read", "call", "in function", "ended"}
Over     == {"calling", "down"}

\* Clients call and workers run: each thread is in a step of its own.
PcInv ==
    /\ pc \in [E!Procs -> ClientPc \union WorkerPc]
    /\ \A c \in Clients : pc[c] \in ClientPc
    /\ \A w \in DOMAIN Workers : pc[w] \in WorkerPc

\* Who holds a mutex is in the step that took it.
MutexInv ==
    /\ eventMutex # NoProc => eventMutex \in Clients /\ pc[eventMutex] = "append"
    /\ mutex # NoProc => mutex \in Clients /\ pc[mutex] = "create"

\* Clients have done when exit begins, and its own thread runs functions.
ExitInv ==
    /\ \A c \in Clients : handler # "up" => pc[c] \in {"idle", "in function"}
    /\ \A c \in Clients : pc[c] = "in function" =>
           c = Main /\ handler = "calling" /\ E!JobsLeft

\* Every worker that was created is remembered, unless its append failed.
ThreadsInv ==
    /\ threads \in Seq(DOMAIN Workers)
    /\ "thread" \notin failed =>
           \A w \in DOMAIN Workers : pc[w] # "unborn" => \E n \in 1 .. Len(threads) : threads[n] = w

\* What is joined has ended, and after the joins all workers have.
JoinInv ==
    /\ handler = "joining" =>
           left \in Nat /\ \A n \in 1 .. Len(threads) : n < left => pc[threads[n]] = "ended"
    /\ handler \in Over /\ "thread" \notin failed =>
           \A w \in DOMAIN Workers : pc[w] \in {"unborn", "ended"}

EventInv == PcInv /\ MutexInv /\ ExitInv /\ ThreadsInv /\ JoinInv

Message == [by : Loggers, number : Nat, level : Levels, size : Sizes]

\* The thread that holds logMutex has something to write.
WritesInv ==
    /\ batches \in [Loggers -> Seq(Seq(Message))]
    /\ buffer \in [Loggers -> Seq(Message)]
    /\ logged \in [Loggers -> Seq(Message)]
    /\ text \in [Loggers -> BOOLEAN]
    /\ \A t \in Loggers : logMutex = t => batches[t] # <<>>
    /\ \A t \in Loggers : text[t] => logMutex = t /\ Head(batches[t]) # <<>>

\* Only a function that runs has lines to write.
WritersInv == \A t \in Loggers : batches[t] # <<>> => pc[t] = "in function"

ClosedInv == first = "log" /\ closed => handler = "down"

IInv == EventInv /\ WritesInv /\ WritersInv /\ ClosedInv /\ NothingToClosed

-----------------------------------------------------------------------------
(* The invariant of the handler, action by action.                          *)

\* It holds before anything is registered.
LEMMA InitInvariant == Init => IInv
<1> USE ActorsAssumption DEF E!Procs, Loggers
<1> SUFFICES ASSUME Init PROVE IInv OBVIOUS
<1> USE DEF Init, E!Init, L!Init
<1>1. PcInv BY DEF PcInv, ClientPc, WorkerPc
<1>2. MutexInv /\ ExitInv /\ JoinInv BY DEF MutexInv, ExitInv, JoinInv, Over
<1>3. ThreadsInv BY DEF ThreadsInv
<1>4. WritesInv BY DEF WritesInv
<1>5. WritersInv /\ ClosedInv /\ NothingToClosed BY DEF WritersInv, ClosedInv, NothingToClosed
<1> QED BY <1>1, <1>2, <1>3, <1>4, <1>5 DEF IInv, EventInv

\* Nothing but the map changes.
LEMMA RegistryInvariant ==
    ASSUME EventInv, UNCHANGED <<handler, eventMutex, mutex, jobs, threads, pc, left, failed>>
    PROVE  EventInv'
BY DEF EventInv, PcInv, MutexInv, ExitInv, ThreadsInv, JoinInv, E!JobsLeft

\* A client calls: it is before the exit, whatever it comes to be about to do.
LEMMA ClientInvariant ==
    ASSUME EventInv, NEW c \in Clients, Client(c)
    PROVE  EventInv'
<1> USE ActorsAssumption DEF Client, EventInv, E!Procs, E!Calls, E!Goes, E!Fails, E!work, E!registry
<1>1. ASSUME NEW name, E!InvokeFinds(c, name) PROVE EventInv'
  <2> USE <1>1 DEF E!InvokeFinds
  <2>1. PcInv' BY DEF PcInv, ClientPc
  <2>2. MutexInv' BY DEF PcInv, MutexInv
  <2>3. ExitInv' BY DEF PcInv, ExitInv
  <2>4. ThreadsInv' BY DEF PcInv, ThreadsInv
  <2>5. JoinInv' BY DEF PcInv, JoinInv, Over
  <2> QED BY <2>1, <2>2, <2>3, <2>4, <2>5
<1>2. ASSUME E!InvokeRefused(c) PROVE EventInv'
  <2> USE <1>2 DEF E!InvokeRefused
  <2>0. handler = "up" BY DEF ExitInv
  <2>1. PcInv' BY DEF PcInv, ClientPc
  <2>2. MutexInv' BY DEF PcInv, MutexInv
  <2>3. ExitInv' BY <2>0 DEF PcInv, ExitInv
  <2>4. ThreadsInv' BY DEF PcInv, ThreadsInv
  <2>5. JoinInv' BY <2>0 DEF PcInv, JoinInv, Over
  <2> QED BY <2>1, <2>2, <2>3, <2>4, <2>5
<1>3. ASSUME E!InvokeAppends(c) PROVE EventInv'
  <2>0. /\ pc[c] = "append" /\ mutex = NoProc /\ mutex' = c /\ eventMutex' = NoProc
        /\ pc' = [pc EXCEPT ![c] = "create"]
        /\ UNCHANGED <<handler, threads>>
        /\ \A what \in failed : what \in failed'
    BY <1>3 DEF E!InvokeAppends, E!Appends
  <2>00. handler = "up" BY <2>0 DEF ExitInv
  <2>1. PcInv' BY <2>0 DEF PcInv, ClientPc
  <2>2. MutexInv' BY <2>0 DEF PcInv, MutexInv
  <2>3. ExitInv' BY <2>0, <2>00 DEF PcInv, ExitInv
  <2>4. ThreadsInv' BY <2>0 DEF PcInv, ThreadsInv
  <2>5. JoinInv' BY <2>0, <2>00 DEF PcInv, JoinInv, Over
  <2> QED BY <2>1, <2>2, <2>3, <2>4, <2>5
<1>4. ASSUME NEW w \in DOMAIN Workers, E!InvokeCreates(c, w) PROVE EventInv'
  <2>0. /\ pc[c] = "create" /\ pc[w] = "unborn" /\ pc' = [pc EXCEPT ![w] = "check"]
        /\ UNCHANGED <<handler, mutex, eventMutex, jobs>>
        /\ \A what \in failed : what \in failed'
        /\ (threads' = Append(threads, w) /\ failed' = failed)
           \/ (threads' = threads /\ "thread" \in failed')
    BY <1>4 DEF E!InvokeCreates, E!MayCreate, E!IsNext
  <2>00. handler = "up" BY <2>0 DEF ExitInv
  <2>1. PcInv' BY <2>0 DEF PcInv, WorkerPc
  <2>2. MutexInv' BY <2>0 DEF PcInv, MutexInv
  <2>3. ExitInv' BY <2>0, <2>00 DEF PcInv, ExitInv
  <2>4. ThreadsInv'
    <3>1. CASE threads' = Append(threads, w) /\ failed' = failed
      <4>1. threads' \in Seq(DOMAIN Workers) BY <3>1 DEF ThreadsInv
      <4>2. ASSUME "thread" \notin failed', NEW v \in DOMAIN Workers, pc'[v] # "unborn"
            PROVE  \E n \in 1 .. Len(threads') : threads'[n] = v
        <5>1. /\ Len(threads') = Len(threads) + 1 /\ threads'[Len(threads) + 1] = w
              /\ \A n \in 1 .. Len(threads) : threads'[n] = threads[n]
          BY <3>1 DEF ThreadsInv
        <5>2. Len(threads) \in Nat BY DEF ThreadsInv
        <5>3. CASE v = w BY <5>1, <5>2, <5>3
        <5>4. CASE v # w
          <6>1. pc[v] # "unborn" BY <2>0, <4>2, <5>4 DEF PcInv
          <6>2. PICK n \in 1 .. Len(threads) : threads[n] = v BY <6>1, <3>1, <4>2 DEF ThreadsInv
          <6> QED BY <6>2, <5>1, <5>2
        <5> QED BY <5>3, <5>4
      <4> QED BY <4>1, <4>2 DEF ThreadsInv
    <3>2. CASE threads' = threads /\ "thread" \in failed' BY <3>2 DEF ThreadsInv
    <3> QED BY <2>0, <3>1, <3>2
  <2>5. JoinInv' BY <2>0, <2>00 DEF JoinInv, Over
  <2> QED BY <2>1, <2>2, <2>3, <2>4, <2>5
<1>5. ASSUME E!InvokeCreatesNone(c) PROVE EventInv'
  <2>0. UNCHANGED <<handler, eventMutex, mutex, jobs, threads, pc>> /\ pc[c] = "create"
        /\ \A what \in failed : what \in failed'
    BY <1>5 DEF E!InvokeCreatesNone, E!MayCreate
  <2>00. handler = "up" BY <2>0 DEF ExitInv
  <2> QED BY <2>0, <2>00 DEF PcInv, MutexInv, ExitInv, ThreadsInv, JoinInv, Over
<1>6. ASSUME E!InvokeReturns(c) PROVE EventInv'
  <2> USE <1>6 DEF E!InvokeReturns
  <2>0. handler = "up" BY DEF ExitInv
  <2>1. PcInv' BY DEF PcInv, ClientPc
  <2>2. MutexInv' BY DEF PcInv, MutexInv
  <2>3. ExitInv' BY <2>0 DEF PcInv, ExitInv
  <2>4. ThreadsInv' BY DEF PcInv, ThreadsInv
  <2>5. JoinInv' BY <2>0 DEF PcInv, JoinInv, Over
  <2> QED BY <2>1, <2>2, <2>3, <2>4, <2>5
<1>7. ASSUME NEW map, E!Maps(map) PROVE EventInv'
  BY <1>7, RegistryInvariant DEF E!Maps
<1> QED
  BY <1>1, <1>2, <1>3, <1>4, <1>5, <1>6, <1>7
  DEF E!Register, E!RegisterFunc, E!Unregister, E!UnregisterFunc

\* A worker that has ended does nothing, so what is joined stays so.
LEMMA WorkerInvariant ==
    ASSUME EventInv, NEW w \in DOMAIN Workers, Worker(w)
    PROVE  EventInv'
<1> USE ActorsAssumption DEF EventInv
<1>0. /\ pc[w] \notin {"unborn", "ended"}
      /\ UNCHANGED <<handler, eventMutex, mutex, jobs, threads, left, failed>>
      /\ \E where \in WorkerPc \ {"unborn"} : pc' = [pc EXCEPT ![w] = where]
  BY DEF Worker, E!WorkerChecks, E!WorkerReads, E!WorkerCalls, E!FunctionReturns, E!Goes,
         E!registry, E!work, WorkerPc
<1>1. PcInv' BY <1>0 DEF PcInv, E!Procs
<1>2. MutexInv' BY <1>0 DEF PcInv, MutexInv, E!Procs
<1>3. ExitInv' BY <1>0 DEF PcInv, ExitInv, E!JobsLeft, E!Procs
<1>4. ThreadsInv' BY <1>0 DEF PcInv, ThreadsInv, E!Procs
<1>5. JoinInv' BY <1>0 DEF PcInv, JoinInv, ThreadsInv, Over, E!Procs
<1> QED BY <1>1, <1>2, <1>3, <1>4, <1>5

\* The joins go through threads in order, each of a worker that ended.
LEMMA CleanupInvariant ==
    ASSUME EventInv, EventCleanup
    PROVE  EventInv'
<1> USE ActorsAssumption DEF EventInv, E!Goes, E!registry, E!work, E!Procs, E!JobsLeft
<1>1. ASSUME E!CleanupBegins PROVE EventInv'
  <2> USE <1>1 DEF E!CleanupBegins
  <2>1. PcInv' /\ MutexInv' /\ ThreadsInv' BY DEF PcInv, MutexInv, ThreadsInv
  <2>2. ExitInv' BY DEF ExitInv
  <2>3. JoinInv' BY DEF JoinInv, Over
  <2> QED BY <2>1, <2>2, <2>3
<1>2. ASSUME E!CleanupJoins PROVE EventInv'
  <2> USE <1>2 DEF E!CleanupJoins
  <2>1. PcInv' /\ MutexInv' /\ ThreadsInv' BY DEF PcInv, MutexInv, ThreadsInv
  <2>2. ExitInv' BY DEF ExitInv
  <2>3. JoinInv' BY DEF JoinInv, ThreadsInv, Over
  <2> QED BY <2>1, <2>2, <2>3
<1>3. ASSUME E!CleanupJoined PROVE EventInv'
  <2> USE <1>3 DEF E!CleanupJoined, E!Joined
  <2>1. PcInv' /\ MutexInv' /\ ThreadsInv' BY DEF PcInv, MutexInv, ThreadsInv
  <2>2. ExitInv' BY DEF ExitInv
  <2>3. JoinInv'
    <3>1. \A n \in 1 .. Len(threads) : pc[threads[n]] = "ended" BY DEF JoinInv, ThreadsInv
    <3> QED BY <3>1 DEF JoinInv, ThreadsInv, Over
  <2> QED BY <2>1, <2>2, <2>3
<1>4. ASSUME E!CleanupCalls PROVE EventInv'
  <2> USE <1>4 DEF E!CleanupCalls
  <2>1. PcInv' BY DEF PcInv, ClientPc
  <2>2. MutexInv' BY DEF PcInv, MutexInv
  <2>3. ExitInv' BY DEF PcInv, ExitInv
  <2>4. ThreadsInv' BY DEF PcInv, ThreadsInv
  <2>5. JoinInv' BY DEF PcInv, JoinInv, Over
  <2> QED BY <2>1, <2>2, <2>3, <2>4, <2>5
<1>5. ASSUME E!CleanupCalled PROVE EventInv'
  <2> USE <1>5 DEF E!CleanupCalled
  <2>1. PcInv' BY DEF PcInv, ClientPc
  <2>2. MutexInv' BY DEF PcInv, MutexInv
  <2>3. ExitInv' BY DEF PcInv, ExitInv
  <2>4. ThreadsInv' BY DEF PcInv, ThreadsInv
  <2>5. JoinInv' BY DEF PcInv, JoinInv, Over
  <2> QED BY <2>1, <2>2, <2>3, <2>4, <2>5
<1>6. ASSUME E!CleanupEnds PROVE EventInv'
  <2> USE <1>6 DEF E!CleanupEnds
  <2>1. PcInv' /\ MutexInv' /\ ThreadsInv' BY DEF PcInv, MutexInv, ThreadsInv
  <2>2. ExitInv' BY DEF ExitInv
  <2>3. JoinInv' BY DEF JoinInv, Over
  <2> QED BY <2>1, <2>2, <2>3
<1> QED BY <1>1, <1>2, <1>3, <1>4, <1>5, <1>6 DEF EventCleanup

-----------------------------------------------------------------------------
(* The invariant of the lines to write, action by action.                   *)

\* No thread starts or ends a function with lines to write.
LEMMA WritersStay ==
    ASSUME IInv, \/ \E c \in Clients : Client(c)
                 \/ \E w \in DOMAIN Workers : Worker(w)
                 \/ EventCleanup
    PROVE  WritersInv'
<1> USE ActorsAssumption DEF IInv, EventInv, PcInv, WritersInv, Loggers, E!Procs
<1>1. UNCHANGED batches BY DEF Client, Worker, EventCleanup, OnlyEvent, loggingVars
<1>2. ASSUME NEW c \in Clients, Client(c) PROVE WritersInv'
  <2>1. \/ UNCHANGED pc
        \/ /\ pc[c] # "in function"
           /\ \E where : pc' = [pc EXCEPT ![c] = where]
        \/ \E w \in DOMAIN Workers : pc[w] = "unborn" /\ pc' = [pc EXCEPT ![w] = "check"]
    BY <1>2 DEF Client, E!InvokeFinds, E!InvokeRefused, E!InvokeAppends, E!Appends,
       E!InvokeCreates, E!IsNext, E!InvokeCreatesNone, E!InvokeReturns, E!Register,
       E!RegisterFunc, E!Unregister, E!UnregisterFunc, E!Maps, E!Calls, E!Goes
  <2> QED BY <1>1, <2>1
<1>3. ASSUME NEW w \in DOMAIN Workers, Worker(w) PROVE WritersInv'
  <2>1. /\ pc[w] # "in function" \/ batches[w] = <<>>
        /\ \E where : pc' = [pc EXCEPT ![w] = where]
    BY <1>3 DEF Worker, E!WorkerChecks, E!WorkerReads, E!WorkerCalls, E!FunctionReturns,
       E!Goes, L!IsIdle
  <2> QED BY <1>1, <2>1
<1>4. ASSUME EventCleanup PROVE WritersInv'
  <2>1. \/ UNCHANGED pc
        \/ /\ pc[Main] # "in function" \/ batches[Main] = <<>>
           /\ \E where : pc' = [pc EXCEPT ![Main] = where]
    BY <1>4 DEF EventCleanup, E!CleanupBegins, E!CleanupJoins, E!CleanupJoined, E!CleanupCalls,
       E!CleanupCalled, E!CleanupEnds, E!Goes, L!IsIdle
  <2> QED BY <1>1, <2>1
<1> QED BY <1>2, <1>3, <1>4

\* The handler does not come back up, and writes nothing itself.
LEMMA EventWritesNothing ==
    ASSUME IInv, \/ \E c \in Clients : Client(c)
                 \/ \E w \in DOMAIN Workers : Worker(w)
                 \/ EventCleanup
    PROVE  WritesInv' /\ ClosedInv' /\ NothingToClosed'
<1>1. UNCHANGED <<loggingVars, first>> BY DEF Client, Worker, EventCleanup, OnlyEvent
<1>2. WritesInv' BY <1>1 DEF IInv, WritesInv, loggingVars
<1>3. ASSUME handler = "down" PROVE handler' = "down"
  <2>1. ASSUME NEW c \in Clients, Client(c) PROVE handler' = handler
    BY <2>1 DEF Client, E!InvokeFinds, E!InvokeRefused, E!InvokeAppends, E!Appends,
       E!InvokeCreates, E!InvokeCreatesNone, E!InvokeReturns, E!Register,
       E!RegisterFunc, E!Unregister, E!UnregisterFunc, E!Maps
  <2>2. ASSUME NEW w \in DOMAIN Workers, Worker(w) PROVE handler' = handler
    BY <2>2 DEF Worker, E!WorkerChecks, E!WorkerReads, E!WorkerCalls, E!FunctionReturns
  <2>3. ~EventCleanup
    BY <1>3 DEF EventCleanup, E!CleanupBegins, E!CleanupJoins, E!CleanupJoined, E!CleanupCalls,
       E!CleanupCalled, E!CleanupEnds
  <2> QED BY <1>3, <2>1, <2>2, <2>3
<1>4. ClosedInv' BY <1>1, <1>3 DEF IInv, ClosedInv, loggingVars
<1>5. ASSUME "thread" \in failed PROVE "thread" \in failed'
  <2>1. ASSUME NEW c \in Clients, Client(c) PROVE "thread" \in failed'
    BY <1>5, <2>1 DEF Client, E!InvokeFinds, E!InvokeRefused, E!InvokeAppends, E!Appends,
       E!InvokeCreates, E!InvokeCreatesNone, E!InvokeReturns, E!Register,
       E!RegisterFunc, E!Unregister, E!UnregisterFunc, E!Maps, E!Fails
  <2>2. ASSUME NEW w \in DOMAIN Workers, Worker(w) PROVE "thread" \in failed'
    BY <1>5, <2>2 DEF Worker, E!WorkerChecks, E!WorkerReads, E!WorkerCalls, E!FunctionReturns
  <2>3. ASSUME EventCleanup PROVE "thread" \in failed'
    BY <1>5, <2>3 DEF EventCleanup, E!CleanupBegins, E!CleanupJoins, E!CleanupJoined,
       E!CleanupCalls, E!CleanupCalled, E!CleanupEnds
  <2> QED BY <2>1, <2>2, <2>3
<1>6. NothingToClosed' BY <1>1, <1>5 DEF IInv, NothingToClosed, loggingVars
<1> QED BY <1>2, <1>4, <1>6

\* Where the handler's cleanup has ended and remembered its workers, no function runs.
LEMMA NoneRuns ==
    ASSUME IInv, handler = "down", "thread" \notin failed, NEW t \in Loggers
    PROVE  batches[t] = <<>>
<1>1. pc[t] # "in function"
  <2>1. CASE t = Main BY <2>1, ActorsAssumption DEF IInv, EventInv, ExitInv
  <2>2. CASE t \in DOMAIN Workers BY <2>2 DEF IInv, EventInv, JoinInv, Over
  <2> QED BY <2>1, <2>2 DEF Loggers
<1> QED BY <1>1 DEF IInv, WritersInv

\* Nothing of the handler changes when a line is written.
LEMMA LogChangesNoEvent ==
    ASSUME EventInv, UNCHANGED eventVars
    PROVE  EventInv'
BY DEF EventInv, PcInv, MutexInv, ExitInv, ThreadsInv, JoinInv, E!JobsLeft, eventVars

\* What is left of a batch when its first line is written.
LEMMA Prepended ==
    ASSUME NEW S, NEW e \in S, NEW s \in Seq(S)
    PROVE  <<e>> \o s \in Seq(S) /\ <<e>> \o s # <<>>
<1>1. <<e>> \in Seq(S) /\ Len(<<e>>) = 1 OBVIOUS
<1>2. Len(<<e>> \o s) = 1 + Len(s) /\ Len(s) \in Nat BY <1>1
<1>3. <<e>> \o s # <<>> BY <1>2
<1> QED BY <1>1, <1>3

\* A function logs and a thread writes: nothing after the cleanup, for none runs.
LEMMA LogInvariant ==
    ASSUME IInv, NEW t \in Loggers, Function(t) \/ Logger(t) \/ LoggerFails(t)
    PROVE  IInv'
<1>0. EventInv' BY LogChangesNoEvent DEF IInv, Function, Logger, LoggerFails, OnlyLog
<1>e. UNCHANGED <<handler, pc, first, failed>>
  BY DEF Function, Logger, LoggerFails, OnlyLog, eventVars
<1>f. /\ batches \in [Loggers -> Seq(Seq(Message))] /\ buffer \in [Loggers -> Seq(Message)]
      /\ logged \in [Loggers -> Seq(Message)] /\ text \in [Loggers -> BOOLEAN]
  BY DEF IInv, WritesInv
<1>1. ASSUME pc[t] = "in function", NEW level \in Levels, NEW size \in Sizes, L!Log(t, level, size)
      PROVE  WritesInv' /\ WritersInv' /\ ClosedInv' /\ NothingToClosed'
  <2> DEFINE message == [by |-> t, number |-> Len(logged[t]) + 1, level |-> level, size |-> size]
  <2>1. message \in Message
    <3>1. Len(logged[t]) \in Nat BY <1>f
    <3> QED BY <3>1 DEF Message
  <2>2. /\ logged' = [logged EXCEPT ![t] = Append(@, message)]
        /\ UNCHANGED <<logMutex, text, closed, stray>>
        /\ batches[t] = <<>>
    BY <1>1 DEF L!Log, L!IsIdle
  <2>3. /\ buffer[t] \in Seq(Message) /\ <<message>> \in Seq(Message) /\ <<>> \in Seq(Message)
        /\ Append(buffer[t], message) \in Seq(Message)
        /\ Append(logged[t], message) \in Seq(Message)
    BY <1>f, <2>1
  <2>4. L!Flushed(t) \in Seq(Seq(Message)) BY <2>3 DEF L!Flushed
  <2>5. PICK inBuffer \in Seq(Message), given \in Seq(Seq(Message)) :
            buffer' = [buffer EXCEPT ![t] = inBuffer] /\ batches' = [batches EXCEPT ![t] = given]
    <3> DEFINE fits == size <= BufferSize - L!bytesWritten(t)
    <3> DEFINE inBuffer == IF fits THEN Append(buffer[t], message)
                           ELSE IF size <= BufferSize THEN <<message>> ELSE <<>>
    <3> DEFINE given == IF fits THEN <<>>
                        ELSE IF size <= BufferSize THEN L!Flushed(t)
                        ELSE Append(L!Flushed(t), <<message>>)
    <3>1. buffer' = [buffer EXCEPT ![t] = inBuffer] /\ batches' = [batches EXCEPT ![t] = given]
      BY <1>1 DEF L!Log
    <3>2. inBuffer \in Seq(Message) BY <2>3
    <3>3. given \in Seq(Seq(Message)) BY <2>3, <2>4
    <3> HIDE DEF inBuffer, given
    <3> QED BY <3>1, <3>2, <3>3
  <2> HIDE DEF message
  <2>6. WritesInv' BY <1>f, <2>2, <2>3, <2>5 DEF IInv, WritesInv
  <2>7. WritersInv' BY <1>e, <1>1, <2>5 DEF IInv, WritesInv, WritersInv
  <2>8. ClosedInv' /\ NothingToClosed' BY <1>e, <2>2 DEF IInv, ClosedInv, NothingToClosed
  <2> QED BY <2>6, <2>7, <2>8
<1>2. ASSUME pc[t] = "in function", L!Flush(t)
      PROVE  WritesInv' /\ WritersInv' /\ ClosedInv' /\ NothingToClosed'
  <2>0. buffer[t] \in Seq(Message) /\ <<>> \in Seq(Message) BY <1>f
  <2>1. PICK given \in Seq(Seq(Message)) : given = <<buffer[t]>>
    <3>1. <<buffer[t]>> \in Seq(Seq(Message)) BY <2>0
    <3> QED BY <3>1
  <2> USE <1>2 DEF L!Flush
  <2>2. WritesInv'
    <3>1. batches' = [batches EXCEPT ![t] = given] BY <2>1 DEF L!Flushed
    <3>2. batches' \in [Loggers -> Seq(Seq(Message))] BY <1>f, <3>1
    <3>3. buffer' \in [Loggers -> Seq(Message)] BY <1>f, <2>0
    <3>4. \A u \in Loggers : logMutex' = u => batches'[u] # <<>>
      BY DEF IInv, WritesInv, L!IsIdle
    <3>5. \A u \in Loggers : text'[u] => logMutex' = u /\ Head(batches'[u]) # <<>>
      BY DEF IInv, WritesInv, L!IsIdle
    <3> QED BY <1>f, <3>2, <3>3, <3>4, <3>5 DEF WritesInv
  <2>3. WritersInv' BY <1>e DEF IInv, WritesInv, WritersInv
  <2>4. ClosedInv' /\ NothingToClosed' BY <1>e DEF IInv, ClosedInv, NothingToClosed
  <2> QED BY <2>2, <2>3, <2>4
<1>3. ASSUME L!WriteBegins(t)
      PROVE  WritesInv' /\ WritersInv' /\ ClosedInv' /\ NothingToClosed'
  <2> USE <1>3 DEF L!WriteBegins
  <2>2. WritesInv' BY ActorsAssumption DEF IInv, WritesInv, Loggers
  <2>3. WritersInv' BY <1>e DEF IInv, WritersInv
  <2>4. ClosedInv' /\ NothingToClosed' BY <1>e DEF IInv, ClosedInv, NothingToClosed
  <2> QED BY <2>2, <2>3, <2>4
<1>4. ASSUME L!WriteText(t)
      PROVE  WritesInv' /\ WritersInv' /\ ClosedInv' /\ NothingToClosed'
  <2> USE <1>4 DEF L!WriteText
  <2>2. WritesInv' BY DEF IInv, WritesInv
  <2>3. WritersInv' BY <1>e DEF IInv, WritersInv
  <2>4. ClosedInv' BY <1>e DEF IInv, ClosedInv
  <2>5. batches[t] # <<>> BY DEF IInv, WritesInv
  <2>6. NothingToClosed' BY <1>e, <2>5, NoneRuns DEF IInv, ClosedInv, NothingToClosed
  <2> QED BY <2>2, <2>3, <2>4, <2>6
<1>5. ASSUME L!WriteNewline(t)
      PROVE  WritesInv' /\ WritersInv' /\ ClosedInv' /\ NothingToClosed'
  <2> USE <1>5 DEF L!WriteNewline
  <2>1. batches[t] # <<>> /\ Head(batches[t]) # <<>> BY DEF IInv, WritesInv
  <2>2. WritesInv'
    <3>1. batches[t] \in Seq(Seq(Message)) BY DEF IInv, WritesInv
    <3>2. Head(batches[t]) \in Seq(Message) /\ Tail(batches[t]) \in Seq(Seq(Message))
      BY <2>1, <3>1
    <3>3. Tail(Head(batches[t])) \in Seq(Message) BY <2>1, <3>2
    <3>4. PICK rest \in Seq(Seq(Message)) :
              rest # <<>> /\ batches' = [batches EXCEPT ![t] = rest]
      <4> DEFINE rest == <<Tail(Head(batches[t]))>> \o Tail(batches[t])
      <4>1. rest \in Seq(Seq(Message)) /\ rest # <<>> BY <3>2, <3>3, Prepended
      <4>2. batches' = [batches EXCEPT ![t] = rest] OBVIOUS
      <4> QED BY <4>1, <4>2, Zenon
    <3>5. batches' \in [Loggers -> Seq(Seq(Message))] BY <1>f, <3>4
    <3>6. text' \in [Loggers -> BOOLEAN] BY <1>f
    <3>7. \A u \in Loggers : logMutex' = u => batches'[u] # <<>>
      BY <1>f, <3>4 DEF IInv, WritesInv
    <3>8. \A u \in Loggers : text'[u] => logMutex' = u /\ Head(batches'[u]) # <<>>
      BY <1>f, <3>4 DEF IInv, WritesInv
    <3> QED BY <1>f, <3>5, <3>6, <3>7, <3>8 DEF WritesInv
  <2>3. WritersInv' BY <1>e, <2>1 DEF IInv, WritersInv, WritesInv
  <2>4. ClosedInv' /\ NothingToClosed' BY <1>e DEF IInv, ClosedInv, NothingToClosed
  <2> QED BY <2>2, <2>3, <2>4
<1>6. ASSUME L!WriteEnds(t)
      PROVE  WritesInv' /\ WritersInv' /\ ClosedInv' /\ NothingToClosed'
  <2> USE <1>6 DEF L!WriteEnds
  <2>1. batches[t] # <<>> /\ ~text[t] BY DEF IInv, WritesInv
  <2>r. Tail(batches[t]) \in Seq(Seq(Message)) BY <2>1 DEF IInv, WritesInv
  <2>2. WritesInv' BY <2>1, <2>r, ActorsAssumption DEF IInv, WritesInv, Loggers
  <2>3. WritersInv' BY <1>e, <2>1 DEF IInv, WritersInv, WritesInv
  <2>4. ClosedInv' /\ NothingToClosed' BY <1>e DEF IInv, ClosedInv, NothingToClosed
  <2> QED BY <2>2, <2>3, <2>4
<1>7. ASSUME L!WriteFails(t)
      PROVE  WritesInv' /\ WritersInv' /\ ClosedInv' /\ NothingToClosed'
  <2> USE <1>7 DEF L!WriteFails
  <2>1. Tail(batches[t]) \in Seq(Seq(Message)) BY DEF IInv, WritesInv
  <2>2. WritesInv' BY <2>1 DEF IInv, WritesInv
  <2>3. WritersInv' BY <1>e DEF IInv, WritersInv, WritesInv
  <2>4. ClosedInv' /\ NothingToClosed' BY <1>e DEF IInv, ClosedInv, NothingToClosed
  <2> QED BY <2>2, <2>3, <2>4
<1> QED BY <1>0, <1>1, <1>2, <1>3, <1>4, <1>5, <1>6, <1>7
        DEF IInv, Function, Logger, LoggerFails, L!Writes

\* The logger's cleanup comes last where the logger was initialized first.
LEMMA FilesInvariant ==
    ASSUME IInv, RegistersFile \/ LogCleanup
    PROVE  IInv'
<1>1. UNCHANGED <<handler, pc, first, failed, logMutex, buffer, batches, text, logged, stray>>
  BY DEF RegistersFile, LogCleanup, OnlyLog, eventVars, L!Register, L!Cleanup
<1>2. EventInv' BY LogChangesNoEvent DEF IInv, RegistersFile, LogCleanup, OnlyLog
<1>3. WritesInv' /\ WritersInv' /\ NothingToClosed'
  BY <1>1 DEF IInv, WritesInv, WritersInv, NothingToClosed
<1>4. ClosedInv'
  BY <1>1 DEF IInv, ClosedInv, RegistersFile, LogCleanup, L!Register
<1> QED BY <1>2, <1>3, <1>4 DEF IInv

\* Every step keeps the invariant.
LEMMA StepInvariant == IInv /\ [Next]_vars => IInv'
<1> SUFFICES ASSUME IInv, [Next]_vars PROVE IInv' OBVIOUS
<1>1. ASSUME \/ \E c \in Clients : Client(c)
             \/ \E w \in DOMAIN Workers : Worker(w)
             \/ EventCleanup
      PROVE  IInv'
  <2>1. EventInv' BY <1>1, ClientInvariant, WorkerInvariant, CleanupInvariant DEF IInv
  <2> QED BY <1>1, <2>1, WritersStay, EventWritesNothing DEF IInv
<1>2. ASSUME NEW t \in Loggers, Function(t) \/ Logger(t) \/ LoggerFails(t) PROVE IInv'
  BY <1>2, LogInvariant
<1>3. ASSUME RegistersFile \/ LogCleanup PROVE IInv' BY <1>3, FilesInvariant
<1>4. ASSUME UNCHANGED vars PROVE IInv'
  <2>1. EventInv' BY <1>4, LogChangesNoEvent DEF IInv, vars
  <2> QED BY <1>4, <2>1
          DEF IInv, WritesInv, WritersInv, ClosedInv, NothingToClosed, vars, eventVars, loggingVars
<1> QED BY <1>1, <1>2, <1>3, <1>4 DEF Next

\* It says more than the property.
LEMMA QuietFromInvariant == IInv => QuietAtExit
<1> SUFFICES ASSUME IInv PROVE E!QuietAfterJoin BY DEF IInv, QuietAtExit
<1> SUFFICES ASSUME handler \in Over, "thread" \notin failed
             PROVE  /\ \A w \in DOMAIN Workers : pc[w] \in {"unborn", "ended"}
                    /\ mutex = NoProc /\ eventMutex = NoProc
  BY DEF E!QuietAfterJoin, Over
<1>1. \A w \in DOMAIN Workers : pc[w] \in {"unborn", "ended"} BY DEF IInv, EventInv, JoinInv
<1>2. mutex = NoProc /\ eventMutex = NoProc BY DEF IInv, EventInv, MutexInv, ExitInv, Over
<1> QED BY <1>1, <1>2

(* Whatever the clients register and invoke, whatever the functions log and *)
(* whichever calls fail: when the handler's cleanup has joined the workers, *)
(* none is left that uses the jobs or a mutex, and nothing is written to a  *)
(* file that the logger's cleanup closed, if the logger is the first that   *)
(* was initialized and every thread was remembered.                         *)
THEOREM QuietExit == Spec => []QuietAtExit
<1>1. Spec => []IInv BY InitInvariant, StepInvariant, PTL DEF Spec
<1> QED BY <1>1, QuietFromInvariant, PTL

-----------------------------------------------------------------------------
(* What is invoked: the jobs, and the workers there are for them.           *)

\* A client that is about to append has the eventMutex, so its event is still
\* there; one that creates threads has the mutex.
CallInv ==
    /\ limits \in Limits
    /\ DOMAIN call = E!Procs
    /\ eventMap \in [DOMAIN eventMap -> Seq(Functions)]
    /\ \A c \in Clients :
           /\ pc[c] = "append" => eventMutex = c /\ call[c] \in DOMAIN eventMap
           /\ pc[c] = "create" => mutex = c

\* The place of the first job that the cleanup has still to call.
ToCall == IF handler = "calling" THEN IF pc[Main] = "in function" THEN left + 1 ELSE left
          ELSE 1

\* What is owed waits among the jobs, of which none ever leaves.
OwedInv ==
    /\ jobs \in Seq(Functions)
    /\ handler = "calling" => left \in Nat \ {0}
    /\ "append" \notin failed =>
           /\ \A f \in owed : \E n \in 1 .. Len(jobs) : n >= ToCall /\ jobs[n] = f
           /\ handler = "down" => owed = {}

\* The workers there are, with those that an invocation has still to create.
Planned == Len(threads) + (IF mutex \in Clients THEN left ELSE 0)

Follows(amount, workers) ==
    /\ amount > 0 => workers > 0 /\ amount \div workers <= JobsPerThread
    /\ workers <= E!CeilDiv(amount, JobsPerThread)

CountInv ==
    /\ mutex \in Clients => left \in Nat
    /\ failed = {} => Follows(Len(jobs), Planned)

RunInv == CallInv /\ OwedInv /\ CountInv

-----------------------------------------------------------------------------
(* How many workers follow from how many jobs.                              *)

\* What a division leaves.
LEMMA DivFacts ==
    ASSUME NEW n \in Nat, NEW d \in Nat \ {0}
    PROVE  n \div d \in Nat /\ d * (n \div d) <= n /\ n < d * (n \div d) + d
  OBVIOUS

\* A factor is taken away from both sides.
LEMMA Cancel ==
    ASSUME NEW a \in Nat, NEW b \in Nat, NEW d \in Nat \ {0}, d * a < d * b + d
    PROVE  a <= b
  OBVIOUS

\* The amount of workers for an amount of jobs (Event.c, lines 226-229).
LEMMA CeilFacts ==
    ASSUME NEW n \in Nat
    PROVE  LET c == E!CeilDiv(n, JobsPerThread)
           IN  /\ c \in Nat /\ n <= JobsPerThread * c
               /\ n > 0 => c > 0
               /\ \A m \in Nat : JobsPerThread * m < n + JobsPerThread => m <= c
<1> DEFINE d == JobsPerThread
           c == E!CeilDiv(n, d)
<1>0. d \in Nat \ {0}
  BY JobsAssumption
<1>1. n + d - 1 \in Nat
  BY <1>0
<1>2. c \in Nat /\ d * c <= n + d - 1 /\ n + d - 1 < d * c + d
  BY <1>0, <1>1, DivFacts DEF E!CeilDiv
<1> HIDE DEF c, d
<1>3. d * c \in Nat
  BY <1>0, <1>2
<1>4. n <= d * c
  BY <1>0, <1>2, <1>3
<1>5. n > 0 => c > 0
  BY <1>0, <1>2, <1>4
<1>6. ASSUME NEW m \in Nat, d * m < n + d PROVE m <= c
  <2>1. d * m \in Nat /\ d * m <= n + d - 1
    BY <1>0, <1>6
  <2>2. d * m < d * c + d
    BY <1>0, <1>2, <1>3, <2>1
  <2> QED
    BY <1>0, <1>2, <2>2, Cancel
<1> QED
  BY <1>2, <1>4, <1>5, <1>6 DEF c, d

\* As many workers as an invocation brings them up to are enough, and not too many.
LEMMA CeilFollows ==
    ASSUME NEW amount \in Nat
    PROVE  Follows(amount, E!CeilDiv(amount, JobsPerThread))
<1> DEFINE c == E!CeilDiv(amount, JobsPerThread)
<1>1. c \in Nat /\ amount <= JobsPerThread * c /\ (amount > 0 => c > 0)
  BY CeilFacts
<1> HIDE DEF c
<1>2. ASSUME amount > 0 PROVE amount \div c <= JobsPerThread
  <2>1. amount \div c \in Nat /\ c * (amount \div c) <= amount
    BY <1>1, <1>2, DivFacts
  <2>2. c * (amount \div c) < c * JobsPerThread + c
    BY <1>1, <1>2, <2>1, JobsAssumption
  <2> QED
    BY <1>1, <1>2, <2>1, <2>2, Cancel, JobsAssumption
<1> QED
  BY <1>1, <1>2 DEF Follows, c

\* More jobs need no fewer workers.
LEMMA CeilGrows ==
    ASSUME NEW few \in Nat, NEW many \in Nat, few <= many
    PROVE  E!CeilDiv(few, JobsPerThread) <= E!CeilDiv(many, JobsPerThread)
<1> DEFINE c == E!CeilDiv(few, JobsPerThread)
<1>1. few + JobsPerThread - 1 \in Nat /\ c \in Nat /\ JobsPerThread * c <= few + JobsPerThread - 1
  BY DivFacts, JobsAssumption DEF E!CeilDiv
<1> HIDE DEF c
<1>2. JobsPerThread * c < many + JobsPerThread
  BY <1>1, JobsAssumption
<1> QED
  BY <1>1, <1>2, CeilFacts DEF c

\* Where there are too many jobs for the workers, fewer workers than wanted.
LEMMA CeilExceeds ==
    ASSUME NEW amount \in Nat, NEW workers \in Nat, workers > 0,
           amount \div workers > JobsPerThread
    PROVE  workers < E!CeilDiv(amount, JobsPerThread)
<1>1. amount \div workers \in Nat /\ workers * (amount \div workers) <= amount
  BY DivFacts
<1>2. workers * (JobsPerThread + 1) <= amount
  BY <1>1, JobsAssumption
<1>3. JobsPerThread * (workers + 1) < amount + JobsPerThread /\ workers + 1 \in Nat
  BY <1>2, JobsAssumption
<1> QED
  BY <1>3, CeilFacts

\* What an invocation has still to create, and that it is enough.
LEMMA ThreadsToAddFollow ==
    ASSUME ThreadsInv, NEW few \in Nat, NEW many \in Nat, few <= many,
           Follows(few, Len(threads))
    PROVE  E!ThreadsToAdd(many) \in Nat /\ Follows(many, Len(threads) + E!ThreadsToAdd(many))
<1> DEFINE m == Len(threads)
           c == E!CeilDiv(many, JobsPerThread)
<1>1. m \in Nat /\ (m = 0 <=> threads = <<>>)
  BY DEF ThreadsInv
<1>2. c \in Nat
  BY CeilFacts
<1>3. Follows(many, c)
  BY CeilFollows
<1> HIDE DEF c
<1>4. CASE m = 0
  <2>1. E!ThreadsToAdd(many) = c
    BY <1>1, <1>4 DEF E!ThreadsToAdd, c
  <2> QED
    BY <1>2, <1>3, <1>4, <2>1
<1>5. CASE m > 0 /\ many \div m > JobsPerThread
  <2>1. E!ThreadsToAdd(many) = c - m
    BY <1>1, <1>5 DEF E!ThreadsToAdd, c
  <2>2. m < c
    BY <1>1, <1>5, CeilExceeds DEF c
  <2>3. c - m \in Nat /\ m + (c - m) = c
    BY <1>1, <1>2, <2>2
  <2> QED
    BY <1>3, <2>1, <2>3
<1>6. CASE m > 0 /\ ~(many \div m > JobsPerThread)
  <2>1. E!ThreadsToAdd(many) = 0
    BY <1>1, <1>6 DEF E!ThreadsToAdd
  <2>2. many \div m \in Nat
    BY <1>1, <1>6, DivFacts
  <2>3. many \div m <= JobsPerThread
    BY <1>6, <2>2, JobsAssumption
  <2>4. m <= E!CeilDiv(few, JobsPerThread) /\ E!CeilDiv(few, JobsPerThread) \in Nat
    BY CeilFacts DEF Follows
  <2>5. m <= c
    BY <1>1, <1>2, <2>4, CeilGrows DEF c
  <2> QED
    BY <1>1, <1>6, <2>1, <2>3, <2>5 DEF Follows, c
<1> QED
  BY <1>1, <1>4, <1>5, <1>6

-----------------------------------------------------------------------------
(* The functions of an event are a sequence of functions, whatever is       *)
(* registered and unregistered.                                             *)

\* A set of natural numbers that is not empty has a least one.
LEMMA LeastNatural ==
    ASSUME NEW T \in SUBSET Nat, T # {}
    PROVE  \E n \in T : \A m \in T : n <= m
<1> DEFINE Smaller == OpToRel(<, Nat)
<1>1. IsWellFoundedOn(Smaller, Nat)
  BY NatLessThanWellFounded, Zenon
<1> HIDE DEF Smaller
<1>2. PICK n \in T : \A m \in T : <<m, n>> \notin Smaller
  BY <1>1, WFMin, Zenon
<1>3. \A m \in T : ~(m < n)
  BY <1>2 DEF OpToRel, Smaller
<1> QED
  BY <1>2, <1>3

\* A list that a function is taken out of is a list still.
LEMMA WithoutIsSeq ==
    ASSUME NEW fs \in Seq(Functions), NEW f
    PROVE  E!WithoutFunction(fs, f) \in Seq(Functions)
<1>1. CASE f \notin E!S!ToSet(fs)
  BY <1>1 DEF E!WithoutFunction
<1>2. CASE f \in E!S!ToSet(fs)
  <2> DEFINE I == { k \in 1 .. Len(fs) : fs[k] = f }
             k == E!S!SelectInSeq(fs, LAMBDA v : v = f)
  <2>1. I \in SUBSET Nat /\ I # {}
    BY <1>2 DEF E!S!ToSet
  <2>2. k \in I
    <3>1. k = E!S!Min(I)
      BY <2>1 DEF E!S!SelectInSeq
    <3> HIDE DEF I, k
    <3>2. E!S!Min(I) \in I
      BY <2>1, LeastNatural DEF E!S!Min
    <3> QED
      BY <3>1, <3>2
  <2>3. E!WithoutFunction(fs, f) = SubSeq(fs, 1, k - 1) \o SubSeq(fs, k + 1, Len(fs))
    BY <1>2, <2>2 DEF E!WithoutFunction, E!S!RemoveFirst, E!S!RemoveAt
  <2> HIDE DEF k
  <2>4. SubSeq(fs, 1, k - 1) \in Seq(Functions) /\ SubSeq(fs, k + 1, Len(fs)) \in Seq(Functions)
    BY <2>2
  <2> QED
    BY <2>3, <2>4
<1> QED
  BY <1>1, <1>2

-----------------------------------------------------------------------------
(* The invariant of what is invoked, action by action.                      *)

\* Before the handler is up nothing is owed.
LEMMA InitRun == Init => RunInv
<1> USE ActorsAssumption DEF E!Procs
<1> SUFFICES ASSUME Init PROVE RunInv
  OBVIOUS
<1>1. /\ limits \in Limits /\ call = [p \in E!Procs |-> NULL] /\ eventMap = <<>>
      /\ \A c \in Clients : pc[c] = "idle"
      /\ jobs = <<>> /\ threads = <<>> /\ owed = {} /\ handler = "up" /\ mutex = NoProc
  BY DEF Init, E!Init
<1>2. CallInv
  BY <1>1 DEF CallInv
<1>3. OwedInv
  BY <1>1 DEF OwedInv
<1>4. CountInv
  <2>1. Len(jobs) = 0 /\ Planned = 0
    BY <1>1 DEF Planned
  <2>2. 0 <= E!CeilDiv(0, JobsPerThread)
    BY CeilFacts
  <2> QED
    BY <1>1, <2>1, <2>2 DEF CountInv, Follows
<1> QED
  BY <1>2, <1>3, <1>4 DEF RunInv

\* A registration: nobody is about to append.
LEMMA MapsRun ==
    ASSUME EventInv, RunInv, NEW c \in Clients, E!Calls(c), NEW map, E!Maps(map),
           map \in [DOMAIN map -> Seq(Functions)], limits' = limits
    PROVE  RunInv'
<1>1. /\ eventMap' = map
      /\ UNCHANGED <<handler, eventMutex, mutex, jobs, threads, pc, call, left, owed, failed>>
  BY DEF E!Maps, E!work
<1>2. \A d \in Clients : pc[d] # "append"
  BY ActorsAssumption DEF E!Calls, RunInv, CallInv
<1>3. CallInv'
  BY <1>1, <1>2 DEF RunInv, CallInv
<1>4. OwedInv' /\ CountInv'
  BY <1>1 DEF RunInv, OwedInv, ToCall, CountInv, Planned
<1> QED
  BY <1>3, <1>4 DEF RunInv

\* The registrations of a client leave jobs and workers alone.
LEMMA RegistersRun ==
    ASSUME EventInv, RunInv, NEW c \in Clients, limits' = limits, NEW name \in Names,
           \/ E!Unregister(c, name)
           \/ \E f \in limits.functions : E!RegisterFunc(c, name, f) \/ E!UnregisterFunc(c, name, f)
           \/ \E f, g \in limits.functions : E!Register(c, name, E!WithFunction(<<f>>, g))
    PROVE  RunInv'
<1>0. limits.functions \subseteq Functions /\ eventMap \in [DOMAIN eventMap -> Seq(Functions)]
  BY LimitsAssumption DEF RunInv, CallInv
<1>1. ASSUME NEW fs \in Seq(Functions), E!Register(c, name, fs) PROVE RunInv'
  <2> DEFINE map == [n \in DOMAIN eventMap \union {name} |->
                        IF n = name THEN fs ELSE eventMap[n]]
  <2>1. map \in [DOMAIN map -> Seq(Functions)]
    BY <1>0, <1>1
  <2> QED
    BY <1>1, <2>1, MapsRun DEF E!Register
<1>2. ASSUME NEW f \in limits.functions, E!RegisterFunc(c, name, f) PROVE RunInv'
  <2>1. E!WithFunction(<<>>, f) \in Seq(Functions)
    BY <1>0 DEF E!WithFunction
  <2> QED
    BY <1>1, <1>2, <2>1 DEF E!RegisterFunc
<1>3. ASSUME NEW f \in limits.functions, NEW g \in limits.functions,
             E!Register(c, name, E!WithFunction(<<f>>, g)) PROVE RunInv'
  <2>1. E!WithFunction(<<f>>, g) \in Seq(Functions)
    BY <1>0 DEF E!WithFunction
  <2> QED
    BY <1>1, <1>3, <2>1
<1> DEFINE less == [n \in DOMAIN eventMap \ {name} |-> eventMap[n]]
<1>4. less \in [DOMAIN less -> Seq(Functions)]
  BY <1>0
<1>5. ASSUME E!Unregister(c, name) PROVE RunInv'
  BY <1>4, <1>5, MapsRun DEF E!Unregister
<1>6. ASSUME NEW f \in limits.functions, E!UnregisterFunc(c, name, f) PROVE RunInv'
  <2> DEFINE rest == E!WithoutFunction(eventMap[name], f)
             some == [eventMap EXCEPT ![name] = rest]
  <2>1. name \in DOMAIN eventMap /\ E!Calls(c)
        /\ E!Maps(IF rest = <<>> THEN less ELSE some)
    BY <1>6 DEF E!UnregisterFunc
  <2>2. rest \in Seq(Functions)
    BY <1>0, <2>1, WithoutIsSeq
  <2>3. some \in [DOMAIN some -> Seq(Functions)]
    BY <1>0, <2>2
  <2> HIDE DEF rest, less, some
  <2> QED
    BY <1>4, <2>1, <2>3, MapsRun
<1> QED
  BY <1>2, <1>3, <1>5, <1>6

\* An invocation that finds its event.
LEMMA FindsRun ==
    ASSUME EventInv, RunInv, NEW c \in Clients, limits' = limits, NEW name,
           E!InvokeFinds(c, name)
    PROVE  RunInv'
<1>1. /\ eventMutex' = c /\ name \in DOMAIN eventMap /\ eventMutex = NoProc
      /\ handler = "up"
      /\ pc' = [pc EXCEPT ![c] = "append"] /\ call' = [call EXCEPT ![c] = name]
      /\ UNCHANGED <<handler, eventMap, mutex, jobs, threads, left, owed, failed>>
  BY DEF E!InvokeFinds, E!Calls, E!Goes, E!work
<1>2. \A d \in Clients : pc[d] # "append"
  BY <1>1, ActorsAssumption DEF RunInv, CallInv
<1>3. CallInv'
  BY <1>1, <1>2 DEF RunInv, CallInv, EventInv, PcInv, E!Procs
<1>4. OwedInv'
  BY <1>1 DEF RunInv, OwedInv, ToCall
<1>5. CountInv'
  BY <1>1 DEF RunInv, CountInv, Planned
<1> QED
  BY <1>3, <1>4, <1>5 DEF RunInv

\* An invocation that fails before it has queued one.
LEMMA RefusedRun ==
    ASSUME EventInv, RunInv, NEW c \in Clients, limits' = limits, E!InvokeRefused(c)
    PROVE  RunInv'
<1>1. /\ eventMutex' = NoProc /\ pc[c] = "append"
      /\ pc' = [pc EXCEPT ![c] = "idle"] /\ call' = [call EXCEPT ![c] = NULL]
      /\ failed' = failed \union {"invoke"}
      /\ UNCHANGED <<handler, eventMap, mutex, jobs, threads, left, owed>>
  BY DEF E!InvokeRefused, E!Fails, E!Goes, E!work
<1>2. eventMutex = c /\ handler = "up"
  BY <1>1 DEF RunInv, CallInv, EventInv, ExitInv
<1>3. CallInv'
  BY <1>1, <1>2 DEF RunInv, CallInv, EventInv, PcInv, E!Procs
<1>4. OwedInv'
  BY <1>1, <1>2 DEF RunInv, OwedInv, ToCall
<1>5. CountInv'
  BY <1>1 DEF RunInv, CountInv
<1> QED
  BY <1>3, <1>4, <1>5 DEF RunInv

\* The jobs before stay, and those that are new come behind them.
LEMMA AppendsRun ==
    ASSUME EventInv, RunInv, NEW c \in Clients, limits' = limits, E!InvokeAppends(c)
    PROVE  RunInv'
<1> DEFINE new == eventMap[call[c]]
<1>1. /\ pc[c] = "append" /\ mutex = NoProc
      /\ eventMutex' = NoProc /\ mutex' = c
      /\ pc' = [pc EXCEPT ![c] = "create"] /\ call' = [call EXCEPT ![c] = NULL]
      /\ owed' = owed \union E!S!ToSet(new)
      /\ UNCHANGED <<handler, eventMap, threads>>
  BY DEF E!InvokeAppends, E!Appends, E!Goes
<1>2. \/ /\ jobs' = jobs \o new /\ left' = E!ThreadsToAdd(Len(jobs) + Len(new))
         /\ failed' = failed
      \/ jobs' = jobs \o <<>> /\ left' = E!ThreadsToAdd(Len(jobs))
         /\ failed' = failed \union {"append"}
      \/ jobs' = jobs \o new /\ left' = 0 /\ failed' = failed \union {"reserve"}
  BY DEF E!InvokeAppends, E!Appends, E!Fails
<1>3. eventMutex = c /\ handler = "up" /\ call[c] \in DOMAIN eventMap
  BY <1>1 DEF RunInv, CallInv, EventInv, ExitInv
<1>4. new \in Seq(Functions) /\ jobs \in Seq(Functions) /\ ThreadsInv
  BY <1>3 DEF RunInv, CallInv, OwedInv, EventInv
<1> HIDE DEF new
<1>5. /\ jobs \o new \in Seq(Functions) /\ Len(jobs \o new) = Len(jobs) + Len(new)
      /\ \A n \in 1 .. Len(jobs) : (jobs \o new)[n] = jobs[n]
      /\ \A n \in 1 .. Len(new) : (jobs \o new)[Len(jobs) + n] = new[n]
      /\ Len(jobs) \in Nat /\ Len(new) \in Nat /\ jobs \o <<>> = jobs
  BY <1>4
<1>6. CallInv'
  <2>1. \A d \in Clients : d # c => pc[d] # "append" /\ pc[d] # "create"
    BY <1>1, <1>3, ActorsAssumption DEF RunInv, CallInv
  <2> QED
    BY <1>1, <2>1 DEF RunInv, CallInv, EventInv, PcInv, E!Procs
<1>7. OwedInv'
  <2>1. ToCall = 1 /\ ToCall' = 1 /\ handler' = "up"
    BY <1>1, <1>3 DEF ToCall
  <2>2. jobs' \in Seq(Functions)
    BY <1>2, <1>4, <1>5
  <2>3. ASSUME "append" \notin failed', NEW f \in owed'
        PROVE  \E n \in 1 .. Len(jobs') : n >= 1 /\ jobs'[n] = f
    <3>1. jobs' = jobs \o new /\ "append" \notin failed
      BY <1>2, <2>3
    <3>2. CASE f \in owed
      <4>1. PICK n \in 1 .. Len(jobs) : jobs[n] = f
        BY <3>1, <3>2 DEF RunInv, OwedInv
      <4>2. n \in 1 .. Len(jobs') /\ jobs'[n] = f
        BY <1>5, <3>1, <4>1
      <4> QED
        BY <4>2
    <3>3. CASE f \in E!S!ToSet(new)
      <4>1. PICK n \in 1 .. Len(new) : new[n] = f
        BY <1>4, <3>3 DEF E!S!ToSet
      <4>2. Len(jobs) + n \in 1 .. Len(jobs') /\ jobs'[Len(jobs) + n] = f
        BY <1>5, <3>1, <4>1
      <4> QED
        BY <4>2
    <3> QED
      BY <1>1, <2>3, <3>2, <3>3
  <2> QED
    BY <2>1, <2>2, <2>3 DEF OwedInv
<1>8. CountInv'
  <2>1. Len(threads) \in Nat /\ Planned' = Len(threads) + left'
    BY <1>1, <1>4 DEF Planned, ThreadsInv
  <2>2. failed = {} => Follows(Len(jobs), Len(threads))
    <3>1. NoProc \notin Clients
      BY ActorsAssumption
    <3>2. Planned = Len(threads) + 0
      BY <1>1, <3>1 DEF Planned
    <3> QED
      BY <2>1, <3>2 DEF RunInv, CountInv
  <2>a. ASSUME NEW n \in Nat PROVE E!ThreadsToAdd(n) \in Nat
    <3>1. E!CeilDiv(n, JobsPerThread) \in Nat
      BY CeilFacts
    <3>2. n \div Len(threads) > JobsPerThread /\ threads # <<>>
          => Len(threads) < E!CeilDiv(n, JobsPerThread)
      BY <1>4, CeilExceeds DEF ThreadsInv
    <3> QED
      BY <2>1, <3>1, <3>2 DEF E!ThreadsToAdd
  <2>3. left' \in Nat
    <3>1. Len(jobs) + Len(new) \in Nat /\ Len(jobs) \in Nat
      BY <1>5
    <3> QED
      BY <1>2, <2>a, <3>1
  <2>4. ASSUME failed' = {} PROVE Follows(Len(jobs'), Planned')
    <3>1. /\ failed = {} /\ Len(jobs') = Len(jobs) + Len(new)
          /\ left' = E!ThreadsToAdd(Len(jobs'))
      BY <1>2, <1>5, <2>4
    <3>2. Len(jobs') \in Nat /\ Len(jobs) <= Len(jobs')
      BY <1>5, <3>1
    <3> QED
      BY <1>4, <1>5, <2>1, <2>2, <3>1, <3>2, ThreadsToAddFollow
  <2> QED
    BY <2>3, <2>4 DEF CountInv
<1> QED
  BY <1>6, <1>7, <1>8 DEF RunInv

\* A thread more, and one less to create.
LEMMA CreatesRun ==
    ASSUME EventInv, RunInv, NEW c \in Clients, limits' = limits, NEW w \in DOMAIN Workers,
           E!InvokeCreates(c, w)
    PROVE  RunInv'
<1>1. /\ pc[c] = "create" /\ left > 0 /\ left' = left - 1
      /\ pc[w] = "unborn" /\ pc' = [pc EXCEPT ![w] = "check"]
      /\ \/ threads' = Append(threads, w) /\ failed' = failed
         \/ failed' = failed \union {"thread"} /\ threads' = threads
      /\ UNCHANGED <<handler, eventMap, eventMutex, mutex, jobs, call, owed>>
  BY DEF E!InvokeCreates, E!MayCreate, E!IsNext, E!Fails, E!registry
<1>2. mutex = c /\ handler = "up" /\ threads \in Seq(DOMAIN Workers)
  BY <1>1 DEF RunInv, CallInv, EventInv, ExitInv, ThreadsInv
<1>3. CallInv'
  BY <1>1, ActorsAssumption DEF RunInv, CallInv, EventInv, PcInv, E!Procs
<1>4. OwedInv'
  BY <1>1, <1>2 DEF RunInv, OwedInv, ToCall
<1>5. CountInv'
  <2>1. left \in Nat /\ left' \in Nat
    BY <1>1, <1>2 DEF RunInv, CountInv
  <2>2. ASSUME failed' = {} PROVE Planned' = Planned
    <3>1. Len(threads') = Len(threads) + 1 /\ Len(threads) \in Nat
      BY <1>1, <1>2, <2>2
    <3> QED
      BY <1>1, <1>2, <2>1, <3>1 DEF Planned
  <2> QED
    BY <1>1, <2>1, <2>2 DEF RunInv, CountInv
<1> QED
  BY <1>3, <1>4, <1>5 DEF RunInv

\* An invocation whose thread cannot be created.
LEMMA CreatesNoneRun ==
    ASSUME EventInv, RunInv, NEW c \in Clients, limits' = limits, E!InvokeCreatesNone(c)
    PROVE  RunInv'
<1>1. /\ pc[c] = "create" /\ left' = 0 /\ failed' = failed \union {"create"}
      /\ UNCHANGED <<handler, eventMap, eventMutex, mutex, jobs, threads, pc, call, owed>>
  BY DEF E!InvokeCreatesNone, E!MayCreate, E!Fails, E!registry, E!work
<1>2. handler = "up"
  BY <1>1 DEF EventInv, ExitInv
<1> QED
  BY <1>1, <1>2 DEF RunInv, CallInv, OwedInv, ToCall, CountInv

\* An invocation that returns.
LEMMA ReturnsRun ==
    ASSUME EventInv, RunInv, NEW c \in Clients, limits' = limits, E!InvokeReturns(c)
    PROVE  RunInv'
<1>1. /\ pc[c] = "create" /\ left = 0 /\ mutex' = NoProc
      /\ pc' = [pc EXCEPT ![c] = "idle"] /\ call' = [call EXCEPT ![c] = NULL]
      /\ UNCHANGED <<handler, eventMap, eventMutex, jobs, threads, left, owed, failed>>
  BY DEF E!InvokeReturns, E!Goes, E!registry, E!work
<1>2. mutex = c /\ handler = "up" /\ Len(threads) \in Nat
  <2>1. mutex = c
    BY <1>1 DEF RunInv, CallInv
  <2>2. handler = "up"
    BY <1>1 DEF EventInv, ExitInv
  <2>3. Len(threads) \in Nat
    BY DEF EventInv, ThreadsInv
  <2> QED
    BY <2>1, <2>2, <2>3
<1>3. \A d \in Clients : d # c => pc[d] # "create"
  BY <1>2 DEF RunInv, CallInv
<1>4. CallInv'
  BY <1>1, <1>3 DEF RunInv, CallInv, EventInv, PcInv, E!Procs
<1>5. OwedInv'
  BY <1>1, <1>2 DEF RunInv, OwedInv, ToCall
<1>6. CountInv'
  <2>1. NoProc \notin Clients
    BY ActorsAssumption
  <2>2. Planned' = Planned
    BY <1>1, <1>2, <2>1 DEF Planned
  <2> QED
    BY <1>1, <2>1, <2>2 DEF RunInv, CountInv
<1> QED
  BY <1>4, <1>5, <1>6 DEF RunInv

\* A worker calls a job and leaves it.
LEMMA WorkerRun ==
    ASSUME EventInv, RunInv, limits' = limits, NEW w \in DOMAIN Workers, Worker(w)
    PROVE  RunInv'
<1>1. /\ UNCHANGED <<handler, eventMap, eventMutex, mutex, jobs, threads, left, failed>>
      /\ owed' \subseteq owed
      /\ \E where, what : pc' = [pc EXCEPT ![w] = where] /\ call' = [call EXCEPT ![w] = what]
  BY DEF Worker, E!WorkerChecks, E!WorkerReads, E!WorkerCalls, E!FunctionReturns, E!Goes,
         E!registry, E!work
<1>2. \A c \in Clients : pc'[c] = pc[c] /\ call'[c] = call[c]
  BY <1>1, ActorsAssumption DEF RunInv, CallInv, EventInv, PcInv, E!Procs
<1>3. CallInv'
  BY <1>1, <1>2 DEF RunInv, CallInv
<1>4. OwedInv'
  <2>1. ToCall' = ToCall
    BY <1>1, <1>2, ActorsAssumption DEF ToCall
  <2> QED
    BY <1>1, <2>1 DEF RunInv, OwedInv
<1>5. CountInv'
  BY <1>1 DEF RunInv, CountInv, Planned
<1> QED
  BY <1>3, <1>4, <1>5 DEF RunInv

\* The cleanup calls every job, the first that is left at a time.
LEMMA CleanupRun ==
    ASSUME EventInv, RunInv, limits' = limits, EventCleanup
    PROVE  RunInv'
<1> USE ActorsAssumption
<1>0. UNCHANGED <<eventMutex, mutex, jobs, threads, failed>>
  BY DEF EventCleanup, E!CleanupBegins, E!CleanupJoins, E!CleanupJoined, E!CleanupCalls,
         E!CleanupCalled, E!CleanupEnds, E!registry, E!work
<1>1. \A c \in Clients : pc[c] \notin {"append", "create"} /\ pc'[c] \notin {"append", "create"}
  BY DEF EventCleanup, E!CleanupBegins, E!CleanupJoins, E!CleanupJoined, E!CleanupCalls,
         E!CleanupCalled, E!CleanupEnds, E!Goes, EventInv, PcInv, E!Procs, ExitInv
<1>2. mutex = NoProc
  BY <1>1 DEF EventInv, MutexInv
<1>3. CallInv'
  <2>1. eventMap' = eventMap \/ eventMap' = <<>>
    BY DEF EventCleanup, E!CleanupBegins, E!CleanupJoins, E!CleanupJoined, E!CleanupCalls,
           E!CleanupCalled, E!CleanupEnds, E!registry
  <2>2. eventMap' \in [DOMAIN eventMap' -> Seq(Functions)]
    <3>1. CASE eventMap' = eventMap
      BY <3>1 DEF RunInv, CallInv
    <3>2. CASE eventMap' = <<>>
      <4>1. DOMAIN eventMap' = {}
        BY <3>2
      <4>2. eventMap' = [n \in {} |-> eventMap'[n]]
        BY <3>2
      <4> QED
        BY <4>1, <4>2
    <3> QED
      BY <2>1, <3>1, <3>2
  <2>3. call' = call \/ call' = [call EXCEPT ![Main] = NULL]
    BY DEF EventCleanup, E!CleanupBegins, E!CleanupJoins, E!CleanupJoined, E!CleanupCalls,
           E!CleanupCalled, E!CleanupEnds, E!Goes
  <2>4. DOMAIN call' = E!Procs /\ limits' \in Limits
    BY <2>3 DEF RunInv, CallInv, E!Procs
  <2> QED
    BY <1>1, <2>2, <2>4 DEF CallInv
<1>4. CountInv'
  BY <1>0, <1>2 DEF RunInv, CountInv, Planned
<1>5. pc \in [E!Procs -> ClientPc \union WorkerPc] /\ Main \in E!Procs /\ Len(jobs) \in Nat
  BY DEF EventInv, PcInv, E!Procs, RunInv, OwedInv
<1>6. OwedInv'
  <2>1. ASSUME E!CleanupBegins \/ E!CleanupJoins PROVE OwedInv'
    <3>1. handler # "calling" /\ handler' = "joining" /\ owed' = owed
      BY <2>1 DEF E!CleanupBegins, E!CleanupJoins
    <3> QED
      BY <1>0, <3>1 DEF RunInv, OwedInv, ToCall
  <2>2. ASSUME E!CleanupJoined PROVE OwedInv'
    <3>1. /\ handler = "joining" /\ handler' \in {"calling", "stray"} /\ left' = 1
          /\ owed' = owed /\ pc' = pc
      BY <2>2 DEF E!CleanupJoined
    <3>2. pc[Main] # "in function"
      BY <3>1 DEF EventInv, ExitInv
    <3>3. ToCall = 1 /\ ToCall' = 1
      BY <3>1, <3>2 DEF ToCall
    <3> QED
      BY <1>0, <3>1, <3>3 DEF RunInv, OwedInv
  <2>3. ASSUME E!CleanupCalls PROVE OwedInv'
    <3>1. /\ handler = "calling" /\ handler' = "calling" /\ left' = left /\ pc[Main] = "idle"
          /\ owed' = owed \ {jobs[left]} /\ pc' = [pc EXCEPT ![Main] = "in function"]
      BY <2>3 DEF E!CleanupCalls, E!Goes
    <3>2. ToCall = left /\ ToCall' = left + 1 /\ left \in Nat \ {0}
      BY <1>5, <3>1 DEF ToCall, RunInv, OwedInv
    <3>3. ASSUME "append" \notin failed, NEW f \in owed'
          PROVE  \E n \in 1 .. Len(jobs) : n >= left + 1 /\ jobs[n] = f
      <4>1. PICK n \in 1 .. Len(jobs) : n >= left /\ jobs[n] = f
        BY <3>1, <3>2, <3>3 DEF RunInv, OwedInv
      <4>2. n # left
        BY <3>1, <3>3, <4>1
      <4> QED
        BY <3>2, <4>1, <4>2
    <3> QED
      BY <1>0, <3>1, <3>2, <3>3 DEF RunInv, OwedInv
  <2>4. ASSUME E!CleanupCalled PROVE OwedInv'
    <3>1. /\ handler = "calling" /\ handler' = "calling" /\ left' = left + 1 /\ owed' = owed
          /\ pc[Main] = "in function" /\ pc' = [pc EXCEPT ![Main] = "idle"]
      BY <2>4 DEF E!CleanupCalled, E!Goes
    <3>2. left \in Nat \ {0} /\ pc'[Main] = "idle"
      BY <1>5, <3>1 DEF RunInv, OwedInv
    <3>3. ToCall' = ToCall
      BY <3>1, <3>2 DEF ToCall
    <3>4. left' \in Nat \ {0}
      <4>1. left' = left + 1 /\ left \in Nat
        BY <3>1, <3>2
      <4> QED
        BY <4>1
    <3> QED
      BY <1>0, <3>1, <3>3, <3>4 DEF RunInv, OwedInv
  <2>5. ASSUME E!CleanupEnds PROVE OwedInv'
    <3>1. /\ handler = "calling" /\ handler' = "down" /\ left > Len(jobs) /\ owed' = owed
      BY <1>5, <2>5 DEF E!CleanupEnds, E!JobsLeft, RunInv, OwedInv
    <3>2. left \in Nat
      BY <3>1 DEF RunInv, OwedInv
    <3>3. "append" \notin failed => owed = {}
      <4> SUFFICES ASSUME "append" \notin failed, NEW f \in owed PROVE FALSE
        OBVIOUS
      <4>1. PICK n \in 1 .. Len(jobs) : n >= ToCall
        BY DEF RunInv, OwedInv
      <4>2. ToCall = left \/ ToCall = left + 1
        BY <3>1 DEF ToCall
      <4> QED
        BY <1>5, <3>1, <3>2, <4>1, <4>2
    <3> QED
      BY <1>0, <3>1, <3>3 DEF RunInv, OwedInv
  <2> QED
    BY <2>1, <2>2, <2>3, <2>4, <2>5 DEF EventCleanup
<1> QED
  BY <1>3, <1>4, <1>6 DEF RunInv

\* Every step keeps RunInv.
LEMMA StepRun == IInv /\ RunInv /\ [Next]_vars => RunInv'
<1> SUFFICES ASSUME IInv, RunInv, [Next]_vars PROVE RunInv'
  OBVIOUS
<1>0. EventInv
  BY DEF IInv
<1>1. ASSUME NEW c \in Clients, Client(c) PROVE RunInv'
  <2>1. limits' = limits
    BY <1>1 DEF Client, OnlyEvent
  <2>2. \/ \E name \in Names :
              \/ E!Unregister(c, name)
              \/ E!InvokeFinds(c, name)
              \/ \E f \in limits.functions : E!RegisterFunc(c, name, f) \/ E!UnregisterFunc(c, name, f)
              \/ \E f, g \in limits.functions : E!Register(c, name, E!WithFunction(<<f>>, g))
        \/ \E w \in DOMAIN Workers : E!InvokeCreates(c, w)
        \/ E!InvokeRefused(c) \/ E!InvokeAppends(c)
        \/ E!InvokeCreatesNone(c) \/ E!InvokeReturns(c)
    BY <1>1 DEF Client
  <2>3. ASSUME NEW name \in Names,
               \/ E!Unregister(c, name)
               \/ \E f \in limits.functions : E!RegisterFunc(c, name, f) \/ E!UnregisterFunc(c, name, f)
               \/ \E f, g \in limits.functions : E!Register(c, name, E!WithFunction(<<f>>, g))
        PROVE  RunInv'
    BY <1>0, <2>1, <2>3, RegistersRun
  <2> QED
    BY <1>0, <2>1, <2>2, <2>3, FindsRun, CreatesRun, RefusedRun, AppendsRun, CreatesNoneRun,
       ReturnsRun
<1>2. ASSUME NEW w \in DOMAIN Workers, Worker(w) PROVE RunInv'
  BY <1>0, <1>2, WorkerRun DEF Worker, OnlyEvent
<1>3. ASSUME EventCleanup PROVE RunInv'
  BY <1>0, <1>3, CleanupRun DEF EventCleanup, OnlyEvent
<1>4. ASSUME UNCHANGED <<eventVars, limits>> PROVE RunInv'
  BY <1>4 DEF RunInv, CallInv, OwedInv, ToCall, CountInv, Planned, eventVars
<1>5. ASSUME \/ RegistersFile \/ LogCleanup
             \/ \E t \in Loggers : Function(t) \/ Logger(t) \/ LoggerFails(t)
      PROVE  UNCHANGED <<eventVars, limits>>
  BY <1>5 DEF RegistersFile, LogCleanup, Function, Logger, LoggerFails, OnlyLog
<1> QED
  BY <1>1, <1>2, <1>3, <1>4, <1>5 DEF Next, vars

\* What it says when the cleanup ended, or nobody invokes.
LEMMA InvokedFromInvariant == IInv /\ RunInv => InvokedRun
<1> SUFFICES ASSUME IInv, RunInv PROVE InvokedRun
  OBVIOUS
<1>1. E!InvokedHasRun
  BY DEF E!InvokedHasRun, RunInv, OwedInv
<1>2. E!WorkersFollowJobs
  <2> SUFFICES ASSUME mutex \notin Clients, failed = {}
               PROVE  /\ jobs # <<>> => threads # <<>> /\ Len(jobs) \div Len(threads) <= JobsPerThread
                      /\ Len(threads) <= E!CeilDiv(Len(jobs), JobsPerThread)
    BY DEF E!WorkersFollowJobs
  <2>1. Len(threads) \in Nat /\ Len(jobs) \in Nat
        /\ (jobs # <<>> => Len(jobs) > 0) /\ (Len(threads) > 0 => threads # <<>>)
    BY DEF IInv, EventInv, ThreadsInv, RunInv, OwedInv
  <2>2. Planned = Len(threads)
    BY <2>1 DEF Planned
  <2>3. Follows(Len(jobs), Len(threads))
    BY <2>2 DEF RunInv, CountInv
  <2> QED
    BY <2>1, <2>3 DEF Follows
<1> QED
  BY <1>1, <1>2 DEF InvokedRun

(* Whatever the clients register, unregister and invoke, whatever the       *)
(* workers do and whichever calls but an append fail: every function that   *)
(* was invoked has run after that when the cleanup has ended; and if        *)
(* nothing failed there are workers for the jobs and not too many.          *)
THEOREM InvokedRuns == Spec => []InvokedRun
<1>1. Init => IInv /\ RunInv
  BY InitInvariant, InitRun
<1>2. IInv /\ RunInv /\ [Next]_vars => (IInv /\ RunInv)'
  BY StepInvariant, StepRun
<1> QED
  BY <1>1, <1>2, InvokedFromInvariant, PTL DEF Spec

-----------------------------------------------------------------------------
(* Lines are whole, in order and once.  What a thread's call and its buffer *)
(* hold is first seen apart from the threads: q are batches, s a buffer.    *)

Increasing(s) == \A i, j \in 1 .. Len(s) : i < j => s[i].number < s[j].number
Precedes(s, u) == \A i \in 1 .. Len(s), j \in 1 .. Len(u) : s[i].number < u[j].number

InOrder(q, s) ==
    /\ Increasing(s)
    /\ \A b \in 1 .. Len(q) : Increasing(q[b]) /\ Precedes(q[b], s)
    /\ \A b, c \in 1 .. Len(q) : b < c => Precedes(q[b], q[c])

Holds(q, s, m) == \/ \E n \in 1 .. Len(s) : s[n] = m
                  \/ \E b \in 1 .. Len(q) : \E n \in 1 .. Len(q[b]) : q[b][n] = m

HeldBy(q, s) == L!S!ToSet(s) \union UNION { L!S!ToSet(q[b]) : b \in DOMAIN q }

\* A thread's messages are numbered, and what waits of them is the last, in order.
HeldInv ==
    \A t \in Loggers :
        /\ \A n \in 1 .. Len(logged[t]) : logged[t][n].by = t /\ logged[t][n].number = n
        /\ InOrder(batches[t], buffer[t])
        /\ \A m \in L!Waiting(t) : \E n \in 1 .. Len(logged[t]) : logged[t][n] = m
        /\ ~dropped => \A m \in L!Waiting(t), n \in 1 .. Len(logged[t]) :
                           m.number <= n => logged[t][n] \in L!Waiting(t)

\* A file that is not registered is empty.
OutInv ==
    /\ out \in [DOMAIN Files -> Seq(Message \union {L!Newline})]
    /\ files \subseteq DOMAIN Files
    /\ \A f \in DOMAIN Files \ files : out[f] = <<>>

\* The thread has written a message to the file and not its newline.
Half(t, f) == text[t] /\ L!Line(t).level \in Files[f]

\* A line is a message of its thread, and comes before all that wait, but that it is
\* itself the first of these until its newline is written.
IsLineOf(line, t, f) ==
    /\ line.level \in Files[f]
    /\ \E k \in 1 .. Len(logged[t]) : logged[t][k] = line
    /\ \A m \in L!Waiting(t) : line.number < m.number \/ (text[t] /\ line = L!Line(t))

LineInv(f) ==
    \A n \in 1 .. Len(out[f]) : ~L!IsNewline(out[f][n]) => IsLineOf(out[f][n], out[f][n].by, f)

\* Lines and newlines take turns, and a file that is open ends in a line while its newline
\* is to be written.
TurnsInv(f) ==
    /\ \A n \in 1 .. Len(out[f]) - 1 : L!IsNewline(out[f][n]) <=> ~L!IsNewline(out[f][n + 1])
    /\ ~closed /\ out[f] # <<>> /\ ~L!IsNewline(out[f][Len(out[f])]) =>
           \E t \in Loggers : Half(t, f)
    /\ ~closed => \A t \in Loggers : Half(t, f) => out[f] # <<>> /\ out[f][Len(out[f])] = L!Line(t)

AscendsInv(f) ==
    \A m, n \in 1 .. Len(out[f]) :
        m < n /\ out[f][m].by = out[f][n].by /\ ~L!IsNewline(out[f][m]) =>
            out[f][m].number < out[f][n].number

\* After what the file has or is to have, it has or is to have all the thread's.
CompleteInv(f) ==
    ~dropped /\ ~closed => \A t \in Loggers : \A e, n \in 1 .. Len(logged[t]) :
        /\ e <= n /\ logged[t][e].level \in Files[f] /\ logged[t][n].level \in Files[f]
        /\ logged[t][e] \in L!Written(f) \union L!Waiting(t)
        => logged[t][n] \in L!Written(f) \union L!Waiting(t)

FilesInv == \A f \in files : LineInv(f) /\ TurnsInv(f) /\ AscendsInv(f) /\ CompleteInv(f)

LinesInv == HeldInv /\ OutInv /\ FilesInv

-----------------------------------------------------------------------------
\* What waits is what the batches and the buffer hold.
LEMMA WaitingMeans ==
    ASSUME NEW q \in Seq(Seq(Message)), NEW s \in Seq(Message), NEW m
    PROVE  m \in HeldBy(q, s) <=> Holds(q, s, m)
<1>1. \A b \in 1 .. Len(q) : q[b] \in Seq(Message)
  OBVIOUS
<1>2. DOMAIN q = 1 .. Len(q) /\ DOMAIN s = 1 .. Len(s)
      /\ \A b \in 1 .. Len(q) : DOMAIN q[b] = 1 .. Len(q[b])
  BY <1>1
<1> DEFINE Of(b) == L!S!ToSet(q[b])
<1>3. \A b \in 1 .. Len(q) : m \in Of(b) <=> \E n \in 1 .. Len(q[b]) : q[b][n] = m
  BY <1>2, Zenon DEF L!S!ToSet
<1>4. m \in L!S!ToSet(s) <=> \E n \in 1 .. Len(s) : s[n] = m
  BY <1>2, Zenon DEF L!S!ToSet
<1>5. HeldBy(q, s) = L!S!ToSet(s) \union UNION { Of(b) : b \in DOMAIN q }
  BY Zenon DEF HeldBy
<1> HIDE DEF Of
<1>6. m \in UNION { Of(b) : b \in DOMAIN q } <=> \E b \in DOMAIN q : m \in Of(b)
  BY Zenon
<1> QED
  BY <1>2, <1>3, <1>4, <1>5, <1>6, Zenon DEF Holds

\* The first line of the first batch.
LEMMA FirstHeld ==
    ASSUME NEW q \in Seq(Seq(Message)), NEW s \in Seq(Message), InOrder(q, s),
           q # <<>>, Head(q) # <<>>
    PROVE  /\ Holds(q, s, Head(Head(q))) /\ Head(Head(q)) \in Message
           /\ \A m : Holds(q, s, m) => m = Head(Head(q)) \/ Head(Head(q)).number < m.number
<1>1. 1 \in 1 .. Len(q) /\ Head(q) = q[1] /\ q[1] \in Seq(Message)
  OBVIOUS
<1>2. 1 \in 1 .. Len(q[1]) /\ Head(q[1]) = q[1][1] /\ q[1][1] \in Message
  BY <1>1
<1> DEFINE x == q[1][1]
<1>3. Holds(q, s, x)
  BY <1>1, <1>2 DEF Holds
<1>4. ASSUME NEW m, Holds(q, s, m) PROVE m = x \/ x.number < m.number
  <2>1. CASE \E n \in 1 .. Len(s) : s[n] = m
    BY <1>1, <1>2, <2>1 DEF InOrder, Precedes
  <2>2. ASSUME NEW b \in 1 .. Len(q), NEW n \in 1 .. Len(q[b]), q[b][n] = m
        PROVE  m = x \/ x.number < m.number
    <3>1. CASE b = 1
      <4>1. n = 1 \/ 1 < n
        BY <2>2
      <4> QED
        BY <1>1, <1>2, <2>2, <3>1, <4>1 DEF InOrder, Increasing
    <3>2. CASE b # 1
      <4>1. 1 < b
        BY <2>2, <3>2
      <4> QED
        BY <1>1, <1>2, <2>2, <4>1 DEF InOrder, Precedes
    <3> QED
      BY <3>1, <3>2
  <2> QED
    BY <1>4, <2>1, <2>2 DEF Holds
<1> QED
  BY <1>1, <1>2, <1>3, <1>4

\* Two sequences one after the other.
LEMMA Joined ==
    ASSUME NEW S, NEW a \in Seq(S), NEW c \in Seq(S)
    PROVE  /\ a \o c \in Seq(S) /\ Len(a \o c) = Len(a) + Len(c)
           /\ \A k \in 1 .. Len(a) + Len(c) :
                  (a \o c)[k] = IF k <= Len(a) THEN a[k] ELSE c[k - Len(a)]
OBVIOUS

\* The first line is written: it is held no more.
LEMMA LineGone ==
    ASSUME NEW q \in Seq(Seq(Message)), NEW s \in Seq(Message), InOrder(q, s),
           q # <<>>, Head(q) # <<>>,
           NEW r, r = <<Tail(Head(q))>> \o Tail(q)
    PROVE  /\ r \in Seq(Seq(Message)) /\ r # <<>> /\ InOrder(r, s)
           /\ \A m : Holds(r, s, m) <=> Holds(q, s, m) /\ m # Head(Head(q))
<1>1. 1 \in 1 .. Len(q) /\ Head(q) = q[1] /\ q[1] \in Seq(Message) /\ Len(q) \in Nat
  OBVIOUS
<1>2. 1 \in 1 .. Len(q[1]) /\ Head(q[1]) = q[1][1] /\ q[1][1] \in Message
  BY <1>1
<1> DEFINE u == Tail(q[1])
<1>3. u \in Seq(Message) /\ Len(u) = Len(q[1]) - 1 /\ \A n \in 1 .. Len(u) : u[n] = q[1][n + 1]
  BY <1>1, <1>2
<1>4. r \in Seq(Seq(Message)) /\ r # <<>> /\ Len(r) = Len(q) /\ r[1] = u
      /\ \A b \in 2 .. Len(q) : r[b] = q[b]
  <2>1. Tail(q) \in Seq(Seq(Message)) /\ Len(Tail(q)) = Len(q) - 1
        /\ \A b \in 1 .. Len(q) - 1 : Tail(q)[b] = q[b + 1]
    BY <1>1
  <2>2. r = <<u>> \o Tail(q)
    BY <1>1
  <2> HIDE DEF u
  <2>3. <<u>> \in Seq(Seq(Message)) /\ Len(<<u>>) = 1 /\ <<u>>[1] = u
    BY <1>3
  <2> DEFINE one == <<u>>
  <2> DEFINE rest == Tail(q)
  <2> HIDE DEF one, rest
  <2>4. one \in Seq(Seq(Message)) /\ Len(one) = 1 /\ one[1] = u /\ rest \in Seq(Seq(Message))
        /\ Len(rest) = Len(q) - 1 /\ r = one \o rest
    BY <2>1, <2>2, <2>3 DEF one, rest
  <2>5. r \in Seq(Seq(Message)) /\ Len(r) = Len(q) /\ r[1] = u
        /\ \A b \in 2 .. Len(q) : r[b] = rest[b - 1]
    <3>1. r \in Seq(Seq(Message)) /\ Len(r) = Len(one) + Len(rest)
          /\ \A b \in 1 .. Len(one) + Len(rest) :
                 r[b] = IF b <= Len(one) THEN one[b] ELSE rest[b - Len(one)]
      <4> DEFINE Batch == Seq(Message)
      <4>1. one \in Seq(Batch) /\ rest \in Seq(Batch) /\ r = one \o rest
        BY <2>4
      <4> HIDE DEF Batch
      <4>2. r \in Seq(Batch) /\ Len(r) = Len(one) + Len(rest)
            /\ \A b \in 1 .. Len(one) + Len(rest) :
                   r[b] = IF b <= Len(one) THEN one[b] ELSE rest[b - Len(one)]
        BY ONLY <4>1, Joined
      <4> QED
        BY <4>2 DEF Batch
    <3>2. Len(one) + Len(rest) = Len(q) /\ Len(r) = Len(q)
      BY ONLY <1>1, <2>4, <3>1
    <3>3. r[1] = u
      BY <1>1, <2>4, <3>1, <3>2
    <3>4. ASSUME NEW b \in 2 .. Len(q) PROVE r[b] = rest[b - 1]
      <4>1. b \in 1 .. Len(one) + Len(rest) /\ ~(b <= Len(one)) /\ b - Len(one) = b - 1
        BY <1>1, <2>4, <3>2
      <4> QED
        BY ONLY <3>1, <4>1
    <3> QED
      BY <3>1, <3>2, <3>3, <3>4
  <2>6. ASSUME NEW b \in 2 .. Len(q) PROVE rest[b - 1] = q[b]
    <3>1. b - 1 \in 1 .. Len(q) - 1 /\ b - 1 + 1 = b
      BY <1>1
    <3> QED
      BY <2>1, <3>1 DEF rest
  <2>7. r # <<>>
    BY <1>1, <2>5
  <2> QED
    BY <2>5, <2>6, <2>7
<1> HIDE DEF u
<1>5. ASSUME NEW b \in 1 .. Len(q)
      PROVE  /\ r[b] \in Seq(Message)
             /\ \A n \in 1 .. Len(r[b]) : \E k \in 1 .. Len(q[b]) :
                    q[b][k] = r[b][n] /\ (b = 1 => k = n + 1) /\ (b # 1 => k = n)
  <2>1. CASE b = 1
    BY <1>1, <1>2, <1>3, <1>4, <2>1
  <2>2. CASE b # 1
    <3>1. b \in 2 .. Len(q) /\ r[b] = q[b]
      BY <1>1, <1>4, <2>2
    <3> QED
      BY <2>2, <3>1
  <2> QED
    BY <2>1, <2>2
<1>6. \A b \in 1 .. Len(q) : Increasing(r[b]) /\ Precedes(r[b], s)
  <2> SUFFICES ASSUME NEW b \in 1 .. Len(q) PROVE Increasing(r[b]) /\ Precedes(r[b], s)
    OBVIOUS
  <2>1. Increasing(q[b]) /\ Precedes(q[b], s)
    BY DEF InOrder
  <2>2. Precedes(r[b], s)
    <3>1. ASSUME NEW i \in 1 .. Len(r[b]), NEW j \in 1 .. Len(s) PROVE r[b][i].number < s[j].number
      <4>1. PICK k \in 1 .. Len(q[b]) : q[b][k] = r[b][i]
        BY <1>5
      <4> QED
        BY <2>1, <4>1 DEF Precedes
    <3> QED
      BY <3>1 DEF Precedes
  <2>3. ASSUME NEW i \in 1 .. Len(r[b]), NEW j \in 1 .. Len(r[b]), i < j
        PROVE  r[b][i].number < r[b][j].number
    <3>1. PICK k \in 1 .. Len(q[b]) : q[b][k] = r[b][i] /\ (b = 1 => k = i + 1) /\ (b # 1 => k = i)
      BY <1>5
    <3>2. PICK l \in 1 .. Len(q[b]) : q[b][l] = r[b][j] /\ (b = 1 => l = j + 1) /\ (b # 1 => l = j)
      BY <1>5
    <3>3. k < l
      BY <2>3, <3>1, <3>2
    <3> QED
      BY <2>1, <3>1, <3>2, <3>3 DEF Increasing
  <2> QED
    BY <2>2, <2>3 DEF Increasing
<1>7. ASSUME NEW b \in 1 .. Len(q), NEW c \in 1 .. Len(q), b < c PROVE Precedes(r[b], r[c])
  <2>1. Precedes(q[b], q[c])
    BY <1>7 DEF InOrder
  <2>2. ASSUME NEW i \in 1 .. Len(r[b]), NEW j \in 1 .. Len(r[c])
        PROVE  r[b][i].number < r[c][j].number
    BY <1>5, <2>1 DEF Precedes
  <2> QED
    BY <2>2 DEF Precedes
<1>8. InOrder(r, s)
  BY <1>4, <1>6, <1>7 DEF InOrder
<1> DEFINE x == Head(Head(q))
<1>9. x = q[1][1] /\ Holds(q, s, x)
      /\ \A m : Holds(q, s, m) => m = x \/ x.number < m.number
  BY <1>1, <1>2, FirstHeld
<1>10. ASSUME NEW m, Holds(r, s, m) PROVE Holds(q, s, m)
  <2>1. ASSUME NEW b \in 1 .. Len(q), NEW n \in 1 .. Len(r[b]), r[b][n] = m
        PROVE  Holds(q, s, m)
    <3>1. \E k \in 1 .. Len(q[b]) : q[b][k] = m
      BY <1>5, <2>1
    <3> QED
      BY <3>1 DEF Holds
  <2> QED
    BY <1>4, <1>10, <2>1 DEF Holds
<1>11. ~Holds(r, s, x)
  <2> SUFFICES ASSUME Holds(r, s, x) PROVE FALSE
    OBVIOUS
  <2>0. x.number \in Nat
    BY <1>2, <1>9 DEF Message
  <2> HIDE DEF x
  <2>1. ASSUME NEW n \in 1 .. Len(s), s[n] = x PROVE FALSE
    <3>1. Precedes(q[1], s)
      BY <1>1 DEF InOrder
    <3> QED
      BY <1>2, <1>9, <2>0, <2>1, <3>1 DEF Precedes
  <2>2. ASSUME NEW b \in 1 .. Len(q), NEW n \in 1 .. Len(r[b]), r[b][n] = x PROVE FALSE
    <3>1. PICK k \in 1 .. Len(q[b]) : q[b][k] = r[b][n] /\ (b = 1 => k = n + 1) /\ (b # 1 => k = n)
      BY <1>5
    <3>2. CASE b = 1
      <4>1. 1 < k /\ q[1][k] = x
        BY <2>2, <3>1, <3>2
      <4> QED
        BY <1>1, <1>2, <1>9, <2>0, <3>1, <3>2, <4>1 DEF InOrder, Increasing
    <3>3. CASE b # 1
      <4>1. 1 < b /\ q[b][k] = x
        BY <2>2, <3>1, <3>3
      <4> QED
        BY <1>1, <1>2, <1>9, <2>0, <3>1, <4>1 DEF InOrder, Precedes
    <3> QED
      BY <3>2, <3>3
  <2> QED
    BY <1>4, <2>1, <2>2 DEF Holds
<1>12. ASSUME NEW m, Holds(q, s, m), m # x PROVE Holds(r, s, m)
  <2> HIDE DEF x
  <2>1. ASSUME NEW b \in 1 .. Len(q), NEW n \in 1 .. Len(q[b]), q[b][n] = m
        PROVE  \E k \in 1 .. Len(r[b]) : r[b][k] = m
    <3>1. CASE b = 1
      <4>1. n # 1
        BY <1>9, <1>12, <2>1, <3>1
      <4>2. n - 1 \in 1 .. Len(u) /\ n - 1 + 1 = n
        BY <1>1, <1>3, <2>1, <3>1, <4>1
      <4>3. u[n - 1] = q[1][n]
        BY <1>3, <4>2
      <4> QED
        BY <1>4, <2>1, <3>1, <4>2, <4>3
    <3>2. CASE b # 1
      <4>1. b \in 2 .. Len(q)
        BY <1>1, <3>2
      <4> QED
        BY <1>4, <2>1, <4>1
    <3> QED
      BY <3>1, <3>2
  <2> QED
    BY <1>4, <1>12, <2>1 DEF Holds
<1> QED
  BY <1>4, <1>8, <1>10, <1>11, <1>12

\* A batch is given up, or ends: what is held is no more, and the same if it was empty.
LEMMA BatchGone ==
    ASSUME NEW q \in Seq(Seq(Message)), NEW s \in Seq(Message), InOrder(q, s), q # <<>>,
           NEW r, r = Tail(q)
    PROVE  /\ r \in Seq(Seq(Message)) /\ InOrder(r, s)
           /\ \A m : Holds(r, s, m) => Holds(q, s, m)
           /\ Head(q) = <<>> => \A m : Holds(r, s, m) <=> Holds(q, s, m)
<1>1. r \in Seq(Seq(Message)) /\ Len(r) = Len(q) - 1 /\ Len(q) \in Nat /\ Head(q) = q[1]
      /\ \A b \in 1 .. Len(r) : b + 1 \in 1 .. Len(q) /\ r[b] = q[b + 1]
  OBVIOUS
<1>2. InOrder(r, s)
  <2>1. \A b \in 1 .. Len(r) : Increasing(r[b]) /\ Precedes(r[b], s)
    BY <1>1 DEF InOrder
  <2>2. \A b, c \in 1 .. Len(r) : b < c => b + 1 < c + 1
    BY <1>1
  <2>3. \A b, c \in 1 .. Len(r) : b < c => Precedes(r[b], r[c])
    BY <1>1, <2>2 DEF InOrder
  <2> QED
    BY <2>1, <2>3 DEF InOrder
<1>3. ASSUME NEW m, Holds(r, s, m) PROVE Holds(q, s, m)
  <2>1. ASSUME NEW b \in 1 .. Len(r), NEW n \in 1 .. Len(r[b]), r[b][n] = m
        PROVE  Holds(q, s, m)
    BY <1>1, <2>1 DEF Holds
  <2> QED
    BY <1>3, <2>1 DEF Holds
<1>4. ASSUME Head(q) = <<>>, NEW m, Holds(q, s, m) PROVE Holds(r, s, m)
  <2>1. ASSUME NEW b \in 1 .. Len(q), NEW n \in 1 .. Len(q[b]), q[b][n] = m
        PROVE  Holds(r, s, m)
    <3>1. b # 1
      BY <1>1, <1>4, <2>1
    <3>2. b - 1 \in 1 .. Len(r) /\ b - 1 + 1 = b
      BY <1>1, <3>1
    <3>3. r[b - 1] = q[b]
      BY <1>1, <3>2
    <3> QED
      BY <2>1, <3>2, <3>3 DEF Holds
  <2> QED
    BY <1>4, <2>1 DEF Holds
<1> QED
  BY <1>1, <1>2, <1>3, <1>4

\* The buffer becomes the only batch.
LEMMA BufferGiven ==
    ASSUME NEW s \in Seq(Message), Increasing(s)
    PROVE  /\ <<s>> \in Seq(Seq(Message)) /\ InOrder(<<s>>, <<>>)
           /\ \A m : Holds(<<s>>, <<>>, m) <=> Holds(<<>>, s, m)
<1> DEFINE q == <<s>>
<1>1. q \in Seq(Seq(Message)) /\ Len(q) = 1 /\ q[1] = s
  OBVIOUS
<1>2. <<>> \in Seq(Message) /\ Len(<<>>) = 0 /\ <<>> \in Seq(Seq(Message))
  OBVIOUS
<1> HIDE DEF q
<1>3. InOrder(q, <<>>)
  BY <1>1, <1>2 DEF InOrder, Increasing, Precedes
<1>4. \A m : Holds(q, <<>>, m) <=> Holds(<<>>, s, m)
  BY <1>1, <1>2 DEF Holds
<1> QED
  BY <1>1, <1>3, <1>4 DEF q

\* What one or two batches and a buffer hold.
LEMMA FewHold ==
    ASSUME NEW r, NEW u, NEW m, Len(r) \in {1, 2}
    PROVE  Holds(r, u, m) <=> \/ \E n \in 1 .. Len(u) : u[n] = m
                              \/ \E n \in 1 .. Len(r[1]) : r[1][n] = m
                              \/ Len(r) = 2 /\ \E n \in 1 .. Len(r[2]) : r[2][n] = m
<1> DEFINE In(b) == \E n \in 1 .. Len(r[b]) : r[b][n] = m
<1>1. Holds(r, u, m) <=> (\E n \in 1 .. Len(u) : u[n] = m) \/ \E b \in 1 .. Len(r) : In(b)
  BY DEF Holds
<1> HIDE DEF In
<1>2. (\E b \in 1 .. Len(r) : In(b)) <=> In(1) \/ (Len(r) = 2 /\ In(2))
  <2>1. Len(r) = 1 => 1 .. Len(r) = {1}
    OBVIOUS
  <2>2. Len(r) = 2 => 1 .. Len(r) = {1, 2}
    OBVIOUS
  <2> QED
    BY <2>1, <2>2
<1> QED
  BY <1>1, <1>2 DEF In

\* An element more at the end.
LEMMA Appended ==
    ASSUME NEW S, NEW a \in Seq(S), NEW e \in S
    PROVE  /\ Append(a, e) \in Seq(S) /\ Len(Append(a, e)) = Len(a) + 1
           /\ Append(a, e)[Len(a) + 1] = e
           /\ \A k \in 1 .. Len(a) : Append(a, e)[k] = a[k]
OBVIOUS

\* A message is added: to the buffer, after it was given up, or as a batch of its own.
LEMMA MessageAdded ==
    ASSUME NEW s \in Seq(Message), InOrder(<<>>, s), NEW x \in Message,
           \A m : Holds(<<>>, s, m) => m.number < x.number,
           NEW r, NEW u,
           LET given == IF s = <<>> THEN <<>> ELSE <<s>>
           IN  \/ r = <<>> /\ u = Append(s, x)
               \/ r = given /\ u = <<x>>
               \/ r = Append(given, <<x>>) /\ u = <<>>
    PROVE  InOrder(r, u) /\ \A m : Holds(r, u, m) <=> Holds(<<>>, s, m) \/ m = x
<1> DEFINE one == <<x>>
<1>1. one \in Seq(Message) /\ Len(one) = 1 /\ one[1] = x
  OBVIOUS
<1>2. Len(<<>>) = 0
  OBVIOUS
<1>3. \A n \in 1 .. Len(s) : s[n].number < x.number
  BY DEF Holds
<1>4. Increasing(s) /\ Increasing(one) /\ Increasing(<<>>) /\ Precedes(s, one)
      /\ \A v : Precedes(v, <<>>)
  BY <1>1, <1>2, <1>3 DEF InOrder, Increasing, Precedes
<1>held. /\ \A m : Holds(<<>>, s, m) <=> \E n \in 1 .. Len(s) : s[n] = m
         /\ \A m : (\E n \in 1 .. Len(one) : one[n] = m) <=> m = x
  BY <1>1, <1>2 DEF Holds
<1>5. CASE r = <<>> /\ u = Append(s, x)
  <2>1. Len(u) = Len(s) + 1 /\ u[Len(s) + 1] = x /\ \A n \in 1 .. Len(s) : u[n] = s[n]
        /\ Len(s) \in Nat
    BY <1>5
  <2>2. Increasing(u)
    BY <1>3, <1>4, <2>1 DEF Increasing
  <2>3. InOrder(r, u)
    BY <1>2, <1>5, <2>2 DEF InOrder
  <2>4. \A m : Holds(r, u, m) <=> Holds(<<>>, s, m) \/ m = x
    BY <1>2, <1>5, <2>1 DEF Holds
  <2> QED
    BY <2>3, <2>4
<1>6. CASE s = <<>> /\ r = <<>> /\ u = one
  BY <1>1, <1>2, <1>4, <1>6 DEF InOrder, Holds
<1>7. CASE s # <<>> /\ r = <<s>> /\ u = one
  <2>1. Len(r) = 1 /\ r[1] = s
    BY <1>7
  <2> HIDE DEF one
  <2>2. InOrder(r, u)
    BY <1>4, <1>7, <2>1 DEF InOrder
  <2>3. \A m : Holds(r, u, m) <=> Holds(<<>>, s, m) \/ m = x
    <3>1. \A m : Holds(r, u, m) <=> \/ \E n \in 1 .. Len(one) : one[n] = m
                                    \/ \E n \in 1 .. Len(s) : s[n] = m
      BY <1>7, <2>1, FewHold
    <3> QED
      BY <1>held, <3>1
  <2> QED
    BY <2>2, <2>3
<1>8. CASE s = <<>> /\ r = <<one>> /\ u = <<>>
  <2>1. Len(r) = 1 /\ r[1] = one
    BY <1>8
  <2> HIDE DEF one
  <2> QED
    BY <1>1, <1>2, <1>4, <1>8, <2>1 DEF InOrder, Holds
<1>9. CASE s # <<>> /\ r = Append(<<s>>, one) /\ u = <<>>
  <2> HIDE DEF one
  <2> DEFINE given == <<s>>
  <2>0. given \in Seq(Seq(Message)) /\ Len(given) = 1 /\ given[1] = s
    OBVIOUS
  <2>1. Len(r) = 2 /\ r[1] = s /\ r[2] = one
    <3> DEFINE Batch == Seq(Message)
    <3>1. r = Append(given, one) /\ given \in Seq(Batch) /\ one \in Batch
      BY <1>1, <1>9, <2>0
    <3> HIDE DEF given, Batch
    <3>2. Len(r) = Len(given) + 1 /\ r[Len(given) + 1] = one
          /\ \A k \in 1 .. Len(given) : r[k] = given[k]
      BY ONLY <3>1, Appended
    <3> QED
      BY <2>0, <3>2
  <2>2. InOrder(r, u)
    BY <1>4, <1>9, <2>1 DEF InOrder
  <2>3. \A m : Holds(r, u, m) <=> Holds(<<>>, s, m) \/ m = x
    <3>0. \A m : Holds(r, u, m) <=> \/ \E n \in 1 .. Len(u) : u[n] = m
                                    \/ \E n \in 1 .. Len(s) : s[n] = m
                                    \/ \E n \in 1 .. Len(one) : one[n] = m
      BY ONLY <2>1, FewHold
    <3>1. \A m : Holds(r, u, m) <=> \/ \E n \in 1 .. Len(s) : s[n] = m
                                    \/ \E n \in 1 .. Len(one) : one[n] = m
      BY <1>2, <1>9, <3>0
    <3> QED
      BY <1>held, <3>1
  <2> QED
    BY <2>2, <2>3
<1>10. Append(<<>>, one) = <<one>>
  OBVIOUS
<1> QED
  BY <1>5, <1>6, <1>7, <1>8, <1>9, <1>10

\* A thread's messages that wait, now and after a step.
LEMMA WaitingHolds ==
    ASSUME WritesInv, NEW t \in Loggers, NEW m
    PROVE  m \in L!Waiting(t) <=> Holds(batches[t], buffer[t], m)
<1>1. batches[t] \in Seq(Seq(Message)) /\ buffer[t] \in Seq(Message)
  BY DEF WritesInv
<1>2. L!Waiting(t) = HeldBy(batches[t], buffer[t])
  BY Zenon DEF L!Waiting, HeldBy
<1> QED
  BY <1>1, <1>2, WaitingMeans

LEMMA WaitingHoldsNext ==
    ASSUME WritesInv', NEW t \in Loggers, NEW m
    PROVE  m \in L!Waiting(t)' <=> Holds(batches'[t], buffer'[t], m)
<1>1. batches'[t] \in Seq(Seq(Message)) /\ buffer'[t] \in Seq(Message)
  BY DEF WritesInv
<1>2. L!Waiting(t)' = HeldBy(batches'[t], buffer'[t])
  BY Zenon DEF L!Waiting, HeldBy
<1> QED
  BY <1>1, <1>2, WaitingMeans

\* A step takes no more than the first message of what a thread holds, or drops some.
LEMMA HeldChanges ==
    ASSUME WritesInv, WritesInv', HeldInv, NEW t \in Loggers, logged' = logged,
           \A u \in Loggers \ {t} : batches'[u] = batches[u] /\ buffer'[u] = buffer[u],
           InOrder(batches'[t], buffer'[t]),
           \A m : Holds(batches'[t], buffer'[t], m) => Holds(batches[t], buffer[t], m),
           dropped => dropped',
           NEW x, x.number \in Nat,
           ~dropped' => \A m : Holds(batches[t], buffer[t], m) /\ ~Holds(batches'[t], buffer'[t], m) =>
               m = x /\ \A k : Holds(batches'[t], buffer'[t], k) => x.number < k.number
    PROVE  HeldInv' /\ \A u \in Loggers \ {t} : L!Waiting(u)' = L!Waiting(u)
<1>1. ASSUME NEW u \in Loggers \ {t} PROVE L!Waiting(u)' = L!Waiting(u)
  BY <1>1, Zenon DEF L!Waiting
<1>2. ASSUME NEW u \in Loggers
      PROVE  \A n \in 1 .. Len(logged'[u]) : logged'[u][n].by = u /\ logged'[u][n].number = n
  BY DEF HeldInv
<1>3. ASSUME NEW u \in Loggers PROVE InOrder(batches'[u], buffer'[u])
  BY DEF HeldInv
<1>4. ASSUME NEW u \in Loggers, NEW m \in L!Waiting(u)' PROVE m \in L!Waiting(u)
  BY <1>1, <1>4, WaitingHolds, WaitingHoldsNext
<1>5. ASSUME NEW u \in Loggers, NEW m \in L!Waiting(u)'
      PROVE  \E n \in 1 .. Len(logged'[u]) : logged'[u][n] = m
  BY <1>4, <1>5 DEF HeldInv
<1>6. ASSUME NEW u \in Loggers, ~dropped', NEW m \in L!Waiting(u)',
             NEW n \in 1 .. Len(logged'[u]), m.number <= n
      PROVE  logged'[u][n] \in L!Waiting(u)'
  <2>1. logged[u][n] \in L!Waiting(u) /\ logged[u][n].number = n
    BY <1>4, <1>6 DEF HeldInv
  <2>2. CASE u # t
    BY <1>1, <2>1, <2>2
  <2>3. CASE u = t
    <3> SUFFICES ASSUME logged[t][n] \notin L!Waiting(t)' PROVE FALSE
      BY <2>3
    <3>1. Holds(batches[t], buffer[t], logged[t][n])
          /\ ~Holds(batches'[t], buffer'[t], logged[t][n])
      BY <2>1, <2>3, WaitingHolds, WaitingHoldsNext
    <3>2. Holds(batches'[t], buffer'[t], m)
      BY <1>6, <2>3, WaitingHoldsNext
    <3>3. x = logged[t][n] /\ x.number < m.number
      BY <1>6, <3>1, <3>2
    <3>4. x.number = n
      BY <2>1, <2>3, <3>3
    <3>5. m.number \in Nat
      <4>1. PICK k \in 1 .. Len(logged[t]) : logged[t][k] = m
        BY <1>4, <1>6, <2>3 DEF HeldInv
      <4> QED
        BY <2>3, <4>1 DEF HeldInv
    <3> QED
      BY <1>6, <3>3, <3>4, <3>5
  <2> QED
    BY <2>2, <2>3
<1> QED
  BY <1>1, <1>2, <1>3, <1>5, <1>6 DEF HeldInv

\* What waits of a thread that logs is a message more.
LEMMA LogHeld ==
    ASSUME WritesInv, WritesInv', HeldInv, NEW t \in Loggers, NEW level \in Levels,
           NEW size \in Sizes, L!Log(t, level, size)
    PROVE  /\ HeldInv'
           /\ \A u \in Loggers \ {t} : L!Waiting(u)' = L!Waiting(u)
           /\ \E x : /\ logged' = [logged EXCEPT ![t] = Append(@, x)]
                     /\ x.number = Len(logged[t]) + 1
                     /\ L!Waiting(t)' = L!Waiting(t) \union {x}
<1> DEFINE x == [by |-> t, number |-> Len(logged[t]) + 1, level |-> level, size |-> size]
<1>0. /\ batches[t] \in Seq(Seq(Message)) /\ buffer[t] \in Seq(Message)
      /\ logged[t] \in Seq(Message) /\ Len(logged[t]) \in Nat
  BY DEF WritesInv
<1>1. /\ logged' = [logged EXCEPT ![t] = Append(@, x)] /\ batches[t] = <<>> /\ dropped' = dropped
      /\ \A u \in Loggers \ {t} : batches'[u] = batches[u] /\ buffer'[u] = buffer[u]
      /\ \/ batches'[t] = <<>> /\ buffer'[t] = Append(buffer[t], x)
         \/ batches'[t] = L!Flushed(t) /\ buffer'[t] = <<x>>
         \/ batches'[t] = Append(L!Flushed(t), <<x>>) /\ buffer'[t] = <<>>
  BY DEF L!Log, L!IsIdle, WritesInv
<1>2. x \in Message /\ x.by = t /\ x.number = Len(logged[t]) + 1
  BY <1>0 DEF Message
<1> HIDE DEF x
<1> DEFINE s == buffer[t]
<1>3. InOrder(<<>>, s)
  BY <1>1 DEF HeldInv
<1>4. ASSUME NEW m, Holds(<<>>, s, m) PROVE m.number < x.number
  <2>1. m \in L!Waiting(t)
    BY <1>1, <1>4, WaitingHolds
  <2> QED
    BY <1>2, <2>1 DEF HeldInv
<1>5. /\ InOrder(batches'[t], buffer'[t])
      /\ \A m : Holds(batches'[t], buffer'[t], m) <=> Holds(<<>>, s, m) \/ m = x
  BY <1>0, <1>1, <1>2, <1>3, <1>4, MessageAdded DEF L!Flushed
<1>6. \A m : m \in L!Waiting(t)' <=> m \in L!Waiting(t) \/ m = x
  BY <1>1, <1>5, WaitingHolds, WaitingHoldsNext
<1>7. ASSUME NEW u \in Loggers \ {t} PROVE L!Waiting(u)' = L!Waiting(u)
  BY <1>1, <1>7, Zenon DEF L!Waiting
<1>8. /\ logged'[t] = Append(logged[t], x) /\ Len(logged'[t]) = Len(logged[t]) + 1
      /\ logged'[t][Len(logged[t]) + 1] = x
      /\ \A n \in 1 .. Len(logged[t]) : logged'[t][n] = logged[t][n]
      /\ \A u \in Loggers \ {t} : logged'[u] = logged[u]
  BY <1>0, <1>1, <1>2 DEF WritesInv
<1>9. ASSUME NEW u \in Loggers
      PROVE  \A n \in 1 .. Len(logged'[u]) : logged'[u][n].by = u /\ logged'[u][n].number = n
  <2>1. CASE u # t
    BY <1>8, <2>1 DEF HeldInv
  <2>2. ASSUME u = t, NEW n \in 1 .. Len(logged'[t])
        PROVE  logged'[t][n].by = t /\ logged'[t][n].number = n
    <3>1. CASE n = Len(logged[t]) + 1
      BY <1>2, <1>8, <3>1
    <3>2. CASE n # Len(logged[t]) + 1
      <4>1. n \in 1 .. Len(logged[t])
        BY <1>0, <1>8, <3>2
      <4> QED
        BY <1>8, <4>1 DEF HeldInv
    <3> QED
      BY <3>1, <3>2
  <2> QED
    BY <2>1, <2>2
<1>10. ASSUME NEW u \in Loggers PROVE InOrder(batches'[u], buffer'[u])
  BY <1>1, <1>5 DEF HeldInv
<1>11. ASSUME NEW u \in Loggers, NEW m \in L!Waiting(u)'
       PROVE  \E n \in 1 .. Len(logged'[u]) : logged'[u][n] = m
  <2>1. CASE u # t
    BY <1>7, <1>8, <1>11, <2>1 DEF HeldInv
  <2>2. CASE u = t /\ m = x
    BY <1>0, <1>8, <2>2
  <2>3. CASE u = t /\ m # x
    <3>1. PICK n \in 1 .. Len(logged[t]) : logged[t][n] = m
      BY <1>6, <1>11, <2>3 DEF HeldInv
    <3>2. n \in 1 .. Len(logged'[t]) /\ logged'[t][n] = m
      BY <1>0, <1>8, <3>1
    <3> QED
      BY <2>3, <3>2
  <2> QED
    BY <2>1, <2>2, <2>3
<1>12. ASSUME NEW u \in Loggers, ~dropped', NEW m \in L!Waiting(u)',
              NEW n \in 1 .. Len(logged'[u]), m.number <= n
       PROVE  logged'[u][n] \in L!Waiting(u)'
  <2>1. CASE u # t
    BY <1>1, <1>7, <1>8, <1>12, <2>1 DEF HeldInv
  <2>2. CASE u = t /\ n = Len(logged[t]) + 1
    BY <1>6, <1>8, <2>2
  <2>3. CASE u = t /\ n # Len(logged[t]) + 1
    <3>1. n \in 1 .. Len(logged[t]) /\ logged'[t][n] = logged[t][n]
      BY <1>0, <1>8, <2>3
    <3>2. m # x
      BY <1>0, <1>2, <1>12, <3>1
    <3>3. m \in L!Waiting(t)
      BY <1>6, <1>12, <2>3, <3>2
    <3> QED
      BY <1>1, <1>6, <1>12, <2>3, <3>1, <3>3 DEF HeldInv
  <2> QED
    BY <2>1, <2>2, <2>3
<1>13. HeldInv'
  BY <1>9, <1>10, <1>11, <1>12 DEF HeldInv
<1>14. L!Waiting(t)' = L!Waiting(t) \union {x}
  BY <1>6
<1> QED
  BY <1>1, <1>2, <1>7, <1>13, <1>14

\* The line that is written next is the first that waits.
LEMMA LineIsFirst ==
    ASSUME WritesInv, HeldInv, NEW t \in Loggers, batches[t] # <<>>, Head(batches[t]) # <<>>
    PROVE  /\ L!Line(t) \in L!Waiting(t) /\ L!Line(t) \in Message /\ L!Line(t).by = t
           /\ \A m \in L!Waiting(t) : m = L!Line(t) \/ L!Line(t).number < m.number
           /\ \E n \in 1 .. Len(logged[t]) : logged[t][n] = L!Line(t)
<1>1. batches[t] \in Seq(Seq(Message)) /\ buffer[t] \in Seq(Message)
      /\ InOrder(batches[t], buffer[t])
  BY DEF WritesInv, HeldInv
<1>2. /\ Holds(batches[t], buffer[t], L!Line(t)) /\ L!Line(t) \in Message
      /\ \A m : Holds(batches[t], buffer[t], m) => m = L!Line(t) \/ L!Line(t).number < m.number
  BY <1>1, FirstHeld DEF L!Line
<1>3. L!Line(t) \in L!Waiting(t)
  BY <1>2, WaitingHolds
<1>4. \E n \in 1 .. Len(logged[t]) : logged[t][n] = L!Line(t) /\ logged[t][n].by = t
  BY <1>3 DEF HeldInv
<1> QED
  BY <1>2, <1>3, <1>4, WaitingHolds

\* The newline takes the line from what waits.
LEMMA NewlineHeld ==
    ASSUME WritesInv, WritesInv', HeldInv, NEW t \in Loggers, L!WriteNewline(t)
    PROVE  /\ HeldInv'
           /\ \A u \in Loggers \ {t} : L!Waiting(u)' = L!Waiting(u)
           /\ L!Waiting(t)' = L!Waiting(t) \ {L!Line(t)}
<1>1. /\ batches[t] \in Seq(Seq(Message)) /\ buffer[t] \in Seq(Message)
      /\ InOrder(batches[t], buffer[t]) /\ batches[t] # <<>> /\ Head(batches[t]) # <<>>
  BY DEF WritesInv, HeldInv, L!WriteNewline
<1>2. /\ batches'[t] = <<Tail(Head(batches[t]))>> \o Tail(batches[t])
      /\ \A u \in Loggers \ {t} : batches'[u] = batches[u] /\ buffer'[u] = buffer[u]
      /\ buffer'[t] = buffer[t] /\ logged' = logged /\ dropped' = dropped
  BY DEF L!WriteNewline, WritesInv
<1>3. /\ InOrder(batches'[t], buffer'[t])
      /\ \A m : Holds(batches'[t], buffer'[t], m) <=>
                Holds(batches[t], buffer[t], m) /\ m # L!Line(t)
  BY <1>1, <1>2, LineGone DEF L!Line
<1>4. L!Line(t).number \in Nat
      /\ \A m : Holds(batches[t], buffer[t], m) => m = L!Line(t) \/ L!Line(t).number < m.number
  BY <1>1, LineIsFirst, WaitingHolds DEF Message
<1>5. HeldInv' /\ \A u \in Loggers \ {t} : L!Waiting(u)' = L!Waiting(u)
  BY <1>2, <1>3, <1>4, HeldChanges
<1>6. \A m : m \in L!Waiting(t)' <=> m \in L!Waiting(t) /\ m # L!Line(t)
  BY <1>3, WaitingHolds, WaitingHoldsNext
<1> QED
  BY <1>5, <1>6

\* A flush, and the end of a batch, change what waits for nobody.
LEMMA BatchHeld ==
    ASSUME WritesInv, WritesInv', HeldInv, NEW t \in Loggers, L!Flush(t) \/ L!WriteEnds(t)
    PROVE  HeldInv' /\ \A u \in Loggers : L!Waiting(u)' = L!Waiting(u)
<1>1. /\ batches[t] \in Seq(Seq(Message)) /\ buffer[t] \in Seq(Message)
      /\ InOrder(batches[t], buffer[t])
  BY DEF WritesInv, HeldInv
<1>2. /\ \A u \in Loggers \ {t} : batches'[u] = batches[u] /\ buffer'[u] = buffer[u]
      /\ logged' = logged /\ dropped' = dropped
  BY DEF L!Flush, L!WriteEnds, WritesInv
<1>3. /\ InOrder(batches'[t], buffer'[t])
      /\ \A m : Holds(batches'[t], buffer'[t], m) <=> Holds(batches[t], buffer[t], m)
  <2>1. CASE L!Flush(t)
    <3>1. batches[t] = <<>> /\ batches'[t] = <<buffer[t]>> /\ buffer'[t] = <<>>
      BY <2>1 DEF L!Flush, L!IsIdle, L!Flushed, WritesInv
    <3>2. Increasing(buffer[t])
      BY <1>1 DEF InOrder
    <3> QED
      BY <1>1, <3>1, <3>2, BufferGiven
  <2>2. CASE L!WriteEnds(t)
    <3>1. /\ batches'[t] = Tail(batches[t]) /\ buffer'[t] = buffer[t]
          /\ batches[t] # <<>> /\ Head(batches[t]) = <<>>
      BY <2>2 DEF L!WriteEnds, WritesInv
    <3> QED
      BY <1>1, <3>1, BatchGone
  <2> QED
    BY <2>1, <2>2
<1>4. HeldInv' /\ \A u \in Loggers \ {t} : L!Waiting(u)' = L!Waiting(u)
  <2> DEFINE x == [number |-> 0]
  <2>1. x.number \in Nat
    OBVIOUS
  <2> HIDE DEF x
  <2> QED
    BY <1>2, <1>3, <2>1, HeldChanges
<1>5. \A m : m \in L!Waiting(t)' <=> m \in L!Waiting(t)
  BY <1>3, WaitingHolds, WaitingHoldsNext
<1> QED
  BY <1>4, <1>5

\* A call that fails drops a batch.
LEMMA FailedHeld ==
    ASSUME WritesInv, WritesInv', HeldInv, NEW t \in Loggers, L!WriteFails(t)
    PROVE  HeldInv' /\ \A u \in Loggers : \A m : m \in L!Waiting(u)' => m \in L!Waiting(u)
<1>1. /\ batches[t] \in Seq(Seq(Message)) /\ buffer[t] \in Seq(Message)
      /\ InOrder(batches[t], buffer[t]) /\ batches[t] # <<>>
  BY DEF WritesInv, HeldInv, L!WriteFails
<1>2. /\ batches'[t] = Tail(batches[t]) /\ buffer'[t] = buffer[t]
      /\ \A u \in Loggers \ {t} : batches'[u] = batches[u] /\ buffer'[u] = buffer[u]
      /\ logged' = logged /\ dropped'
  BY DEF L!WriteFails, WritesInv
<1>3. /\ InOrder(batches'[t], buffer'[t])
      /\ \A m : Holds(batches'[t], buffer'[t], m) => Holds(batches[t], buffer[t], m)
  BY <1>1, <1>2, BatchGone
<1>4. HeldInv' /\ \A u \in Loggers \ {t} : L!Waiting(u)' = L!Waiting(u)
  <2> DEFINE x == [number |-> 0]
  <2>1. x.number \in Nat
    OBVIOUS
  <2> HIDE DEF x
  <2> QED
    BY <1>2, <1>3, <2>1, HeldChanges
<1>5. \A m : m \in L!Waiting(t)' => m \in L!Waiting(t)
  BY <1>3, WaitingHolds, WaitingHoldsNext
<1> QED
  BY <1>4, <1>5

\* Nothing of it changes with another's variables, with text or with the mutex.
LEMMA HeldStays ==
    ASSUME HeldInv, UNCHANGED <<batches, buffer, logged, dropped>>
    PROVE  HeldInv' /\ \A u \in Loggers : L!Waiting(u)' = L!Waiting(u)
<1>1. \A u \in Loggers : L!Waiting(u)' = L!Waiting(u)
  BY Zenon DEF L!Waiting
<1> QED
  BY <1>1 DEF HeldInv

-----------------------------------------------------------------------------
\* Nothing is written: the files are as they were, if no more waits.
LEMMA FilesStay ==
    ASSUME FilesInv, UNCHANGED <<files, out, text, logged>>,
           closed => closed', dropped => dropped',
           \A u \in Loggers : \A m : m \in L!Waiting(u)' => m \in L!Waiting(u),
           ~dropped' => \A u \in Loggers : L!Waiting(u)' = L!Waiting(u),
           \A u \in Loggers : text[u] => L!Line(u)' = L!Line(u),
           \A f \in files : \A n \in 1 .. Len(out[f]) :
               ~L!IsNewline(out[f][n]) => out[f][n].by \in Loggers
    PROVE  FilesInv'
<1> SUFFICES ASSUME NEW f \in files
             PROVE  LineInv(f)' /\ TurnsInv(f)' /\ AscendsInv(f)' /\ CompleteInv(f)'
  BY DEF FilesInv
<1>1. LineInv(f) /\ TurnsInv(f) /\ AscendsInv(f) /\ CompleteInv(f)
  BY DEF FilesInv
<1>2. \A u \in Loggers : Half(u, f)' <=> Half(u, f)
  BY DEF Half
<1>3. LineInv(f)'
  BY <1>1 DEF LineInv, IsLineOf, L!IsNewline
<1>4. TurnsInv(f)'
  BY <1>1, <1>2 DEF TurnsInv, L!IsNewline, Half
<1>5. AscendsInv(f)'
  BY <1>1 DEF AscendsInv, L!IsNewline
<1>6. CompleteInv(f)'
  BY <1>1 DEF CompleteInv, L!Written
<1> QED
  BY <1>3, <1>4, <1>5, <1>6

\* What a file holds: messages of loggers, and newlines.
LEMMA LinesAre ==
    ASSUME OutInv, NEW f \in files
    PROVE  /\ f \in DOMAIN Files /\ out[f] \in Seq(Message \union {L!Newline})
           /\ \A n \in 1 .. Len(out[f]) :
                  ~L!IsNewline(out[f][n]) => out[f][n] \in Message /\ out[f][n].by \in Loggers
           /\ L!IsNewline(L!Newline) /\ \A m \in Message : ~L!IsNewline(m)
<1>1. f \in DOMAIN Files /\ out[f] \in Seq(Message \union {L!Newline})
  BY DEF OutInv
<1>2. L!IsNewline(L!Newline)
  BY DEF L!IsNewline, L!Newline
<1>3. \A m \in Message : m.by \in Loggers /\ ~L!IsNewline(m)
  BY ActorsAssumption DEF Message, Loggers, L!IsNewline
<1>4. \A n \in 1 .. Len(out[f]) : out[f][n] \in Message \union {L!Newline}
  BY <1>1
<1> QED
  BY <1>1, <1>2, <1>3, <1>4

\* A message is logged: the files are as they were, and it waits.
LEMMA LogFiles ==
    ASSUME WritesInv, WritesInv', HeldInv, OutInv, FilesInv, NEW t \in Loggers,
           NEW level \in Levels, NEW size \in Sizes, L!Log(t, level, size)
    PROVE  FilesInv'
<1>1. PICK x : /\ logged' = [logged EXCEPT ![t] = Append(@, x)]
               /\ x.number = Len(logged[t]) + 1
               /\ L!Waiting(t)' = L!Waiting(t) \union {x}
  BY LogHeld
<1>2. \A u \in Loggers \ {t} : L!Waiting(u)' = L!Waiting(u)
  BY LogHeld
<1>3. /\ UNCHANGED <<files, out, text, closed, dropped>> /\ batches[t] = <<>>
      /\ \A u \in Loggers \ {t} : batches'[u] = batches[u]
  BY DEF L!Log, L!IsIdle, WritesInv
<1>4. /\ Len(logged'[t]) = Len(logged[t]) + 1 /\ logged'[t][Len(logged[t]) + 1] = x
      /\ \A n \in 1 .. Len(logged[t]) : logged'[t][n] = logged[t][n]
      /\ \A u \in Loggers \ {t} : logged'[u] = logged[u]
      /\ Len(logged[t]) \in Nat
  BY <1>1 DEF WritesInv
<1>5. ~text[t] /\ \A u \in Loggers : text[u] => L!Line(u)' = L!Line(u)
  BY <1>3 DEF WritesInv, L!Line
<1> SUFFICES ASSUME NEW f \in files
             PROVE  LineInv(f)' /\ TurnsInv(f)' /\ AscendsInv(f)' /\ CompleteInv(f)'
  BY <1>3 DEF FilesInv
<1>6. LineInv(f) /\ TurnsInv(f) /\ AscendsInv(f) /\ CompleteInv(f)
  BY DEF FilesInv
<1>7. LineInv(f)'
  <2>1. ASSUME NEW line, NEW v \in Loggers, IsLineOf(line, v, f) PROVE IsLineOf(line, v, f)'
    <3>1. PICK k \in 1 .. Len(logged[v]) : logged[v][k] = line
      BY <2>1 DEF IsLineOf
    <3>2. line.number = k
      BY <3>1 DEF HeldInv
    <3>3. k \in 1 .. Len(logged'[v]) /\ logged'[v][k] = line
      BY <1>4, <3>1
    <3>4. ASSUME NEW m \in L!Waiting(v)'
          PROVE  line.number < m.number \/ (text'[v] /\ line = L!Line(v)')
      <4>1. CASE m \in L!Waiting(v)
        <5>1. line.number < m.number \/ (text[v] /\ line = L!Line(v))
          BY <2>1, <4>1 DEF IsLineOf
        <5> QED
          BY <1>3, <1>5, <5>1
      <4>2. CASE v = t /\ m = x
        <5>1. k < Len(logged[t]) + 1
          BY <1>4, <3>1, <4>2
        <5> QED
          BY <1>1, <3>2, <4>2, <5>1
      <4> QED
        BY <1>1, <1>2, <3>4, <4>1, <4>2
    <3> QED
      BY <2>1, <3>3, <3>4 DEF IsLineOf
  <2> QED
    BY <1>3, <1>6, <2>1, LinesAre DEF LineInv, L!IsNewline
<1>8. TurnsInv(f)'
  <2>1. \A u \in Loggers : Half(u, f)' <=> Half(u, f)
    BY <1>3, <1>5 DEF Half
  <2> QED
    BY <1>3, <1>5, <1>6, <2>1 DEF TurnsInv, L!IsNewline, Half
<1>9. AscendsInv(f)'
  BY <1>3, <1>6 DEF AscendsInv, L!IsNewline
<1>10. CompleteInv(f)'
  <2> SUFFICES ASSUME ~dropped, ~closed, NEW u \in Loggers, NEW e \in 1 .. Len(logged'[u]),
                      NEW n \in 1 .. Len(logged'[u]), e <= n,
                      logged'[u][e].level \in Files[f], logged'[u][n].level \in Files[f],
                      logged'[u][e] \in L!Written(f) \union L!Waiting(u)'
               PROVE  logged'[u][n] \in L!Written(f) \union L!Waiting(u)'
    BY <1>3 DEF CompleteInv, L!Written
  <2>1. CASE u # t
    BY <1>2, <1>4, <1>6, <2>1 DEF CompleteInv
  <2>2. CASE u = t /\ n = Len(logged[t]) + 1
    BY <1>1, <1>4, <2>2
  <2>3. CASE u = t /\ n # Len(logged[t]) + 1
    <3>1. n \in 1 .. Len(logged[t]) /\ e \in 1 .. Len(logged[t])
      BY <1>4, <2>3
    <3>2. logged'[t][n] = logged[t][n] /\ logged'[t][e] = logged[t][e]
      BY <1>4, <3>1
    <3>3. logged[t][e].number = e
      BY <3>1 DEF HeldInv
    <3>4. logged[t][e] # x
      BY <1>1, <1>4, <3>1, <3>3
    <3>5. logged[t][e] \in L!Written(f) \union L!Waiting(t)
      BY <1>1, <2>3, <3>2, <3>4
    <3> QED
      BY <1>1, <1>6, <2>3, <3>1, <3>2, <3>5 DEF CompleteInv
  <2> QED
    BY <2>1, <2>2, <2>3
<1> QED
  BY <1>7, <1>8, <1>9, <1>10

\* A line more at the end of a file.
LEMMA EndsIn ==
    ASSUME NEW S, NEW a \in Seq(S), NEW x \in S
    PROVE  /\ Len(Append(a, x)) = Len(a) + 1 /\ Len(a) \in Nat /\ Append(a, x) # <<>>
           /\ Append(a, x)[Len(a) + 1] = x
           /\ \A k \in 1 .. Len(a) : Append(a, x)[k] = a[k]
           /\ a # <<>> => Len(a) \in 1 .. Len(a)
           /\ L!S!ToSet(Append(a, x)) = L!S!ToSet(a) \union {x}
<1>1. /\ Len(Append(a, x)) = Len(a) + 1 /\ Len(a) \in Nat /\ Append(a, x) # <<>>
      /\ Append(a, x)[Len(a) + 1] = x
      /\ \A k \in 1 .. Len(a) : Append(a, x)[k] = a[k]
      /\ a # <<>> => Len(a) \in 1 .. Len(a)
  <2>1. Append(a, x) \in Seq(S) /\ Len(Append(a, x)) = Len(a) + 1 /\ Len(a) \in Nat
        /\ Append(a, x)[Len(a) + 1] = x /\ \A k \in 1 .. Len(a) : Append(a, x)[k] = a[k]
    BY Appended
  <2>2. Append(a, x) # <<>>
    BY <2>1
  <2>3. a # <<>> => Len(a) \in 1 .. Len(a)
    OBVIOUS
  <2> QED
    BY <2>1, <2>2, <2>3
<1> DEFINE b == Append(a, x)
<1>2. DOMAIN a = 1 .. Len(a) /\ DOMAIN b = 1 .. Len(a) + 1
  OBVIOUS
<1> HIDE DEF b
<1>3. L!S!ToSet(b) = L!S!ToSet(a) \union {x}
  <2>1. ASSUME NEW k \in DOMAIN b PROVE b[k] \in L!S!ToSet(a) \union {x}
    <3>1. CASE k = Len(a) + 1
      BY <1>1, <3>1 DEF b
    <3>2. CASE k # Len(a) + 1
      <4>1. k \in DOMAIN a
        BY <1>1, <1>2, <3>2
      <4> QED
        BY <1>1, <1>2, <4>1 DEF b, L!S!ToSet
    <3> QED
      BY <3>1, <3>2
  <2>2. ASSUME NEW k \in DOMAIN a PROVE k \in DOMAIN b /\ b[k] = a[k]
    BY <1>1, <1>2 DEF b
  <2>3. Len(a) + 1 \in DOMAIN b /\ b[Len(a) + 1] = x
    BY <1>1, <1>2 DEF b
  <2> QED
    BY <2>1, <2>2, <2>3 DEF L!S!ToSet
<1> QED
  BY <1>1, <1>3 DEF b

\* Only one thread has written half a line.
LEMMA OneHalf ==
    ASSUME WritesInv, NEW t \in Loggers, logMutex = t
    PROVE  \A u \in Loggers : text[u] => u = t
BY DEF WritesInv

\* The message of a line goes to the files of its level.
LEMMA TextFiles ==
    ASSUME WritesInv, HeldInv, OutInv, FilesInv, NEW t \in Loggers, L!WriteText(t)
    PROVE  HeldInv' /\ OutInv' /\ FilesInv'
<1>0. PICK x : x = L!Line(t)
  OBVIOUS
<1>1. /\ UNCHANGED <<files, batches, buffer, closed, logged, dropped>>
      /\ logMutex = t /\ text' = [text EXCEPT ![t] = TRUE] /\ ~text[t]
      /\ Head(batches[t]) # <<>> /\ batches[t] # <<>>
  BY DEF L!WriteText, WritesInv
<1>2. /\ x \in L!Waiting(t) /\ x \in Message /\ x.by = t
      /\ \A m \in L!Waiting(t) : m = x \/ x.number < m.number
      /\ \E n \in 1 .. Len(logged[t]) : logged[t][n] = x
  BY <1>0, <1>1, LineIsFirst
<1>3. \A u \in Loggers : ~text[u] /\ (text'[u] <=> u = t) /\ L!Line(u)' = L!Line(u)
  BY <1>1, OneHalf DEF WritesInv, L!Line
<1>4. HeldInv' /\ \A u \in Loggers : L!Waiting(u)' = L!Waiting(u)
  BY <1>1, HeldStays
<1>5. \A f \in DOMAIN Files : out'[f] = IF f \in files /\ x.level \in Files[f] /\ ~closed
                                        THEN Append(out[f], x) ELSE out[f]
  BY <1>0 DEF L!WriteText, L!Puts, OutInv
<1>6. OutInv'
  <2>1. out' = [f \in DOMAIN Files |-> out'[f]]
    BY DEF L!WriteText, L!Puts, OutInv
  <2>2. \A f \in DOMAIN Files : out'[f] \in Seq(Message \union {L!Newline})
    <3> SUFFICES ASSUME NEW f \in DOMAIN Files
                 PROVE  out'[f] \in Seq(Message \union {L!Newline})
      OBVIOUS
    <3> DEFINE S == Message \union {L!Newline}
    <3>1. out[f] \in Seq(S) /\ x \in S
      BY <1>2 DEF OutInv
    <3> HIDE DEF S
    <3>2. Append(out[f], x) \in Seq(S)
      BY <3>1, Appended
    <3>3. out'[f] \in Seq(S)
      BY <1>5, <3>1, <3>2
    <3> QED
      BY <3>3 DEF S
  <2>3. out' \in [DOMAIN Files -> Seq(Message \union {L!Newline})]
    BY <2>1, <2>2
  <2> QED
    BY <1>1, <1>5, <2>3 DEF OutInv, L!Newline
<1> SUFFICES ASSUME NEW f \in files
             PROVE  LineInv(f)' /\ TurnsInv(f)' /\ AscendsInv(f)' /\ CompleteInv(f)'
  BY <1>1, <1>4, <1>6 DEF FilesInv
<1>7. LineInv(f) /\ TurnsInv(f) /\ AscendsInv(f) /\ CompleteInv(f)
  BY DEF FilesInv
<1>8. ASSUME NEW line, NEW v \in Loggers, IsLineOf(line, v, f) PROVE IsLineOf(line, v, f)'
  BY <1>1, <1>3, <1>4, <1>8 DEF IsLineOf
<1>9. \A u \in Loggers : Half(u, f)' <=> u = t /\ x.level \in Files[f]
  BY <1>0, <1>3 DEF Half
<1>10. CASE x.level \in Files[f] /\ ~closed
  <2>1. out'[f] = Append(out[f], x)
    BY <1>5, <1>10, LinesAre
  <2> DEFINE n == Len(out[f])
  <2>2. /\ Len(out'[f]) = n + 1 /\ n \in Nat /\ out'[f] # <<>> /\ out'[f][n + 1] = x
        /\ \A k \in 1 .. n : out'[f][k] = out[f][k]
        /\ out[f] # <<>> => n \in 1 .. n
        /\ L!S!ToSet(out'[f]) = L!S!ToSet(out[f]) \union {x}
    <3> DEFINE S == Message \union {L!Newline}
    <3>1. out[f] \in Seq(S) /\ x \in S
      BY <1>2, LinesAre
    <3> HIDE DEF S
    <3> QED
      BY <2>1, <3>1, EndsIn
  <2>3. ~L!IsNewline(x)
    BY <1>2, LinesAre
  <2> HIDE DEF n
  <2>4. LineInv(f)'
    <3>1. IsLineOf(x, t, f)'
      BY <1>0, <1>1, <1>2, <1>3, <1>4, <1>10 DEF IsLineOf
    <3>2. ASSUME NEW k \in 1 .. n + 1, ~L!IsNewline(out[f][k])'
          PROVE  IsLineOf(out[f][k], out[f][k].by, f)'
      <4>1. CASE k = n + 1
        <5>1. out'[f][k] = x /\ out'[f][k].by = t
          BY <1>2, <2>2, <4>1
        <5> QED
          BY <3>1, <5>1
      <4>2. CASE k # n + 1
        <5>1. k \in 1 .. n
          BY <2>2, <4>2
        <5>2. ~L!IsNewline(out[f][k]) /\ out'[f][k] = out[f][k]
          BY <2>2, <3>2, <5>1 DEF L!IsNewline
        <5>3. IsLineOf(out[f][k], out[f][k].by, f) /\ out[f][k].by \in Loggers
          BY <1>7, <5>1, <5>2, LinesAre DEF LineInv, n
        <5> QED
          BY <1>8, <5>2, <5>3
      <4> QED
        BY <4>1, <4>2
    <3> QED
      BY <2>2, <3>2 DEF LineInv, L!IsNewline
  <2>5. TurnsInv(f)'
    <3>1. out[f] # <<>> => L!IsNewline(out[f][n])
      BY <1>3, <1>7, <1>10 DEF TurnsInv, Half, n
    <3>2. ASSUME NEW k \in 1 .. n
          PROVE  L!IsNewline(out'[f][k]) <=> ~L!IsNewline(out'[f][k + 1])
      <4>1. CASE k = n
        <5>1. out[f] # <<>>
          BY <2>2, <4>1 DEF n
        <5> QED
          BY <2>2, <2>3, <3>1, <4>1, <5>1
      <4>2. CASE k # n
        <5>1. k \in 1 .. n - 1 /\ k + 1 \in 1 .. n
          BY <2>2, <4>2
        <5>2. out'[f][k] = out[f][k] /\ out'[f][k + 1] = out[f][k + 1]
          BY <2>2, <5>1
        <5> QED
          BY <1>7, <5>1, <5>2 DEF TurnsInv, n
      <4> QED
        BY <4>1, <4>2
    <3>3. Half(t, f)' /\ \A u \in Loggers : Half(u, f)' => u = t
      BY <1>9, <1>10
    <3>4. Len(out'[f]) - 1 = n
      BY <2>2
    <3> QED
      BY <1>0, <1>3, <2>2, <3>2, <3>3, <3>4 DEF TurnsInv, L!IsNewline
  <2>6. AscendsInv(f)'
    <3> SUFFICES ASSUME NEW k \in 1 .. n + 1, NEW l \in 1 .. n + 1, k < l,
                        out'[f][k].by = out'[f][l].by, ~L!IsNewline(out'[f][k])
                 PROVE  out'[f][k].number < out'[f][l].number
      BY <2>2 DEF AscendsInv, L!IsNewline
    <3>1. k \in 1 .. n /\ out'[f][k] = out[f][k]
      BY <2>2
    <3>2. CASE l = n + 1
      <4>1. out[f][k].by = t
        BY <1>2, <2>2, <3>1, <3>2
      <4>2. IsLineOf(out[f][k], t, f)
        BY <1>7, <3>1, <4>1 DEF LineInv, n
      <4>3. out[f][k].number < x.number
        BY <1>2, <1>3, <4>2 DEF IsLineOf
      <4> QED
        BY <2>2, <3>1, <3>2, <4>3
    <3>3. CASE l # n + 1
      <4>1. l \in 1 .. n /\ out'[f][l] = out[f][l]
        BY <2>2, <3>3
      <4> QED
        BY <1>7, <3>1, <4>1 DEF AscendsInv, n
    <3> QED
      BY <3>2, <3>3
  <2>7. CompleteInv(f)'
    <3>1. L!Written(f)' = L!Written(f) \union {x}
      BY <2>2 DEF L!Written
    <3>2. ASSUME NEW u \in Loggers, NEW e \in 1 .. Len(logged[u]), logged[u][e] = x
          PROVE  x \in L!Waiting(u)
      BY <1>2, <3>2 DEF HeldInv
    <3> QED
      BY <1>1, <1>4, <1>7, <3>1, <3>2 DEF CompleteInv
  <2> QED
    BY <2>4, <2>5, <2>6, <2>7
<1>11. CASE ~(x.level \in Files[f] /\ ~closed)
  <2>1. out'[f] = out[f]
    BY <1>5, <1>11, LinesAre
  <2>2. LineInv(f)'
    BY <1>7, <1>8, <2>1, LinesAre DEF LineInv, L!IsNewline
  <2>3. \A u \in Loggers : ~closed => ~Half(u, f) /\ ~Half(u, f)'
    BY <1>3, <1>9, <1>11 DEF Half
  <2>4. TurnsInv(f)'
    BY <1>1, <1>7, <2>1, <2>3 DEF TurnsInv, L!IsNewline
  <2>5. AscendsInv(f)'
    BY <1>7, <2>1 DEF AscendsInv, L!IsNewline
  <2>6. CompleteInv(f)'
    BY <1>1, <1>4, <1>7, <2>1 DEF CompleteInv, L!Written
  <2> QED
    BY <2>2, <2>4, <2>5, <2>6
<1> QED
  BY <1>10, <1>11

\* The newline goes to the same files, unless they were closed in between.
LEMMA NewlineFiles ==
    ASSUME WritesInv, WritesInv', HeldInv, OutInv, FilesInv, NEW t \in Loggers, L!WriteNewline(t)
    PROVE  OutInv' /\ FilesInv'
<1>0. PICK x : x = L!Line(t)
  OBVIOUS
<1>1. /\ UNCHANGED <<files, closed, logged, dropped>>
      /\ logMutex = t /\ text' = [text EXCEPT ![t] = FALSE] /\ text[t]
      /\ Head(batches[t]) # <<>> /\ batches[t] # <<>>
  BY DEF L!WriteNewline, WritesInv
<1>2. /\ x \in L!Waiting(t) /\ x \in Message /\ x.by = t
      /\ \A m \in L!Waiting(t) : m = x \/ x.number < m.number
  BY <1>0, <1>1, LineIsFirst
<1>3. \A u \in Loggers : (text[u] <=> u = t) /\ ~text'[u]
  BY <1>1, OneHalf DEF WritesInv
<1>4. /\ \A u \in Loggers \ {t} : L!Waiting(u)' = L!Waiting(u)
      /\ L!Waiting(t)' = L!Waiting(t) \ {x}
  BY <1>0, NewlineHeld
<1>5. \A f \in DOMAIN Files : out'[f] = IF f \in files /\ x.level \in Files[f] /\ ~closed
                                        THEN Append(out[f], L!Newline) ELSE out[f]
  BY <1>0 DEF L!WriteNewline, L!Puts, OutInv
<1>6. OutInv'
  <2>1. out' = [f \in DOMAIN Files |-> out'[f]]
    BY DEF L!WriteNewline, L!Puts, OutInv
  <2>2. ASSUME NEW f \in DOMAIN Files PROVE out'[f] \in Seq(Message \union {L!Newline})
    <3> DEFINE S == Message \union {L!Newline}
    <3>1. out[f] \in Seq(S) /\ L!Newline \in S
      BY DEF OutInv
    <3> HIDE DEF S
    <3>2. Append(out[f], L!Newline) \in Seq(S)
      BY <3>1, Appended
    <3>3. out'[f] \in Seq(S)
      BY <1>5, <3>1, <3>2
    <3> QED
      BY <3>3 DEF S
  <2>3. out' \in [DOMAIN Files -> Seq(Message \union {L!Newline})]
    BY <2>1, <2>2
  <2> QED
    BY <1>1, <1>5, <2>3 DEF OutInv, L!Newline
<1> SUFFICES ASSUME NEW f \in files
             PROVE  LineInv(f)' /\ TurnsInv(f)' /\ AscendsInv(f)' /\ CompleteInv(f)'
  BY <1>1, <1>6 DEF FilesInv
<1>7. LineInv(f) /\ TurnsInv(f) /\ AscendsInv(f) /\ CompleteInv(f)
  BY DEF FilesInv
<1>8. ASSUME NEW line, NEW v \in Loggers, IsLineOf(line, v, f) PROVE IsLineOf(line, v, f)'
  <2>1. ASSUME NEW m \in L!Waiting(v)' PROVE line.number < m.number
    <3>1. m \in L!Waiting(v) /\ (v = t => m # x)
      BY <1>4, <2>1
    <3>2. line.number < m.number \/ (v = t /\ line = x)
      BY <1>0, <1>3, <1>8, <3>1 DEF IsLineOf
    <3> QED
      BY <1>2, <3>1, <3>2
  <2> QED
    BY <1>1, <1>8, <2>1 DEF IsLineOf
<1>9. \A u \in Loggers : ~Half(u, f)'
  BY <1>3 DEF Half
<1>10. CASE x.level \in Files[f] /\ ~closed
  <2>1. out'[f] = Append(out[f], L!Newline)
    BY <1>5, <1>10, LinesAre
  <2> DEFINE n == Len(out[f])
  <2>2. /\ Len(out'[f]) = n + 1 /\ n \in Nat /\ out'[f] # <<>> /\ out'[f][n + 1] = L!Newline
        /\ \A k \in 1 .. n : out'[f][k] = out[f][k]
        /\ out[f] # <<>> => n \in 1 .. n
        /\ L!S!ToSet(out'[f]) = L!S!ToSet(out[f]) \union {L!Newline}
    <3> DEFINE S == Message \union {L!Newline}
    <3>1. out[f] \in Seq(S) /\ L!Newline \in S
      BY LinesAre
    <3> HIDE DEF S
    <3> QED
      BY <2>1, <3>1, EndsIn
  <2>3. out[f] # <<>> /\ out[f][n] = x /\ n \in 1 .. n
    BY <1>0, <1>3, <1>7, <1>10, <2>2 DEF TurnsInv, Half
  <2>l. L!IsNewline(out'[f][n + 1]) /\ ~L!IsNewline(x)
    BY <1>2, <2>2, LinesAre
  <2> HIDE DEF n
  <2>4. LineInv(f)'
    <3>1. ASSUME NEW k \in 1 .. n + 1, ~L!IsNewline(out[f][k])'
          PROVE  IsLineOf(out[f][k], out[f][k].by, f)'
      <4>1. ~L!IsNewline(out'[f][k])
        BY <3>1 DEF L!IsNewline
      <4>2. k \in 1 .. n
        BY <2>2, <2>l, <4>1
      <4>3. ~L!IsNewline(out[f][k]) /\ out'[f][k] = out[f][k]
        BY <2>2, <4>1, <4>2
      <4>4. IsLineOf(out[f][k], out[f][k].by, f) /\ out[f][k].by \in Loggers
        BY <1>7, <4>2, <4>3, LinesAre DEF LineInv, n
      <4> QED
        BY <1>8, <4>3, <4>4
    <3> QED
      BY <2>2, <3>1 DEF LineInv, L!IsNewline
  <2>5. TurnsInv(f)'
    <3>1. ASSUME NEW k \in 1 .. n
          PROVE  L!IsNewline(out'[f][k]) <=> ~L!IsNewline(out'[f][k + 1])
      <4>1. CASE k = n
        BY <2>2, <2>3, <2>l, <4>1
      <4>2. CASE k # n
        <5>1. k \in 1 .. n - 1 /\ k + 1 \in 1 .. n
          BY <2>2, <4>2
        <5>2. out'[f][k] = out[f][k] /\ out'[f][k + 1] = out[f][k + 1]
          BY <2>2, <5>1
        <5> QED
          BY <1>7, <5>1, <5>2 DEF TurnsInv, n
      <4> QED
        BY <4>1, <4>2
    <3>2. Len(out'[f]) - 1 = n /\ L!IsNewline(out'[f][Len(out'[f])])
      BY <2>2, <2>l
    <3> QED
      BY <1>9, <3>1, <3>2 DEF TurnsInv, L!IsNewline
  <2>6. AscendsInv(f)'
    <3> SUFFICES ASSUME NEW k \in 1 .. n + 1, NEW l \in 1 .. n + 1, k < l,
                        out'[f][k].by = out'[f][l].by, ~L!IsNewline(out'[f][k])
                 PROVE  out'[f][k].number < out'[f][l].number
      BY <2>2 DEF AscendsInv, L!IsNewline
    <3>1. l # n + 1
      BY <2>l DEF L!IsNewline
    <3>2. k \in 1 .. n /\ l \in 1 .. n
      BY <2>2, <3>1
    <3> QED
      BY <1>7, <2>2, <3>2 DEF AscendsInv, n
  <2>7. CompleteInv(f)'
    <3>1. L!Written(f)' = L!Written(f) \union {L!Newline} /\ x \in L!Written(f)
      <4>1. n \in DOMAIN out[f]
        BY <2>3, LinesAre DEF n
      <4> QED
        BY <2>2, <2>3, <4>1 DEF L!Written, L!S!ToSet
    <3>2. ASSUME NEW u \in Loggers, NEW e \in 1 .. Len(logged[u])
          PROVE  logged[u][e] # L!Newline
      <4>1. logged[u][e].by = u
        BY DEF HeldInv
      <4> QED
        BY <4>1, LinesAre, ActorsAssumption DEF L!IsNewline, Loggers
    <3>3. ASSUME NEW u \in Loggers, NEW e \in 1 .. Len(logged[u])
          PROVE  logged[u][e] \in L!Written(f)' \union L!Waiting(u)' <=>
                 logged[u][e] \in L!Written(f) \union L!Waiting(u)
      BY <1>4, <3>1, <3>2
    <3> QED
      BY <1>1, <1>7, <3>3 DEF CompleteInv
  <2> QED
    BY <2>4, <2>5, <2>6, <2>7
<1>11. CASE ~(x.level \in Files[f] /\ ~closed)
  <2>1. out'[f] = out[f]
    BY <1>5, <1>11, LinesAre
  <2>2. LineInv(f)'
    BY <1>7, <1>8, <2>1, LinesAre DEF LineInv, L!IsNewline
  <2>3. \A u \in Loggers : ~closed => ~Half(u, f) /\ ~Half(u, f)'
    BY <1>0, <1>3, <1>9, <1>11 DEF Half
  <2>4. TurnsInv(f)'
    BY <1>1, <1>7, <2>1, <2>3 DEF TurnsInv, L!IsNewline
  <2>5. AscendsInv(f)'
    BY <1>7, <2>1 DEF AscendsInv, L!IsNewline
  <2>6. CompleteInv(f)'
    <3>1. ASSUME ~closed, NEW u \in Loggers, NEW e \in 1 .. Len(logged[u]),
                 logged[u][e].level \in Files[f]
          PROVE  logged[u][e] \in L!Waiting(u)' <=> logged[u][e] \in L!Waiting(u)
      BY <1>4, <1>11, <3>1
    <3> QED
      BY <1>1, <1>7, <2>1, <3>1 DEF CompleteInv, L!Written
  <2> QED
    BY <2>2, <2>4, <2>5, <2>6
<1> QED
  BY <1>10, <1>11

\* A file is registered between two batches: all that waits will reach it.
LEMMA RegisterFiles ==
    ASSUME WritesInv, LinesInv, NEW g \in DOMAIN Files, L!Register(g)
    PROVE  LinesInv'
<1>1. /\ g \notin files /\ files' = files \union {g} /\ logMutex = NoProc
      /\ UNCHANGED <<batches, buffer, text, out, closed, logged, dropped>>
  BY DEF L!Register
<1>2. HeldInv' /\ \A u \in Loggers : L!Waiting(u)' = L!Waiting(u)
  BY <1>1, HeldStays DEF LinesInv
<1>3. OutInv'
  BY <1>1 DEF LinesInv, OutInv, L!Newline
<1>4. \A u \in Loggers : ~text[u] /\ L!Line(u)' = L!Line(u)
  BY <1>1, ActorsAssumption DEF WritesInv, Loggers, L!Line
<1>5. ASSUME NEW f \in files PROVE LineInv(f)' /\ TurnsInv(f)' /\ AscendsInv(f)' /\ CompleteInv(f)'
  <2>1. LineInv(f) /\ TurnsInv(f) /\ AscendsInv(f) /\ CompleteInv(f)
    BY DEF LinesInv, FilesInv
  <2>2. LineInv(f)'
    BY <1>1, <1>2, <1>4, <2>1, LinesAre DEF LinesInv, LineInv, IsLineOf, L!IsNewline
  <2>3. TurnsInv(f)'
    BY <1>1, <1>4, <2>1 DEF TurnsInv, Half, L!IsNewline
  <2>4. AscendsInv(f)'
    BY <1>1, <2>1 DEF AscendsInv, L!IsNewline
  <2>5. CompleteInv(f)'
    BY <1>1, <1>2, <2>1 DEF CompleteInv, L!Written
  <2> QED
    BY <2>2, <2>3, <2>4, <2>5
<1>6. LineInv(g)' /\ TurnsInv(g)' /\ AscendsInv(g)' /\ CompleteInv(g)'
  <2>1. out'[g] = <<>> /\ Len(<<>>) = 0
    BY <1>1 DEF LinesInv, OutInv
  <2>2. LineInv(g)' /\ TurnsInv(g)' /\ AscendsInv(g)'
    BY <1>1, <1>4, <2>1 DEF LineInv, TurnsInv, AscendsInv, Half
  <2>3. L!Written(g)' = {}
    BY <2>1 DEF L!Written, L!S!ToSet
  <2>4. CompleteInv(g)'
    <3> SUFFICES ASSUME ~dropped, NEW u \in Loggers, NEW e \in 1 .. Len(logged[u]),
                        NEW n \in 1 .. Len(logged[u]), e <= n, logged[u][e] \in L!Waiting(u)
                 PROVE  logged[u][n] \in L!Waiting(u)
      BY <1>1, <1>2, <2>3 DEF CompleteInv
    <3>1. logged[u][e].number = e
      BY DEF LinesInv, HeldInv
    <3> QED
      BY <3>1 DEF LinesInv, HeldInv
  <2> QED
    BY <2>2, <2>4
<1>7. FilesInv'
  BY <1>1, <1>5, <1>6 DEF FilesInv
<1> QED
  BY <1>2, <1>3, <1>7 DEF LinesInv

\* Nothing was logged yet.
LEMMA InitLines == Init => LinesInv
<1> SUFFICES ASSUME Init PROVE LinesInv
  OBVIOUS
<1>1. /\ files = {} /\ buffer = [t \in Loggers |-> <<>>] /\ batches = [t \in Loggers |-> <<>>]
      /\ out = [f \in DOMAIN Files |-> <<>>] /\ logged = [t \in Loggers |-> <<>>]
  BY DEF Init, L!Init
<1>2. ASSUME NEW t \in Loggers
      PROVE  InOrder(batches[t], buffer[t]) /\ \A m : m \notin L!Waiting(t)
  <2>1. batches[t] = <<>> /\ buffer[t] = <<>> /\ Len(<<>>) = 0
    BY <1>1
  <2>2. InOrder(batches[t], buffer[t])
    BY <2>1 DEF InOrder, Increasing
  <2>3. ASSUME NEW m PROVE m \notin L!Waiting(t)
    <3>1. ~Holds(batches[t], buffer[t], m)
      BY <2>1 DEF Holds
    <3>2. WritesInv
      BY InitInvariant DEF IInv
    <3> QED
      BY <3>1, <3>2, WaitingHolds
  <2> QED
    BY <2>2, <2>3
<1>3. HeldInv
  BY <1>1, <1>2 DEF HeldInv
<1>4. OutInv /\ FilesInv
  BY <1>1 DEF OutInv, FilesInv
<1> QED
  BY <1>3, <1>4 DEF LinesInv

\* A thread logs, flushes or writes.
LEMMA LoggerLines ==
    ASSUME WritesInv, WritesInv', LinesInv, NEW t \in Loggers,
           Function(t) \/ Logger(t) \/ LoggerFails(t)
    PROVE  LinesInv'
<1>0. HeldInv /\ OutInv /\ FilesInv
  BY DEF LinesInv
<1>1. ASSUME NEW level \in Levels, NEW size \in Sizes, L!Log(t, level, size) PROVE LinesInv'
  <2>1. HeldInv' /\ FilesInv'
    BY <1>0, <1>1, LogHeld, LogFiles
  <2>2. OutInv'
    BY <1>0, <1>1 DEF L!Log, OutInv, L!Newline
  <2> QED
    BY <2>1, <2>2 DEF LinesInv
<1>2. ASSUME HeldInv', UNCHANGED <<files, out, text, logged>>, closed' = closed,
             dropped => dropped',
             \A u \in Loggers : \A m : m \in L!Waiting(u)' => m \in L!Waiting(u),
             ~dropped' => \A u \in Loggers : L!Waiting(u)' = L!Waiting(u),
             \A u \in Loggers : text[u] => batches'[u] = batches[u]
      PROVE  LinesInv'
  <2>1. OutInv'
    BY <1>0, <1>2 DEF OutInv, L!Newline
  <2>2. \A u \in Loggers : text[u] => L!Line(u)' = L!Line(u)
    BY <1>2 DEF L!Line
  <2>3. FilesInv'
    BY <1>0, <1>2, <2>2, LinesAre, FilesStay
  <2> QED
    BY <1>2, <2>1, <2>3 DEF LinesInv
<1>3. CASE L!Flush(t) \/ L!WriteEnds(t)
  <2>1. HeldInv' /\ \A u \in Loggers : L!Waiting(u)' = L!Waiting(u)
    BY <1>0, <1>3, BatchHeld
  <2>2. ~text[t] /\ UNCHANGED <<files, out, text, logged, closed, dropped>>
        /\ \A u \in Loggers \ {t} : batches'[u] = batches[u]
    BY <1>3 DEF WritesInv, L!Flush, L!IsIdle, L!WriteEnds
  <2> QED
    BY <1>2, <2>1, <2>2
<1>4. CASE L!WriteBegins(t)
  <2>1. UNCHANGED <<files, out, text, logged, closed, dropped, batches, buffer>>
    BY <1>4 DEF L!WriteBegins
  <2>2. HeldInv' /\ \A u \in Loggers : L!Waiting(u)' = L!Waiting(u)
    BY <1>0, <2>1, HeldStays
  <2> QED
    BY <1>2, <2>1, <2>2
<1>5. CASE L!WriteFails(t)
  <2>1. HeldInv' /\ \A u \in Loggers : \A m : m \in L!Waiting(u)' => m \in L!Waiting(u)
    BY <1>0, <1>5, FailedHeld
  <2>2. ~text[t] /\ UNCHANGED <<files, out, text, logged, closed>> /\ dropped'
        /\ \A u \in Loggers \ {t} : batches'[u] = batches[u]
    BY <1>5 DEF WritesInv, L!WriteFails
  <2> QED
    BY <1>2, <2>1, <2>2
<1>6. CASE L!WriteText(t)
  BY <1>0, <1>6, TextFiles DEF LinesInv
<1>7. CASE L!WriteNewline(t)
  BY <1>0, <1>7, NewlineHeld, NewlineFiles DEF LinesInv
<1> QED
  BY <1>1, <1>3, <1>4, <1>5, <1>6, <1>7 DEF Function, Logger, LoggerFails, L!Writes

\* Every step keeps the lines.
LEMMA StepLines == IInv /\ LinesInv /\ [Next]_vars => LinesInv'
<1> SUFFICES ASSUME IInv, LinesInv, [Next]_vars PROVE LinesInv'
  OBVIOUS
<1>0. WritesInv /\ WritesInv' /\ HeldInv /\ OutInv /\ FilesInv
  BY StepInvariant DEF IInv, LinesInv
<1>1. ASSUME UNCHANGED <<files, buffer, batches, text, out, logged, dropped>>, closed => closed'
      PROVE  LinesInv'
  <2>1. HeldInv' /\ \A u \in Loggers : L!Waiting(u)' = L!Waiting(u)
    BY <1>0, <1>1, HeldStays
  <2>2. OutInv'
    BY <1>0, <1>1 DEF OutInv, L!Newline
  <2>3. \A u \in Loggers : L!Line(u)' = L!Line(u)
    BY <1>1 DEF L!Line
  <2>4. FilesInv'
    BY <1>0, <1>1, <2>1, <2>3, LinesAre, FilesStay
  <2> QED
    BY <2>1, <2>2, <2>4 DEF LinesInv
<1>2. CASE \/ \E c \in Clients : Client(c)
           \/ \E w \in DOMAIN Workers : Worker(w)
           \/ EventCleanup \/ UNCHANGED vars
  BY <1>1, <1>2 DEF Client, Worker, EventCleanup, OnlyEvent, loggingVars, vars
<1>3. CASE LogCleanup
  BY <1>1, <1>3 DEF LogCleanup, L!Cleanup
<1>4. CASE RegistersFile
  BY <1>0, <1>4, RegisterFiles DEF RegistersFile
<1>5. ASSUME NEW t \in Loggers, Function(t) \/ Logger(t) \/ LoggerFails(t) PROVE LinesInv'
  BY <1>0, <1>5, LoggerLines
<1> QED
  BY <1>2, <1>3, <1>4, <1>5 DEF Next

\* What it says of the files.
LEMMA LogsFromInvariant == WritesInv /\ LinesInv => LogsLines
<1> SUFFICES ASSUME WritesInv, LinesInv, NEW f \in files
             PROVE  /\ \A n \in DOMAIN out[f] : n < Len(out[f]) =>
                           (L!IsNewline(out[f][n]) <=> ~L!IsNewline(out[f][n + 1]))
                    /\ \A n \in DOMAIN out[f] : ~L!IsNewline(out[f][n]) =>
                           /\ out[f][n] \in L!S!ToSet(logged[out[f][n].by])
                           /\ out[f][n].level \in Files[f]
                    /\ \A m, n \in DOMAIN out[f] :
                           m < n /\ out[f][m].by = out[f][n].by /\ ~L!IsNewline(out[f][m]) =>
                               out[f][m].number < out[f][n].number
                    /\ ~dropped /\ ~closed => \A t \in Loggers :
                           \A e, l \in { m \in L!S!ToSet(logged[t]) : m.level \in Files[f] } :
                               e.number <= l.number /\ e \in L!Written(f) \union L!Waiting(t) =>
                                   l \in L!Written(f) \union L!Waiting(t)
  BY DEF LogsLines, L!LogsLines
<1>1. HeldInv /\ OutInv /\ LineInv(f) /\ TurnsInv(f) /\ AscendsInv(f) /\ CompleteInv(f)
  BY DEF LinesInv, FilesInv
<1>2. DOMAIN out[f] = 1 .. Len(out[f])
      /\ \A t \in Loggers : DOMAIN logged[t] = 1 .. Len(logged[t])
  BY <1>1, LinesAre DEF WritesInv
<1>3. \A n \in DOMAIN out[f] : n < Len(out[f]) =>
          (L!IsNewline(out[f][n]) <=> ~L!IsNewline(out[f][n + 1]))
  <2>1. Len(out[f]) \in Nat
    BY <1>1, LinesAre
  <2> SUFFICES ASSUME NEW n \in 1 .. Len(out[f]), n < Len(out[f])
               PROVE  L!IsNewline(out[f][n]) <=> ~L!IsNewline(out[f][n + 1])
    BY <1>2
  <2>2. n \in 1 .. Len(out[f]) - 1
    BY <2>1
  <2> QED
    BY <1>1, <2>2 DEF TurnsInv
<1>4. ASSUME NEW n \in DOMAIN out[f], ~L!IsNewline(out[f][n])
      PROVE  out[f][n] \in L!S!ToSet(logged[out[f][n].by]) /\ out[f][n].level \in Files[f]
  <2>1. IsLineOf(out[f][n], out[f][n].by, f) /\ out[f][n].by \in Loggers
    BY <1>1, <1>2, <1>4, LinesAre DEF LineInv
  <2> QED
    BY <1>2, <2>1 DEF IsLineOf, L!S!ToSet
<1>5. \A m, n \in DOMAIN out[f] :
          m < n /\ out[f][m].by = out[f][n].by /\ ~L!IsNewline(out[f][m]) =>
              out[f][m].number < out[f][n].number
  BY <1>1, <1>2 DEF AscendsInv
<1>6. ASSUME ~dropped, ~closed, NEW t \in Loggers,
             NEW e \in L!S!ToSet(logged[t]), NEW l \in L!S!ToSet(logged[t]),
             e.level \in Files[f], l.level \in Files[f], e.number <= l.number,
             e \in L!Written(f) \union L!Waiting(t)
      PROVE  l \in L!Written(f) \union L!Waiting(t)
  <2>1. PICK i \in 1 .. Len(logged[t]) : logged[t][i] = e
    BY <1>2 DEF L!S!ToSet
  <2>2. PICK j \in 1 .. Len(logged[t]) : logged[t][j] = l
    BY <1>2 DEF L!S!ToSet
  <2>3. e.number = i /\ l.number = j
    BY <1>1, <2>1, <2>2 DEF HeldInv
  <2> QED
    BY <1>1, <1>6, <2>1, <2>2, <2>3 DEF CompleteInv
<1> QED
  BY <1>3, <1>4, <1>5, <1>6

(* Whatever the threads log and whichever files are registered when, lines  *)
(* of every thread reach a file whole, of the file's levels, in the order   *)
(* they were logged in and each once; and from the first of a thread's on   *)
(* none is missing while the files are open and no call fails.              *)
THEOREM LinesLogged == Spec => []LogsLines
<1>1. Init => IInv /\ LinesInv
  BY InitInvariant, InitLines
<1>2. IInv /\ LinesInv /\ [Next]_vars => (IInv /\ LinesInv)'
  BY StepInvariant, StepLines
<1>3. IInv /\ LinesInv => LogsLines
  BY LogsFromInvariant DEF IInv
<1> QED
  BY <1>1, <1>2, <1>3, PTL DEF Spec
=============================================================================
