------------------------------ MODULE ThreadPool ------------------------------
(***************************************************************************)
(* The thread pool of src/Concurrency/ThreadPool.c with the futures it      *)
(* hands out: worker threads, the client threads that assign jobs, await    *)
(* futures and destroy them, and the owner that creates the pool and ends   *)
(* it with bl_threadpool_join or bl_threadpool_exit.                        *)
(*                                                                          *)
(* What runs under mutexForQueue and touches nothing a thread reads without *)
(* it is one step.  The accesses that do race are steps of their own: the   *)
(* bitset and the element count of `orders`, which bl_future_destroy        *)
(* updates without the mutex, and the two halves of the copy of a result    *)
(* into its slot, which an awaiting client polls without the mutex.         *)
(***************************************************************************)
EXTENDS Integers, FiniteSets

CONSTANTS
    Workers,      \* threads[0 .. amountOfThreads - 1]
    Clients,      \* threads that call the pool from outside
    Owner,        \* the client that creates the pool and ends it
    Jobs,         \* calls of bl_threadpool_job_assign that may be made
    Prio,         \* the priority each is made with
    MaxPrio,      \* SIZE_MAX
    Assigns,      \* the jobs a client assigns
    Spawns,       \* the jobs a job's function assigns while it runs
    Destroyers,   \* the clients that call bl_future_destroy
    PageSize,     \* BL_UNORDERED_CONTAINER_PAGE_SIZE_IN_AMOUNT
    MaxFaults,    \* bound: allocations, thread creations and locks that fail
    NoJob, NoProc

NoSlot == -1
Procs  == Clients \cup Workers

ASSUME PoolAssumption ==
    /\ Workers # {} /\ IsFiniteSet(Workers)
    /\ Owner \in Clients
    /\ Clients \cap Workers = {}
    /\ NoJob \notin Jobs
    /\ NoProc \notin Procs
    /\ Prio \in [Jobs -> Nat]
    /\ MaxPrio \in Nat \ {0}
    /\ Assigns \in [Clients -> SUBSET Jobs]
    /\ Spawns \in [Jobs -> SUBSET Jobs]
    /\ Destroyers \subseteq Clients
    /\ PageSize \in Nat \ {0}
    /\ MaxFaults \in Nat

(***************************************************************************)
(* The discipline under which bl_future_destroy does not race: whoever      *)
(* destroys a future is the only thread that assigns or destroys.           *)
(***************************************************************************)
LoneDestroyer ==
    \A d \in Destroyers :
        /\ \A c \in Clients \ {d} : Assigns[c] = {} /\ c \notin Destroyers
        /\ \A j \in Jobs : Spawns[j] = {}

VARIABLES
    phase,      \* where the owner is in the life of the pool
    mustExit,   \* BL_ThreadPool.mustExit
    lock,       \* who holds mutexForQueue across more than one step
    jobsQueue,  \* the entries of the heap: a job with its slot, or ExitRequest
    pages,      \* orders.amountOfPages
    bits,       \* orders.bitset: the slots marked as taken
    count,      \* orders.amountOfElements
    slot,       \* what the pages hold
    pc,         \* what each thread is about to do
    target,     \* the job the thread's current call is about
    index,      \* the slot the thread's current call is about
    snap,       \* the bitset word it has loaded
    tally,      \* the element count it has loaded
    cur,        \* the entry a worker took and its copy of the slot (jobBuffer)
    fut,        \* the slot whose future the assigner holds a pointer to
    status,     \* history: how far each job has come
    runs,       \* history: how often each job's function was started
    faults      \* how many more calls may fail

orders == <<pages, bits, count, slot>>
calls  == <<target, index, snap, tally>>
vars   == <<phase, mustExit, lock, jobsQueue, orders, pc, calls, cur, fut,
            status, runs, faults>>

(***************************************************************************)
(* The heap of pending entries.  `jobCompare` makes it a max-heap on        *)
(* priority, so the top is some entry no other entry exceeds (PriorityQueue *)
(* and Heap show that the array heap gives exactly that).  The exit         *)
(* requests are never popped, so one stands for all of them.                *)
(***************************************************************************)
ExitRequest == [job |-> NoJob, location |-> 0]
Priority(e) == IF e.job = NoJob THEN 0 ELSE Prio[e.job]
\* Mutant: a min-heap.
IsBottom(e) == e \in jobsQueue /\ \A f \in jobsQueue : Priority(f) >= Priority(e)
IsTop(e)    == /\ e \in jobsQueue
               /\ \A f \in jobsQueue : Priority(f) <= Priority(e)

\* bl_unordered_container_put: its growth test, and the first clear bit.
Capacity(p)   == PageSize * p
IsFull        == count \div PageSize = pages
Grown(p)      == 2 * p + 1
Available(p)  == {s \in 0 .. Capacity(p) - 1 : s \notin bits}
FirstOf(S)    == CHOOSE s \in S : \A t \in S : s <= t
Blank         == [job |-> NoJob, flag |-> FALSE, result |-> FALSE]
\* Mutant: the new pages are counted and not allocated.
PagesKept(p)  == slot
PagesWith(p)  == [s \in 0 .. Capacity(p) - 1 |->
                    IF s \in DOMAIN slot THEN slot[s] ELSE Blank]

NothingTaken == [location |-> NoSlot, job |-> NoJob]
Threads(what) == {w \in Workers : pc[w] \in what}
Gone == {"unborn", "dead", "stillborn"}

MayFail == faults > 0 /\ faults' = faults - 1
-----------------------------------------------------------------------------
\* bl_threadpool_init up to the first bl_thread_create.  The mutex and the
\* array of threads have no state here; their failures leave nothing behind.
Init ==
    /\ phase = "creating"
    /\ mustExit = FALSE
    /\ lock = NoProc
    /\ jobsQueue = {}
    /\ pages = 1
    /\ bits = {}
    /\ count = 0
    /\ slot = [s \in 0 .. Capacity(1) - 1 |-> Blank]
    /\ pc = [p \in Procs |-> IF p \in Workers THEN "unborn" ELSE "idle"]
    /\ target = [p \in Procs |-> NoJob]
    /\ index = [p \in Procs |-> NoSlot]
    /\ snap = [p \in Procs |-> {}]
    /\ tally = [p \in Procs |-> 0]
    /\ cur = [w \in Workers |-> NothingTaken]
    /\ fut = [j \in Jobs |-> NoSlot]
    /\ status = [j \in Jobs |-> "new"]
    /\ runs = [j \in Jobs |-> 0]
    /\ faults = MaxFaults
-----------------------------------------------------------------------------
(* bl_threadpool_init: creating the threads, which run at once.             *)

CreateThread(w) ==
    /\ phase = "creating"
    /\ pc[w] = "unborn"
    /\ pc' = [pc EXCEPT ![w] = "starting"]
    /\ UNCHANGED <<phase, mustExit, lock, jobsQueue, orders, calls, cur, fut,
                   status, runs, faults>>

CreateThreadFails ==
    /\ phase = "creating"
    /\ Threads({"unborn"}) # {}
    /\ MayFail
    /\ phase' = "failing"
    /\ mustExit' = TRUE
    /\ UNCHANGED <<lock, jobsQueue, orders, pc, calls, cur, fut, status, runs>>

\* Mutant: slot 0 is left to the first job.
InitDoneUnreserved ==
    /\ phase = "creating"
    /\ Threads({"unborn"}) = {}
    /\ phase' = "up"
    /\ UNCHANGED <<mustExit, lock, jobsQueue, orders, pc, calls, cur, fut,
                   status, runs, faults>>

\* The last line of a successful init takes slot 0, without the mutex: the
\* location of an exit request is never the location of a job.
InitDone ==
    /\ phase = "creating"
    /\ Threads({"unborn"}) = {}
    /\ phase' = "up"
    /\ bits' = bits \cup {0}
    /\ count' = count + 1
    /\ UNCHANGED <<mustExit, lock, jobsQueue, pages, slot, pc, calls, cur, fut,
                   status, runs, faults>>
-----------------------------------------------------------------------------
(* bl_threadpool_job_assign, called by a client or by the function of a job. *)

MayAssign(p, j) ==
    /\ status[j] = "new"
    /\ \/ p \in Clients /\ pc[p] = "idle" /\ phase = "up" /\ j \in Assigns[p]
       \/ p \in Workers /\ pc[p] = "run" /\ cur[p].job # NoJob
                        /\ j \in Spawns[cur[p].job]

AcceptablePriority(j) == Prio[j] # 0 /\ Prio[j] # MaxPrio

Refuse(j) ==
    /\ status' = [status EXCEPT ![j] = "refused"]
    /\ UNCHANGED <<phase, mustExit, lock, jobsQueue, orders, pc, calls, cur,
                   fut, runs>>

RejectPriority(p, j) ==
    /\ MayAssign(p, j)
    /\ ~AcceptablePriority(j)
    /\ Refuse(j)
    /\ UNCHANGED faults

\* The lock fails, or the container is full and cannot grow.
AssignFails(p, j) ==
    /\ MayAssign(p, j)
    /\ AcceptablePriority(j)
    /\ MayFail
    /\ Refuse(j)

\* Mutant: without the mutex.
PutScanUnlocked(p, j) ==
    /\ MayAssign(p, j)
    /\ AcceptablePriority(j)
    /\ status' = [status EXCEPT ![j] = "assigning"]
    /\ index' = [index EXCEPT ![p] = IF Available(pages) = {} THEN 0
                                     ELSE FirstOf(Available(pages))]
    /\ snap' = [snap EXCEPT ![p] = bits]
    /\ target' = [target EXCEPT ![p] = j]
    /\ pc' = [pc EXCEPT ![p] = "mark"]
    /\ UNCHANGED <<phase, mustExit, lock, jobsQueue, orders, tally, cur, fut,
                   runs, faults>>

\* The clients that have loaded an address of the pages or the bitset and not
\* used it; growing moves both and frees what they were.
Astray == IF IsFull THEN {c \in Clients : pc[c] = "unmark"} ELSE {}

\* Takes the mutex, grows the container when it counts as full, and loads the
\* bitset.  With no clear bit the index stays 0.  A client whose address is
\* stale by then loads it anew or stores into freed memory, which is undefined.
PutScan(p, j) ==
    /\ MayAssign(p, j)
    /\ AcceptablePriority(j)
    /\ lock = NoProc
    /\ lock' = p
    /\ status' = [status EXCEPT ![j] = "assigning"]
    /\ pages' = IF IsFull THEN Grown(pages) ELSE pages
    /\ slot' = PagesWith(pages')
    /\ index' = [index EXCEPT ![p] = IF Available(pages') = {} THEN 0
                                     ELSE FirstOf(Available(pages'))]
    /\ snap' = [snap EXCEPT ![p] = bits]
    /\ target' = [target EXCEPT ![p] = j]
    /\ \E lost \in SUBSET Astray :
          pc' = [q \in Procs |-> IF q = p THEN "mark"
                                ELSE IF q \in lost THEN "astray" ELSE pc[q]]
    /\ UNCHANGED <<phase, mustExit, jobsQueue, bits, count, tally, cur, fut,
                   runs, faults>>

\* Stores the bitset with the bit set, loads the count.
PutMark(p) ==
    /\ pc[p] = "mark"
    /\ bits' = snap[p] \cup {index[p]}
    /\ tally' = [tally EXCEPT ![p] = count]
    /\ pc' = [pc EXCEPT ![p] = "fill"]
    /\ UNCHANGED <<phase, mustExit, lock, jobsQueue, pages, count, slot, target,
                   index, snap, cur, fut, status, runs, faults>>

AfterAssign(p) == IF p \in Workers THEN "run" ELSE "idle"

\* Mutant: the slot keeps the isValid of the future it held before.
FillStale(p) ==
    /\ pc[p] = "fill"
    /\ count' = tally[p] + 1
    /\ slot' = [slot EXCEPT ![index[p]].job = target[p]]
    /\ lock' = NoProc
    /\ pc' = [pc EXCEPT ![p] = AfterAssign(p)]
    /\ UNCHANGED <<phase, mustExit, pages, bits, calls, cur, runs>>

\* Stores the count, writes the job into its slot with its future not valid,
\* and releases the mutex; what is common to both ends of the insertion.
Fill(p) ==
    /\ pc[p] = "fill"
    /\ count' = tally[p] + 1
    /\ slot' = [slot EXCEPT ![index[p]] = [job |-> target[p], flag |-> FALSE,
                                           result |-> FALSE]]
    /\ lock' = NoProc
    /\ pc' = [pc EXCEPT ![p] = AfterAssign(p)]
    /\ UNCHANGED <<phase, mustExit, pages, bits, calls, cur, runs>>

PutQueued(p) ==
    /\ Fill(p)
    /\ jobsQueue' = jobsQueue \cup {[job |-> target[p], location |-> index[p]]}
    /\ fut' = [fut EXCEPT ![target[p]] = index[p]]
    /\ status' = [status EXCEPT ![target[p]] = "queued"]
    /\ UNCHANGED faults

\* bl_heap_insert cannot grow its array: NULL is returned, the slot stays taken.
PutNotQueued(p) ==
    /\ Fill(p)
    /\ MayFail
    /\ status' = [status EXCEPT ![target[p]] = "refused"]
    /\ UNCHANGED <<jobsQueue, fut>>
-----------------------------------------------------------------------------
(* threadWorkerFunction                                                     *)

OnlyPc(w, where) ==
    /\ pc' = [pc EXCEPT ![w] = where]
    /\ UNCHANGED <<phase, mustExit, lock, jobsQueue, orders, calls, cur, fut,
                   status, runs>>

\* The malloc of jobBuffer.
Start(w) ==
    /\ pc[w] = "starting"
    /\ OnlyPc(w, "loop")
    /\ UNCHANGED faults

StartFails(w) ==
    /\ pc[w] = "starting"
    /\ MayFail
    /\ OnlyPc(w, "stillborn")

\* Mutant: mustExit is read once, before the loop.
CheckExitHoisted(w) ==
    /\ pc[w] = "loop"
    /\ OnlyPc(w, "poll")
    /\ UNCHANGED faults

\* while (!threadPool->mustExit), read without the mutex.
CheckExit(w) ==
    /\ pc[w] = "loop"
    /\ OnlyPc(w, IF mustExit THEN "dead" ELSE "poll")
    /\ UNCHANGED faults

PollLockFails(w) ==
    /\ pc[w] = "poll"
    /\ MayFail
    /\ OnlyPc(w, "loop")

\* Mutant: a worker that finds no job leaves.
PollEmptyLeaves(w) ==
    /\ pc[w] = "poll"
    /\ lock = NoProc
    /\ jobsQueue = {}
    /\ OnlyPc(w, "dead")
    /\ UNCHANGED faults

PollEmpty(w) ==
    /\ pc[w] = "poll"
    /\ lock = NoProc
    /\ jobsQueue = {}
    /\ OnlyPc(w, "loop")
    /\ UNCHANGED faults

\* Mutant: an exit request is honoured before the jobs that wait.
TakeExitEarly(w) ==
    /\ pc[w] = "poll"
    /\ lock = NoProc
    /\ ExitRequest \in jobsQueue
    /\ OnlyPc(w, "dead")
    /\ UNCHANGED faults

\* An entry of location 0 is an exit request; it is left for the other workers.
TakeExit(w) ==
    /\ pc[w] = "poll"
    /\ lock = NoProc
    /\ \E e \in jobsQueue : IsTop(e) /\ e.location = 0
    /\ OnlyPc(w, "dead")
    /\ UNCHANGED faults

\* Mutant: the entry is not popped.
TakeJobPeeks(w) ==
    /\ pc[w] = "poll"
    /\ lock = NoProc
    /\ \E e \in jobsQueue :
        /\ IsTop(e)
        /\ e.location # 0
        /\ e.location \in bits
        /\ LET j == slot[e.location].job IN
            /\ cur' = [cur EXCEPT ![w] = [location |-> e.location, job |-> j]]
            /\ status' = [status EXCEPT ![j] = "running"]
            /\ runs' = [runs EXCEPT ![j] = @ + 1]
    /\ pc' = [pc EXCEPT ![w] = "run"]
    /\ UNCHANGED <<phase, mustExit, lock, jobsQueue, orders, calls, fut, faults>>

\* Copies the slot into jobBuffer and pops the entry.
TakeJob(w) ==
    /\ pc[w] = "poll"
    /\ lock = NoProc
    /\ \E e \in jobsQueue :
        /\ IsTop(e)
        /\ e.location # 0
        /\ e.location \in bits
        /\ LET j == slot[e.location].job IN
            /\ jobsQueue' = jobsQueue \ {e}
            /\ cur' = [cur EXCEPT ![w] = [location |-> e.location, job |-> j]]
            /\ status' = [status EXCEPT ![j] = "running"]
            /\ runs' = [runs EXCEPT ![j] = @ + 1]
    /\ pc' = [pc EXCEPT ![w] = "run"]
    /\ UNCHANGED <<phase, mustExit, lock, orders, calls, fut, faults>>

\* The slot is not marked as taken: bl_unordered_container_get returns NULL
\* and the memcpy from it is undefined; the worker is lost, mutex in hand.
TakeNull(w) ==
    /\ pc[w] = "poll"
    /\ lock = NoProc
    /\ \E e \in jobsQueue : IsTop(e) /\ e.location # 0 /\ e.location \notin bits
    /\ lock' = w
    /\ pc' = [pc EXCEPT ![w] = "crashed"]
    /\ UNCHANGED <<phase, mustExit, jobsQueue, orders, calls, cur, fut, status,
                   runs, faults>>

\* The job's function returns; its result is in jobBuffer only.
Finish(w) ==
    /\ pc[w] = "run"
    /\ pc' = [pc EXCEPT ![w] = "relock"]
    /\ status' = [status EXCEPT ![cur[w].job] = "ran"]
    /\ UNCHANGED <<phase, mustExit, lock, jobsQueue, orders, calls, cur, fut,
                   runs, faults>>

\* The mutex cannot be taken again: the result is never copied to the slot.
RelockFails(w) ==
    /\ pc[w] = "relock"
    /\ MayFail
    /\ pc' = [pc EXCEPT ![w] = "loop"]
    /\ cur' = [cur EXCEPT ![w] = NothingTaken]
    /\ status' = [status EXCEPT ![cur[w].job] = "lost"]
    /\ UNCHANGED <<phase, mustExit, lock, jobsQueue, orders, calls, fut, runs>>

\* memcpy(job, jobBuffer, ...): isValid and the value reach the slot in either
\* order.  "copyResult" has copied isValid and not the value, "copyFlag" the
\* value and not isValid.
CopyBegin(w) ==
    /\ pc[w] = "relock"
    /\ lock = NoProc
    /\ cur[w].location \in bits
    /\ lock' = w
    /\ \E rest \in {"copyResult", "copyFlag"} :
        /\ slot' = [slot EXCEPT ![cur[w].location] =
                      [job    |-> cur[w].job,
                       flag   |-> IF rest = "copyResult" THEN TRUE ELSE @.flag,
                       result |-> IF rest = "copyFlag" THEN TRUE ELSE @.result]]
        /\ pc' = [pc EXCEPT ![w] = rest]
    /\ UNCHANGED <<phase, mustExit, jobsQueue, pages, bits, count, calls, cur,
                   fut, status, runs, faults>>

CopyNull(w) ==
    /\ pc[w] = "relock"
    /\ lock = NoProc
    /\ cur[w].location \notin bits
    /\ lock' = w
    /\ pc' = [pc EXCEPT ![w] = "crashed"]
    /\ UNCHANGED <<phase, mustExit, jobsQueue, orders, calls, cur, fut, status,
                   runs, faults>>

\* Mutant: isValid is not set.
CopyEndInvalid(w) ==
    /\ pc[w] \in {"copyResult", "copyFlag"}
    /\ slot' = [slot EXCEPT ![cur[w].location] =
                  [job |-> cur[w].job, flag |-> FALSE, result |-> TRUE]]
    /\ lock' = NoProc
    /\ pc' = [pc EXCEPT ![w] = "loop"]
    /\ cur' = [cur EXCEPT ![w] = NothingTaken]
    /\ status' = [status EXCEPT ![cur[w].job] = "published"]
    /\ UNCHANGED <<phase, mustExit, jobsQueue, pages, bits, count, calls, fut,
                   runs, faults>>

CopyEnd(w) ==
    /\ pc[w] \in {"copyResult", "copyFlag"}
    /\ slot' = [slot EXCEPT ![cur[w].location] =
                  [job |-> cur[w].job, flag |-> TRUE, result |-> TRUE]]
    /\ lock' = NoProc
    /\ pc' = [pc EXCEPT ![w] = "loop"]
    /\ cur' = [cur EXCEPT ![w] = NothingTaken]
    /\ status' = [status EXCEPT ![cur[w].job] = "published"]
    /\ UNCHANGED <<phase, mustExit, jobsQueue, pages, bits, count, calls, fut,
                   runs, faults>>
-----------------------------------------------------------------------------
(* The futures: bl_future_await, bl_future_await_until, bl_future_destroy.   *)

HoldsFuture(c, j) == j \in Assigns[c] /\ fut[j] # NoSlot

ClientStep(c, where, j) ==
    /\ pc' = [pc EXCEPT ![c] = where]
    /\ target' = [target EXCEPT ![c] = j]
    /\ UNCHANGED <<phase, mustExit, lock, jobsQueue, cur, status, runs, faults>>

AwaitBegin(c, j) ==
    /\ pc[c] = "idle" /\ phase = "up"
    /\ HoldsFuture(c, j)
    /\ ClientStep(c, "awaiting", j)
    /\ UNCHANGED <<orders, index, snap, tally, fut>>

\* while (!*(bool*)future), read without the mutex.
AwaitReturns(c) ==
    /\ pc[c] = "awaiting"
    /\ slot[fut[target[c]]].flag
    /\ ClientStep(c, "awaited", target[c])
    /\ UNCHANGED <<orders, index, snap, tally, fut>>

\* bl_future_await_until past its timepoint.
AwaitTimesOut(c) ==
    /\ pc[c] = "awaiting"
    /\ ~slot[fut[target[c]]].flag
    /\ ClientStep(c, "idle", NoJob)
    /\ UNCHANGED <<orders, index, snap, tally, fut>>

\* The client reads the value of the future it awaited.
ReadResult(c) ==
    /\ pc[c] = "awaited"
    /\ ClientStep(c, "idle", NoJob)
    /\ UNCHANGED <<orders, index, snap, tally, fut>>

\* Mutant: the future need not be valid.
MayDestroyEarly(c, j) ==
    /\ pc[c] = "idle" /\ phase = "up"
    /\ c \in Destroyers
    /\ HoldsFuture(c, j)

MayDestroy(c, j) ==
    /\ pc[c] = "idle" /\ phase = "up"
    /\ c \in Destroyers
    /\ HoldsFuture(c, j)
    /\ slot[fut[j]].flag

\* bl_unordered_container_remove without the mutex: loads the addresses of the
\* pages and of the bitset, and the bitset ...
DestroyBegin(c, j) ==
    /\ MayDestroy(c, j)
    /\ fut[j] \in bits
    /\ index' = [index EXCEPT ![c] = fut[j]]
    /\ snap' = [snap EXCEPT ![c] = bits]
    /\ fut' = [fut EXCEPT ![j] = NoSlot]
    /\ ClientStep(c, "unmark", j)
    /\ UNCHANGED <<orders, tally>>

\* ... or finds the bit clear, which bl_future_destroy does not report.
DestroyNothing(c, j) ==
    /\ MayDestroy(c, j)
    /\ fut[j] \notin bits
    /\ fut' = [fut EXCEPT ![j] = NoSlot]
    /\ ClientStep(c, "idle", NoJob)
    /\ UNCHANGED <<orders, index, snap, tally>>

\* ... stores it with the bit cleared, loads the count ...
DestroyUnmark(c) ==
    /\ pc[c] = "unmark"
    /\ bits' = snap[c] \ {index[c]}
    /\ tally' = [tally EXCEPT ![c] = count]
    /\ ClientStep(c, "uncount", target[c])
    /\ UNCHANGED <<pages, count, slot, index, snap, fut>>

\* Mutant: the count is not lowered.
DestroyCountKept(c) ==
    /\ pc[c] = "uncount"
    /\ count' = tally[c]
    /\ ClientStep(c, "idle", NoJob)
    /\ UNCHANGED <<pages, bits, slot, index, snap, tally, fut>>

\* ... and stores the count.
DestroyCount(c) ==
    /\ pc[c] = "uncount"
    /\ count' = tally[c] - 1
    /\ ClientStep(c, "idle", NoJob)
    /\ UNCHANGED <<pages, bits, slot, index, snap, tally, fut>>
-----------------------------------------------------------------------------
(* The end of the pool.  Its futures die with it, so the owner ends it when  *)
(* the other clients are through with it.                                    *)

Leave(c) ==
    /\ c # Owner /\ pc[c] = "idle" /\ phase = "up"
    /\ ClientStep(c, "left", NoJob)
    /\ UNCHANGED <<orders, index, snap, tally, fut>>

MayEnd ==
    /\ phase = "up"
    /\ pc[Owner] = "idle"
    /\ \A c \in Clients \ {Owner} : pc[c] = "left"

\* bl_threadpool_join: exit requests below every job, then the threads.
Join ==
    /\ MayEnd
    /\ lock = NoProc
    /\ phase' = "joining"
    /\ jobsQueue' = jobsQueue \cup {ExitRequest}
    /\ UNCHANGED <<mustExit, lock, orders, pc, calls, cur, fut, status, runs,
                   faults>>

\* bl_container_dynamic_reserve leaves room for the requests with none to
\* spare, and the insertion that uses the last of it wants to grow the array
\* once more.  With one thread that is the only request; its error is ignored.
JoinUnasked ==
    /\ MayEnd
    /\ lock = NoProc
    /\ Cardinality(Workers) = 1
    /\ MayFail
    /\ phase' = "joining"
    /\ UNCHANGED <<mustExit, lock, jobsQueue, orders, pc, calls, cur, fut,
                   status, runs>>

\* The lock or the reservation fails; the pool stays as it is.
JoinFails ==
    /\ MayEnd
    /\ MayFail
    /\ UNCHANGED <<phase, mustExit, lock, jobsQueue, orders, pc, calls, cur,
                   fut, status, runs>>

\* bl_threadpool_exit
Exit ==
    /\ MayEnd
    /\ phase' = "exiting"
    /\ mustExit' = TRUE
    /\ UNCHANGED <<lock, jobsQueue, orders, pc, calls, cur, fut, status, runs,
                   faults>>

\* Every bl_thread_join has returned, of the threads that were created; the
\* pool's memory is freed.
Freed ==
    /\ phase \in {"joining", "exiting", "failing"}
    /\ \A w \in Workers : pc[w] \in Gone
    /\ phase' = "freed"
    /\ UNCHANGED <<mustExit, lock, jobsQueue, orders, pc, calls, cur, fut,
                   status, runs, faults>>

Over == phase = "freed" /\ UNCHANGED vars
-----------------------------------------------------------------------------
PutStep(p) == PutMark(p) \/ PutQueued(p) \/ PutNotQueued(p)

AssignStep(p) ==
    \/ \E j \in Jobs : RejectPriority(p, j) \/ AssignFails(p, j) \/ PutScan(p, j)
    \/ PutStep(p)

WorkerStep(w) ==
    \/ Start(w) \/ StartFails(w)
    \/ CheckExit(w) \/ PollLockFails(w) \/ PollEmpty(w)
    \/ TakeExit(w) \/ TakeJob(w) \/ TakeNull(w)
    \/ Finish(w)
    \/ RelockFails(w) \/ CopyBegin(w) \/ CopyNull(w) \/ CopyEnd(w)

DestroyStep(c) == DestroyUnmark(c) \/ DestroyCount(c)

FutureStep(c) ==
    \/ \E j \in Jobs : AwaitBegin(c, j) \/ DestroyBegin(c, j) \/ DestroyNothing(c, j)
    \/ AwaitReturns(c) \/ AwaitTimesOut(c) \/ ReadResult(c)
    \/ DestroyStep(c)

OwnerStep ==
    \/ \E w \in Workers : CreateThread(w)
    \/ CreateThreadFails \/ InitDone
    \/ Join \/ JoinUnasked \/ JoinFails \/ Exit \/ Freed

Next ==
    \/ \E p \in Procs : AssignStep(p)
    \/ \E w \in Workers : WorkerStep(w)
    \/ \E c \in Clients : FutureStep(c) \/ Leave(c)
    \/ OwnerStep
    \/ Over

Spec == Init /\ [][Next]_vars

(***************************************************************************)
(* The operating system runs every thread, a job's function returns, a call *)
(* of the library once begun goes on, and a started init or join goes on.   *)
(* Nothing makes a client call, time out or leave, and nothing has to fail. *)
(***************************************************************************)
Fairness ==
    /\ \A w \in Workers : WF_vars(WorkerStep(w) \/ PutStep(w))
    /\ \A c \in Clients : WF_vars(PutStep(c) \/ DestroyStep(c) \/ AwaitReturns(c))
    /\ WF_vars(Freed)

FairSpec == Spec /\ Fairness
-----------------------------------------------------------------------------
Status == {"new", "assigning", "refused", "queued", "running", "ran", "lost",
           "published"}
CallPc   == {"mark", "fill"}
ClientPc == {"idle", "awaiting", "awaited", "unmark", "uncount", "astray",
             "left"} \cup CallPc
WorkerPc == {"unborn", "starting", "stillborn", "loop", "poll", "run", "relock",
             "copyResult", "copyFlag", "dead", "crashed"} \cup CallPc
Slot     == 0 .. Capacity(pages) - 1
Content  == [job : Jobs \cup {NoJob}, flag : BOOLEAN, result : BOOLEAN]

TypeOK ==
    /\ phase \in {"creating", "failing", "up", "joining", "exiting", "freed"}
    /\ mustExit \in BOOLEAN
    /\ lock \in Procs \cup {NoProc}
    /\ jobsQueue \subseteq [job : Jobs \cup {NoJob}, location : Nat]
    /\ pages \in Nat \ {0}
    /\ bits \subseteq Slot
    /\ count \in Int
    /\ slot \in [Slot -> Content]
    /\ pc \in [Procs -> ClientPc \cup WorkerPc]
    /\ \A c \in Clients : pc[c] \in ClientPc
    /\ \A w \in Workers : pc[w] \in WorkerPc
    /\ target \in [Procs -> Jobs \cup {NoJob}]
    /\ index \in [Procs -> Slot \cup {NoSlot}]
    /\ snap \in [Procs -> SUBSET Slot]
    /\ tally \in [Procs -> Int]
    /\ cur \in [Workers -> [location : Nat \cup {NoSlot}, job : Jobs \cup {NoJob}]]
    /\ fut \in [Jobs -> Slot \cup {NoSlot}]
    /\ status \in [Jobs -> Status]
    /\ runs \in [Jobs -> Nat]
    /\ faults \in 0 .. MaxFaults

(***************************************************************************)
(* Safety                                                                   *)
(***************************************************************************)

Changing == {"mark", "fill", "unmark", "uncount", "astray"}
InUse(j) == fut[j] # NoSlot

\* One thread at a time is in the middle of changing `orders`: the unlocked
\* bl_future_destroy never overlaps a bl_unordered_container_put.
OrdersExclusive ==
    \A p, q \in Procs : pc[p] \in Changing /\ pc[q] \in Changing => p = q

\* Every future a client holds, and every job waiting or being worked on, has
\* a slot of its own that is marked as taken and is not the exit requests'.
SlotsApart ==
    \A i, j \in Jobs :
        InUse(i) /\ InUse(j) =>
            /\ fut[j] \in bits \ {0}
            /\ fut[i] = fut[j] => i = j

\* While nobody is changing `orders`, the count is the number of taken slots,
\* and if nothing failed the taken slots are slot 0 and those of the futures:
\* none is leaked and none is free too early.
SlotsAccounted ==
    (\A p \in Procs : pc[p] \notin Changing) =>
        /\ count = Cardinality(bits)
        /\ phase = "up" /\ faults = MaxFaults =>
             bits = {0} \cup {fut[j] : j \in {i \in Jobs : InUse(i)}}

\* The function of an assigned job is started at most once, although the
\* entry, the slot and the worker's copy of it are three different things.
RunsOnce == \A j \in Jobs : runs[j] <= 1

\* A future is not valid before its own job's function returned, even in a
\* slot that held a valid future before.
NoStaleFuture ==
    \A j \in Jobs :
        InUse(j) /\ slot[fut[j]].flag => status[j] \in {"ran", "published"}

\* A worker that runs a job or copies its result back does so to a slot that
\* is still that job's, or that nobody has taken since its future was destroyed.
ResultToOwnSlot ==
    \A w \in Workers : cur[w] # NothingTaken =>
        \A j \in Jobs : InUse(j) /\ fut[j] = cur[w].location => cur[w].job = j

\* No worker dereferences a slot that is not taken.
NoNullOrder == \A w \in Workers : pc[w] # "crashed"

\* bl_threadpool_join returns only after every accepted job was run, those
\* that jobs assigned during the join included, unless no worker ever worked.
JoinDrains ==
    phase = "freed" /\ ~mustExit =>
        \/ \A w \in Workers : pc[w] = "stillborn"
        \/ \A j \in Jobs : status[j] \in {"new", "refused", "lost", "published"}

\* A job is started only when none of higher priority waits.
UrgentFirst ==
    [][\A j, k \in Jobs :
          /\ status[j] # "running" /\ status'[j] = "running"
          /\ status[k] = "queued"
          => Prio[k] <= Prio[j]]_vars

(***************************************************************************)
(* Liveness, of FairSpec                                                    *)
(***************************************************************************)

\* An accepted job runs and its result is published, unless the pool exits or
\* something failed.
AcceptedJobPublished ==
    \A j \in Jobs :
        status[j] = "queued" ~> (status[j] = "published" \/ mustExit \/ faults < MaxFaults)

\* bl_future_await returns, unless something failed.
AwaitEnds ==
    \A c \in Clients : pc[c] = "awaiting" ~> (pc[c] # "awaiting" \/ faults < MaxFaults)

\* bl_threadpool_join and bl_threadpool_exit return, and so does a
\* bl_threadpool_init that could not create every thread: those that it did
\* create find mustExit set, and are joined.
EndReturns == phase \in {"joining", "exiting", "failing"} ~> phase = "freed"

(***************************************************************************)
(* What the documentation says and the code does not do                     *)
(***************************************************************************)

\* A future that bl_future_await found valid has its value.
AwaitedResultThere ==
    \A c \in Clients : pc[c] = "awaited" => slot[fut[target[c]]].result
=============================================================================
