--------------------------- MODULE ThreadPool_proof ---------------------------
(***************************************************************************)
(* Theorems about ThreadPool, for any number of workers, clients and jobs.  *)
(* Its types hold always, and nothing breaks ThreadPoolInv!IInv but a       *)
(* destruction of a future that overlaps another change of the slots.  The  *)
(* safety properties that follow from it and the refinement of JobPool hold *)
(* if whoever destroys futures is the only thread that assigns and destroys. *)
(***************************************************************************)
EXTENDS PoolRefinement, FiniteSetTheorems, WellFoundedInduction, TLAPS

(***************************************************************************)
(* The least element of a set of naturals, which FirstOf chooses.           *)
(***************************************************************************)
NatOrder == OpToRel(<, Nat)

\* A set of natural numbers that is not empty has a least one.
LEMMA LeastNatural ==
    ASSUME NEW T \in SUBSET Nat, T # {}
    PROVE  \E x \in T : \A y \in T : x <= y
<1>1. IsWellFoundedOn(NatOrder, Nat)
  BY NatLessThanWellFounded, Zenon DEF NatOrder
<1>2. \E x \in T : \A y \in T : ~ (<<y, x>> \in NatOrder)
  BY <1>1, WFMin, Zenon
<1>3. \A x, y \in Nat : y < x => <<y, x>> \in NatOrder
  BY DEF OpToRel, NatOrder
<1>4. \A x, y \in Nat : x <= y \/ y < x
  OBVIOUS
<1> QED
  BY <1>2, <1>3, <1>4

\* The first of some slots is one of them.
LEMMA FirstOfInSet ==
    ASSUME NEW T \in SUBSET Nat, T # {}
    PROVE  FirstOf(T) \in T /\ \A t \in T : FirstOf(T) <= t
  BY LeastNatural DEF FirstOf

(***************************************************************************)
(* What the pages can hold only grows.                                      *)
(***************************************************************************)
LEMMA CapacityGrows ==
    ASSUME NEW p \in Nat \ {0}
    PROVE  /\ Capacity(p) \in Nat \ {0}
           /\ Grown(p) \in Nat \ {0}
           /\ Capacity(p) < Capacity(Grown(p))
<1>1. PageSize \in Nat \ {0}
  BY PoolAssumption
<1>2. PageSize * p \in Nat \ {0}
  BY <1>1
<1>3. PageSize * (2 * p + 1) = 2 * (PageSize * p) + PageSize
  BY <1>1
<1> QED
  BY <1>1, <1>2, <1>3 DEF Capacity, Grown

\* A container that does not count as full has room.
LEMMA FullOnlyAtCapacity ==
    ASSUME NEW p \in Nat \ {0}, NEW c \in Nat, c <= Capacity(p),
           c \div PageSize # p
    PROVE  c < Capacity(p)
<1>1. PageSize \in Nat \ {0}
  BY PoolAssumption
<1>2. (PageSize * p) \div PageSize = p
  BY <1>1
<1> QED
  BY <1>1, <1>2 DEF Capacity

(***************************************************************************)
(* Types.  A thread in the middle of an assignment knows its job and slot.   *)
(***************************************************************************)
InCall == \A p \in Procs : pc[p] \in CallPc => target[p] \in Jobs /\ index[p] # NoSlot
Typed  == TypeOK /\ InCall

\* The types hold at first.
LEMMA TypedInit == Init => Typed
<1> SUFFICES ASSUME Init PROVE Typed
  OBVIOUS
<1>1. Capacity(1) \in Nat \ {0}
  BY CapacityGrows
<1>2. slot \in [Slot -> Content] /\ pages = 1
  BY DEF Init, Slot, Content, Blank
<1>3. /\ phase \in {"creating", "failing", "up", "joining", "exiting", "freed"}
      /\ mustExit \in BOOLEAN
      /\ lock \in Procs \cup {NoProc}
  BY DEF Init
<1>8. /\ jobsQueue = {} /\ bits = {} /\ count \in Int
  BY DEF Init
<1>7. faults \in 0 .. MaxFaults
  BY PoolAssumption DEF Init
<1>4. /\ pc \in [Procs -> ClientPc \cup WorkerPc]
      /\ \A c \in Clients : pc[c] \in ClientPc
      /\ \A w \in Workers : pc[w] \in WorkerPc
      /\ InCall
  BY PoolAssumption DEF Init, Procs, ClientPc, WorkerPc, CallPc, InCall
<1>5. /\ target \in [Procs -> Jobs \cup {NoJob}]
      /\ index \in [Procs -> Slot \cup {NoSlot}]
      /\ snap \in [Procs -> SUBSET Slot]
      /\ tally \in [Procs -> Int]
  BY DEF Init
<1>6. /\ cur \in [Workers -> [location : Nat \cup {NoSlot}, job : Jobs \cup {NoJob}]]
      /\ fut \in [Jobs -> Slot \cup {NoSlot}]
      /\ status \in [Jobs -> Status]
      /\ runs \in [Jobs -> Nat]
  BY DEF Init, NothingTaken, Status
<1> QED
  BY <1>1, <1>2, <1>3, <1>4, <1>5, <1>6, <1>7, <1>8 DEF Typed, TypeOK

\* Every step keeps the types.
LEMMA TypedStep == Typed /\ [Next]_vars => Typed'
<1> SUFFICES ASSUME Typed, [Next]_vars PROVE Typed'
  OBVIOUS
<1> USE PoolAssumption DEF Typed, TypeOK, InCall, CallPc
<1>1. ASSUME NEW p \in Procs, AssignStep(p) PROVE Typed'
  <2>1. ASSUME NEW j \in Jobs, RejectPriority(p, j) PROVE Typed'
    BY <2>1 DEF RejectPriority, Refuse, orders, calls, Slot, Status
  <2>2. ASSUME NEW j \in Jobs, AssignFails(p, j) PROVE Typed'
    BY <2>2 DEF AssignFails, MayFail, Refuse, orders, calls, Slot, Status
  <2>3. ASSUME NEW j \in Jobs, PutScan(p, j) PROVE Typed'
    <3>1. /\ pages' \in Nat \ {0}
          /\ Slot \subseteq Slot'
          /\ 0 \in Slot'
          /\ Available(pages') \subseteq Slot'
          /\ Slot' \subseteq Nat
      <4>1. pages' \in {pages, Grown(pages)}
        BY <2>3 DEF PutScan
      <4>2. /\ pages' \in Nat \ {0}
            /\ Capacity(pages) \in Nat /\ Capacity(pages') \in Nat \ {0}
            /\ Capacity(pages) <= Capacity(pages')
        BY <4>1, CapacityGrows
      <4> QED
        BY <4>2 DEF Slot, Available
    <3>2. index'[p] \in Slot' /\ index' \in [Procs -> Slot' \cup {NoSlot}]
      <4>1. Available(pages') # {} => FirstOf(Available(pages')) \in Available(pages')
        BY <3>1, FirstOfInSet
      <4> QED
        BY <2>3, <3>1, <4>1 DEF PutScan
    <3>3. slot' \in [Slot' -> Content]
      BY <2>3 DEF PutScan, PagesWith, Slot, Content, Blank
    <3>4. /\ bits' \subseteq Slot'
          /\ snap' \in [Procs -> SUBSET Slot']
          /\ fut' \in [Jobs -> Slot' \cup {NoSlot}]
      BY <2>3, <3>1 DEF PutScan
    <3>5. /\ pc' \in [Procs -> ClientPc \cup WorkerPc]
          /\ \A c \in Clients : pc'[c] \in ClientPc
          /\ \A w \in Workers : pc'[w] \in WorkerPc
          /\ target' \in [Procs -> Jobs \cup {NoJob}]
          /\ \A q \in Procs : pc'[q] \in CallPc => target'[q] \in Jobs /\ index'[q] # NoSlot
      <4>1. PICK lost \in SUBSET Astray :
               pc' = [q \in Procs |-> IF q = p THEN "mark"
                                     ELSE IF q \in lost THEN "astray" ELSE pc[q]]
        BY <2>3 DEF PutScan
      <4>2. \A q \in lost : q \in Clients /\ q \notin Workers
        BY DEF Astray
      <4>3. /\ pc' \in [Procs -> ClientPc \cup WorkerPc]
            /\ \A c \in Clients : pc'[c] \in ClientPc
            /\ \A w \in Workers : pc'[w] \in WorkerPc
            /\ \A q \in Procs : pc'[q] \in CallPc => q = p \/ pc[q] \in CallPc
        BY <4>1, <4>2 DEF ClientPc, WorkerPc, Procs
      <4>4. /\ target' = [target EXCEPT ![p] = j]
            /\ \A q \in Procs : q # p => index'[q] = index[q]
        BY <2>3 DEF PutScan
      <4> QED
        BY <3>1, <3>2, <4>3, <4>4 DEF NoSlot, Procs
    <3> QED
      BY <2>3, <3>1, <3>2, <3>3, <3>4, <3>5 DEF PutScan, Status
  <2>4. CASE PutMark(p)
    BY <2>4 DEF PutMark, Slot, ClientPc, WorkerPc, Procs
  <2>5. CASE PutQueued(p)
    BY <2>5 DEF PutQueued, Fill, calls, AfterAssign, Slot, ClientPc, WorkerPc, Procs, Content, Status
  <2>6. CASE PutNotQueued(p)
    BY <2>6 DEF PutNotQueued, MayFail, Fill, calls, AfterAssign, Slot, ClientPc, WorkerPc, Procs, Content, Status
  <2> QED
    BY <1>1, <2>1, <2>2, <2>3, <2>4, <2>5, <2>6 DEF AssignStep, PutStep
<1>2. ASSUME NEW w \in Workers, WorkerStep(w) PROVE Typed'
  <2>0. w \in Procs /\ w \notin Clients
    BY DEF Procs
  <2> HIDE DEF InCall
  <2>1. ASSUME NEW where \in WorkerPc \ CallPc, OnlyPc(w, where),
               faults' \in 0 .. MaxFaults
        PROVE  Typed'
    BY <2>0, <2>1 DEF OnlyPc, orders, calls, Slot, InCall
  <2>2. CASE Start(w) \/ CheckExit(w) \/ PollEmpty(w) \/ TakeExit(w)
    BY <2>1, <2>2 DEF Start, CheckExit, PollEmpty, TakeExit, WorkerPc
  <2>3. CASE StartFails(w) \/ PollLockFails(w)
    BY <2>1, <2>3 DEF StartFails, PollLockFails, MayFail, WorkerPc
  <2>a. ASSUME NEW where \in WorkerPc \ CallPc, pc' = [pc EXCEPT ![w] = where],
               UNCHANGED <<phase, mustExit, pages, bits, count, calls, fut>>,
               lock' \in Procs \cup {NoProc},
               jobsQueue' \subseteq jobsQueue,
               slot' \in [Slot -> Content],
               cur' \in [Workers -> [location : Nat \cup {NoSlot}, job : Jobs \cup {NoJob}]],
               status' \in [Jobs -> Status],
               runs' \in [Jobs -> Nat],
               faults' \in 0 .. MaxFaults
        PROVE  Typed'
    BY <2>0, <2>a DEF calls, Slot, InCall
  <2>b. {"run", "relock", "loop", "crashed", "copyResult", "copyFlag"} \subseteq WorkerPc \ CallPc
    BY DEF WorkerPc
  <2>c. Slot \subseteq Nat
    BY DEF Slot
  <2>4. CASE TakeJob(w)
    <3>1. PICK e \in jobsQueue : e.location \in bits /\ cur' = [cur EXCEPT ![w] =
                 [location |-> e.location, job |-> slot[e.location].job]]
                 /\ status' = [status EXCEPT ![slot[e.location].job] = "running"]
                 /\ runs' = [runs EXCEPT ![slot[e.location].job] = @ + 1]
                 /\ jobsQueue' = jobsQueue \ {e}
      BY <2>4 DEF TakeJob
    <3>2. e.location \in Slot /\ slot[e.location].job \in Jobs \cup {NoJob}
      BY <3>1 DEF Content
    <3>3. cur' \in [Workers -> [location : Nat \cup {NoSlot}, job : Jobs \cup {NoJob}]]
      BY <2>c, <3>1, <3>2
    <3>4. status' \in [Jobs -> Status]
      BY <3>1 DEF Status
    <3>5. runs' \in [Jobs -> Nat]
      <4>1. \A k \in Jobs : runs[k] \in Nat /\ runs[k] + 1 \in Nat
        OBVIOUS
      <4>2. runs' = [k \in Jobs |-> IF k = slot[e.location].job THEN runs[k] + 1 ELSE runs[k]]
        BY <3>1, Zenon
      <4> QED
        BY <4>1, <4>2
    <3> QED
      BY <2>a, <2>b, <2>4, <3>1, <3>3, <3>4, <3>5 DEF TakeJob, orders
  <2>5. CASE TakeNull(w)
    BY <2>0, <2>a, <2>b, <2>5 DEF TakeNull, orders
  <2>6. CASE CopyNull(w)
    BY <2>0, <2>a, <2>b, <2>6 DEF CopyNull, orders
  <2>7. CASE Finish(w)
    <3>1. status' \in [Jobs -> Status]
      BY <2>7 DEF Finish, Status
    <3> QED
      BY <2>a, <2>b, <2>7, <3>1 DEF Finish, orders
  <2>8. CASE RelockFails(w)
    <3>1. /\ status' \in [Jobs -> Status]
          /\ cur' \in [Workers -> [location : Nat \cup {NoSlot}, job : Jobs \cup {NoJob}]]
      BY <2>8 DEF RelockFails, Status, NothingTaken
    <3>2. faults' \in 0 .. MaxFaults
      BY <2>8 DEF RelockFails, MayFail
    <3> QED
      BY <2>a, <2>b, <2>8, <3>1, <3>2 DEF RelockFails, orders
  <2>9. CASE CopyBegin(w)
    <3>1. PICK rest \in {"copyResult", "copyFlag"} :
             /\ pc' = [pc EXCEPT ![w] = rest]
             /\ slot' = [slot EXCEPT ![cur[w].location] =
                   [job    |-> cur[w].job,
                    flag   |-> IF rest = "copyResult" THEN TRUE ELSE @.flag,
                    result |-> IF rest = "copyFlag" THEN TRUE ELSE @.result]]
      BY <2>9 DEF CopyBegin
    <3>2. slot' \in [Slot -> Content]
      BY <3>1 DEF Content
    <3> QED
      BY <2>0, <2>a, <2>b, <2>9, <3>1, <3>2 DEF CopyBegin
  <2>10. CASE CopyEnd(w)
    <3>1. /\ slot' \in [Slot -> Content]
          /\ cur' \in [Workers -> [location : Nat \cup {NoSlot}, job : Jobs \cup {NoJob}]]
          /\ status' \in [Jobs -> Status]
      BY <2>10 DEF CopyEnd, Content, Status, NothingTaken
    <3> QED
      BY <2>0, <2>a, <2>b, <2>10, <3>1 DEF CopyEnd
  <2> QED
    BY <1>2, <2>2, <2>3, <2>4, <2>5, <2>6, <2>7, <2>8, <2>9, <2>10 DEF WorkerStep
<1>3. ASSUME NEW c \in Clients, FutureStep(c) \/ Leave(c) PROVE Typed'
  <2>0. c \in Procs /\ c \notin Workers
    BY DEF Procs
  <2>1. ASSUME NEW where \in ClientPc \ CallPc, NEW j \in Jobs \cup {NoJob},
               ClientStep(c, where, j), UNCHANGED <<pages, slot>>,
               bits' \subseteq Slot, count' \in Int,
               index' \in [Procs -> Slot \cup {NoSlot}],
               snap' \in [Procs -> SUBSET Slot], tally' \in [Procs -> Int],
               fut' \in [Jobs -> Slot \cup {NoSlot}],
               \A p \in Procs \ {c} : index'[p] = index[p]
        PROVE  Typed'
    BY <2>0, <2>1 DEF ClientStep, Slot
  <2>2. CASE \E j \in Jobs : AwaitBegin(c, j)
    BY <2>1, <2>2 DEF AwaitBegin, orders, ClientPc
  <2>3. CASE AwaitReturns(c)
    BY <2>0, <2>1, <2>3 DEF AwaitReturns, orders, ClientPc
  <2>4. CASE AwaitTimesOut(c) \/ ReadResult(c) \/ Leave(c)
    BY <2>1, <2>4 DEF AwaitTimesOut, ReadResult, Leave, orders, ClientPc
  <2>5. CASE \E j \in Jobs : DestroyBegin(c, j)
    BY <2>0, <2>1, <2>5 DEF DestroyBegin, orders, ClientPc
  <2>6. CASE \E j \in Jobs : DestroyNothing(c, j)
    BY <2>1, <2>6 DEF DestroyNothing, orders, ClientPc
  <2>7. CASE DestroyUnmark(c)
    BY <2>0, <2>1, <2>7 DEF DestroyUnmark, ClientPc
  <2>8. CASE DestroyCount(c)
    BY <2>0, <2>1, <2>8 DEF DestroyCount, ClientPc
  <2> QED
    BY <1>3, <2>2, <2>3, <2>4, <2>5, <2>6, <2>7, <2>8 DEF FutureStep, DestroyStep
<1>4. CASE OwnerStep
  <2>1. ASSUME NEW w \in Workers, CreateThread(w) PROVE Typed'
    BY <2>1 DEF CreateThread, orders, calls, Slot, WorkerPc, Procs
  <2>2. CASE InitDone
    BY <2>2, CapacityGrows DEF InitDone, calls, Slot
  <2>3. ASSUME UNCHANGED <<lock, orders, pc, calls, cur, fut, status, runs>>,
               phase' \in {"failing", "up", "joining", "exiting", "freed"},
               mustExit' \in BOOLEAN,
               jobsQueue' \subseteq jobsQueue \cup {ExitRequest},
               faults' \in 0 .. MaxFaults
        PROVE  Typed'
    BY <2>3 DEF orders, calls, Slot, ExitRequest
  <2>4. CASE CreateThreadFails
    BY <2>3, <2>4 DEF CreateThreadFails, MayFail
  <2>5. CASE Join \/ Exit \/ Freed
    BY <2>3, <2>5 DEF Join, Exit, Freed
  <2>6. CASE JoinUnasked
    BY <2>3, <2>6 DEF JoinUnasked, MayFail
  <2>7. CASE JoinFails
    BY <2>3, <2>7 DEF JoinFails, MayFail, MayEnd
  <2> QED
    BY <1>4, <2>1, <2>2, <2>4, <2>5, <2>6, <2>7 DEF OwnerStep
<1>5. CASE Over \/ UNCHANGED vars
  BY <1>5 DEF Over, vars, orders, calls, Slot
<1> QED
  BY <1>1, <1>2, <1>3, <1>4, <1>5 DEF Next

(***************************************************************************)
(* Every variable keeps its type, for every pool.                           *)
(***************************************************************************)
THEOREM TypeCorrect == Spec => []TypeOK
<1>1. Typed => TypeOK
  BY DEF Typed
<1> QED
  BY <1>1, TypedInit, TypedStep, PTL DEF Spec

-----------------------------------------------------------------------------
(* ThreadPoolInv!IInv.  First lemmas about one state.                      *)

\* Only the holder of the mutex, or the lone destroyer, changes slots.
LEMMA OneChanger ==
    ASSUME Typed, LockInv, CallerInv, LoneDestroyer
    PROVE  OrdersExclusive
<1> USE PoolAssumption DEF Typed, TypeOK, Procs, CallPc, WorkerPc
<1>1. \A p, q \in Procs : pc[p] \in CallPc /\ pc[q] \in CallPc => p = q
  BY DEF LockInv, CopyPc
<1>2. \A p \in Procs : pc[p] \in {"unmark", "uncount", "astray"} =>
                         p \in Clients /\ p \in Destroyers
  BY DEF CallerInv
<1>3. \A p, q \in Procs :
         pc[p] \in {"unmark", "uncount", "astray"} => pc[q] \notin CallPc
  BY SMTT(20), <1>2 DEF CallerInv, LoneDestroyer
<1>4. \A p, q \in Procs :
         pc[p] \in {"unmark", "uncount", "astray"} /\ pc[q] \in {"unmark", "uncount", "astray"}
            => p = q
  BY <1>2 DEF LoneDestroyer
<1> QED
  BY <1>1, <1>3, <1>4 DEF OrdersExclusive, Changing

\* Who begins to change slots and is then the only one was so before.
LEMMA Alone ==
    ASSUME Typed, OrdersExclusive', NEW p \in Procs, pc[p] \notin Changing,
           pc'[p] \in Changing,
           \A q \in Procs : pc[q] \in Changing /\ q # p => pc'[q] \in Changing
    PROVE  \A q \in Procs : pc[q] \notin Changing
  BY DEF OrdersExclusive

\* No more slots are taken than there are.
LEMMA BitsFinite ==
    ASSUME Typed
    PROVE  /\ IsFiniteSet(bits) /\ Cardinality(bits) \in Nat
           /\ Cardinality(bits) <= Capacity(pages)
<1>1. Capacity(pages) \in Nat \ {0} /\ bits \subseteq 0 .. Capacity(pages) - 1
  BY CapacityGrows DEF Typed, TypeOK, Slot
<1>2. /\ IsFiniteSet(0 .. Capacity(pages) - 1)
      /\ Cardinality(0 .. Capacity(pages) - 1) = Capacity(pages)
  BY <1>1, FS_Interval
<1> QED
  BY <1>1, <1>2, FS_Subset, FS_CardinalityType

\* Whoever is in a call is inside an open pool, where slot 0 is taken.
LEMMA ChangingInOpen ==
    ASSUME Typed, IInv, NEW p \in Procs, pc[p] \in Changing
    PROVE  phase \in Open /\ 0 \in bits
<1> USE DEF Typed, TypeOK, IInv, PhaseInv, Changing, Open
<1>1. CASE p \in Clients
  BY <1>1
<1>2. CASE p \in Workers
  <2>1. pc[p] \in CallPc
    BY <1>2 DEF WorkerPc, CallPc
  <2>2. target[p] \in Jobs /\ status[target[p]] = "assigning"
    BY <2>1 DEF CallerInv, InCall
  <2> QED
    BY <1>2, <2>1, <2>2 DEF CallPc, Gone
<1> QED
  BY <1>1, <1>2 DEF Procs

\* bl_unordered_container_put finds a clear bit: it grows a full container.
LEMMA RoomAfterGrowth ==
    ASSUME Typed, count = Cardinality(bits),
           NEW p, p = IF IsFull THEN Grown(pages) ELSE pages
    PROVE  /\ Available(p) # {}
           /\ FirstOf(Available(p)) \in Available(p)
           /\ Available(p) \subseteq Nat
<1>1. pages \in Nat \ {0} /\ bits \subseteq 0 .. Capacity(pages) - 1
  BY DEF Typed, TypeOK, Slot
<1>2. p \in Nat \ {0} /\ Capacity(pages) \in Nat /\ Capacity(p) \in Nat
  BY <1>1, CapacityGrows
<1>3. Cardinality(bits) < Capacity(p)
  <2>1. CASE IsFull
    BY <2>1, <1>1, <1>2, BitsFinite, CapacityGrows
  <2>2. CASE ~IsFull
    BY <2>2, <1>1, <1>2, BitsFinite, FullOnlyAtCapacity DEF IsFull
  <2> QED
    BY <2>1, <2>2
<1>4. Available(p) # {}
  <2> SUFFICES ASSUME Available(p) = {} PROVE FALSE
    OBVIOUS
  <2>1. 0 .. Capacity(p) - 1 \subseteq bits
    BY DEF Available
  <2>2. Cardinality(0 .. Capacity(p) - 1) = Capacity(p)
    BY <1>2, FS_Interval
  <2> QED
    BY <1>2, <1>3, <2>1, <2>2, BitsFinite, FS_Subset
<1>5. Available(p) \subseteq Nat
  BY <1>2 DEF Available
<1> QED
  BY <1>4, <1>5, FirstOfInSet

\* A step that no worker's progress on its job shows in.
LEMMA SameWork ==
    ASSUME Typed, WorkInv, UNCHANGED cur,
           \A w \in Workers : pc'[w] \in WorkPc <=> pc[w] \in WorkPc,
           \A w \in Workers : pc'[w] \in RunPc <=> pc[w] \in RunPc,
           \A w \in Workers : pc'[w] = "relock" <=> pc[w] = "relock",
           \A j \in Jobs : status[j] \in {"running", "ran"}
                             \/ status'[j] \in {"running", "ran"}
                          => status'[j] = status[j],
           \A w \in Workers : pc[w] \in RunPc \cup {"relock"} =>
               /\ fut'[cur[w].job] = fut[cur[w].job]
               /\ slot'[cur[w].location] = slot[cur[w].location],
           ResultToOwnSlot'
    PROVE  WorkInv'
<1>1. \A w \in Workers : pc'[w] \in WorkPc =>
          /\ cur'[w].job \in Jobs /\ cur'[w].location # NoSlot
          /\ pc'[w] \in RunPc => status'[cur'[w].job] = "running"
          /\ pc'[w] \notin RunPc => status'[cur'[w].job] = "ran"
  BY DEF WorkInv
<1>2. \A w \in Workers : pc'[w] \in RunPc \cup {"relock"} =>
          fut'[cur'[w].job] = cur'[w].location /\ ~slot'[cur'[w].location].flag
  BY DEF WorkInv
<1>3. \A j \in Jobs : status'[j] \in {"running", "ran"} =>
          \E w \in Workers : pc'[w] \in WorkPc /\ cur'[w].job = j
  BY DEF WorkInv
<1>4. \A w \in Workers : pc'[w] \notin WorkPc => cur'[w] = NothingTaken
  BY DEF WorkInv
<1>5. \A v, w \in Workers :
          pc'[v] \in WorkPc /\ pc'[w] \in WorkPc /\ cur'[v].job = cur'[w].job => v = w
  BY DEF WorkInv
<1>6. RunPc \subseteq WorkPc
  BY DEF WorkPc
<1> QED
  BY <1>1, <1>2, <1>3, <1>4, <1>5, <1>6 DEF WorkInv

-----------------------------------------------------------------------------
(* Steps that move one thread and change no data.                           *)

\* A worker between two jobs.
LEMMA BetweenJobs ==
    ASSUME Typed, IInv, NEW w \in Workers,
           NEW where \in {"starting", "stillborn", "loop", "poll", "dead"},
           pc[w] \in {"unborn", "starting", "loop", "poll"},
           OnlyPc(w, where), faults' \in 0 .. faults,
           PhaseInv', DrainInv'
    PROVE  IInv'
<1> USE PoolAssumption
        DEF Typed, TypeOK, IInv, OnlyPc, orders, calls, Procs, CallPc, CopyPc
<1>1. LockInv' /\ CallerInv'
  BY DEF LockInv, CallerInv
<1>2. OrdersInv'
  BY DEF OrdersInv
<1>3. OwnedInv'
  BY DEF OwnedInv
<1>4. SlotInv' /\ QueueInv' /\ RunsInv'
  BY DEF SlotInv, SlotsApart, InUse, QueueInv, RunsInv
<1>5. WorkInv'
  BY DEF WorkInv, ResultToOwnSlot, InUse, WorkPc, RunPc
<1>6. NoNullOrder'
  BY DEF NoNullOrder
<1> QED
  BY <1>1, <1>2, <1>3, <1>4, <1>5, <1>6

\* A client that uses a future, or leaves.
LEMMA BetweenCalls ==
    ASSUME Typed, IInv, NEW c \in Clients, NEW j \in Jobs \cup {NoJob},
           NEW where \in {"idle", "awaiting", "awaited", "left"},
           pc[c] \in {"idle", "awaiting", "awaited"}, phase = "up",
           ClientStep(c, where, j), UNCHANGED <<orders, index, snap, tally, fut>>
    PROVE  IInv'
<1> USE PoolAssumption
        DEF Typed, TypeOK, IInv, ClientStep, orders, Procs, CallPc, CopyPc
<1>1. LockInv' /\ CallerInv'
  BY DEF LockInv, CallerInv
<1>2. OrdersInv'
  BY DEF OrdersInv
<1>3. OwnedInv'
  BY DEF OwnedInv
<1>4. SlotInv' /\ QueueInv' /\ RunsInv'
  BY DEF SlotInv, SlotsApart, InUse, QueueInv, RunsInv
<1>5. WorkInv' /\ DrainInv' /\ NoNullOrder'
  BY DEF WorkInv, ResultToOwnSlot, InUse, DrainInv, NoNullOrder
<1>6. PhaseInv'
  BY DEF PhaseInv
<1> QED
  BY <1>1, <1>2, <1>3, <1>4, <1>5, <1>6

\* The owner that ends the pool.
LEMMA EndingStep ==
    ASSUME Typed, IInv, jobsQueue' \in {jobsQueue, jobsQueue \cup {ExitRequest}},
           UNCHANGED <<lock, orders, pc, calls, cur, fut, status, runs>>,
           mustExit => mustExit', faults' \in 0 .. faults,
           phase' \in Open => phase \in Open,
           PhaseInv'
    PROVE  IInv'
<1> USE PoolAssumption
        DEF Typed, TypeOK, IInv, orders, calls, Procs, CallPc, CopyPc
<1>1. LockInv' /\ CallerInv'
  BY DEF LockInv, CallerInv
<1>2. OrdersInv'
  BY DEF OrdersInv
<1>3. OwnedInv'
  BY DEF OwnedInv
<1>4. SlotInv' /\ RunsInv'
  BY DEF SlotInv, SlotsApart, InUse, RunsInv
<1>5. QueueInv'
  BY DEF QueueInv
<1>6. WorkInv' /\ DrainInv' /\ NoNullOrder'
  BY DEF WorkInv, ResultToOwnSlot, InUse, DrainInv, NoNullOrder
<1> QED
  BY <1>1, <1>2, <1>3, <1>4, <1>5, <1>6

\* A refused assignment.
LEMMA RefusedStep ==
    ASSUME Typed, IInv, NEW p \in Procs, NEW j \in Jobs,
           MayAssign(p, j), Refuse(j), faults' \in 0 .. faults
    PROVE  IInv'
<1> USE PoolAssumption
        DEF Typed, TypeOK, IInv, MayAssign, Refuse, orders, calls, Procs, CallPc, CopyPc
<1>1. LockInv'
  BY DEF LockInv
<1>2. CallerInv'
  BY DEF CallerInv
<1>3. PhaseInv'
  BY DEF PhaseInv, WorkInv, RunPc, WorkPc
<1>4. OrdersInv'
  BY DEF OrdersInv
<1>5. OwnedInv'
  BY DEF OwnedInv
<1>6. SlotInv'
  BY DEF SlotInv, SlotsApart, InUse
<1>7. QueueInv' /\ RunsInv'
  BY DEF QueueInv, RunsInv
<1>8. WorkInv'
  BY DEF WorkInv, ResultToOwnSlot, InUse, WorkPc, RunPc
<1>9. DrainInv' /\ NoNullOrder'
  BY DEF DrainInv, NoNullOrder
<1> QED
  BY <1>1, <1>2, <1>3, <1>4, <1>5, <1>6, <1>7, <1>8, <1>9

-----------------------------------------------------------------------------
(* The owner's steps.                                                       *)

\* Init creates a thread, or fails to.
LEMMA CreatingStep ==
    ASSUME Typed, IInv, NEW w \in Workers, CreateThread(w)
    PROVE  IInv'
<1> USE PoolAssumption DEF Typed, TypeOK, IInv, CreateThread
<1>1. PhaseInv'
  BY DEF PhaseInv, Gone, Open, Procs, orders
<1>2. DrainInv'
  BY DEF DrainInv, PhaseInv
<1>3. OnlyPc(w, "starting") /\ pc[w] = "unborn" /\ faults' \in 0 .. faults
  BY DEF OnlyPc
<1> QED
  BY <1>1, <1>2, <1>3, BetweenJobs

\* Init has created all.
LEMMA InitDoneStep ==
    ASSUME Typed, IInv, InitDone
    PROVE  IInv'
<1> USE PoolAssumption
        DEF Typed, TypeOK, InitDone, calls, Procs, CallPc, CopyPc
<1>0. \A p \in Procs : pc[p] \notin {"fill", "uncount", "unmark", "mark"}
  <2>1. phase = "creating"
    OBVIOUS
  <2>2. \A j \in Jobs : status[j] = "new"
    BY <2>1 DEF IInv, PhaseInv
  <2>3. \A p \in Procs : pc[p] \notin CallPc
    BY <2>2 DEF IInv, CallerInv, InCall
  <2>4. \A c \in Clients : pc[c] = "idle"
    BY <2>1 DEF IInv, PhaseInv
  <2>5. \A w \in Workers : pc[w] \notin {"unmark", "uncount"}
    BY DEF WorkerPc
  <2> QED
    BY <2>3, <2>4, <2>5
<1>1. LockInv' /\ CallerInv'
  BY DEF IInv, LockInv, CallerInv
<1>2. OrdersInv'
  <2>1. bits = {} /\ bits' = {0} /\ count' = count + 1
    BY DEF IInv, PhaseInv
  <2>2. count = Cardinality(bits)
    BY <1>0 DEF IInv, OrdersInv
  <2>3. count' = Cardinality(bits')
    <3>1. Cardinality({}) = 0
      BY FS_EmptySet
    <3>2. Cardinality({0}) = 1
      BY FS_Singleton
    <3> QED
      BY <2>1, <2>2, <3>1, <3>2
  <2> QED
    BY <1>0, <2>3 DEF OrdersInv
<1>3. OwnedInv'
  BY DEF IInv, PhaseInv, OwnedInv
<1>4. SlotInv' /\ RunsInv'
  BY DEF IInv, PhaseInv, SlotInv, SlotsApart, InUse, RunsInv
<1>5. QueueInv'
  BY DEF IInv, QueueInv
<1>6. WorkInv' /\ DrainInv' /\ NoNullOrder'
  BY DEF IInv, WorkInv, ResultToOwnSlot, InUse, DrainInv, NoNullOrder
<1>7. PhaseInv'
  BY DEF IInv, PhaseInv, Threads, Gone, Open
<1> QED
  BY <1>1, <1>2, <1>3, <1>4, <1>5, <1>6, <1>7 DEF IInv

\* Every step of the owner.
LEMMA OwnersStep ==
    ASSUME Typed, IInv, OwnerStep
    PROVE  IInv'
<1> USE DEF Typed, TypeOK, IInv
<1>1. ASSUME NEW w \in Workers, CreateThread(w) PROVE IInv'
  BY <1>1, CreatingStep
<1>2. CASE InitDone
  BY <1>2, InitDoneStep
<1>3. CASE CreateThreadFails
  <2>1. PhaseInv'
    BY <1>3 DEF CreateThreadFails, PhaseInv, orders, Gone, Open
  <2> QED
    BY <1>3, <2>1, EndingStep DEF CreateThreadFails, MayFail, Open
<1>4. CASE Join
  <2>1. PhaseInv'
    BY <1>4, PoolAssumption DEF Join, MayEnd, PhaseInv, orders, Gone, Open
  <2> QED
    BY <1>4, <2>1, EndingStep DEF Join, MayEnd, Open
<1>5. CASE JoinUnasked
  <2>1. PhaseInv'
    BY <1>5, PoolAssumption DEF JoinUnasked, MayEnd, PhaseInv, orders, Gone, Open
  <2> QED
    BY <1>5, <2>1, EndingStep DEF JoinUnasked, MayFail, MayEnd, Open
<1>6. CASE JoinFails
  <2>1. PhaseInv'
    BY <1>6 DEF JoinFails, PhaseInv, orders
  <2> QED
    BY <1>6, <2>1, EndingStep DEF JoinFails, MayFail, MayEnd
<1>7. CASE Exit
  <2>1. PhaseInv'
    BY <1>7, PoolAssumption DEF Exit, MayEnd, PhaseInv, orders, Gone, Open
  <2> QED
    BY <1>7, <2>1, EndingStep DEF Exit, MayEnd, Open
<1>8. CASE Freed
  <2>1. PhaseInv'
    BY <1>8 DEF Freed, PhaseInv, orders, Gone, Open
  <2> QED
    BY <1>8, <2>1, EndingStep DEF Freed, Open
<1> QED
  BY <1>1, <1>2, <1>3, <1>4, <1>5, <1>6, <1>7, <1>8 DEF OwnerStep

-----------------------------------------------------------------------------
(* The steps of an assignment.                                              *)

\* An assignment has found a free slot.
LEMMA PutScanStep ==
    ASSUME Typed, IInv, OrdersExclusive', NEW p \in Procs, NEW j \in Jobs, PutScan(p, j)
    PROVE  IInv'
<1>0. \A s \in Slot : slot'[s] = slot[s]
  <2>1. pages \in Nat \ {0}
    BY DEF Typed, TypeOK
  <2>2. pages' \in {pages, Grown(pages)}
    BY DEF PutScan
  <2>3. \A s \in Slot : s \in 0 .. Capacity(pages') - 1
    BY <2>1, <2>2, CapacityGrows DEF Slot
  <2>4. slot' = PagesWith(pages')
    BY DEF PutScan
  <2>5. DOMAIN slot = Slot
    BY DEF Typed, TypeOK
  <2> QED
    BY <2>3, <2>4, <2>5 DEF PagesWith
<1>a. PICK lost \in SUBSET Astray :
         pc' = [q \in Procs |-> IF q = p THEN "mark"
                               ELSE IF q \in lost THEN "astray" ELSE pc[q]]
  BY DEF PutScan
<1>1. \A q \in Procs : pc[q] \notin Changing
  <2>1. pc[p] \notin Changing
    BY DEF PutScan, MayAssign, Changing
  <2>2. pc'[p] \in Changing
    BY <1>a DEF Changing
  <2>3. \A q \in Procs : pc[q] \in Changing /\ q # p => pc'[q] \in Changing
    BY <1>a DEF Changing
  <2> QED
    BY <2>1, <2>2, <2>3, Alone
<1>b. pc' = [pc EXCEPT ![p] = "mark"]
  <2>1. lost = {}
    BY <1>1 DEF Astray, Changing, Procs
  <2> QED
    BY <1>a, <2>1 DEF Typed, TypeOK
<1>c. /\ MayAssign(p, j) /\ AcceptablePriority(j) /\ lock = NoProc /\ lock' = p
      /\ status' = [status EXCEPT ![j] = "assigning"]
      /\ pages' = IF IsFull THEN Grown(pages) ELSE pages
      /\ slot' = PagesWith(pages')
      /\ index' = [index EXCEPT ![p] = IF Available(pages') = {} THEN 0
                                       ELSE FirstOf(Available(pages'))]
      /\ snap' = [snap EXCEPT ![p] = bits]
      /\ target' = [target EXCEPT ![p] = j]
      /\ UNCHANGED <<phase, mustExit, jobsQueue, bits, count, tally, cur, fut,
                     runs, faults>>
  BY DEF PutScan
<1> USE PoolAssumption, <1>b, <1>c
        DEF Typed, TypeOK, Procs, CallPc, CopyPc, MayAssign
<1>2. count = Cardinality(bits)
  BY <1>1 DEF Changing, IInv, OrdersInv
<1>3. index'[p] \notin bits /\ index'[p] \in Nat
  BY <1>2, RoomAfterGrowth DEF Available
<1>5. LockInv'
  BY DEF IInv, LockInv
<1>6. CallerInv'
  BY DEF IInv, LockInv, CallerInv
<1>7. PhaseInv'
  BY DEF IInv, PhaseInv, WorkInv, RunPc, WorkPc, Gone
<1>8. OrdersInv'
  BY <1>1, <1>2, <1>3 DEF Changing, IInv, OrdersInv
<1>9. OwnedInv'
  BY DEF IInv, OwnedInv
<1>10. SlotInv'
  BY <1>0 DEF IInv, SlotInv, SlotsApart, InUse
<1>11. QueueInv' /\ RunsInv'
  BY DEF IInv, QueueInv, RunsInv
<1>12. WorkInv'
  <2>1. \A w \in Workers : pc[w] \in RunPc \cup {"relock"} =>
           cur[w].location \in Slot /\ slot'[cur[w].location] = slot[cur[w].location]
    BY <1>0 DEF IInv, WorkInv, WorkPc, RunPc
  <2>2. \A w \in Workers : pc'[w] \in RunPc <=> pc[w] \in RunPc
    BY DEF RunPc
  <2>5. \A w \in Workers : pc'[w] \in WorkPc <=> pc[w] \in WorkPc
    BY DEF RunPc, WorkPc
  <2>6. \A w \in Workers : pc'[w] = "relock" <=> pc[w] = "relock"
    OBVIOUS
  <2>7. UNCHANGED cur
    OBVIOUS
  <2>3. ResultToOwnSlot'
    BY DEF IInv, WorkInv, ResultToOwnSlot, InUse
  <2>4. \A i \in Jobs : status[i] \in {"running", "ran"} \/ status'[i] \in {"running", "ran"}
                        => status'[i] = status[i]
    OBVIOUS
  <2> QED
    BY <2>1, <2>2, <2>3, <2>4, <2>5, <2>6, <2>7, SameWork DEF IInv
<1>13. DrainInv' /\ NoNullOrder'
  BY DEF IInv, DrainInv, NoNullOrder, Active, WorkPc, RunPc
<1> QED
  BY <1>5, <1>6, <1>7, <1>8, <1>9, <1>10, <1>11, <1>12, <1>13 DEF IInv

\* An assignment has taken the slot.
LEMMA PutMarkStep ==
    ASSUME Typed, IInv, OrdersExclusive, NEW p \in Procs, PutMark(p)
    PROVE  IInv'
<1> USE PoolAssumption DEF Typed, TypeOK, Procs, CallPc, CopyPc, PutMark
<1>1. \A q \in Procs \ {p} : pc[q] \notin Changing
  BY DEF OrdersExclusive, Changing
<1>2. /\ count = Cardinality(bits)
      /\ index[p] \notin bits
      /\ bits' = bits \cup {index[p]}
  BY <1>1 DEF Changing, IInv, OrdersInv
<1>3. Cardinality(bits') = count + 1
  <2>1. IsFiniteSet(bits)
    BY BitsFinite
  <2>2. Cardinality(bits \cup {index[p]}) = Cardinality(bits) + 1
    BY <1>2, <2>1, FS_AddElement, Zenon
  <2> QED
    BY <1>2, <2>2, Zenon
<1>4. index[p] # 0 /\ 0 \in bits /\ phase \in Open
  BY <1>2, ChangingInOpen DEF Changing
<1>5. \A j \in Jobs : fut[j] # index[p]
  BY <1>2 DEF IInv, SlotInv, SlotsApart, InUse, InCall
<1>6. LockInv' /\ CallerInv'
  BY DEF IInv, LockInv, CallerInv
<1>7. PhaseInv'
  BY <1>2, <1>4 DEF IInv, PhaseInv, Gone, Open
<1>8. OrdersInv'
  BY <1>1, <1>2, <1>3, <1>4, <1>5 DEF Changing, IInv, OrdersInv
<1>9. OwnedInv'
  BY <1>2 DEF IInv, OwnedInv
<1>10. SlotInv'
  BY <1>2, <1>4 DEF IInv, SlotInv, SlotsApart, InUse
<1>11. QueueInv' /\ RunsInv'
  BY DEF IInv, QueueInv, RunsInv
<1>12. WorkInv'
  BY DEF IInv, WorkInv, ResultToOwnSlot, InUse, WorkPc, RunPc
<1>13. DrainInv' /\ NoNullOrder'
  BY DEF IInv, DrainInv, NoNullOrder, Active, WorkPc, RunPc
<1> QED
  BY <1>6, <1>7, <1>8, <1>9, <1>10, <1>11, <1>12, <1>13 DEF IInv

\* What is common to both ends of bl_threadpool_job_assign.
LEMMA FillStep ==
    ASSUME Typed, IInv, OrdersExclusive, NEW p \in Procs, Fill(p),
           NEW s \in {"queued", "refused"},
           status' = [status EXCEPT ![target[p]] = s],
           jobsQueue' \subseteq jobsQueue \cup
               {[job |-> target[p], location |-> index[p]]},
           fut' \in {fut, [fut EXCEPT ![target[p]] = index[p]]},
           faults' \in 0 .. faults
    PROVE  /\ LockInv' /\ CallerInv' /\ PhaseInv' /\ OrdersInv' /\ RunsInv'
           /\ NoNullOrder'
           /\ target[p] \in Jobs /\ index[p] \in Slot /\ index[p] \in bits \ {0}
           /\ status[target[p]] = "assigning"
           /\ AcceptablePriority(target[p])
           /\ \A j \in Jobs : fut[j] # index[p]
           /\ ~InUse(target[p])
           /\ \A w \in Workers : pc[w] \in WorkPc =>
                 cur[w].location # index[p] /\ cur[w].job # target[p]
<1> USE PoolAssumption DEF Typed, TypeOK, Procs, CallPc, CopyPc, Fill, calls
<1>1. /\ target[p] \in Jobs /\ index[p] \in Slot /\ index[p] \in bits \ {0}
      /\ status[target[p]] = "assigning"
      /\ AcceptablePriority(target[p])
      /\ \A j \in Jobs : fut[j] # index[p]
  BY DEF IInv, CallerInv, InCall, OrdersInv
<1>2. /\ phase \in Open
      /\ \A q \in Procs : pc[q] \in Changing => q = p
  BY ChangingInOpen DEF OrdersExclusive, Changing
<1>3. LockInv'
  BY DEF AfterAssign, IInv, LockInv
<1>4. CallerInv'
  <2>1. \A q \in Procs \ {p} : pc[q] \notin CallPc
    BY <1>2 DEF Changing
  <2>2. \A j \in Jobs : status[j] = "assigning" => j = target[p]
    BY <2>1 DEF IInv, CallerInv
  <2> QED
    BY <2>1, <2>2 DEF AfterAssign, IInv, CallerInv
<1>5. PhaseInv'
  BY <1>1, <1>2 DEF AfterAssign, IInv, PhaseInv, Open, Gone, ExitRequest
<1>6. OrdersInv'
  BY <1>2, BitsFinite DEF AfterAssign, Changing, IInv, OrdersInv
<1>7. RunsInv' /\ NoNullOrder'
  BY <1>1 DEF AfterAssign, IInv, RunsInv, NoNullOrder
<1>8. ~InUse(target[p])
  BY <1>1 DEF InUse, IInv, SlotInv
<1>9. ASSUME NEW w \in Workers, pc[w] \in WorkPc
      PROVE  cur[w].location # index[p] /\ cur[w].job # target[p]
  <2>1. cur[w].job \in Jobs /\ status[cur[w].job] \in {"running", "ran"}
    BY <1>9 DEF IInv, WorkInv
  <2>2. pc[w] \notin CopyPc
    BY DEF IInv, LockInv
  <2>3. fut[cur[w].job] = cur[w].location
    BY <1>9, <2>2 DEF IInv, WorkInv, WorkPc
  <2> QED
    BY <1>1, <2>1, <2>3
<1> QED
  BY <1>1, <1>3, <1>4, <1>5, <1>6, <1>7, <1>8, <1>9

\* An assignment has put its job on the heap.
LEMMA PutQueuedStep ==
    ASSUME Typed, IInv, OrdersExclusive, NEW p \in Procs, PutQueued(p)
    PROVE  IInv'
<1> DEFINE t == target[p]
           i == index[p]
<1>1. /\ t \in Jobs /\ i \in Slot /\ i \in bits \ {0}
      /\ status[t] = "assigning" /\ AcceptablePriority(t)
      /\ \A j \in Jobs : fut[j] # i
      /\ ~InUse(t)
      /\ \A w \in Workers : pc[w] \in WorkPc =>
            cur[w].location # i /\ cur[w].job # t
      /\ LockInv' /\ CallerInv' /\ PhaseInv' /\ OrdersInv' /\ RunsInv'
      /\ NoNullOrder'
  <2>1. faults' \in 0 .. faults
    BY PoolAssumption DEF PutQueued, Typed, TypeOK
  <2> QED
    BY <2>1, FillStep DEF PutQueued
<1> USE PoolAssumption DEF Typed, TypeOK, Procs
<1>2. /\ slot' = [slot EXCEPT ![i] = [job |-> t, flag |-> FALSE, result |-> FALSE]]
      /\ fut' = [fut EXCEPT ![t] = i]
      /\ status' = [status EXCEPT ![t] = "queued"]
      /\ jobsQueue' = jobsQueue \cup {[job |-> t, location |-> i]}
      /\ UNCHANGED <<bits, cur, phase, mustExit, faults>>
      /\ pc[p] = "fill" /\ pc' = [pc EXCEPT ![p] = AfterAssign(p)]
      /\ UNCHANGED index
  BY DEF PutQueued, Fill, calls
<1>3. i # NoSlot /\ \A j \in Jobs : fut[j] # NoSlot => fut[j] \in Slot
  BY <1>1 DEF Slot, NoSlot
<1> HIDE DEF t, i
<1>4. OwnedInv'
  <2>1. \A j \in Jobs : fut[j] # NoSlot => fut'[j] = fut[j]
    BY <1>1, <1>2 DEF InUse
  <2>2. \A q \in Procs \ {p} : pc'[q] = pc[q]
    BY <1>2
  <2> SUFFICES ASSUME phase \in Open, faults = MaxFaults, NEW s \in bits \ {0}
               PROVE  \/ \E j \in Jobs : fut'[j] = s
                      \/ \E q \in Procs : pc'[q] \in {"fill", "unmark"} /\ index'[q] = s
    BY <1>2 DEF OwnedInv
  <2>3. s # NoSlot
    BY DEF NoSlot, Slot
  <2>4. CASE \E j \in Jobs : fut[j] = s
    BY <2>1, <2>3, <2>4
  <2>5. CASE \E q \in Procs : pc[q] \in {"fill", "unmark"} /\ index[q] = s
    <3>1. CASE s = i
      BY <3>1, <1>1, <1>2
    <3>2. CASE s # i
      BY <3>2, <2>2, <2>5, <1>2 DEF i
    <3> QED
      BY <3>1, <3>2
  <2> QED
    BY <2>4, <2>5 DEF IInv, OwnedInv
<1>5. SlotInv'
  BY <1>1, <1>2, <1>3 DEF IInv, SlotInv, SlotsApart, InUse
<1>6. QueueInv'
  BY <1>1, <1>2 DEF IInv, QueueInv, ExitRequest
<1>7. /\ \A w \in Workers : pc'[w] \in WorkPc <=> pc[w] \in WorkPc
      /\ \A w \in Workers : pc'[w] \in RunPc <=> pc[w] \in RunPc
      /\ \A w \in Workers : pc'[w] = "relock" <=> pc[w] = "relock"
  <2>1. \A w \in Workers : pc'[w] = IF w = p THEN "run" ELSE pc[w]
    BY <1>2 DEF AfterAssign
  <2>2. \A w \in Workers : pc'[w] \in RunPc <=> pc[w] \in RunPc
    BY <2>1, <1>2 DEF RunPc, CallPc
  <2>3. \A w \in Workers : pc'[w] = "relock" <=> pc[w] = "relock"
    BY <2>1, <1>2
  <2>4. \A w \in Workers : pc'[w] \in WorkPc <=> pc[w] \in WorkPc
    BY <2>1, <1>2 DEF WorkPc, RunPc, CallPc
  <2> QED
    BY <2>2, <2>3, <2>4
<1>8. /\ \A j \in Jobs : status[j] \in {"running", "ran"} \/ status'[j] \in {"running", "ran"}
                        => status'[j] = status[j]
      /\ \A w \in Workers : pc[w] \in RunPc \cup {"relock"} =>
            /\ fut'[cur[w].job] = fut[cur[w].job]
            /\ slot'[cur[w].location] = slot[cur[w].location]
  BY <1>1, <1>2 DEF IInv, WorkInv, WorkPc
<1>9. WorkInv'
  <2>1. ResultToOwnSlot'
    BY <1>1, <1>2, <1>3 DEF IInv, WorkInv, ResultToOwnSlot, InUse, NothingTaken
  <2> QED
    BY <1>2, <1>7, <1>8, <2>1, SameWork DEF IInv
<1>10. DrainInv'
  <2>1. CASE p \in Workers
    BY <2>1, <1>2, <1>7 DEF DrainInv, Active, WorkPc, RunPc, AfterAssign
  <2>2. CASE p \in Clients /\ ~mustExit
    <3>1. phase = "up"
      BY <2>2, <1>2 DEF IInv, PhaseInv
    <3>2. \A w \in Workers : pc[w] \notin {"unborn", "dead", "crashed"}
      BY <2>2, <3>1 DEF IInv, PhaseInv, NoNullOrder
    <3>3. \A w \in Workers : pc'[w] = pc[w]
      BY <2>2, <1>2
    <3>4. \A w \in Workers : pc[w] \in Active \cup {"starting", "stillborn"}
      BY <3>2 DEF WorkerPc, Active, WorkPc, RunPc, CopyPc
    <3> QED
      BY <3>3, <3>4 DEF DrainInv
  <2> QED
    BY <2>1, <2>2, <1>2 DEF DrainInv
<1> QED
  BY <1>1, <1>4, <1>5, <1>6, <1>9, <1>10 DEF IInv

\* An assignment could not put it there.
LEMMA PutNotQueuedStep ==
    ASSUME Typed, IInv, OrdersExclusive, NEW p \in Procs, PutNotQueued(p)
    PROVE  IInv'
<1> DEFINE t == target[p]
           i == index[p]
<1> USE PoolAssumption DEF Typed, TypeOK, Procs
<1>1. /\ t \in Jobs /\ i \in Slot /\ status[t] = "assigning"
      /\ \A j \in Jobs : fut[j] # i
      /\ ~InUse(t)
      /\ \A w \in Workers : pc[w] \in WorkPc =>
            cur[w].location # i /\ cur[w].job # t
      /\ LockInv' /\ CallerInv' /\ PhaseInv' /\ OrdersInv' /\ RunsInv'
      /\ NoNullOrder'
  <2>1. faults' \in 0 .. faults
    BY DEF PutNotQueued, MayFail
  <2> QED
    BY <2>1, FillStep DEF PutNotQueued
<1>2. /\ slot' = [slot EXCEPT ![i] = [job |-> t, flag |-> FALSE, result |-> FALSE]]
      /\ status' = [status EXCEPT ![t] = "refused"]
      /\ UNCHANGED <<bits, cur, phase, mustExit, fut, jobsQueue>>
      /\ pc[p] = "fill" /\ pc' = [pc EXCEPT ![p] = AfterAssign(p)]
      /\ faults' < MaxFaults
  BY DEF PutNotQueued, MayFail, Fill, calls
<1>3. i # NoSlot /\ \A j \in Jobs : fut[j] # NoSlot => fut[j] \in Slot
  BY <1>1 DEF Slot, NoSlot
<1> HIDE DEF t, i
<1>4. OwnedInv'
  BY <1>2 DEF OwnedInv
<1>5. SlotInv'
  BY <1>1, <1>2, <1>3 DEF IInv, SlotInv, SlotsApart, InUse
<1>6. QueueInv'
  BY <1>1, <1>2 DEF IInv, QueueInv
<1>7. /\ \A w \in Workers : pc'[w] \in WorkPc <=> pc[w] \in WorkPc
      /\ \A w \in Workers : pc'[w] \in RunPc <=> pc[w] \in RunPc
      /\ \A w \in Workers : pc'[w] = "relock" <=> pc[w] = "relock"
  <2>1. \A w \in Workers : pc'[w] = IF w = p THEN "run" ELSE pc[w]
    BY <1>2 DEF AfterAssign
  <2>2. \A w \in Workers : pc'[w] \in RunPc <=> pc[w] \in RunPc
    BY <2>1, <1>2 DEF RunPc, CallPc
  <2>3. \A w \in Workers : pc'[w] = "relock" <=> pc[w] = "relock"
    BY <2>1, <1>2
  <2>4. \A w \in Workers : pc'[w] \in WorkPc <=> pc[w] \in WorkPc
    BY <2>1, <1>2 DEF WorkPc, RunPc, CallPc
  <2> QED
    BY <2>2, <2>3, <2>4
<1>8. /\ \A j \in Jobs : status[j] \in {"running", "ran"} \/ status'[j] \in {"running", "ran"}
                        => status'[j] = status[j]
      /\ \A w \in Workers : pc[w] \in RunPc \cup {"relock"} =>
            /\ fut'[cur[w].job] = fut[cur[w].job]
            /\ slot'[cur[w].location] = slot[cur[w].location]
  BY <1>1, <1>2 DEF IInv, WorkInv, WorkPc
<1>9. WorkInv'
  <2>1. ResultToOwnSlot'
    BY <1>1, <1>2, <1>3 DEF IInv, WorkInv, ResultToOwnSlot, InUse, NothingTaken
  <2> QED
    BY <1>2, <1>7, <1>8, <2>1, SameWork DEF IInv
<1>10. DrainInv'
  BY <1>2, <1>7 DEF IInv, DrainInv, Active, AfterAssign
<1> QED
  BY <1>1, <1>4, <1>5, <1>6, <1>9, <1>10 DEF IInv

-----------------------------------------------------------------------------
(* The steps of a worker.                                                   *)

\* An entry that is not an exit request is a queued job with its own slot.
LEMMA RealEntry ==
    ASSUME Typed, SlotInv, QueueInv, NEW e \in jobsQueue, e.location # 0 \/ e # ExitRequest
    PROVE  /\ e # ExitRequest /\ e.location # 0
           /\ e.job \in Jobs /\ status[e.job] = "queued"
           /\ fut[e.job] = e.location /\ InUse(e.job)
           /\ e.location \in bits /\ slot[e.location].job = e.job
           /\ e.location \in Nat
           /\ Priority(e) > 0
<1>1. e # ExitRequest /\ e.location \in Nat
  BY DEF ExitRequest, Typed, TypeOK
<1>2. e.job \in Jobs /\ status[e.job] = "queued" /\ fut[e.job] = e.location
      /\ AcceptablePriority(e.job)
  BY <1>1 DEF QueueInv
<1>3. InUse(e.job)
  BY <1>1, <1>2 DEF InUse, NoSlot
<1>4. Priority(e) > 0
  BY <1>2, PoolAssumption DEF Priority, AcceptablePriority
<1> QED
  BY <1>1, <1>2, <1>3, <1>4 DEF SlotInv, SlotsApart

\* A worker takes an exit request.
LEMMA TakeExitStep ==
    ASSUME Typed, IInv, NEW w \in Workers, TakeExit(w)
    PROVE  IInv'
<1> USE PoolAssumption DEF Typed, TypeOK, TakeExit, OnlyPc, orders
<1>1. PICK e \in jobsQueue : IsTop(e) /\ e.location = 0
  OBVIOUS
<1>2. e = ExitRequest
  BY <1>1, RealEntry DEF IInv
<1>3. jobsQueue \ {ExitRequest} = {}
  <2>1. \A f \in jobsQueue : Priority(f) <= 0
    BY <1>1, <1>2 DEF IsTop, Priority, ExitRequest
  <2>2. \A f \in jobsQueue : f # ExitRequest => Priority(f) > 0 /\ Priority(f) \in Nat
    BY RealEntry DEF IInv, Priority
  <2> QED
    BY <2>1, <2>2
<1>4. DrainInv'
  BY <1>3 DEF DrainInv
<1>5. PhaseInv'
  BY <1>1, <1>2 DEF IInv, PhaseInv, Gone, Open, Procs
<1>6. OnlyPc(w, "dead") /\ pc[w] = "poll" /\ faults' \in 0 .. faults
  OBVIOUS
<1> HIDE DEF Typed, TypeOK, TakeExit, OnlyPc
<1> QED
  BY <1>4, <1>5, <1>6, BetweenJobs

\* A worker takes a job.
LEMMA TakeJobStep ==
    ASSUME Typed, IInv, NEW w \in Workers, TakeJob(w)
    PROVE  IInv'
<1> USE PoolAssumption DEF Typed, TypeOK, Procs
<1>1. PICK e \in jobsQueue :
         /\ e.location # 0
         /\ jobsQueue' = jobsQueue \ {e}
         /\ cur' = [cur EXCEPT ![w] =
                      [location |-> e.location, job |-> slot[e.location].job]]
         /\ status' = [status EXCEPT ![slot[e.location].job] = "running"]
         /\ runs' = [runs EXCEPT ![slot[e.location].job] = @ + 1]
  BY DEF TakeJob
<1> DEFINE j == e.job
<1>2. /\ e # ExitRequest /\ j \in Jobs /\ status[j] = "queued"
      /\ fut[j] = e.location /\ InUse(j)
      /\ e.location \in bits /\ slot[e.location].job = j
      /\ e = [job |-> j, location |-> fut[j]]
      /\ ~slot[e.location].flag
  <2>1. e # ExitRequest /\ j \in Jobs /\ status[j] = "queued"
        /\ fut[j] = e.location /\ InUse(j)
        /\ e.location \in bits /\ slot[e.location].job = j
    BY <1>1, RealEntry DEF IInv
  <2> QED
    BY <2>1 DEF IInv, SlotInv
<1>3. /\ cur' = [cur EXCEPT ![w] = [location |-> e.location, job |-> j]]
      /\ status' = [status EXCEPT ![j] = "running"]
      /\ runs' = [runs EXCEPT ![j] = @ + 1]
      /\ pc' = [pc EXCEPT ![w] = "run"] /\ pc[w] = "poll"
      /\ UNCHANGED <<phase, mustExit, lock, pages, bits, count, slot, target,
                     index, snap, tally, fut, faults>>
  BY <1>1, <1>2 DEF TakeJob, orders, calls
<1> HIDE DEF j
<1>4. LockInv' /\ CallerInv'
  BY <1>2, <1>3 DEF IInv, LockInv, CallerInv, CallPc, CopyPc
<1>5. PhaseInv'
  BY <1>1, <1>2, <1>3 DEF IInv, PhaseInv, Gone, Open
<1>6. OrdersInv'
  BY <1>3 DEF IInv, OrdersInv
<1>7. OwnedInv'
  BY <1>3 DEF IInv, OwnedInv
<1>8. SlotInv'
  BY <1>2, <1>3 DEF IInv, SlotInv, SlotsApart, InUse
<1>9. QueueInv'
  <2>1. \A f \in jobsQueue \ {ExitRequest} : f.job = j => f = e
    <3> TAKE f \in jobsQueue \ {ExitRequest}
    <3>1. f = [job |-> f.job, location |-> fut[f.job]]
      BY DEF IInv, QueueInv
    <3> QED
      BY <3>1, <1>2
  <2>2. \A f \in jobsQueue' \ {ExitRequest} : f.job \in Jobs /\ f.job # j
    BY <2>1, <1>1 DEF IInv, QueueInv
  <2>3. \A i \in Jobs : status'[i] = "queued" => i # j /\ status[i] = "queued"
    BY <1>3
  <2>4. \A i \in Jobs : i # j => [job |-> i, location |-> fut[i]] # e
    BY <1>2
  <2> QED
    BY <2>2, <2>3, <2>4, <1>1, <1>3 DEF IInv, QueueInv
<1>10. WorkInv'
  <2>1. \A v \in Workers : pc[v] \in WorkPc => cur[v].job # j
    BY <1>2 DEF IInv, WorkInv
  <2>2. \A v \in Workers \ {w} : pc'[v] = pc[v] /\ cur'[v] = cur[v]
    BY <1>3
  <2>3. pc'[w] = "run" /\ cur'[w] = [location |-> e.location, job |-> j]
        /\ status'[j] = "running"
    BY <1>2, <1>3
  <2>4. \A i \in Jobs \ {j} : status'[i] = status[i]
    BY <1>3
  <2>5. e.location # NoSlot
    BY <1>2 DEF InUse
  <2>6. ResultToOwnSlot'
    BY <1>2, <1>3, <2>2, <2>3, <2>5
       DEF IInv, WorkInv, SlotInv, SlotsApart, ResultToOwnSlot, InUse
  <2>7. \A v \in Workers : pc'[v] \notin WorkPc => cur'[v] = NothingTaken
    BY <2>2, <2>3 DEF IInv, WorkInv, WorkPc, RunPc
  <2>8. \A v \in Workers : pc'[v] \in WorkPc =>
          /\ cur'[v].job \in Jobs /\ cur'[v].location # NoSlot
          /\ pc'[v] \in RunPc => status'[cur'[v].job] = "running"
          /\ pc'[v] \notin RunPc => status'[cur'[v].job] = "ran"
    BY <1>2, <2>1, <2>2, <2>3, <2>4, <2>5 DEF IInv, WorkInv, RunPc
  <2>9. \A v \in Workers : pc'[v] \in RunPc \cup {"relock"} =>
          fut'[cur'[v].job] = cur'[v].location /\ ~slot'[cur'[v].location].flag
    BY <1>2, <1>3, <2>2, <2>3 DEF IInv, WorkInv
  <2>10. \A u, v \in Workers :
          pc'[u] \in WorkPc /\ pc'[v] \in WorkPc /\ cur'[u].job = cur'[v].job => u = v
    BY <2>1, <2>2, <2>3 DEF IInv, WorkInv
  <2>11. \A i \in Jobs : status'[i] \in {"running", "ran"} =>
          \E v \in Workers : pc'[v] \in WorkPc /\ cur'[v].job = i
    <3>1. pc[w] \notin WorkPc /\ pc'[w] \in WorkPc
      BY <1>3, <2>3 DEF WorkPc, RunPc, CallPc, CopyPc
    <3>2. \A i \in Jobs : status[i] \in {"running", "ran"} =>
            \E v \in Workers \ {w} : pc[v] \in WorkPc /\ cur[v].job = i
      BY <3>1 DEF IInv, WorkInv
    <3> SUFFICES ASSUME NEW i \in Jobs, status'[i] \in {"running", "ran"}
                 PROVE  \E v \in Workers : pc'[v] \in WorkPc /\ cur'[v].job = i
      OBVIOUS
    <3>3. CASE i = j
      <4>1. cur'[w].job = i
        BY <3>3, <2>3
      <4> QED
        BY <3>1, <4>1, Zenon
    <3>4. CASE i # j
      <4>1. PICK v \in Workers \ {w} : pc[v] \in WorkPc /\ cur[v].job = i
        BY <3>2, <3>4, <2>4
      <4> QED
        BY <4>1, <2>2
    <3> QED
      BY <3>3, <3>4
  <2> QED
    BY <2>6, <2>7, <2>8, <2>9, <2>10, <2>11 DEF WorkInv, WorkPc
<1>11. RunsInv'
  <2>1. runs[j] = 0 /\ runs' = [k \in Jobs |-> IF k = j THEN runs[k] + 1 ELSE runs[k]]
    <3>1. runs' = [k \in Jobs |-> IF k = j THEN runs[k] + 1 ELSE runs[k]]
      BY <1>3, Zenon
    <3> QED
      BY <1>2, <3>1 DEF IInv, RunsInv
  <2> QED
    BY <1>2, <1>3, <2>1 DEF IInv, RunsInv
<1>12. DrainInv' /\ NoNullOrder'
  BY <1>3 DEF IInv, DrainInv, NoNullOrder, Active, WorkPc, RunPc
<1> QED
  BY <1>4, <1>5, <1>6, <1>7, <1>8, <1>9, <1>10, <1>11, <1>12 DEF IInv

\* The undefined accesses never happen: the slot is still taken.
LEMMA NothingNull ==
    ASSUME Typed, IInv, NEW w \in Workers
    PROVE  ~TakeNull(w) /\ ~CopyNull(w)
<1>1. ~TakeNull(w)
  BY RealEntry DEF TakeNull, IInv, IsTop
<1>2. ~CopyNull(w)
  BY DEF CopyNull, IInv, WorkInv, SlotInv, SlotsApart, InUse, WorkPc
<1> QED
  BY <1>1, <1>2

\* A worker that is through with its job.
LEMMA WorkEnds ==
    ASSUME Typed, WorkInv, NEW w \in Workers, pc[w] \in WorkPc,
           pc' = [pc EXCEPT ![w] = "loop"],
           cur' = [cur EXCEPT ![w] = NothingTaken], UNCHANGED fut,
           NEW st \in {"lost", "published"},
           status' = [status EXCEPT ![cur[w].job] = st],
           \A v \in Workers \ {w} : pc[v] \in RunPc \cup {"relock"} =>
               slot'[cur[v].location] = slot[cur[v].location]
    PROVE  WorkInv'
<1> USE DEF Typed, TypeOK
<1>1. /\ \A v \in Workers \ {w} : pc'[v] = pc[v] /\ cur'[v] = cur[v]
      /\ pc'[w] = "loop" /\ cur'[w] = NothingTaken
  BY DEF Procs
<1>2. pc'[w] \notin WorkPc /\ RunPc \cup {"relock"} \subseteq WorkPc
  BY <1>1 DEF WorkPc, RunPc, CallPc, CopyPc
<1>3. \A v \in Workers \ {w} : pc[v] \in WorkPc => cur[v].job # cur[w].job
  BY DEF WorkInv
<1>4. /\ cur[w].job \in Jobs
      /\ \A j \in Jobs : status'[j] = IF j = cur[w].job THEN st ELSE status[j]
  BY DEF WorkInv
<1>5. ResultToOwnSlot'
  BY <1>1 DEF WorkInv, ResultToOwnSlot, InUse
<1>6. \A v \in Workers : pc'[v] \notin WorkPc => cur'[v] = NothingTaken
  BY <1>1 DEF WorkInv
<1>7. \A v \in Workers : pc'[v] \in WorkPc =>
        /\ cur'[v].job \in Jobs /\ cur'[v].location # NoSlot
        /\ pc'[v] \in RunPc => status'[cur'[v].job] = "running"
        /\ pc'[v] \notin RunPc => status'[cur'[v].job] = "ran"
  BY <1>1, <1>2, <1>3, <1>4 DEF WorkInv
<1>8. \A v \in Workers : pc'[v] \in RunPc \cup {"relock"} =>
        fut'[cur'[v].job] = cur'[v].location /\ ~slot'[cur'[v].location].flag
  BY <1>1, <1>2 DEF WorkInv
<1>9. \A u, v \in Workers :
        pc'[u] \in WorkPc /\ pc'[v] \in WorkPc /\ cur'[u].job = cur'[v].job => u = v
  BY <1>1, <1>2 DEF WorkInv
<1>10. \A j \in Jobs : status'[j] \in {"running", "ran"} =>
        \E v \in Workers : pc'[v] \in WorkPc /\ cur'[v].job = j
  BY <1>1, <1>2, <1>4 DEF WorkInv
<1> QED
  BY <1>2, <1>5, <1>6, <1>7, <1>8, <1>9, <1>10 DEF WorkInv

\* The function of a job has returned.
LEMMA FinishStep ==
    ASSUME Typed, IInv, NEW w \in Workers, Finish(w)
    PROVE  IInv'
<1> USE PoolAssumption DEF Typed, TypeOK, Procs
<1> DEFINE j == cur[w].job
<1>1. /\ pc[w] = "run" /\ pc' = [pc EXCEPT ![w] = "relock"]
      /\ status' = [status EXCEPT ![j] = "ran"]
      /\ UNCHANGED <<phase, mustExit, lock, jobsQueue, pages, bits, count, slot,
                     target, index, snap, tally, cur, fut, runs, faults>>
  BY DEF Finish, orders, calls
<1>2. j \in Jobs /\ status[j] = "running"
  BY <1>1 DEF IInv, WorkInv, WorkPc, RunPc
<1> HIDE DEF j
<1>3. LockInv' /\ CallerInv'
  BY <1>1, <1>2 DEF IInv, LockInv, CallerInv, CallPc, CopyPc
<1>4. PhaseInv'
  BY <1>1, <1>2 DEF IInv, PhaseInv, Gone, Open
<1>5. OrdersInv' /\ OwnedInv'
  BY <1>1 DEF IInv, OrdersInv, OwnedInv
<1>6. SlotInv' /\ QueueInv' /\ RunsInv'
  BY <1>1, <1>2 DEF IInv, SlotInv, SlotsApart, InUse, QueueInv, RunsInv
<1>7. WorkInv'
  <2>1. \A v \in Workers \ {w} : pc'[v] = pc[v] /\ (pc[v] \in WorkPc => cur[v].job # j)
    BY <1>1 DEF IInv, WorkInv, j, WorkPc, RunPc
  <2> QED
    BY <1>1, <1>2, <2>1
       DEF IInv, WorkInv, ResultToOwnSlot, InUse, j, WorkPc, RunPc, CopyPc, CallPc
<1>8. DrainInv' /\ NoNullOrder'
  BY <1>1 DEF IInv, DrainInv, NoNullOrder, Active, WorkPc
<1> QED
  BY <1>3, <1>4, <1>5, <1>6, <1>7, <1>8 DEF IInv

\* The worker cannot lock the mutex again.
LEMMA RelockFailsStep ==
    ASSUME Typed, IInv, NEW w \in Workers, RelockFails(w)
    PROVE  IInv'
<1> USE PoolAssumption DEF Typed, TypeOK, Procs
<1> DEFINE j == cur[w].job
<1>1. /\ pc[w] = "relock" /\ pc' = [pc EXCEPT ![w] = "loop"]
      /\ status' = [status EXCEPT ![j] = "lost"]
      /\ cur' = [cur EXCEPT ![w] = NothingTaken]
      /\ UNCHANGED <<phase, mustExit, lock, jobsQueue, pages, bits, count, slot,
                     target, index, snap, tally, fut, runs>>
      /\ faults' < MaxFaults
  BY DEF RelockFails, MayFail, orders, calls
<1>2. j \in Jobs /\ status[j] = "ran" /\ fut[j] = cur[w].location
      /\ ~slot[fut[j]].flag
  BY <1>1 DEF IInv, WorkInv, WorkPc, RunPc, CallPc
<1> HIDE DEF j
<1>3. LockInv' /\ CallerInv'
  BY <1>1, <1>2 DEF IInv, LockInv, CallerInv, CallPc, CopyPc
<1>4. PhaseInv'
  BY <1>1, <1>2 DEF IInv, PhaseInv, Gone, Open
<1>5. OrdersInv' /\ OwnedInv'
  BY <1>1 DEF IInv, OrdersInv, OwnedInv
<1>6. SlotInv' /\ QueueInv' /\ RunsInv'
  BY <1>1, <1>2 DEF IInv, SlotInv, SlotsApart, InUse, QueueInv, RunsInv
<1>7. WorkInv'
  <2>1. pc[w] \in WorkPc /\ WorkInv
    BY <1>1 DEF WorkPc, IInv
  <2> QED
    BY <1>1, <2>1, WorkEnds DEF j
<1>8. DrainInv' /\ NoNullOrder'
  BY <1>1 DEF IInv, DrainInv, NoNullOrder, Active
<1> QED
  BY <1>3, <1>4, <1>5, <1>6, <1>7, <1>8 DEF IInv

\* A worker copies the result.
LEMMA CopyBeginStep ==
    ASSUME Typed, IInv, NEW w \in Workers, CopyBegin(w)
    PROVE  IInv'
<1> USE PoolAssumption DEF Typed, TypeOK, Procs
<1> DEFINE j == cur[w].job
           s == cur[w].location
<1>1. PICK rest \in CopyPc :
         /\ \A t \in Slot \ {s} : slot'[t] = slot[t]
         /\ slot'[s].job = j
         /\ pc' = [pc EXCEPT ![w] = rest]
  <2>1. PICK rest \in CopyPc :
           /\ slot' = [slot EXCEPT ![s] =
                [job    |-> j,
                 flag   |-> IF rest = "copyResult" THEN TRUE ELSE slot[s].flag,
                 result |-> IF rest = "copyFlag" THEN TRUE ELSE slot[s].result]]
           /\ pc' = [pc EXCEPT ![w] = rest]
    BY DEF CopyBegin, CopyPc
  <2>2. s \in Slot
    BY DEF CopyBegin
  <2> QED
    BY <2>1, <2>2
<1>2. /\ pc[w] = "relock" /\ lock = NoProc /\ lock' = w
      /\ s \in bits
      /\ UNCHANGED <<phase, mustExit, jobsQueue, pages, bits, count, target,
                     index, snap, tally, cur, fut, status, runs, faults>>
  BY DEF CopyBegin, calls
<1>3. j \in Jobs /\ status[j] = "ran" /\ fut[j] = s
  BY <1>2 DEF IInv, WorkInv, WorkPc, RunPc, CallPc
<1>4. s # NoSlot /\ s \in Slot
  <2>1. s \in Slot
    BY <1>2
  <2>2. NoSlot \notin Slot
    BY DEF Slot, NoSlot
  <2> QED
    BY <2>1, <2>2
<1> HIDE DEF j, s
<1>5. LockInv' /\ CallerInv'
  BY <1>1, <1>2 DEF IInv, LockInv, CallerInv, CallPc, CopyPc
<1>6. PhaseInv'
  BY <1>1, <1>2 DEF IInv, PhaseInv, Gone, Open, CopyPc
<1>7. OrdersInv' /\ OwnedInv'
  BY <1>1, <1>2 DEF IInv, OrdersInv, OwnedInv, CopyPc
<1>8. SlotInv'
  <2>1. SlotsApart'
    BY <1>2 DEF IInv, SlotInv, SlotsApart, InUse
  <2>2. \A k \in Jobs : InUse(k) /\ fut[k] = s => k = j
    BY <1>3, <1>4 DEF IInv, SlotInv, SlotsApart, InUse
  <2>3. \A k \in Jobs : InUse(k) => fut[k] \in Slot
    BY DEF IInv, SlotInv, SlotsApart
  <2>4. \A k \in Jobs : InUse(k) =>
           /\ status[k] \in {"queued", "running", "ran", "lost", "published"}
           /\ slot'[fut[k]].job = k
           /\ slot'[fut[k]].flag => status[k] \in {"ran", "published"}
    BY <1>1, <1>3, <2>2, <2>3 DEF IInv, SlotInv
  <2>5. \A k \in Jobs : status[k] \in {"queued", "running"} => InUse(k)
    BY DEF IInv, SlotInv
  <2> QED
    BY <1>2, <2>1, <2>4, <2>5 DEF SlotInv, InUse
<1>9. QueueInv' /\ RunsInv'
  BY <1>2 DEF IInv, QueueInv, RunsInv
<1>10. WorkInv'
  <2>1. \A v \in Workers \ {w} : pc'[v] = pc[v]
    BY <1>1
  <2>2. \A v \in Workers \ {w} : pc[v] \in RunPc \cup {"relock"} =>
           cur[v].location # s
    BY <1>2, <1>3, <1>4 DEF IInv, WorkInv, SlotInv, SlotsApart, InUse, WorkPc, j
  <2>3. \A v \in Workers \ {w} : pc[v] \in RunPc \cup {"relock"} =>
           slot'[cur[v].location] = slot[cur[v].location]
    BY <1>1, <2>2 DEF IInv, WorkInv, WorkPc
  <2> QED
    BY <1>1, <1>2, <1>3, <2>1, <2>3
       DEF IInv, WorkInv, ResultToOwnSlot, InUse, j, WorkPc, RunPc, CopyPc, CallPc
<1>11. DrainInv' /\ NoNullOrder'
  BY <1>1, <1>2 DEF IInv, DrainInv, NoNullOrder, Active, WorkPc, CopyPc
<1> QED
  BY <1>5, <1>6, <1>7, <1>8, <1>9, <1>10, <1>11 DEF IInv

\* A worker sets the flag of the future.
LEMMA CopyEndStep ==
    ASSUME Typed, IInv, NEW w \in Workers, CopyEnd(w)
    PROVE  IInv'
<1> USE PoolAssumption DEF Typed, TypeOK, Procs
<1> DEFINE j == cur[w].job
           s == cur[w].location
<1>1. /\ pc[w] \in CopyPc /\ pc' = [pc EXCEPT ![w] = "loop"]
      /\ slot' = [slot EXCEPT ![s] = [job |-> j, flag |-> TRUE, result |-> TRUE]]
      /\ lock' = NoProc
      /\ cur' = [cur EXCEPT ![w] = NothingTaken]
      /\ status' = [status EXCEPT ![j] = "published"]
      /\ UNCHANGED <<phase, mustExit, jobsQueue, pages, bits, count, target,
                     index, snap, tally, fut, runs, faults>>
  BY DEF CopyEnd, calls, CopyPc
<1>2. j \in Jobs /\ status[j] = "ran" /\ s # NoSlot
  BY <1>1 DEF IInv, WorkInv, WorkPc, RunPc, CallPc, CopyPc
<1>3. \A i \in Jobs : InUse(i) /\ fut[i] = s => i = j
  BY <1>2 DEF IInv, WorkInv, ResultToOwnSlot, InUse, NothingTaken
<1>4. \A p \in Procs : pc[p] \in CallPc \cup CopyPc => p = w
  BY <1>1 DEF IInv, LockInv
<1> HIDE DEF j, s
<1>5. LockInv' /\ CallerInv'
  BY <1>1, <1>2, <1>4 DEF IInv, LockInv, CallerInv, CallPc, CopyPc
<1>6. PhaseInv'
  BY <1>1, <1>2 DEF IInv, PhaseInv, Gone, Open, CopyPc
<1>7. OrdersInv' /\ OwnedInv'
  BY <1>1 DEF IInv, OrdersInv, OwnedInv, CopyPc
<1>8. SlotInv'
  <2>1. \A i \in Jobs \ {j} : InUse(i) => slot'[fut[i]] = slot[fut[i]]
    BY <1>1, <1>3 DEF IInv, SlotInv, SlotsApart
  <2>2. InUse(j) => slot'[fut[j]].job = j
    BY <1>1, <1>2 DEF IInv, SlotInv, SlotsApart
  <2> QED
    BY <1>1, <1>2, <2>1, <2>2 DEF IInv, SlotInv, SlotsApart, InUse
<1>9. QueueInv' /\ RunsInv'
  BY <1>1, <1>2 DEF IInv, QueueInv, RunsInv
<1>10. WorkInv'
  <2>1. pc[w] \in WorkPc /\ WorkInv
    BY <1>1 DEF WorkPc, IInv
  <2>2. \A v \in Workers \ {w} : pc[v] \in RunPc \cup {"relock"} =>
           slot'[cur[v].location] = slot[cur[v].location]
    BY <1>1, <1>3, <2>1 DEF WorkInv, InUse, WorkPc, j
  <2> QED
    BY <1>1, <2>1, <2>2, WorkEnds DEF j
<1>11. DrainInv' /\ NoNullOrder'
  BY <1>1 DEF IInv, DrainInv, NoNullOrder, Active
<1> QED
  BY <1>5, <1>6, <1>7, <1>8, <1>9, <1>10, <1>11 DEF IInv

\* Every step of a worker.
LEMMA WorkersStep ==
    ASSUME Typed, IInv, NEW w \in Workers, WorkerStep(w)
    PROVE  IInv'
<1>1. ASSUME NEW where \in {"loop", "poll", "stillborn"},
             pc[w] \in {"starting", "loop", "poll"}, OnlyPc(w, where),
             faults' \in 0 .. faults,
             where = "stillborn" => pc[w] = "starting"
      PROVE  IInv'
  <2> USE PoolAssumption DEF Typed, TypeOK, IInv, OnlyPc, orders
  <2>1. PhaseInv'
    BY <1>1 DEF PhaseInv, Gone, Procs, Open
  <2>2. DrainInv'
    BY <1>1 DEF DrainInv, Active, WorkPc, RunPc, CallPc, CopyPc
  <2> HIDE DEF Typed, TypeOK, IInv, OnlyPc
  <2> QED
    BY <1>1, <2>1, <2>2, BetweenJobs
<1>2. CASE Start(w) \/ (CheckExit(w) /\ ~mustExit) \/ PollEmpty(w)
  <2>1. faults' \in 0 .. faults
    BY <1>2, PoolAssumption DEF Start, CheckExit, PollEmpty, Typed, TypeOK
  <2> QED
    BY <1>1, <1>2, <2>1 DEF Start, CheckExit, PollEmpty
<1>3. CASE StartFails(w) \/ PollLockFails(w)
  <2>1. faults' \in 0 .. faults
    BY <1>3, PoolAssumption DEF StartFails, PollLockFails, MayFail, Typed, TypeOK
  <2> QED
    BY <1>1, <1>3, <2>1 DEF StartFails, PollLockFails
<1>4. CASE CheckExit(w) /\ mustExit
  <2> USE PoolAssumption DEF Typed, TypeOK, CheckExit, OnlyPc, orders
  <2>1. PhaseInv'
    BY <1>4 DEF IInv, PhaseInv, Gone, Procs, Open
  <2>2. DrainInv'
    BY <1>4 DEF DrainInv
  <2>3. OnlyPc(w, "dead") /\ pc[w] = "loop" /\ faults' \in 0 .. faults
    BY <1>4
  <2> HIDE DEF Typed, TypeOK, CheckExit, OnlyPc
  <2> QED
    BY <2>1, <2>2, <2>3, BetweenJobs
<1>5. CASE CheckExit(w)
  BY <1>2, <1>4, <1>5
<1>6. CASE TakeExit(w) \/ TakeJob(w) \/ TakeNull(w)
  BY <1>6, TakeExitStep, TakeJobStep, NothingNull
<1>7. CASE Finish(w) \/ RelockFails(w)
  BY <1>7, FinishStep, RelockFailsStep
<1>8. CASE CopyBegin(w) \/ CopyNull(w) \/ CopyEnd(w)
  BY <1>8, NothingNull, CopyBeginStep, CopyEndStep
<1> QED
  BY <1>2, <1>3, <1>5, <1>6, <1>7, <1>8 DEF WorkerStep

-----------------------------------------------------------------------------
(* The steps of a client with a future.                                     *)

\* A destruction begins.
LEMMA DestroyBeginStep ==
    ASSUME Typed, IInv, OrdersExclusive', NEW c \in Clients, NEW j \in Jobs,
           DestroyBegin(c, j)
    PROVE  IInv'
<1> USE PoolAssumption DEF Typed, TypeOK, Procs
<1>1. /\ c \in Destroyers /\ pc[c] = "idle" /\ phase = "up"
      /\ InUse(j) /\ slot[fut[j]].flag
      /\ pc' = [pc EXCEPT ![c] = "unmark"]
      /\ target' = [target EXCEPT ![c] = j]
      /\ index' = [index EXCEPT ![c] = fut[j]]
      /\ snap' = [snap EXCEPT ![c] = bits]
      /\ fut' = [fut EXCEPT ![j] = NoSlot]
      /\ UNCHANGED <<phase, mustExit, lock, jobsQueue, pages, bits, count, slot,
                     tally, cur, status, runs, faults>>
  BY DEF DestroyBegin, MayDestroy, HoldsFuture, ClientStep, InUse, orders
<1>2. /\ status[j] \in {"ran", "published"}
      /\ fut[j] \in bits \ {0} /\ fut[j] # NoSlot
      /\ \A i \in Jobs : fut'[i] # fut[j]
  BY <1>1 DEF IInv, SlotInv, SlotsApart, InUse
<1>3. \A p \in Procs : pc[p] \notin Changing
  <2>1. pc[c] \notin Changing /\ pc'[c] \in Changing
    BY <1>1 DEF Changing
  <2>2. \A p \in Procs : pc[p] \in Changing /\ p # c => pc'[p] \in Changing
    BY <1>1
  <2> QED
    BY <2>1, <2>2, Alone
<1>4. LockInv' /\ CallerInv'
  BY <1>1 DEF IInv, LockInv, CallerInv, CallPc, CopyPc
<1>5. PhaseInv'
  BY <1>1 DEF IInv, PhaseInv
<1>6. OrdersInv'
  BY <1>1, <1>2, <1>3 DEF Changing, IInv, OrdersInv
<1>7. OwnedInv'
  BY <1>1, <1>3 DEF Changing, IInv, OwnedInv
<1>8. SlotInv' /\ QueueInv' /\ RunsInv'
  BY <1>1, <1>2 DEF IInv, SlotInv, SlotsApart, InUse, QueueInv, RunsInv
<1>9. WorkInv'
  <2>1. \A w \in Workers : pc'[w] = pc[w]
    BY <1>1
  <2>2. \A w \in Workers : pc[w] \in RunPc \cup {"relock"} =>
           fut'[cur[w].job] = fut[cur[w].job]
    BY <1>1 DEF IInv, WorkInv, WorkPc
  <2>3. ResultToOwnSlot'
    BY <1>1 DEF IInv, WorkInv, ResultToOwnSlot, InUse
  <2> QED
    BY <1>1, <2>1, <2>2, <2>3, SameWork DEF IInv
<1>10. DrainInv' /\ NoNullOrder'
  BY <1>1 DEF IInv, DrainInv, NoNullOrder
<1> QED
  BY <1>4, <1>5, <1>6, <1>7, <1>8, <1>9, <1>10 DEF IInv

\* A destruction frees its slot.
LEMMA DestroyUnmarkStep ==
    ASSUME Typed, IInv, OrdersExclusive, NEW c \in Clients, DestroyUnmark(c)
    PROVE  IInv'
<1> USE PoolAssumption DEF Typed, TypeOK, Procs
<1> DEFINE i == index[c]
<1>1. /\ pc[c] = "unmark" /\ pc' = [pc EXCEPT ![c] = "uncount"]
      /\ bits' = snap[c] \ {i}
      /\ tally' = [tally EXCEPT ![c] = count]
      /\ UNCHANGED <<phase, mustExit, lock, jobsQueue, pages, count, slot, index,
                     snap, cur, fut, status, runs, faults>>
      /\ \A p \in Procs \ {c} : target'[p] = target[p]
  BY DEF DestroyUnmark, ClientStep
<1>2. \A p \in Procs \ {c} : pc[p] \notin Changing
  BY <1>1 DEF OrdersExclusive, Changing
<1>3. /\ count = Cardinality(bits) /\ snap[c] = bits /\ i \in bits \ {0}
      /\ \A j \in Jobs : fut[j] # i
      /\ bits' = bits \ {i}
  BY <1>1, <1>2 DEF Changing, IInv, OrdersInv
<1>4. Cardinality(bits') = count - 1
  <2>1. IsFiniteSet(bits) /\ i \in bits
    BY <1>3, BitsFinite
  <2> HIDE DEF Typed, TypeOK, Procs, i
  <2>2. Cardinality(bits \ {i}) = Cardinality(bits) - 1
    BY <2>1, FS_RemoveElement
  <2> QED
    BY <1>3, <2>2
<1>5. phase = "up"
  BY <1>1 DEF IInv, PhaseInv
<1> HIDE DEF i
<1>6. LockInv' /\ CallerInv'
  <2>1. \A p \in Procs \ {c} : pc'[p] = pc[p]
    BY <1>1
  <2>2. c \notin Workers /\ pc[c] \notin CallPc \cup CopyPc /\ pc'[c] \notin CallPc \cup CopyPc
    BY <1>1 DEF CallPc, CopyPc
  <2>3. LockInv'
    BY <1>1, <2>1, <2>2 DEF IInv, LockInv
  <2>4. c \in Destroyers
    BY <1>1 DEF IInv, CallerInv
  <2>5. CallerInv'
    BY <1>1, <2>1, <2>2, <2>4 DEF IInv, CallerInv
  <2> QED
    BY <2>3, <2>5
<1>7. PhaseInv'
  BY <1>1, <1>3, <1>5 DEF IInv, PhaseInv
<1>8. OrdersInv'
  BY <1>1, <1>2, <1>3, <1>4 DEF Changing, IInv, OrdersInv
<1>9. OwnedInv'
  <2>1. \A p \in Procs \ {c} : pc'[p] = pc[p]
    BY <1>1
  <2> QED
    BY <1>1, <1>3, <2>1 DEF IInv, OwnedInv, i
<1>10. SlotInv' /\ QueueInv' /\ RunsInv'
  BY <1>1, <1>3 DEF IInv, SlotInv, SlotsApart, InUse, QueueInv, RunsInv
<1>11. WorkInv' /\ DrainInv' /\ NoNullOrder'
  <2>1. \A w \in Workers : pc'[w] = pc[w]
    BY <1>1
  <2> QED
    BY <1>1, <2>1 DEF IInv, WorkInv, ResultToOwnSlot, InUse, DrainInv, NoNullOrder
<1> QED
  BY <1>6, <1>7, <1>8, <1>9, <1>10, <1>11 DEF IInv

\* A destruction counts its slot.
LEMMA DestroyCountStep ==
    ASSUME Typed, IInv, OrdersExclusive, NEW c \in Clients, DestroyCount(c)
    PROVE  IInv'
<1> USE PoolAssumption DEF Typed, TypeOK, Procs
<1>1. /\ pc[c] = "uncount" /\ pc' = [pc EXCEPT ![c] = "idle"]
      /\ count' = tally[c] - 1
      /\ UNCHANGED <<phase, mustExit, lock, jobsQueue, pages, bits, slot, index,
                     snap, tally, cur, fut, status, runs, faults>>
      /\ \A p \in Procs \ {c} : target'[p] = target[p]
  BY DEF DestroyCount, ClientStep
<1>2. \A p \in Procs \ {c} : pc[p] \notin Changing
  BY <1>1 DEF OrdersExclusive, Changing
<1>3. count' = Cardinality(bits')
  BY <1>1 DEF IInv, OrdersInv
<1>4. LockInv' /\ CallerInv'
  <2>1. \A p \in Procs \ {c} : pc'[p] = pc[p]
    BY <1>1
  <2>2. c \notin Workers /\ pc[c] \notin CallPc \cup CopyPc /\ pc'[c] \notin CallPc \cup CopyPc
    BY <1>1 DEF CallPc, CopyPc
  <2>3. LockInv'
    BY <1>1, <2>1, <2>2 DEF IInv, LockInv
  <2>4. c \in Destroyers
    BY <1>1 DEF IInv, CallerInv
  <2>a. \A d \in Clients : pc'[d] \in {"unmark", "uncount", "astray"} => d \in Destroyers
    BY <2>1, <2>4 DEF IInv, CallerInv
  <2>b. \A p \in Procs : pc'[p] \in CallPc => pc[p] \in CallPc /\ p # c
    BY <2>1, <2>2
  <2>c. \A p \in Procs \ {c} : pc[p] \in CallPc => pc'[p] \in CallPc
    BY <2>1
  <2>5. CallerInv'
    BY <1>1, <2>2, <2>a, <2>b, <2>c DEF IInv, CallerInv
  <2> QED
    BY <2>3, <2>5
<1>5. PhaseInv'
  BY <1>1 DEF IInv, PhaseInv
<1>6. OrdersInv'
  BY <1>1, <1>2, <1>3 DEF Changing, IInv, OrdersInv
<1>7. OwnedInv'
  BY <1>1 DEF IInv, OwnedInv
<1>8. SlotInv' /\ QueueInv' /\ RunsInv'
  BY <1>1 DEF IInv, SlotInv, SlotsApart, InUse, QueueInv, RunsInv
<1>9. WorkInv' /\ DrainInv' /\ NoNullOrder'
  <2>1. \A w \in Workers : pc'[w] = pc[w]
    BY <1>1
  <2> QED
    BY <1>1, <2>1 DEF IInv, WorkInv, ResultToOwnSlot, InUse, DrainInv, NoNullOrder
<1> QED
  BY <1>4, <1>5, <1>6, <1>7, <1>8, <1>9 DEF IInv

\* Every step of a client on its futures.
LEMMA FuturesStep ==
    ASSUME Typed, IInv, OrdersExclusive, OrdersExclusive', NEW c \in Clients,
           FutureStep(c) \/ Leave(c)
    PROVE  IInv'
<1>1. ASSUME NEW where \in {"idle", "awaiting", "awaited", "left"},
             NEW j \in Jobs \cup {NoJob},
             pc[c] \in {"idle", "awaiting", "awaited"},
             pc[c] \in {"awaiting", "awaited"} \/ phase = "up",
             ClientStep(c, where, j), UNCHANGED <<orders, index, snap, tally, fut>>
      PROVE  IInv'
  <2>1. phase = "up"
    BY <1>1 DEF IInv, PhaseInv
  <2> QED
    BY <1>1, <2>1, BetweenCalls
<1>2. CASE \E j \in Jobs : AwaitBegin(c, j)
  BY <1>1, <1>2 DEF AwaitBegin
<1>3. CASE AwaitReturns(c)
  BY <1>1, <1>3 DEF AwaitReturns, Typed, TypeOK, Procs
<1>4. CASE AwaitTimesOut(c) \/ ReadResult(c)
  BY <1>1, <1>4 DEF AwaitTimesOut, ReadResult
<1>5. CASE Leave(c)
  BY <1>1, <1>5 DEF Leave
<1>6. ASSUME NEW j \in Jobs, DestroyNothing(c, j) PROVE FALSE
  BY <1>6 DEF DestroyNothing, MayDestroy, HoldsFuture, IInv, SlotInv, SlotsApart, InUse
<1> QED
  BY <1>2, <1>3, <1>4, <1>5, <1>6, DestroyBeginStep, DestroyUnmarkStep,
     DestroyCountStep
     DEF FutureStep, DestroyStep

-----------------------------------------------------------------------------
(* The invariant.                                                           *)

\* The invariant holds before init.
LEMMA IInvInit == Init => IInv
<1> SUFFICES ASSUME Init PROVE IInv
  OBVIOUS
<1> USE PoolAssumption DEF Init, Procs, CallPc, CopyPc
<1>1. LockInv /\ CallerInv
  BY DEF LockInv, CallerInv
<1>2. PhaseInv
  BY DEF PhaseInv, Open
<1>3. OrdersInv /\ OwnedInv
  BY FS_EmptySet DEF OrdersInv, OwnedInv, Open
<1>4. SlotInv /\ QueueInv /\ RunsInv
  BY DEF SlotInv, SlotsApart, InUse, QueueInv, RunsInv
<1>5. WorkInv /\ DrainInv /\ NoNullOrder
  BY DEF WorkInv, ResultToOwnSlot, WorkPc, RunPc, DrainInv, NoNullOrder
<1> QED
  BY <1>1, <1>2, <1>3, <1>4, <1>5 DEF IInv

\* It holds when nothing changes.
LEMMA IInvStutters == ASSUME Typed, IInv, UNCHANGED vars PROVE IInv'
<1> USE DEF vars, orders, calls
<1>1. LockInv' /\ CallerInv' /\ PhaseInv' /\ OrdersInv' /\ OwnedInv'
  BY DEF IInv, LockInv, CallerInv, PhaseInv, OrdersInv, OwnedInv
<1>2. SlotInv' /\ QueueInv' /\ WorkInv' /\ RunsInv' /\ DrainInv' /\ NoNullOrder'
  BY DEF IInv, SlotInv, SlotsApart, InUse, QueueInv, WorkInv, ResultToOwnSlot,
         RunsInv, DrainInv, NoNullOrder
<1> QED
  BY <1>1, <1>2 DEF IInv

\* Every step of an assignment.
LEMMA AssignmentsStep ==
    ASSUME Typed, IInv, OrdersExclusive, OrdersExclusive', NEW p \in Procs, AssignStep(p)
    PROVE  IInv'
<1>1. ASSUME NEW j \in Jobs, RejectPriority(p, j) PROVE IInv'
  <2>1. faults' \in 0 .. faults
    BY <1>1, PoolAssumption DEF RejectPriority, Typed, TypeOK
  <2> QED
    BY <1>1, <2>1, RefusedStep DEF RejectPriority
<1>2. ASSUME NEW j \in Jobs, AssignFails(p, j) PROVE IInv'
  <2>1. faults' \in 0 .. faults
    BY <1>2, PoolAssumption DEF AssignFails, MayFail, Typed, TypeOK
  <2> QED
    BY <1>2, <2>1, RefusedStep DEF AssignFails
<1>3. ASSUME NEW j \in Jobs, PutScan(p, j) PROVE IInv'
  BY <1>3, PutScanStep
<1>4. CASE PutStep(p)
  BY <1>4, PutMarkStep, PutQueuedStep, PutNotQueuedStep DEF PutStep
<1> QED
  BY <1>1, <1>2, <1>3, <1>4 DEF AssignStep

\* So every step of the pool keeps it.
LEMMA IInvStep ==
    Typed /\ IInv /\ OrdersExclusive /\ OrdersExclusive' /\ [Next]_vars => IInv'
<1> SUFFICES ASSUME Typed, IInv, OrdersExclusive, OrdersExclusive', [Next]_vars PROVE IInv'
  OBVIOUS
<1>1. CASE \E p \in Procs : AssignStep(p)
  BY <1>1, AssignmentsStep
<1>2. CASE \E w \in Workers : WorkerStep(w)
  BY <1>2, WorkersStep
<1>3. CASE \E c \in Clients : FutureStep(c) \/ Leave(c)
  BY <1>3, FuturesStep
<1>4. CASE OwnerStep
  BY <1>4, OwnersStep
<1>5. CASE Over \/ UNCHANGED vars
  BY <1>5, IInvStutters DEF Over
<1> QED
  BY <1>1, <1>2, <1>3, <1>4, <1>5 DEF Next

\* A lone destroyer does not begin while anybody assigns, nor the other way round.
LEMMA ExclusiveStep ==
    ASSUME LoneDestroyer
    PROVE  Typed /\ IInv /\ [Next]_vars => OrdersExclusive'
<1> SUFFICES ASSUME Typed, IInv, [Next]_vars PROVE OrdersExclusive'
  OBVIOUS
<1> USE PoolAssumption DEF Typed, TypeOK, Procs
<1>1. OrdersExclusive
  BY OneChanger DEF IInv
<1>2. /\ \A q \in Procs : pc[q] \in {"unmark", "uncount", "astray"} => q \in Destroyers
      /\ \A q \in Clients : pc[q] \in CallPc => Assigns[q] # {}
      /\ \A q \in Workers : pc[q] \in CallPc => \E j \in Jobs : Spawns[j] # {}
  BY DEF IInv, CallerInv, WorkerPc, CallPc
<1>3. ASSUME \A q \in Procs : pc'[q] \in Changing => pc[q] \in Changing
      PROVE  OrdersExclusive'
  BY <1>1, <1>3 DEF OrdersExclusive
<1>4. ASSUME NEW p \in Procs, \A q \in Procs \ {p} : pc[q] \notin Changing,
             \A q \in Procs \ {p} : pc'[q] \in Changing => pc[q] \in Changing
      PROVE  OrdersExclusive'
  BY <1>4 DEF OrdersExclusive
<1>5. ASSUME NEW p \in Procs, AssignStep(p) PROVE OrdersExclusive'
  <2>1. CASE PutStep(p)
    BY <1>3, <2>1 DEF PutStep, PutMark, PutQueued, PutNotQueued, Fill, AfterAssign, Changing
  <2>2. ASSUME NEW j \in Jobs, RejectPriority(p, j) \/ AssignFails(p, j)
        PROVE  OrdersExclusive'
    BY <1>3, <2>2 DEF RejectPriority, AssignFails, Refuse
  <2>3. ASSUME NEW j \in Jobs, PutScan(p, j) PROVE OrdersExclusive'
    <3>1. \A q \in Procs : pc[q] \notin CallPc
      BY <2>3 DEF PutScan, IInv, LockInv
    <3>2. \A q \in Procs : q # p => q \notin Destroyers
      BY <2>3 DEF PutScan, MayAssign, LoneDestroyer
    <3>3. \A q \in Procs \ {p} : pc[q] \notin Changing
      BY <1>2, <3>1, <3>2 DEF Changing, CallPc
    <3>4. PICK lost \in SUBSET Astray :
             pc' = [q \in Procs |-> IF q = p THEN "mark"
                                   ELSE IF q \in lost THEN "astray" ELSE pc[q]]
      BY <2>3 DEF PutScan
    <3>5. \A q \in Procs \ {p} : pc'[q] \in Changing => pc[q] \in Changing
      BY <3>4 DEF Astray, Changing
    <3> QED
      BY <1>4, <3>3, <3>5
  <2> QED
    BY <1>5, <2>1, <2>2, <2>3 DEF AssignStep
<1>6. ASSUME NEW w \in Workers, WorkerStep(w) PROVE OrdersExclusive'
  BY <1>3, <1>6 DEF WorkerStep, OnlyPc, Start, StartFails, CheckExit, PollLockFails,
                    PollEmpty, TakeExit, TakeJob, TakeNull, Finish, RelockFails, CopyBegin,
                    CopyNull, CopyEnd, Changing
<1>7. ASSUME NEW c \in Clients, FutureStep(c) \/ Leave(c) PROVE OrdersExclusive'
  <2>1. ASSUME NEW j \in Jobs, DestroyBegin(c, j) PROVE OrdersExclusive'
    <3>1. c \in Destroyers /\ pc' = [pc EXCEPT ![c] = "unmark"]
      BY <2>1 DEF DestroyBegin, MayDestroy, ClientStep
    <3>2. \A q \in Procs \ {c} : pc[q] \notin Changing
      BY <1>2, <3>1 DEF LoneDestroyer, Changing, CallPc
    <3> QED
      BY <1>4, <3>1, <3>2
  <2>2. CASE DestroyUnmark(c) \/ DestroyCount(c)
    BY <1>3, <2>2 DEF DestroyUnmark, DestroyCount, ClientStep, Changing
  <2>3. CASE \/ \E j \in Jobs : AwaitBegin(c, j) \/ DestroyNothing(c, j)
             \/ AwaitReturns(c) \/ AwaitTimesOut(c) \/ ReadResult(c) \/ Leave(c)
    BY <1>3, <2>3 DEF AwaitBegin, DestroyNothing, AwaitReturns, AwaitTimesOut, ReadResult,
                      Leave, ClientStep, Changing
  <2> QED
    BY <1>7, <2>1, <2>2, <2>3 DEF FutureStep, DestroyStep
<1>8. CASE OwnerStep \/ Over \/ UNCHANGED vars
  BY <1>3, <1>8 DEF OwnerStep, Over, vars, CreateThread, CreateThreadFails, InitDone, Join,
                    JoinUnasked, JoinFails, Exit, Freed, Changing
<1> QED
  BY <1>5, <1>6, <1>7, <1>8 DEF Next

\* So a lone destroyer's pool keeps the invariant at every step.
LEMMA LoneStep ==
    ASSUME LoneDestroyer
    PROVE  Typed /\ IInv /\ [Next]_vars => IInv'
<1> SUFFICES ASSUME Typed, IInv, [Next]_vars PROVE IInv'
  OBVIOUS
<1>1. OrdersExclusive
  BY OneChanger DEF IInv
<1>2. OrdersExclusive'
  BY ExclusiveStep
<1> QED
  BY <1>1, <1>2, IInvStep

(***************************************************************************)
(* Whatever the clients do, a step that neither begins nor belongs to an    *)
(* overlap of a bl_future_destroy with another change of `orders` keeps the *)
(* invariant: nothing but the overlap can break it.                         *)
(***************************************************************************)
THEOREM OnlyOverlapBreaks == Spec => KeptUnlessOverlap
<1>1. Typed /\ [Next]_vars => [IInv /\ OrdersExclusive /\ OrdersExclusive' => IInv']_vars
  BY IInvStep
<1> QED
  BY <1>1, TypedInit, TypedStep, PTL DEF Spec, KeptUnlessOverlap

(***************************************************************************)
(* Under the discipline that makes bl_future_destroy safe, every reachable  *)
(* state of the pool satisfies the inductive invariant.                     *)
(***************************************************************************)
THEOREM Invariance ==
    ASSUME LoneDestroyer
    PROVE  Spec => [](Typed /\ IInv)
<1>1. Init => Typed /\ IInv
  BY TypedInit, IInvInit
<1>2. Typed /\ IInv /\ [Next]_vars => (Typed /\ IInv)'
  BY TypedStep, LoneStep
<1> QED
  BY <1>1, <1>2, PTL DEF Spec

-----------------------------------------------------------------------------
(* What follows from it.                                                    *)

\* Slots and their count, from the invariant.
LEMMA AccountedLemma == Typed /\ IInv => SlotsAccounted
<1> SUFFICES ASSUME Typed, IInv, \A p \in Procs : pc[p] \notin Changing
             PROVE  /\ count = Cardinality(bits)
                    /\ phase = "up" /\ faults = MaxFaults =>
                         bits = {0} \cup {fut[j] : j \in {i \in Jobs : InUse(i)}}
  BY DEF SlotsAccounted
<1>1. count = Cardinality(bits)
  BY DEF Changing, IInv, OrdersInv
<1>2. ASSUME phase = "up", faults = MaxFaults
      PROVE  bits = {0} \cup {fut[j] : j \in {i \in Jobs : InUse(i)}}
  <2>1. \A s \in bits : s # NoSlot
    BY DEF Typed, TypeOK, Slot, NoSlot
  <2>3. \A s \in bits \ {0} : \E j \in Jobs : fut[j] = s
    BY <1>2 DEF Changing, Open, IInv, OwnedInv
  <2>2. 0 \in bits /\ \A j \in Jobs : InUse(j) => fut[j] \in bits
    BY <1>2 DEF IInv, PhaseInv, Open, SlotInv, SlotsApart
  <2> QED
    BY <2>1, <2>2, <2>3 DEF InUse
<1> QED
  BY <1>1, <1>2

\* What is left when the memory is freed, from the invariant.
LEMMA FreedLemma == Typed /\ IInv => JoinDrains
<1> SUFFICES ASSUME Typed, IInv, phase = "freed" PROVE JoinDrains
  BY DEF JoinDrains
<1>1. \A w \in Workers : pc[w] \in Gone
  BY DEF IInv, PhaseInv
<1>2. \A c \in Clients : pc[c] \in {"idle", "left"}
  BY DEF IInv, PhaseInv
<1>3. \A p \in Procs : pc[p] \notin CallPc \cup CopyPc
  BY <1>1, <1>2 DEF Procs, Gone, CallPc, CopyPc
<1>4. \A w \in Workers : pc[w] \notin Active
  BY <1>1 DEF Gone, Active, WorkPc, RunPc, CallPc, CopyPc
<1>5. \A j \in Jobs : status[j] \notin {"assigning", "running", "ran"}
  <2>1. \A j \in Jobs : status[j] # "assigning"
    BY <1>3 DEF IInv, CallerInv
  <2>2. \A j \in Jobs : status[j] \notin {"running", "ran"}
    BY <1>4 DEF IInv, WorkInv, Active
  <2> QED
    BY <2>1, <2>2
<1>6. JoinDrains
  <2> SUFFICES ASSUME ~mustExit, ~ \A w \in Workers : pc[w] = "stillborn"
               PROVE  \A j \in Jobs : status[j] \in {"new", "refused", "lost", "published"}
    BY DEF JoinDrains
  <2>1. jobsQueue \ {ExitRequest} = {}
    BY <1>1, <1>4 DEF IInv, DrainInv, Gone
  <2>2. \A j \in Jobs : status[j] # "queued"
    <3>1. \A j \in Jobs : [job |-> j, location |-> fut[j]] # ExitRequest
      BY PoolAssumption DEF ExitRequest
    <3> QED
      BY <2>1, <3>1 DEF IInv, QueueInv
  <2> QED
    BY <1>5, <2>2 DEF Typed, TypeOK, Status
<1> QED
  BY <1>6

(***************************************************************************)
(* The unlocked bl_future_destroy never overlaps a change of `orders`; a    *)
(* future has a slot to itself; the element count of `orders` is right and  *)
(* no slot is lost unless a call failed.                                    *)
(***************************************************************************)
THEOREM OrdersSafe ==
    ASSUME LoneDestroyer
    PROVE  Spec => [](OrdersExclusive /\ SlotsApart /\ SlotsAccounted)
<1>1. Typed /\ IInv => OrdersExclusive /\ SlotsApart /\ SlotsAccounted
  BY OneChanger, AccountedLemma DEF IInv, SlotInv
<1> QED
  BY <1>1, Invariance, PTL

(***************************************************************************)
(* A job is started at most once, its result goes to its own slot, and its  *)
(* future is not valid before; no worker dereferences a free slot.          *)
(***************************************************************************)
THEOREM FuturesSafe ==
    ASSUME LoneDestroyer
    PROVE  Spec => [](RunsOnce /\ NoStaleFuture /\ ResultToOwnSlot /\ NoNullOrder)
<1>1. Typed /\ IInv => RunsOnce /\ NoStaleFuture /\ ResultToOwnSlot /\ NoNullOrder
  BY DEF IInv, RunsInv, RunsOnce, SlotInv, NoStaleFuture, WorkInv
<1> QED
  BY <1>1, Invariance, PTL

(***************************************************************************)
(* bl_threadpool_join returns only when every accepted job was run, those   *)
(* that jobs assigned during the join included, unless no worker started.   *)
(***************************************************************************)
THEOREM EndSafe ==
    ASSUME LoneDestroyer
    PROVE  Spec => []JoinDrains
  BY FreedLemma, Invariance, PTL

\* Only TakeJob starts a job.
LEMMA OnlyTakeJobStarts ==
    ASSUME Typed, Next, NEW j \in Jobs, status[j] # "running", status'[j] = "running"
    PROVE  \E w \in Workers : TakeJob(w)
<1> SUFFICES ASSUME \A w \in Workers : ~TakeJob(w) PROVE status'[j] # "running"
  OBVIOUS
<1> USE DEF Typed, TypeOK
<1>1. ASSUME NEW p \in Procs, AssignStep(p) PROVE status'[j] # "running"
  BY <1>1 DEF AssignStep, RejectPriority, AssignFails, Refuse, PutScan, PutStep,
              PutMark, PutQueued, PutNotQueued
<1>2. ASSUME NEW w \in Workers, WorkerStep(w) PROVE status'[j] # "running"
  BY <1>2 DEF WorkerStep, OnlyPc, Start, StartFails, CheckExit, PollLockFails,
              PollEmpty, TakeExit, TakeNull, Finish, RelockFails, CopyBegin,
              CopyNull, CopyEnd
<1>3. ASSUME NEW c \in Clients, FutureStep(c) \/ Leave(c) PROVE status'[j] # "running"
  BY <1>3 DEF FutureStep, ClientStep, AwaitBegin, AwaitReturns, AwaitTimesOut,
              ReadResult, DestroyBegin, DestroyNothing, DestroyStep,
              DestroyUnmark, DestroyCount, Leave
<1>4. CASE OwnerStep \/ Over
  BY <1>4 DEF OwnerStep, Over, vars, CreateThread, CreateThreadFails, InitDone,
              Join, JoinUnasked, JoinFails, Exit, Freed
<1> QED
  BY <1>1, <1>2, <1>3, <1>4 DEF Next

(***************************************************************************)
(* A worker starts a job only when none of higher priority waits.           *)
(***************************************************************************)
THEOREM Urgency ==
    ASSUME LoneDestroyer
    PROVE  Spec => UrgentFirst
<1> DEFINE Urgent ==
      \A j, k \in Jobs :
          /\ status[j] # "running" /\ status'[j] = "running"
          /\ status[k] = "queued"
          => Prio[k] <= Prio[j]
<1>1. Typed /\ IInv /\ [Next]_vars => [Urgent]_vars
  <2> SUFFICES ASSUME Typed, IInv, Next,
                      NEW j \in Jobs, status[j] # "running", status'[j] = "running",
                      NEW k \in Jobs, status[k] = "queued"
               PROVE  Prio[k] <= Prio[j]
    OBVIOUS
  <2>1. PICK w \in Workers : TakeJob(w)
    BY OnlyTakeJobStarts
  <2>2. PICK e \in jobsQueue :
           /\ IsTop(e) /\ e.location # 0
           /\ status' = [status EXCEPT ![slot[e.location].job] = "running"]
    BY <2>1 DEF TakeJob
  <2>3. e.job = j /\ Priority(e) = Prio[j]
    <3>1. e.job \in Jobs /\ slot[e.location].job = e.job
      BY <2>2, RealEntry DEF IInv
    <3>2. e.job = j
      BY <2>2, <3>1 DEF Typed, TypeOK
    <3> QED
      BY <3>1, <3>2, PoolAssumption DEF Priority
  <2>4. [job |-> k, location |-> fut[k]] \in jobsQueue
    BY DEF IInv, QueueInv
  <2>5. Priority([job |-> k, location |-> fut[k]]) = Prio[k]
    BY PoolAssumption DEF Priority
  <2> QED
    BY <2>2, <2>3, <2>4, <2>5 DEF IsTop
<1> QED
  BY <1>1, Invariance, PTL DEF Spec, UrgentFirst

-----------------------------------------------------------------------------
(* JobPool.  Each step of the pool is one step of it, or one that changes   *)
(* neither the stage nor how far a job has come.                            *)

\* A pool of threads without a buffer has never run a job.
NeverRan ==
    (\A w \in Workers : pc[w] \in {"unborn", "starting", "stillborn"}) =>
        \A j \in Jobs : status[j] \in {"new", "assigning", "refused", "queued"}

Whole == Typed /\ IInv /\ NeverRan
-----------------------------------------------------------------------------
(* The two components of the abstract state.                                *)

\* Only the owner's steps change the stage, and only before the memory is freed.
LEMMA SameStage ==
    ASSUME phase' = phase, phase # "freed"
    PROVE  Stage' = Stage
  BY DEF Stage

\* A pool that is up, or ending, is in the stage of that name.
LEMMA StageOfPhase ==
    /\ phase = "joining" <=> Stage = "joining"
    /\ phase = "exiting" <=> Stage = "exiting"
    /\ phase \in {"creating", "failing", "up"} => Stage = "open"
  BY DEF Stage

\* A step that changes no status leaves how far the jobs have come.
LEMMA SameStates ==
    ASSUME UNCHANGED status
    PROVE  JobStates' = JobStates
  BY DEF JobStates

\* One job's status decides one job's state.
LEMMA OneMoves ==
    ASSUME Typed, NEW j \in Jobs, NEW how \in Status,
           status' = [status EXCEPT ![j] = how]
    PROVE  JobStates' = [JobStates EXCEPT ![j] = StateOf(how)]
  BY DEF Typed, TypeOK, JobStates

\* A job that moves within one state stutters.
LEMMA MovesWithin ==
    ASSUME Typed, NEW j \in Jobs, NEW how \in Status,
           status' = [status EXCEPT ![j] = how], StateOf(status[j]) = StateOf(how)
    PROVE  JobStates' = JobStates
<1>1. JobStates' = [JobStates EXCEPT ![j] = StateOf(how)]
  BY OneMoves
<1>2. JobStates \in [Jobs -> {StateOf(s) : s \in Status}] /\ JobStates[j] = StateOf(how)
  BY DEF JobStates, Typed, TypeOK
<1> QED
  BY <1>1, <1>2

\* How far a job of each status has come.
LEMMA Meanings ==
    /\ StateOf("new") = "absent" /\ StateOf("assigning") = "absent"
    /\ StateOf("refused") = "absent"
    /\ StateOf("queued") = "waiting"
    /\ StateOf("running") = "running"
    /\ StateOf("ran") = "done" /\ StateOf("lost") = "done"
    /\ StateOf("published") = "done"
  BY DEF StateOf

\* What a state says of the status.
LEMMA Readings ==
    ASSUME Typed, NEW j \in Jobs
    PROVE  /\ JobStates[j] = StateOf(status[j])
           /\ JobStates[j] = "waiting" => status[j] = "queued"
           /\ JobStates[j] = "running" => status[j] = "running"
           /\ JobStates[j] = "done" => status[j] \in {"ran", "lost", "published"}
  BY DEF Typed, TypeOK, Status, JobStates, StateOf
-----------------------------------------------------------------------------
(* NeverRan is inductive beside IInv.                                       *)

\* At first no job was run.
LEMMA NeverRanInit == Init => NeverRan
  BY DEF Init, NeverRan

\* Nobody who works is unborn, starting or stillborn, and nobody returns there.
LEMMA NeverRanStep ==
    ASSUME Whole, [Next]_vars
    PROVE  NeverRan'
<1> SUFFICES ASSUME \A w \in Workers : pc'[w] \in {"unborn", "starting", "stillborn"},
                    NEW j \in Jobs
             PROVE  status'[j] \in {"new", "assigning", "refused", "queued"}
  BY DEF NeverRan
<1> USE DEF Typed, TypeOK, Procs, Whole
<1>1. CASE \A w \in Workers : pc[w] \in {"unborn", "starting", "stillborn"}
  <2>1. status[j] \in {"new", "assigning", "refused", "queued"}
    BY <1>1 DEF NeverRan
  <2>2. ASSUME NEW p \in Procs, AssignStep(p)
        PROVE  status'[j] \in {"new", "assigning", "refused", "queued"}
    BY <2>1, <2>2 DEF AssignStep, RejectPriority, AssignFails, Refuse, PutScan, PutStep,
                      PutMark, PutQueued, PutNotQueued
  <2>3. ASSUME NEW w \in Workers, WorkerStep(w)
        PROVE  status'[j] \in {"new", "assigning", "refused", "queued"}
    <3>1. status' = status \/ ~(pc'[w] \in {"unborn", "starting", "stillborn"})
      BY <2>3 DEF WorkerStep, OnlyPc, Start, StartFails, CheckExit, PollLockFails,
                  PollEmpty, TakeExit, TakeNull, TakeJob, Finish, RelockFails,
                  CopyBegin, CopyNull, CopyEnd
    <3> QED
      BY <2>1, <3>1
  <2>4. ASSUME NEW c \in Clients, FutureStep(c) \/ Leave(c)
        PROVE  status'[j] \in {"new", "assigning", "refused", "queued"}
    BY <2>1, <2>4 DEF FutureStep, ClientStep, AwaitBegin, AwaitReturns, AwaitTimesOut,
              ReadResult, DestroyBegin, DestroyNothing, DestroyStep,
              DestroyUnmark, DestroyCount, Leave
  <2>5. CASE OwnerStep \/ Over \/ UNCHANGED vars
    BY <2>1, <2>5 DEF OwnerStep, Over, vars, CreateThread, CreateThreadFails, InitDone,
              Join, JoinUnasked, JoinFails, Exit, Freed
  <2> QED
    BY <2>2, <2>3, <2>4, <2>5 DEF Next
<1>2. ASSUME NEW w \in Workers, pc[w] \notin {"unborn", "starting", "stillborn"}
      PROVE  pc'[w] \notin {"unborn", "starting", "stillborn"}
  <2>1. ASSUME NEW p \in Procs, AssignStep(p)
        PROVE  pc'[w] \notin {"unborn", "starting", "stillborn"}
    BY <1>2, <2>1 DEF AssignStep, RejectPriority, AssignFails, Refuse, PutScan, PutStep,
                      PutMark, PutQueued, PutNotQueued, Fill, AfterAssign
  <2>2. ASSUME NEW v \in Workers, WorkerStep(v)
        PROVE  pc'[w] \notin {"unborn", "starting", "stillborn"}
    BY <1>2, <2>2 DEF WorkerStep, OnlyPc, Start, StartFails, CheckExit, PollLockFails,
                  PollEmpty, TakeExit, TakeNull, TakeJob, Finish, RelockFails,
                  CopyBegin, CopyNull, CopyEnd
  <2>3. ASSUME NEW c \in Clients, FutureStep(c) \/ Leave(c)
        PROVE  pc'[w] \notin {"unborn", "starting", "stillborn"}
    <3>1. c # w
      BY PoolAssumption
    <3> QED
      BY <1>2, <2>3, <3>1 DEF FutureStep, ClientStep, AwaitBegin, AwaitReturns,
              AwaitTimesOut, ReadResult, DestroyBegin, DestroyNothing, DestroyStep,
              DestroyUnmark, DestroyCount, Leave
  <2>4. CASE OwnerStep \/ Over \/ UNCHANGED vars
    BY <1>2, <2>4 DEF OwnerStep, Over, vars, CreateThread, CreateThreadFails, InitDone,
              Join, JoinUnasked, JoinFails, Exit, Freed
  <2> QED
    BY <2>1, <2>2, <2>3, <2>4 DEF Next
<1> QED
  BY <1>1, <1>2
-----------------------------------------------------------------------------
(* Every step of the pool, as JobPool sees it.                              *)

Maps == Abstract!Next \/ UNCHANGED Abstract!vars

\* A step that leaves the phase and every job's state alone.
LEMMA Stutters ==
    ASSUME phase' = phase, phase # "freed", JobStates' = JobStates
    PROVE  Maps
  BY SameStage DEF Maps, Abstract!vars

\* Every step of an assignment accepts a job or stutters.
LEMMA AssignmentsMap ==
    ASSUME Whole, NEW p \in Procs, AssignStep(p)
    PROVE  Maps
<1> USE DEF Whole
<1>1. phase' = phase
  BY DEF AssignStep, RejectPriority, AssignFails, Refuse, PutScan, PutStep, PutMark,
         PutQueued, PutNotQueued, Fill
<1>2. phase # "freed" /\ (phase \in {"creating", "failing"} => FALSE)
  <2>1. pc[p] \in CallPc \/ \E j \in Jobs : MayAssign(p, j)
    BY DEF AssignStep, RejectPriority, AssignFails, PutScan, PutStep, PutMark,
           PutQueued, PutNotQueued, Fill, CallPc
  <2>2. CASE p \in Clients
    BY <2>1, <2>2, PoolAssumption DEF MayAssign, IInv, PhaseInv, CallPc
  <2>3. CASE p \in Workers
    <3>1. pc[p] \in RunPc
      BY <2>1, <2>3, PoolAssumption DEF MayAssign, RunPc
    <3>2. cur[p].job \in Jobs /\ status[cur[p].job] = "running"
      BY <2>3, <3>1 DEF IInv, WorkInv, WorkPc
    <3> QED
      BY <2>3, <3>1, <3>2 DEF IInv, PhaseInv, Gone, RunPc, CallPc
  <2> QED
    BY <2>2, <2>3 DEF Procs
<1>3. Stage' = Stage
  BY <1>1, <1>2, SameStage
<1>4. ASSUME NEW j \in Jobs, RejectPriority(p, j) \/ AssignFails(p, j) \/ PutScan(p, j)
      PROVE  JobStates' = JobStates
  <2>1. status[j] = "new"
    BY <1>4 DEF RejectPriority, AssignFails, PutScan, MayAssign
  <2>2. \E how \in {"refused", "assigning"} : status' = [status EXCEPT ![j] = how]
    BY <1>4 DEF RejectPriority, AssignFails, PutScan, Refuse
  <2> QED
    BY <2>1, <2>2, MovesWithin, Meanings DEF Status
<1>5. ASSUME PutMark(p) PROVE JobStates' = JobStates
  BY <1>5, SameStates DEF PutMark
<1>6. ASSUME PutNotQueued(p) PROVE JobStates' = JobStates
  <2>1. target[p] \in Jobs /\ status[target[p]] = "assigning"
    BY <1>6 DEF PutNotQueued, Fill, Typed, InCall, IInv, CallerInv, CallPc
  <2> QED
    BY <1>6, <2>1, MovesWithin, Meanings DEF PutNotQueued, Status
<1>7. ASSUME PutQueued(p) PROVE Abstract!Accept(target[p])
  <2>1. /\ target[p] \in Jobs /\ status[target[p]] = "assigning"
        /\ AcceptablePriority(target[p]) /\ pc[p] = "fill"
    BY <1>7 DEF PutQueued, Fill, Typed, InCall, IInv, CallerInv, CallPc
  <2>2. JobStates' = [JobStates EXCEPT ![target[p]] = "waiting"]
    BY <1>7, <2>1, OneMoves, Meanings DEF PutQueued, Status
  <2>3. JobStates[target[p]] = "absent"
    BY <2>1, Readings, Meanings
  <2>4. Prio[target[p]] > 0
    BY <2>1, PoolAssumption DEF AcceptablePriority
  <2>5. Stage = "open" \/ (Stage \notin {"closed", "abandoned"} /\ Abstract!With("running") # {})
    <3>1. CASE p \in Clients
      <4>1. phase = "up"
        BY <2>1, <3>1 DEF IInv, PhaseInv
      <4> QED
        BY <4>1, StageOfPhase
    <3>2. CASE p \in Workers
      <4>1. cur[p].job \in Jobs /\ status[cur[p].job] = "running"
        BY <2>1, <3>2 DEF IInv, WorkInv, WorkPc, RunPc, CallPc
      <4>2. cur[p].job \in Abstract!With("running")
        BY <4>1, Readings, Meanings DEF Abstract!With
      <4>3. Stage \notin {"closed", "abandoned"}
        BY <1>2 DEF Stage
      <4> QED
        BY <4>2, <4>3
    <3> QED
      BY <3>1, <3>2 DEF Procs
  <2> QED
    BY <1>3, <2>2, <2>3, <2>4, <2>5 DEF Abstract!Accept, Abstract!Over
<1>8. ASSUME PutQueued(p) PROVE Maps
  <2>1. target[p] \in Jobs
    BY <1>8 DEF PutQueued, Fill, Typed, InCall, CallPc
  <2> QED
    BY <1>7, <1>8, <2>1 DEF Maps, Abstract!Next
<1> QED
  BY <1>1, <1>2, <1>4, <1>5, <1>6, <1>8, Stutters DEF AssignStep, PutStep

\* A worker's job starts and ends; what it does beside that is invisible.
LEMMA WorkersMap ==
    ASSUME Whole, NEW w \in Workers, WorkerStep(w)
    PROVE  Maps
<1> USE DEF Whole
<1>1. phase' = phase
  BY DEF WorkerStep, OnlyPc, Start, StartFails, CheckExit, PollLockFails, PollEmpty,
         TakeExit, TakeNull, TakeJob, Finish, RelockFails, CopyBegin, CopyNull, CopyEnd
<1>2. phase # "freed"
  <2>1. pc[w] \in {"starting", "loop", "poll", "run", "relock"} \cup CopyPc
    BY DEF WorkerStep, OnlyPc, Start, StartFails, CheckExit, PollLockFails, PollEmpty,
         TakeExit, TakeNull, TakeJob, Finish, RelockFails, CopyBegin, CopyNull, CopyEnd,
         CopyPc
  <2> QED
    BY <2>1 DEF IInv, PhaseInv, Gone, CopyPc
<1>3. Stage' = Stage
  BY <1>1, <1>2, SameStage
<1>4. ASSUME UNCHANGED status PROVE Maps
  BY <1>1, <1>2, <1>4, SameStates, Stutters
<1>5. ASSUME TakeJob(w) PROVE Maps
  <2>1. PICK e \in jobsQueue :
           /\ IsTop(e) /\ e.location # 0
           /\ status' = [status EXCEPT ![slot[e.location].job] = "running"]
    BY <1>5 DEF TakeJob
  <2> DEFINE j == e.job
  <2>2. /\ j \in Jobs /\ status[j] = "queued" /\ slot[e.location].job = j
        /\ Priority(e) = Prio[j]
    BY <2>1, RealEntry, PoolAssumption DEF IInv, Priority
  <2>3. JobStates' = [JobStates EXCEPT ![j] = "running"]
    BY <2>1, <2>2, OneMoves, Meanings DEF Status
  <2>4. JobStates[j] = "waiting"
    BY <2>2, Readings, Meanings
  <2>5. ASSUME NEW k \in Jobs, JobStates[k] = "waiting" PROVE Prio[k] <= Prio[j]
    <3>1. [job |-> k, location |-> fut[k]] \in jobsQueue
      BY <2>5, Readings DEF IInv, QueueInv
    <3>2. Priority([job |-> k, location |-> fut[k]]) = Prio[k]
      BY PoolAssumption DEF Priority
    <3> QED
      BY <2>1, <2>2, <3>1, <3>2 DEF IsTop
  <2>6. Stage \notin {"closed", "abandoned"}
    BY <1>2 DEF Stage
  <2> HIDE DEF j
  <2>7. Abstract!Run(j)
    BY <1>3, <2>3, <2>4, <2>5, <2>6 DEF Abstract!Run, Abstract!With, Abstract!Over
  <2> QED
    BY <2>2, <2>7 DEF Maps, Abstract!Next
<1>6. ASSUME Finish(w) PROVE Maps
  <2> DEFINE j == cur[w].job
  <2>1. j \in Jobs /\ status[j] = "running"
    BY <1>6 DEF Finish, IInv, WorkInv, WorkPc, RunPc
  <2>2. status' = [status EXCEPT ![j] = "ran"]
    BY <1>6 DEF Finish
  <2> HIDE DEF j
  <2>3. JobStates' = [JobStates EXCEPT ![j] = "done"]
    BY <2>1, <2>2, OneMoves, Meanings DEF Status
  <2>4. Abstract!Done(j)
    BY <1>3, <2>1, <2>3, Readings, Meanings DEF Abstract!Done
  <2> QED
    BY <2>1, <2>4 DEF Maps, Abstract!Next
<1>7. ASSUME RelockFails(w) \/ CopyEnd(w) PROVE Maps
  <2>1. cur[w].job \in Jobs /\ status[cur[w].job] = "ran"
    BY <1>7 DEF RelockFails, CopyEnd, IInv, WorkInv, WorkPc, RunPc, CallPc, CopyPc
  <2>2. \E how \in {"lost", "published"} : status' = [status EXCEPT ![cur[w].job] = how]
    BY <1>7 DEF RelockFails, CopyEnd
  <2>3. JobStates' = JobStates
    BY <2>1, <2>2, MovesWithin, Meanings DEF Status
  <2> QED
    BY <1>1, <1>2, <2>3, Stutters
<1> QED
  BY <1>4, <1>5, <1>6, <1>7 DEF WorkerStep, OnlyPc, Start, StartFails, CheckExit,
         PollLockFails, PollEmpty, TakeExit, TakeNull, CopyBegin, CopyNull

\* Futures are no part of JobPool.
LEMMA FuturesMap ==
    ASSUME Whole, NEW c \in Clients, FutureStep(c) \/ Leave(c)
    PROVE  Maps
<1>1. phase' = phase /\ UNCHANGED status
  BY DEF FutureStep, ClientStep, AwaitBegin, AwaitReturns, AwaitTimesOut, ReadResult,
         DestroyBegin, DestroyNothing, DestroyStep, DestroyUnmark, DestroyCount, Leave
<1>2. phase = "up"
  <2>1. phase = "up" \/ pc[c] \notin {"idle", "left"}
    BY DEF FutureStep, ClientStep, AwaitBegin, AwaitReturns, AwaitTimesOut, ReadResult,
           DestroyBegin, DestroyNothing, MayDestroy, DestroyStep, DestroyUnmark,
           DestroyCount, Leave
  <2> QED
    BY <2>1 DEF Whole, IInv, PhaseInv
<1> QED
  BY <1>1, <1>2, SameStates, Stutters

\* The memory is freed when no job runs, and after a join when none waits,
\* unless there never was a thread to run them.
LEMMA FreedMaps ==
    ASSUME Whole, Freed
    PROVE  Maps
<1> USE DEF Whole
<1>1. JobStates' = JobStates /\ phase' = "freed" /\ bits' = bits /\ Unmanned' = Unmanned
  BY SameStates DEF Freed, orders, Unmanned
<1>2. CASE phase = "failing"
  <2>1. 0 \notin bits
    BY <1>2 DEF IInv, PhaseInv
  <2>2. Stage' = "open" /\ Stage = "open"
    BY <1>1, <1>2, <2>1 DEF Stage
  <2> QED
    BY <1>1, <2>2 DEF Maps, Abstract!vars
<1>3. CASE phase \in {"joining", "exiting"} /\ Unmanned
  <2>1. Stage \in {"joining", "exiting"} /\ Stage' = "abandoned"
    BY <1>1, <1>3 DEF Stage, IInv, PhaseInv, Open
  <2>2. \A j \in Jobs : JobStates[j] \in {"absent", "waiting"}
    BY <1>3, Readings, Meanings DEF NeverRan, Unmanned
  <2>3. Abstract!Abandon
    BY <1>1, <2>1, <2>2 DEF Abstract!Abandon
  <2> QED
    BY <2>3 DEF Maps, Abstract!Next
<1>4. CASE phase \in {"joining", "exiting"} /\ ~Unmanned
  <2>1. Stage \in {"joining", "exiting"} /\ Stage' = "closed"
    BY <1>1, <1>4 DEF Stage, IInv, PhaseInv, Open
  <2>2. \A w \in Workers : pc[w] \notin Active
    BY DEF Freed, Gone, Active, WorkPc, RunPc, CallPc, CopyPc
  <2>3. \A j \in Jobs : JobStates[j] # "running"
    <3>1. \A j \in Jobs : status[j] # "running"
      BY <2>2 DEF IInv, WorkInv, Active
    <3> QED
      BY <3>1, Readings
  <2>4. ASSUME Stage = "joining" PROVE \A j \in Jobs : JobStates[j] # "waiting"
    <3>1. phase = "joining" /\ ~mustExit
      BY <2>4, StageOfPhase DEF IInv, PhaseInv
    <3>2. ~ \A w \in Workers : pc[w] \in {"starting", "stillborn"}
      BY <1>4 DEF Unmanned, Freed, Gone
    <3>3. jobsQueue \ {ExitRequest} = {}
      BY <2>2, <3>1, <3>2 DEF IInv, DrainInv
    <3>4. \A j \in Jobs : [job |-> j, location |-> fut[j]] # ExitRequest
      BY PoolAssumption DEF ExitRequest
    <3>5. \A j \in Jobs : status[j] # "queued"
      BY <3>3, <3>4 DEF IInv, QueueInv
    <3> QED
      BY <3>5, Readings
  <2>5. Abstract!Close
    BY <1>1, <2>1, <2>3, <2>4 DEF Abstract!Close, Abstract!With
  <2> QED
    BY <2>5 DEF Maps, Abstract!Next
<1> QED
  BY <1>2, <1>3, <1>4 DEF Freed

\* Every step of the owner.
LEMMA OwnersMap ==
    ASSUME Whole, OwnerStep
    PROVE  Maps
<1>1. ASSUME Freed PROVE Maps
  BY <1>1, FreedMaps
<1>2. ASSUME Join \/ JoinUnasked PROVE Maps
  <2>1. Stage = "open" /\ Stage' = "joining"
    BY <1>2 DEF Join, JoinUnasked, MayEnd, Stage
  <2>2. JobStates' = JobStates
    BY <1>2, SameStates DEF Join, JoinUnasked
  <2> QED
    BY <2>1, <2>2 DEF Maps, Abstract!Next, Abstract!End
<1>3. ASSUME Exit PROVE Maps
  <2>1. Stage = "open" /\ Stage' = "exiting"
    BY <1>3 DEF Exit, MayEnd, Stage
  <2>2. JobStates' = JobStates
    BY <1>3, SameStates DEF Exit
  <2> QED
    BY <2>1, <2>2 DEF Maps, Abstract!Next, Abstract!End
<1>4. ASSUME (\E w \in Workers : CreateThread(w)) \/ JoinFails PROVE Maps
  <2>1. phase' = phase /\ phase # "freed" /\ UNCHANGED status
    BY <1>4 DEF CreateThread, JoinFails, MayEnd
  <2> QED
    BY <2>1, SameStates, Stutters
<1>5. ASSUME CreateThreadFails \/ InitDone PROVE Maps
  <2>1. Stage = "open" /\ Stage' = "open" /\ UNCHANGED status
    BY <1>5 DEF CreateThreadFails, InitDone, Stage
  <2> QED
    BY <2>1, SameStates DEF Maps, Abstract!vars
<1> QED
  BY <1>1, <1>2, <1>3, <1>4, <1>5 DEF OwnerStep

\* So every step of the pool is one of JobPool or a stutter.
LEMMA StepMaps ==
    ASSUME Whole, [Next]_vars
    PROVE  Maps
<1>1. ASSUME Over \/ UNCHANGED vars PROVE Maps
  <2>1. UNCHANGED <<phase, status, bits, pc>>
    BY <1>1 DEF Over, vars, orders
  <2>2. Stage' = Stage
    BY <2>1 DEF Stage, Unmanned
  <2> QED
    BY <2>1, <2>2, SameStates DEF Maps, Abstract!vars
<1> QED
  BY <1>1, AssignmentsMap, WorkersMap, FuturesMap, OwnersMap DEF Next

\* The pool is open and has no jobs at first.
LEMMA InitMaps == Init => Abstract!Init
<1> SUFFICES ASSUME Init PROVE Abstract!Init
  OBVIOUS
<1>1. Stage = "open"
  BY DEF Init, Stage
<1>2. JobStates = [j \in Jobs |-> "absent"]
  BY Meanings DEF Init, JobStates
<1> QED
  BY <1>1, <1>2 DEF Abstract!Init

(***************************************************************************)
(* The pool with its mutex, slots, workers and futures keeps what JobPool   *)
(* promises those who assign jobs.                                          *)
(***************************************************************************)
THEOREM Refinement ==
    ASSUME LoneDestroyer
    PROVE  Spec => ImplementsJobPool
<1>1. Init => Whole /\ Abstract!Init
  BY TypedInit, IInvInit, NeverRanInit, InitMaps DEF Whole
<1>2. Whole /\ [Next]_vars => Whole'
  BY TypedStep, LoneStep, NeverRanStep DEF Whole
<1>3. Whole /\ [Next]_vars => [Abstract!Next]_(Abstract!vars)
  BY StepMaps DEF Maps
<1> QED
  BY <1>1, <1>2, <1>3, PTL DEF Spec, ImplementsJobPool, Abstract!Spec
=============================================================================
