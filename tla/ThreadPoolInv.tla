---------------------------- MODULE ThreadPoolInv ----------------------------
(***************************************************************************)
(* The inductive invariant from which the safety properties of ThreadPool   *)
(* follow when LoneDestroyer holds.  Checked by TLC, proved in              *)
(* ThreadPool_proof.                                                        *)
(***************************************************************************)
EXTENDS ThreadPool

Open   == {"up", "joining", "exiting"}
CopyPc == {"copyResult", "copyFlag"}
RunPc  == {"run"} \cup CallPc
WorkPc == RunPc \cup {"relock"} \cup CopyPc
Active == WorkPc \cup {"loop", "poll"}

\* The mutex is held across steps by assignments and copies, by nobody else.
LockInv == \A p \in Procs : pc[p] \in CallPc \cup CopyPc <=> lock = p

\* Who is assigning or destroying what.
CallerInv ==
    /\ \A c \in Clients : pc[c] \in CallPc => target[c] \in Assigns[c]
    /\ \A w \in Workers :
          pc[w] \in CallPc => \E j \in Jobs : target[w] \in Spawns[j]
    /\ \A c \in Clients : pc[c] \in {"unmark", "uncount", "astray"} => c \in Destroyers
    /\ \A p \in Procs : pc[p] \in CallPc =>
          status[target[p]] = "assigning" /\ AcceptablePriority(target[p])
    /\ \A j \in Jobs : status[j] = "assigning" =>
          \E p \in Procs : pc[p] \in CallPc /\ target[p] = j

\* What each part of the life of the pool excludes.
PhaseInv ==
    /\ phase \in {"creating", "failing"} =>
          /\ bits = {} /\ jobsQueue = {}
          /\ \A j \in Jobs : status[j] = "new"
          /\ \A c \in Clients : pc[c] = "idle"
    /\ phase \in Open => 0 \in bits
    /\ \A c \in Clients : pc[c] \notin {"idle", "left"} => phase = "up"
    /\ phase = "freed" => \A w \in Workers : pc[w] \in Gone
    /\ mustExit => phase \in {"failing", "exiting", "freed"}
    /\ phase \in {"failing", "exiting"} => mustExit
    /\ \A w \in Workers : pc[w] = "unborn" => phase = "creating" \/ mustExit
    /\ \A w \in Workers : pc[w] = "dead" /\ ~mustExit => phase \in {"joining", "freed"}
    /\ ExitRequest \in jobsQueue => phase \in {"joining", "freed"}

\* What the steps of a put and of a destroy rely on from one to the next.
OrdersInv ==
    /\ \A p \in Procs : pc[p] = "mark" => snap[p] = bits /\ index[p] \notin bits
    /\ \A p \in Procs : pc[p] = "fill" =>
          tally[p] = count /\ count + 1 = Cardinality(bits)
    /\ \A p \in Procs : pc[p] = "unmark" => snap[p] = bits
    /\ \A p \in Procs : pc[p] \in {"fill", "unmark"} =>
          index[p] \in bits \ {0} /\ \A j \in Jobs : fut[j] # index[p]
    /\ \A p \in Procs : pc[p] = "uncount" =>
          tally[p] = count /\ count - 1 = Cardinality(bits)
    /\ (\A p \in Procs : pc[p] \notin {"fill", "uncount"}) =>
          count = Cardinality(bits)

\* With nothing failed every taken slot has somebody who will free it.
OwnedInv ==
    phase \in Open /\ faults = MaxFaults =>
        \A s \in bits \ {0} :
            \/ \E j \in Jobs : fut[j] = s
            \/ \E p \in Procs : pc[p] \in {"fill", "unmark"} /\ index[p] = s

\* A future, its slot and its job.
SlotInv ==
    /\ SlotsApart
    /\ \A j \in Jobs : InUse(j) =>
          /\ status[j] \in {"queued", "running", "ran", "lost", "published"}
          /\ slot[fut[j]].job = j
          /\ slot[fut[j]].flag => status[j] \in {"ran", "published"}
    /\ \A j \in Jobs : status[j] \in {"queued", "running"} => InUse(j)

\* The heap holds the queued jobs.
QueueInv ==
    /\ \A e \in jobsQueue \ {ExitRequest} :
          /\ e.job \in Jobs /\ status[e.job] = "queued"
          /\ fut[e.job] = e.location
          /\ AcceptablePriority(e.job)
    /\ \A j \in Jobs : status[j] = "queued" =>
          [job |-> j, location |-> fut[j]] \in jobsQueue

\* A worker, the entry it took and the slot it will copy to.
WorkInv ==
    /\ \A w \in Workers : pc[w] \notin WorkPc => cur[w] = NothingTaken
    /\ \A w \in Workers : pc[w] \in WorkPc =>
          cur[w].job \in Jobs /\ cur[w].location # NoSlot
    /\ \A w \in Workers : pc[w] \in RunPc \cup {"relock"} =>
          fut[cur[w].job] = cur[w].location /\ ~slot[cur[w].location].flag
    /\ \A w \in Workers : pc[w] \in RunPc => status[cur[w].job] = "running"
    /\ \A w \in Workers : pc[w] \in WorkPc \ RunPc => status[cur[w].job] = "ran"
    /\ \A v, w \in Workers :
          pc[v] \in WorkPc /\ pc[w] \in WorkPc /\ cur[v].job = cur[w].job => v = w
    /\ \A j \in Jobs : status[j] \in {"running", "ran"} =>
          \E w \in Workers : pc[w] \in WorkPc /\ cur[w].job = j
    /\ ResultToOwnSlot

RunsInv ==
    \A j \in Jobs :
        runs[j] = IF status[j] \in {"new", "assigning", "refused", "queued"}
                  THEN 0 ELSE 1

\* As long as jobs wait there is a worker to take them: a worker leaves only
\* when none waits, and then only a working one can assign another.
DrainInv ==
    ~mustExit /\ jobsQueue \ {ExitRequest} # {} =>
        \/ \E w \in Workers : pc[w] \in Active
        \/ \A w \in Workers : pc[w] \in {"starting", "stillborn"}

\* The inductive invariant.
IInv ==
    /\ LockInv /\ CallerInv /\ PhaseInv /\ OrdersInv /\ OwnedInv
    /\ SlotInv /\ QueueInv /\ WorkInv /\ RunsInv /\ DrainInv
    /\ NoNullOrder

\* Nothing breaks the invariant but a bl_future_destroy, which takes no mutex
\* (ThreadPool.c, line 196), in the middle of a bl_unordered_container_put or
\* of another one: whatever the clients, a step that does not begin such an
\* overlap or belong to one keeps it, however many faults there were.
KeptUnlessOverlap ==
    [][IInv /\ OrdersExclusive /\ OrdersExclusive' => IInv']_vars
=============================================================================
