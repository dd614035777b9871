SPECIFICATION Spec
CONSTANTS
    w1 = w1  w2 = w2  j1 = j1  j2 = j2  j3 = j3  bad = bad  c1 = c1  c2 = c2
    NoJob = NoJob  NoProc = NoProc
    Workers <- Workers2
    Clients <- OneClient
    Owner = c1
    Jobs <- Jobs4
    Prio <- Prio4
    MaxPrio = 9
    Assigns <- AllByC1
    Spawns <- NoSpawns
    Destroyers <- OneClient
    PageSize = 2
    MaxFaults = 1
SYMMETRY WorkerSymmetry
INVARIANTS IInv SlotsAccounted RunsOnce NoStaleFuture ResultToOwnSlot
PROPERTY UrgentFirst
