SPECIFICATION Spec
CONSTANTS
    w1 = w1  w2 = w2  j1 = j1  j2 = j2  j3 = j3  bad = bad  c1 = c1  c2 = c2
    NoJob = NoJob  NoProc = NoProc
    Workers <- OneWorker
    Clients <- OneClient
    Owner = c1
    Jobs <- Jobs2
    Prio <- Prio2
    MaxPrio = 9
    Assigns <- AllByC1
    Spawns <- NoSpawns
    Destroyers <- Nobody
    PageSize = 2
    MaxFaults = 0
INVARIANT AwaitedResultThere
