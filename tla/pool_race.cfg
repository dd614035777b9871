SPECIFICATION Spec
CONSTANTS
    w1 = w1  w2 = w2  j1 = j1  j2 = j2  j3 = j3  bad = bad  c1 = c1  c2 = c2
    NoJob = NoJob  NoProc = NoProc
    Workers <- OneWorker
    Clients <- TwoClients
    Owner = c1
    Jobs <- Jobs3
    Prio <- Prio3
    MaxPrio = 9
    Assigns <- OneAndRest
    Spawns <- NoSpawns
    Destroyers <- TwoClients
    PageSize = 2
    MaxFaults = 1
PROPERTY KeptUnlessOverlap
CHECK_DEADLOCK FALSE
