SPECIFICATION FairSpec
CONSTANTS
    NULL = NULL  NoProc = NoProc
    main = main  other = other  w1 = w1  w2 = w2  w3 = w3  name = name  f = f  g = g
    high = high
    Main = main
    Clients <- TwoClients
    Workers <- WorkersInOrder
    Names = {name}
    Functions = {f, g}
    JobsPerThread = 2
    Levels = {1, 2}
    Files <- OneFile
    BufferSize = 1
    Sizes = {1, 2}
    Orders = {"log", "event"}
    Limits <- FourLimits
INVARIANTS InvokedRun QuietAtExit LogsLines
PROPERTY CleanupReturns
CHECK_DEADLOCK FALSE
