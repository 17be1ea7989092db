SPECIFICATION Spec
CONSTANTS
    fsnotify = fsnotify
    poller = poller
    f = f
    l = l
    Nothing = Nothing
    Sources <- MCSources
    Paths <- MCPaths
    Watches <- MCWatches
    Sweeps <- MCSweeps
    Buffer <- MCBuffer
    KernelQueue = 1
    RetryBuffer = 1
    MaxChanges = 2
    MaxTimers = 1
INVARIANTS Accounted CleanShutdown NoLateWork IndInv
PROPERTIES ServesWorkList Served Stops

