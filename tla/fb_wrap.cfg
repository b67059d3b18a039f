\* The handle counter wraps around while old objects are alive, and a guest may
\* choose a colour buffer handle itself.
SPECIFICATION Spec
CONSTANTS
    Threads = {t1}
    Puids = {}
    MaxHandle = 3
    RefMod = 16
    ChannelCap = 1
    RefCountPipe = TRUE
    NoDelay = FALSE
    PreO = FALSE
    ClockStepsBack = FALSE
    WindowsClose = TRUE
    GuestHandles = {2}
    HandleLimit = 4
    MaxContexts = 1
    MaxWindows = 1
    MaxColorBuffers = 1
    MaxBuffers = 1
    MaxOpens = 1
    MaxDelayed = 2
    MaxTime = 1
INVARIANTS
    HandlesDistinct
    RefCountExact
    NoOrphanContext
