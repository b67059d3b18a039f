\* The delayed close of colour buffers, as the product runs it, for clients
\* without a process id, render threads that come and go and a wall clock that
\* may be set back.
SPECIFICATION Spec
CONSTANTS
    Threads = {t1, t2}
    Puids = {}
    MaxHandle = 2
    RefMod = 6
    ChannelCap = 1
    RefCountPipe = FALSE
    NoDelay = FALSE
    PreO = FALSE
    ClockStepsBack = TRUE
    WindowsClose = TRUE
    GuestHandles = {}
    HandleLimit = 2
    MaxContexts = 0
    MaxWindows = 1
    MaxColorBuffers = 2
    MaxBuffers = 0
    MaxOpens = 1
    MaxDelayed = 2
    MaxTime = 2
SYMMETRY Symmetric
INVARIANTS
    TypeOK
    NoOrphanColorBuffer
    
PROPERTIES
    ErasedWhenDue
