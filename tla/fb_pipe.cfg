\* RefCountPipe: colour buffers are counted by window attachments and by the
\* guest kernel's descriptor.
SPECIFICATION Spec
CONSTANTS
    Threads = {t1, t2}
    Puids = {1}
    MaxHandle = 3
    RefMod = 16
    ChannelCap = 1
    RefCountPipe = TRUE
    NoDelay = FALSE
    PreO = FALSE
    ClockStepsBack = FALSE
    WindowsClose = FALSE
    GuestHandles = {}
    HandleLimit = 3
    MaxContexts = 1
    MaxWindows = 2
    MaxColorBuffers = 2
    MaxBuffers = 0
    MaxOpens = 1
    MaxDelayed = 2
    MaxTime = 1
SYMMETRY Symmetric
INVARIANTS
    
    RefCountExact
    OwnedWindowsExist
