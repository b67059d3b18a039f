\* Does a colour buffer live as long as it is being posted?
SPECIFICATION Spec
CONSTANTS
    Threads = {t1, t2}
    Puids = {}
    MaxHandle = 2
    RefMod = 16
    ChannelCap = 1
    RefCountPipe = FALSE
    NoDelay = FALSE
    PreO = FALSE
    ClockStepsBack = FALSE
    WindowsClose = FALSE
    GuestHandles = {}
    HandleLimit = 2
    MaxContexts = 0
    MaxWindows = 1
    MaxColorBuffers = 2
    MaxBuffers = 0
    MaxOpens = 2
    MaxDelayed = 2
    MaxTime = 3
INVARIANTS
    PostedIsAlive
