\* A client reallocs an objid whose commit is in progress.
CONSTANTS
    t1 = t1
    t2 = t2
    Threads <- MCThreads
    None = None
    NumMdc = 1
    UniqDelta = 2
    MaxUniq = 3
    MaxLayouts = 2
    MaxGen = 1
    MaxRef = 2
    LogCap = 3
    MaxCrash = 1
    PcoPctFull = 75
    PcoPctGarbage = 30
    IoFail = FALSE
    ReallocLive = TRUE
SPECIFICATION Spec
SYMMETRY ThreadSymmetry
INVARIANT
    LogReplayable
