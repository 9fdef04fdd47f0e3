\* Two client threads on one MDC: a delete of a just-committed object against the tail of its commit.
CONSTANTS
    t1 = t1
    t2 = t2
    Threads <- MCThreads
    None = None
    NumMdc = 1
    UniqDelta = 2
    MaxUniq = 3
    MaxLayouts = 2
    MaxGen = 1
    MaxRef = 2
    LogCap = 3
    MaxCrash = 0
    PcoPctFull = 75
    PcoPctGarbage = 30
    IoFail = FALSE
    ReallocLive = FALSE
SPECIFICATION Spec
SYMMETRY ThreadSymmetry
INVARIANT CommitStatsOnLiveLayout
