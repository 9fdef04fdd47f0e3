\* pcc_cobj against the committed map once every call has returned.
CONSTANTS
    t1 = t1
    t2 = t2
    Threads <- MCThread
    None = None
    NumMdc = 1
    UniqDelta = 2
    MaxUniq = 3
    MaxLayouts = 2
    MaxGen = 1
    MaxRef = 2
    LogCap = 4
    MaxCrash = 1
    PcoPctFull = 75
    PcoPctGarbage = 30
    IoFail = TRUE
    ReallocLive = FALSE
SPECIFICATION Spec
INVARIANT
    PccCobjExact
