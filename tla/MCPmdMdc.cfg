\* Two client threads racing on one MDC with a 3-record log: compaction on EFBIG, I/O errors, a crash.
CONSTANTS
    t1 = t1
    t2 = t2
    Threads <- MCThreads
    None = None
    NumMdc = 1
    UniqDelta = 2
    MaxUniq = 3
    MaxLayouts = 2
    MaxGen = 1
    MaxRef = 2
    LogCap = 3
    MaxCrash = 1
    PcoPctFull = 75
    PcoPctGarbage = 30
    IoFail = TRUE
    ReallocLive = FALSE
SPECIFICATION Spec
SYMMETRY ThreadSymmetry
INVARIANTS
    TypeOK
    LogReplayable
    DurableMatchesMemory
    ErasedUnreachable
    StatsMatchMaps
PROPERTIES
    NoObjidReuse
    CatalogRefined
