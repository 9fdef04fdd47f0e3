\* MDC0 and the MDC allocator: three user MDC slots, sets of two, a small
\* MDC0 log so compactions happen, every step able to fail, three crashes.
CONSTANTS
    MdcSlots = 4
    MdcSetSz = 2
    Mdc0Cap = 5
    MaxRef = 3
    MaxCrash = 3
    IoFail = TRUE
SPECIFICATION Spec
\* Allocation stops for good once every slot is used or an allocation is
\* wedged, and crashes are bounded: the allocator may stop.
CHECK_DEADLOCK FALSE
INVARIANTS
    TypeOK
    Mdc0Activatable
    Mdc0MatchesMemory
    CrashKeepsPublished
    UpgradedBeforeUse
