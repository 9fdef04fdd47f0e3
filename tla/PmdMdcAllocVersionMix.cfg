\* An MDC allocation by the older binary cut short by a crash, then an
\* activation by this binary: does MDC0 ever hold records of two formats?
CONSTANTS
    MdcSlots = 3
    MdcSetSz = 2
    Mdc0Cap = 5
    MaxRef = 3
    MaxCrash = 1
    IoFail = FALSE
SPECIFICATION Spec
CHECK_DEADLOCK FALSE
INVARIANTS
    Mdc0OneFormat
