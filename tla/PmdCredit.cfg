\* A pool with MDC0 only whose worker died at pmd.c:3767 has no step left:
\* no MDCi reports a length and nothing re-queues the work item.
CONSTANTS
    MdcSlots = 5
    MdcSetSz = 3
    MdcTblSz = 6
    NbNoAllocs = {0, 4}
    Cap = 2
    FullDiv = 2
    NmtocWrap = 12
SPECIFICATION Spec
INVARIANT TypeOK
INVARIANT MdsTblBuildSafe
PROPERTY TableProportional
PROPERTY EveryMdcPrecompacted
CHECK_DEADLOCK FALSE
