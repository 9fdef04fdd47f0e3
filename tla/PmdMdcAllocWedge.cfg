\* The next MDC allocation after a failed MDC0 delete on an error path of
\* pmd_mdc_alloc: can its clean-up succeed once writes succeed again?
CONSTANTS
    MdcSlots = 4
    MdcSetSz = 2
    Mdc0Cap = 5
    MaxRef = 3
    MaxCrash = 3
    IoFail = TRUE
SPECIFICATION Spec
\* Allocation stops for good once every slot is used or an allocation is
\* wedged, and crashes are bounded: the allocator may stop.
CHECK_DEADLOCK FALSE
INVARIANTS
    AllocRecoverable
