CONSTANTS
    MdcSlots = 5
    MdcSetSz = 2
    MdcTblSz = 4
    NbNoAllocs = {1}
    Cap = 3
    FullDiv = 3
    NmtocWrap = 12
SPECIFICATION Spec
INVARIANT PrecompactNoDivZero
