CONSTANTS
    NDev = 2
    NParm = 2
    MedNumber = 2
    MaxRecs = 3
SPECIFICATION Spec
CHECK_DEADLOCK FALSE
INVARIANT TypeOK PropsLoadMatchesLog
