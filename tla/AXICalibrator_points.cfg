\* Hysteresis counts a point that was not measured valid.
CONSTANTS
    MaxDiv = 1
    MaxDelay = 3
    Hysts <- OneHyst
    CalibSizes <- FullSize
    AskedFreqs <- SomeFreqs
SPECIFICATION Spec
INVARIANTS
    ValidPointsConsecutive
CHECK_DEADLOCK FALSE
