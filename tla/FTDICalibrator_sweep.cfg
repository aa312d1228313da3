\* Whole sweeps, two probes for each setting.
CONSTANTS
    Ranges <- SomeRanges
    Loop = 2
SPECIFICATION FairSpec
INVARIANTS
    TypeOK
    ItemsProbed
    RecordedFrequency
    NothingMissed
PROPERTIES
    CalibrationEnds
CHECK_DEADLOCK FALSE
