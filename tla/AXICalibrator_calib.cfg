\* Full and quick calibrations, without and with hysteresis.
CONSTANTS
    MaxDiv = 4
    MaxDelay = 4
    Hysts <- SomeHysts
    CalibSizes <- SomeSizes
    AskedFreqs <- SomeFreqs
SPECIFICATION FairSpec
INVARIANTS
    TypeOK
    WindowMeasured
    DelayNearWindow
    DefaultHardened
    SelectionSurvivesFile
    ClosestChosen
PROPERTIES
    CalibrationEnds
CHECK_DEADLOCK FALSE
