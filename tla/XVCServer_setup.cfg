\* Three processes in a row, killed anywhere, on a disk that may fail.
CONSTANTS
    Options <- AllOptions
    Calibrations <- Results
    MaxRuns = 3
    DiskMayFail = TRUE
SPECIFICATION Spec
INVARIANTS
    TypeOK
    ServesCalibrated
    RestartServesSame
CHECK_DEADLOCK FALSE
