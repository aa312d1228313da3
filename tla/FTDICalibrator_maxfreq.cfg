\* A calibration up to 20 MHz tries 30 MHz.
CONSTANTS
    Ranges <- Between
    Loop = 1
SPECIFICATION Spec
INVARIANTS
    WithinMaxFreq
CHECK_DEADLOCK FALSE
