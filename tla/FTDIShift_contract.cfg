\* Vectors with TMS nowhere, in some bytes, or in the padding, over several rounds.
CONSTANTS
    Lengths <- SmallLengths
    Vectors <- SomeVectors
    MaxData = 30
    TmsHeld = FALSE
SPECIFICATION FairSpec
INVARIANTS
    TypeOK
    BuffersFit
PROPERTIES
    ImplementsShift
    CallReturns
