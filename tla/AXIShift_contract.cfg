\* Vectors of every alignment: the driver and the core keep shift()'s promise,
\* and the call returns.
CONSTANTS
    Old = Old
    Lengths <- SmallLengths
    Vectors <- SomeVectors
SPECIFICATION FairSpec
INVARIANTS
    TypeOK
PROPERTIES
    CoreUndisturbed
    ImplementsShift
    CallReturns
