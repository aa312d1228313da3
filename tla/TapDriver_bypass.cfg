\* A device of the built-in list whose instructions have eight bits.
CONSTANTS
    Targets <- JustXC9536XL
    Files <- ShortList
    BuiltIn <- DeviceList
    Uninit <- Lengths
    Data <- OneWord
    NDelays = 2
SPECIFICATION Spec
INVARIANTS
    BypassIsAllOnes
