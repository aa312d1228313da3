\* Two delays, of which each target has its own that work.
CONSTANTS
    Targets <- AllTargets
    Files <- ShortList
    BuiltIn <- DeviceList
    Uninit <- Lengths
    Data <- Words
    NDelays = 2
SPECIFICATION Spec
INVARIANTS
    TypeOK
    AnswersTrue
    InPlace
    DetectsTarget
PROPERTIES
    HarmlessUpdates
