SPECIFICATION Spec
CONSTANTS
    base = base
    shoulder = shoulder
    hip = hip
    thigh = thigh
    calf = calf
    ankle = ankle
    other = other
    NoParameter = NoParameter
    LegCount = 2
    Root = base
    Links <- MCLinks
    Trees <- MCTrees
    Origin <- MCOrigin
    Names <- MCNames
    Configs <- MCConfigs
CHECK_DEADLOCK FALSE
INVARIANTS
    TranslationsLeadToLinks
    NamesMatchChains
    ChainsAreSafe
PROPERTIES
    LoadEnds
