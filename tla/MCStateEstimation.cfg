SPECIFICATION FairSpec
CONSTANTS
    NaN = NaN
    PosInf = PosInf
    NegInf = NegInf
    Samples <- MCSamples
    PreUrdfFeet <- MCPreUrdfFeet
    ZeroJointFeet <- MCZeroJointFeet
    Intervals <- MCIntervals
    TimeModulus = 1000
    DefaultDt = 2
    Scale = 2
    OrientationFromImu = TRUE
    StrideSpan = 2
    KnownSpan = 21
    ShortestDt = 2
INVARIANTS
    TypeOK
    NoSpikeAfterStanding
    FootprintHasFeet
PROPERTIES
    EstimateSettles
