SPECIFICATION CFairSpec
CONSTANTS
    level = level
    stretched = stretched
    Zeros = Zeros
    StancePeriod = 3
    SwingPeriod = 3
    TimeModulus = 8
    TimeSteps <- MCAnyClock
    RegularSteps = {1}
    BodyPoses = {level, stretched}
    NominalPose = level
    Commands <- MCCommands
    StandCommand <- MCStand
    ReachableFeet <- MCReachableFeet
    ZeroJoints = Zeros
INVARIANTS
    DiagonalSupport
    PhaseMatchesFoot
    ContactsTrueOfPlan
PROPERTIES
    KeepsAPlan
    EveryLegSteps
    Recovers
