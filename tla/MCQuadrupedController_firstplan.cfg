SPECIFICATION CSpec
CONSTANTS
    level = level
    stretched = stretched
    Zeros = Zeros
    StancePeriod = 3
    SwingPeriod = 2
    TimeModulus = 10
    TimeSteps = {1}
    RegularSteps = {1}
    BodyPoses = {level, stretched}
    NominalPose = level
    Commands <- MCCommands
    StandCommand <- MCStand
    ReachableFeet <- MCReachableFeet
    ZeroJoints = Zeros
INVARIANT
    LastPlanIsValid
