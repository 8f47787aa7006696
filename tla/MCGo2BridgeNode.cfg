SPECIFICATION NFairSpec
CONSTANTS
    NaN = NaN
    PosInf = PosInf
    NegInf = NegInf
    MaxFloat = 100
    MotorCount = 1
    kGo2MotorJointNames <- MCNames
    kGo2JointLower <- MCLower
    kGo2JointUpper <- MCUpper
    LowStates <- MCLowStates
    JointCommands <- MCJointCommands
    CommandTimeout = 1
    RampTicks = 1
    Kd = 1
    ContactForceThreshold = 2
    ReleaseSport = TRUE
    MaxAttempts = 2
INVARIANTS
    NeverBesideSportUnwarned
PROPERTIES
    ComesUp
