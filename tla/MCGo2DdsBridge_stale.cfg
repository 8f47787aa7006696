SPECIFICATION Spec
CONSTANTS
    NaN = NaN
    PosInf = PosInf
    NegInf = NegInf
    MaxFloat = 100
    MotorCount = 2
    kGo2MotorJointNames <- MCNames
    kGo2JointLower <- MCLower
    kGo2JointUpper <- MCUpper
    LowStates <- MCSoundLowStates
    JointCommands <- MCSoundCommands
    CommandTimeout = 1
    RampTicks = 2
    Kd = 1
    ContactForceThreshold = 2
PROPERTY
    StaleHoldsPose
