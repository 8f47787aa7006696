SPECIFICATION FairSpec
CONSTANTS
    NaN = NaN
    PosInf = PosInf
    NegInf = NegInf
    MaxFloat = 100
    MotorCount = 2
    kGo2MotorJointNames <- MCNames
    kGo2JointLower <- MCLower
    kGo2JointUpper <- MCUpper
    LowStates <- MCLowStates
    JointCommands <- MCJointCommands
    CommandTimeout = 1
    RampTicks = 2
    Kd = 1
    ContactForceThreshold = 2
INVARIANTS
    TypeOK
    OnlyNaNLeavesLimits
    NoTornMeasurement
    CommandFromOneMessage
PROPERTIES
    BumplessHandover
    RampNeverGoesBack
    WatchdogDamps
    CommandReached
    ImplementsDriver
