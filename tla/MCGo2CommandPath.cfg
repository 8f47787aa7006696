SPECIFICATION CmdSpec
CONSTANTS
    NaN = NaN
    PosInf = PosInf
    NegInf = NegInf
    MaxFloat = 100
    MotorCount = 1
    kGo2MotorJointNames <- MCNames
    kGo2JointLower <- MCLower
    kGo2JointUpper <- MCUpper
    LowStates <- MCLowStates
    JointCommands <- MCJointCommands
    CommandTimeout = 3
    RampTicks = 0
    Kd = 1
    ContactForceThreshold = 2
    Depth = 3
    PlanPeriod = 2
    TakeDelay = 1
    TimerPeriod = 1
INVARIANTS
    NoFalseAlarm
    DeathIsNoticed
