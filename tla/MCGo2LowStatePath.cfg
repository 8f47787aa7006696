SPECIFICATION PFairSpec
CONSTANTS
    NaN = NaN
    PosInf = PosInf
    NegInf = NegInf
    MaxFloat = 100
    MotorCount = 1
    kGo2MotorJointNames <- MCNames
    kGo2JointLower <- MCLower
    kGo2JointUpper <- MCUpper
    LowStates <- MCLowStates
    JointCommands <- MCJointCommands
    CommandTimeout = 0
    RampTicks = 0
    Kd = 1
    ContactForceThreshold = 2
    LowStateTopic <- MCTopic
    QueueLen = 2
INVARIANTS
    NewestInOrder
PROPERTIES
    QuitsUnlessAboutToWait
    ImplementsChannel
    MeasurementsInOrder
    LastStatePublished
