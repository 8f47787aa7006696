SPECIFICATION FairSpec
CONSTANTS
    NaN = NaN
    NonFinite = NaN
    NoCommand = NoCommand
    Joints = {"hip", "wheel"}
    Limited = {"hip"}
    Lower <- MCLower
    Upper <- MCUpper
    Messages <- MCMessages
    PhysicalPoses <- MCPhysicalPoses
    Reach = 1
    MaxDelta = 1
    CommandTimeout = 1
    StepsPerChunk = 2
INVARIANTS
    TypeOK
    ServoWithinRange
PROPERTIES
    NoServoJumps
    StaleGaitStops
    CommandReached
    ThreadEnds
