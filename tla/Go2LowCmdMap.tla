---------------------------- MODULE Go2LowCmdMap ----------------------------
(***************************************************************************)
(* The tables and pure helpers of include/go2_lowcmd_map.h: the motor      *)
(* order of rt/lowcmd, the joint names, the joint limits, and the order of *)
(* the foot force sensors.  Angles are numbers of FloatNumbers: integers   *)
(* in an arbitrary unit, the infinities and NaN.                           *)
(***************************************************************************)
EXTENDS FloatNumbers, TLC

CONSTANTS
    MotorCount,         \* kGo2MotorCount: 12 in the code
    kGo2MotorJointNames,\* motor index -> joint name
    kGo2JointLower,     \* motor index -> lower limit
    kGo2JointUpper      \* motor index -> upper limit

Motors == 0 .. MotorCount - 1

JointNames == {kGo2MotorJointNames[m] : m \in Motors}

\* A pose of finite angles, and what a float per motor may hold.
Poses == [Motors -> Int]

FloatPoses == [Motors -> Numbers]

ASSUME MotorCountAssumption == MotorCount \in Nat \ {0}

\* The names of go2_lowcmd_map.h:10-15 are pairwise different.
ASSUME NamesAssumption ==
    \A m, n \in Motors :
        kGo2MotorJointNames[m] = kGo2MotorJointNames[n] => m = n

\* Every interval of go2_lowcmd_map.h:22-33 is non-empty.
ASSUME LimitsAssumption ==
    /\ kGo2JointLower \in Poses
    /\ kGo2JointUpper \in Poses
    /\ \A m \in Motors : kGo2JointLower[m] <= kGo2JointUpper[m]

-----------------------------------------------------------------------------
NoMotor == -1

\* The index of a joint name, or NoMotor when no motor bears it.
go2MotorIndex(name) ==
    IF name \in JointNames
    THEN CHOOSE m \in Motors : kGo2MotorJointNames[m] = name
    ELSE NoMotor

go2ClampJointOneSided(m, q) ==
    IF Less(kGo2JointUpper[m], q) THEN kGo2JointUpper[m] ELSE q

\* NaN fails both comparisons and comes back as it is.
go2ClampJoint(m, q) ==
    IF Less(q, kGo2JointLower[m]) THEN kGo2JointLower[m]
    ELSE IF Less(kGo2JointUpper[m], q) THEN kGo2JointUpper[m]
    ELSE q

ClampPose(pose) == [m \in Motors |-> go2ClampJoint(m, pose[m])]

Limits(m) == kGo2JointLower[m] .. kGo2JointUpper[m]

-----------------------------------------------------------------------------
\* foot_force is ordered FR, FL, RR, RL; contacts are ordered LF, RF, LH, RH.
Feet == 0 .. 3

kChampIndexFromFootForce == (0 :> 1) @@ (1 :> 0) @@ (2 :> 3) @@ (3 :> 2)
=============================================================================
