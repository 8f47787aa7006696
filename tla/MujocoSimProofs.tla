--------------------------- MODULE MujocoSimProofs ---------------------------
(***************************************************************************)
(* Theorems about MujocoSim: its types, the range of its servos, and that  *)
(* no setpoint jumps, for any joints, ranges, physics and messages.        *)
(***************************************************************************)
EXTENDS MujocoSim, WellFoundedInduction, TLAPS

\* A non-empty set of indices of a message has a last one: both receivers of
\* joint commands take the last place that names a joint.
LEMMA LastIndexExists ==
    ASSUME NEW n \in Nat, NEW S, S \subseteq 1 .. n, S # {}
    PROVE  \E i \in S : \A j \in S : j <= i
<1> DEFINE T == {k \in 0 .. n : n - k \in S}
<1>1. \A j \in S : n - j \in T
  <2>1. \A j \in S : n - j \in 0 .. n /\ n - (n - j) = j
    OBVIOUS
  <2> QED
    BY <2>1
<1>2. T \subseteq Nat /\ T # {}
  <2>1. T \subseteq Nat
    OBVIOUS
  <2> HIDE DEF T
  <2> QED
    BY <1>1, <2>1
<1>3. PICK k \in T : \A y \in T : ~(<<y, k>> \in OpToRel(<, Nat))
  BY <1>2, NatLessThanWellFounded, WFMin
<1>4. \A j \in S : j <= n - k
  <2>1. \A j \in S : ~(n - j < k)
    BY <1>1, <1>2, <1>3 DEF OpToRel
  <2> QED
    BY <2>1
<1> QED
  BY <1>4

\* A clipped pose is a pose within the ranges of the limited joints.
LEMMA ClipRange ==
    ASSUME NEW pose \in Poses
    PROVE  /\ Clip(pose) \in Poses
           /\ \A j \in Limited : Lower[j] <= Clip(pose)[j] /\ Clip(pose)[j] <= Upper[j]
<1>1. ASSUME NEW j \in Joints
      PROVE  /\ Clip(pose)[j] \in Int
             /\ j \in Limited => Lower[j] <= Clip(pose)[j] /\ Clip(pose)[j] <= Upper[j]
    <2>1. pose[j] \in Int /\ Lower[j] \in Int /\ Upper[j] \in Int
        BY SimAssumption DEF Poses
    <2>2. CASE j \in Limited
        <3>1. Clip(pose)[j] = Clamp(pose[j], Lower[j], Upper[j]) /\ Lower[j] <= Upper[j]
            BY <2>2, SimAssumption DEF Clip
        <3> QED BY <2>1, <3>1 DEF Clamp
    <2>3. CASE j \notin Limited
        BY <2>1, <2>3 DEF Clip
    <2> QED BY <2>2, <2>3
<1>2. Clip(pose) \in Poses
    BY <1>1 DEF Clip, Poses
<1> QED BY <1>1, <1>2, SimAssumption

LEMMA CommandType ==
    ASSUME NEW msg \in Messages, Accepts(msg)
    PROVE  /\ CommandOf(msg) \in Poses
           /\ \A j \in Limited :
                Lower[j] <= CommandOf(msg)[j] /\ CommandOf(msg)[j] <= Upper[j]
<1>1. ASSUME NEW j \in Joints
      PROVE  msg.position[LastPlaceOf(msg, j)] \in Int
    <2>1. msg.name \in Seq(STRING) /\ msg.position \in Seq(Int \cup {NonFinite})
        BY SimAssumption
    <2> DEFINE places == PlacesOf(msg, j)
    <2>2. places # {} /\ places \subseteq 1 .. Len(msg.name) /\ Len(msg.name) \in Nat
        BY <2>1 DEF Accepts, PlacesOf
    <2>3. \E i \in places : \A k \in places : k <= i
        BY <2>2, LastIndexExists
    <2>4. LastPlaceOf(msg, j) \in places
        BY <2>3 DEF LastPlaceOf
    <2>5. LastPlaceOf(msg, j) \in 1 .. Len(msg.position)
        BY <2>1, <2>2, <2>4 DEF Accepts
    <2>6. msg.position[LastPlaceOf(msg, j)] # NonFinite
        BY DEF Accepts
    <2> QED BY <2>1, <2>5, <2>6
<1>2. [j \in Joints |-> msg.position[LastPlaceOf(msg, j)]] \in Poses
    BY <1>1 DEF Poses
<1> QED BY <1>2, ClipRange DEF CommandOf

-----------------------------------------------------------------------------
\* A setpoint moves towards its target, by MaxDelta at most, and not past it.
LEMMA TowardsBounded ==
    ASSUME NEW from \in Poses, NEW to \in Poses
    PROVE  /\ Towards(from, to) \in Poses
           /\ \A j \in Joints :
                /\ Between(from[j], Towards(from, to)[j], to[j])
                /\ MaxDelta > 0 => Distance(from[j], Towards(from, to)[j]) <= MaxDelta
<1>1. CASE MaxDelta > 0
    <2>1. \A j \in Joints :
             Towards(from, to)[j] = from[j] + Clamp(to[j] - from[j], -MaxDelta, MaxDelta)
        BY <1>1 DEF Towards
    <2>2. ASSUME NEW j \in Joints
          PROVE  /\ Towards(from, to)[j] \in Int
                 /\ Between(from[j], Towards(from, to)[j], to[j])
                 /\ Distance(from[j], Towards(from, to)[j]) <= MaxDelta
        <3>1. from[j] \in Int /\ to[j] \in Int /\ MaxDelta \in Int
            BY SimAssumption DEF Poses
        <3> QED BY <1>1, <2>1, <3>1 DEF Clamp, Between, Distance
    <2>3. Towards(from, to) \in Poses
        BY <1>1, <2>1, <2>2 DEF Towards, Poses
    <2> QED BY <2>2, <2>3
<1>2. CASE ~(MaxDelta > 0)
    <2>1. Towards(from, to) = to
        BY <1>2 DEF Towards
    <2>2. \A j \in Joints : from[j] \in Int /\ to[j] \in Int
        BY DEF Poses
    <2> QED BY <1>2, <2>1, <2>2 DEF Between
<1> QED BY <1>1, <1>2

\* Clipping moves nothing that was on its way to a clipped pose from one.
LEMMA ClipBetween ==
    ASSUME NEW from \in Poses, NEW mid \in Poses, NEW to \in Poses, NEW j \in Joints,
           j \in Limited => Lower[j] <= from[j] /\ from[j] <= Upper[j],
           Between(from[j], mid[j], to[j])
    PROVE  /\ Between(from[j], Clip(mid)[j], Clip(to)[j])
           /\ Distance(from[j], Clip(mid)[j]) <= Distance(from[j], mid[j])
<1>1. from[j] \in Int /\ mid[j] \in Int /\ to[j] \in Int
      /\ Lower[j] \in Int /\ Upper[j] \in Int
    BY SimAssumption DEF Poses
<1>2. CASE j \in Limited
    <2>1. /\ Clip(mid)[j] = Clamp(mid[j], Lower[j], Upper[j])
          /\ Clip(to)[j] = Clamp(to[j], Lower[j], Upper[j])
          /\ Lower[j] <= Upper[j]
        BY <1>2, SimAssumption DEF Clip
    <2> QED BY <1>1, <1>2, <2>1 DEF Clamp, Between, Distance
<1>3. CASE j \notin Limited
    <2>1. Clip(mid)[j] = mid[j] /\ Clip(to)[j] = to[j]
        BY <1>3 DEF Clip
    <2> QED BY <1>1, <2>1 DEF Between, Distance
<1> QED BY <1>2, <1>3

-----------------------------------------------------------------------------
\* The physics only runs with a command to follow, and the servos stay in
\* range: what a step needs to be sound.
SimInv ==
    /\ ServoWithinRange
    /\ started => target_command # NoCommand
    /\ steps_left > 0 => started

LEMMA StepTargetType ==
    ASSUME TypeOK, SimInv, steps_left > 0
    PROVE  StepTarget \in Poses
BY DEF StepTarget, TypeOK, SimInv

\* One physics step, of the thread that holds the lock.
LEMMA StepSound ==
    ASSUME TypeOK, SimInv, Step
    PROVE  /\ control_command' \in Poses
           /\ \A j \in Limited :
                 Lower[j] <= control_command'[j] /\ control_command'[j] <= Upper[j]
           /\ \A j \in Joints :
                /\ Between(control_command[j], control_command'[j], Clip(StepTarget)[j])
                /\ MaxDelta > 0 => Distance(control_command[j], control_command'[j]) <= MaxDelta
<1> DEFINE mid == Towards(control_command, StepTarget)
<1>1. started /\ StepTarget \in Poses /\ control_command \in Poses
    BY StepTargetType DEF Step, SimInv, TypeOK
<1>2. mid \in Poses
    BY <1>1, TowardsBounded
<1>3. control_command' = Clip(mid)
    BY DEF Step
<1>4. ASSUME NEW j \in Joints
      PROVE  /\ Between(control_command[j], control_command'[j], Clip(StepTarget)[j])
             /\ MaxDelta > 0 => Distance(control_command[j], control_command'[j]) <= MaxDelta
    <2>1. j \in Limited => Lower[j] <= control_command[j] /\ control_command[j] <= Upper[j]
        BY <1>1 DEF SimInv, ServoWithinRange
    <2>2. /\ Between(control_command[j], mid[j], StepTarget[j])
          /\ MaxDelta > 0 => Distance(control_command[j], mid[j]) <= MaxDelta
        BY <1>1, TowardsBounded
    <2>3. /\ Between(control_command[j], Clip(mid)[j], Clip(StepTarget)[j])
          /\ Distance(control_command[j], Clip(mid)[j]) <= Distance(control_command[j], mid[j])
        BY <1>1, <1>2, <2>1, <2>2, ClipBetween
    <2>4. /\ control_command[j] \in Int /\ mid[j] \in Int /\ Clip(mid)[j] \in Int
          /\ MaxDelta \in Int
        BY <1>1, <1>2, ClipRange, SimAssumption DEF Poses
    <2> HIDE DEF mid
    <2> QED BY <1>3, <2>2, <2>3, <2>4 DEF Distance
<1> QED BY <1>2, <1>3, <1>4, ClipRange

-----------------------------------------------------------------------------
\* The variables keep their types: no rejected or partial message leaves a
\* hole in a pose, and the chunk never does more steps than it took.
THEOREM TypeCorrect == Spec => [](TypeOK /\ SimInv)
<1>1. Init => TypeOK /\ SimInv
    <2> SUFFICES ASSUME Init PROVE TypeOK /\ SimInv
        OBVIOUS
    <2>1. ZeroPose \in Poses
        BY DEF ZeroPose, Poses
    <2>2. MaxAge \in Nat /\ StepsPerChunk \in Nat
        BY SimAssumption DEF MaxAge
    <2>3. 0 \in 0 .. MaxAge /\ 0 \in 0 .. StepsPerChunk
        BY <2>2
    <2>4. TypeOK
        BY <2>1, <2>3 DEF Init, TypeOK
    <2>5. SimInv
        BY DEF Init, SimInv, ServoWithinRange
    <2> QED BY <2>4, <2>5
<1>2. TypeOK /\ SimInv /\ [Next]_simVars => (TypeOK /\ SimInv)'
    <2> SUFFICES ASSUME TypeOK, SimInv, [Next]_simVars PROVE (TypeOK /\ SimInv)'
        OBVIOUS
    <2>1. MaxAge \in Nat /\ StepsPerChunk \in Nat \ {0}
        BY SimAssumption DEF MaxAge
    <2>2. ASSUME NEW msg \in Messages, CommandCallback(msg) PROVE (TypeOK /\ SimInv)'
        <3>1. CommandOf(msg) \in Poses /\ CommandOf(msg) # NoCommand
            BY <2>2, CommandType, SimAssumption DEF CommandCallback
        <3>2. \A j \in Limited :
                 Lower[j] <= CommandOf(msg)[j] /\ CommandOf(msg)[j] <= Upper[j]
            BY <2>2, CommandType DEF CommandCallback
        <3>3. qpos' \in Poses /\ control_command' \in Poses
            BY <2>2, <3>1 DEF CommandCallback, ControlOnCommand, TypeOK
        <3>4. ServoWithinRange'
            <4>1. CASE started
                BY <2>2, <4>1 DEF CommandCallback, ControlOnCommand, SimInv, ServoWithinRange
            <4>2. CASE ~started
                BY <2>2, <3>2, <4>2 DEF CommandCallback, ControlOnCommand, ServoWithinRange
            <4> QED BY <4>1, <4>2
        <3>5. TypeOK'
            BY <2>1, <2>2, <3>1, <3>3 DEF CommandCallback, TypeOK, shutdownVars
        <3> QED BY <2>2, <3>1, <3>4, <3>5 DEF CommandCallback, SimInv
    <2>3. CASE PublishState
        BY <2>3 DEF PublishState, TypeOK, shutdownVars, SimInv, ServoWithinRange
    <2>4. CASE TakeLock
        <3>1. 0 \in 0 .. StepsPerChunk /\ StepsPerChunk \in 0 .. StepsPerChunk
            BY <2>1
        <3>2. steps_left' \in 0 .. StepsPerChunk
            BY <2>4, <3>1 DEF TakeLock
        <3>3. TypeOK'
            BY <2>4, <3>2 DEF TakeLock, TypeOK, shutdownVars
        <3>4. SimInv'
            BY <2>1, <2>4 DEF TakeLock, SimInv, ServoWithinRange
        <3> QED BY <3>3, <3>4
    <2>5. CASE Step
        <3>1. qpos' \in Poses
            BY <2>5, SimAssumption DEF Step, Near
        <3>2. steps_left' \in 0 .. StepsPerChunk
            BY <2>1, <2>5 DEF Step, TypeOK, shutdownVars
        <3>3. TypeOK'
            BY <2>5, <3>1, <3>2, StepSound DEF Step, TypeOK, shutdownVars
        <3>4. SimInv'
            BY <2>5, StepSound DEF Step, TypeOK, shutdownVars, SimInv, ServoWithinRange
        <3> QED BY <3>3, <3>4
    <2>6. CASE RequestStop
        BY <2>6 DEF RequestStop, TypeOK, SimInv, ServoWithinRange
    <2>11. CASE Shutdown
        BY <2>11 DEF Shutdown, TypeOK, SimInv, ServoWithinRange
    <2>7. CASE Tick
        BY <2>1, <2>7 DEF Tick, TypeOK, shutdownVars, SimInv, ServoWithinRange
    <2>8. CASE UNCHANGED simVars
        BY <2>8 DEF simVars, TypeOK, SimInv, ServoWithinRange
    <2>9. CASE LoopCheck
        BY <2>9 DEF LoopCheck, TypeOK, shutdownVars, SimInv, ServoWithinRange
    <2>10. CASE StepFails
        <3>1. 0 \in 0 .. StepsPerChunk
            BY <2>1
        <3> QED BY <2>10, <3>1 DEF StepFails, TypeOK, shutdownVars, SimInv, ServoWithinRange
    <2> QED BY <2>2, <2>3, <2>4, <2>5, <2>6, <2>7, <2>8, <2>9, <2>10, <2>11 DEF Next
<1> QED BY <1>1, <1>2, PTL DEF Spec

\* For any physics, no servo is told to leave the range of its joint.
COROLLARY ServosStayInRange == Spec => []ServoWithinRange
<1>1. SimInv => ServoWithinRange
    BY DEF SimInv
<1> QED BY <1>1, TypeCorrect, PTL

LEMMA ControlKept ==
    ASSUME TypeOK, SimInv, started, [Next]_simVars, ~Step
    PROVE  control_command' = control_command
BY DEF Next, CommandCallback, ControlOnCommand, PublishState, LoopCheck, TakeLock,
       StepFails, RequestStop, Shutdown, Tick, simVars

\* No sequence of commands, late or in a burst, and no stale gait makes a
\* setpoint jump, for any speed limit and any chunk length.
THEOREM SetpointsNeverJump == Spec => NoServoJumps
<1>1. TypeOK /\ SimInv /\ [Next]_simVars
        => (started /\ MaxDelta > 0
            => \A j \in Joints : Distance(control_command[j], control_command'[j]) <= MaxDelta)
    <2> SUFFICES ASSUME TypeOK, SimInv, [Next]_simVars, started, MaxDelta > 0,
                        NEW j \in Joints
                 PROVE  Distance(control_command[j], control_command'[j]) <= MaxDelta
        OBVIOUS
    <2>1. CASE Step
        BY <2>1, StepSound
    <2>2. CASE ~Step
        <3>1. control_command[j] \in Int /\ MaxDelta \in Int
            BY SimAssumption DEF TypeOK, Poses
        <3>2. control_command'[j] = control_command[j]
            BY <2>2, ControlKept
        <3> QED BY <3>1, <3>2 DEF Distance
    <2> QED BY <2>1, <2>2
<1> QED BY <1>1, TypeCorrect, PTL DEF Spec, NoServoJumps

\* A stale gait moves no setpoint any further along, for any physics.
THEOREM StaleGaitsStop == Spec => StaleGaitStops
<1>1. TypeOK /\ SimInv /\ [Next]_simVars
        => (CommandTimeout > 0 /\ command_age > CommandTimeout /\ steps_left' < steps_left
            => \A j \in Joints :
                  Between(control_command[j], control_command'[j], Clip(qpos)[j]))
    <2> SUFFICES ASSUME TypeOK, SimInv, [Next]_simVars, CommandTimeout > 0,
                        command_age > CommandTimeout, steps_left' < steps_left,
                        NEW j \in Joints
                 PROVE  Between(control_command[j], control_command'[j], Clip(qpos)[j])
        OBVIOUS
    <2>1. Step \/ StepFails
        BY SimAssumption
           DEF Next, CommandCallback, PublishState, LoopCheck, TakeLock, LockFree,
               RequestStop, Shutdown, Tick, simVars, TypeOK
    <2>2. CASE Step
        <3>1. StepTarget = qpos
            BY DEF StepTarget, CommandStale
        <3> QED BY <2>2, <3>1, StepSound
    <2>3. CASE StepFails
        <3>1. control_command \in Poses /\ Clip(qpos) \in Poses
            BY ClipRange DEF TypeOK
        <3>2. control_command[j] \in Int /\ Clip(qpos)[j] \in Int
            BY <3>1 DEF Poses
        <3>3. control_command'[j] = control_command[j]
            BY <2>3 DEF StepFails
        <3> QED BY <3>2, <3>3 DEF Between
    <2> QED BY <2>1, <2>2, <2>3
<1> QED BY <1>1, TypeCorrect, PTL DEF Spec, StaleGaitStops
=============================================================================
