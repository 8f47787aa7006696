---------------------- MODULE QuadrupedControllerProofs ----------------------
(***************************************************************************)
(* Theorems about the gait of LegController: its types, that a walking     *)
(* robot always has a whole diagonal on the ground, and that the contact   *)
(* it publishes agrees with the foot position it plans.  Then about the    *)
(* QuadrupedController: its loop runs that gait, so that what is proved of *)
(* the gait holds of the node, and what it publishes stays a plan.         *)
(***************************************************************************)
EXTENDS QuadrupedController, TLAPS

-----------------------------------------------------------------------------
(* The gait *)

LEMMA ProductPositive ==
    ASSUME NEW x \in Nat, NEW y \in Nat, x > 0, y > 0
    PROVE  x * y > 0 /\ 0 * y = 0 /\ 0 * x = 0
OBVIOUS

-----------------------------------------------------------------------------
(* What the clock and the signals can be *)

\* No leg clock is counted from a touchdown a stride or more ago.
LEMMA ElapsedBelowStride ==
    ASSUME TypeOK, NEW t \in Times
    PROVE  /\ Touchdown(t) \in Times
           /\ Elapsed(t, Touchdown(t)) \in 0 .. Stride - 1
<1>1. CASE Touchdown(t) = t
    BY <1>1, GaitAssumption DEF Elapsed, Times, Stride
<1>2. CASE Touchdown(t) # t
    <2>1. Touchdown(t) = last_touchdown /\ ~(Elapsed(t, last_touchdown) >= Stride)
        BY <1>2 DEF Touchdown
    <2>2. Elapsed(t, last_touchdown) \in Nat
        BY GaitAssumption DEF TypeOK, Times, Elapsed
    <2> QED BY <2>1, <2>2, GaitAssumption DEF TypeOK, Stride
<1> QED BY <1>1, <1>2

\* The signals of a leg are within their periods and never both raised.
LEMMA SignalRange ==
    ASSUME NEW clock \in Int
    PROVE  /\ StanceSignal(clock) \in 0 .. 2 * StancePeriod - 1
           /\ SwingSignal(clock) \in 0 .. 2 * SwingPeriod - 1
           /\ StanceSignal(clock) > 0 => SwingSignal(clock) = 0
BY GaitAssumption DEF StanceSignal, SwingSignal, Stride

LEMMA LegClockType ==
    ASSUME NEW l \in Legs, NEW e \in 0 .. Stride - 1
    PROVE  LegClock(l, e) \in Int
BY GaitAssumption DEF LegClock, Stride

\* The signals one tick leaves behind.
Signals(l, e, locked) ==
    /\ stance_signal'[l] = IF locked /\ l \in FirstDiagonal THEN 0
                           ELSE StanceSignal(LegClock(l, e))
    /\ swing_signal'[l] = IF locked /\ l \in SecondDiagonal THEN 0
                          ELSE SwingSignal(LegClock(l, e))

LEMMA TickSignals ==
    ASSUME TypeOK, NEW cmd \in Commands, NEW pose \in BodyPoses, NEW t \in Times,
           VelocityCommand(cmd, pose, t)
    PROVE  \/ \A l \in Legs : stance_signal'[l] = 0 /\ swing_signal'[l] = 0
           \/ \E e \in 0 .. Stride - 1, locked \in BOOLEAN :
                \A l \in Legs : Signals(l, e, locked)
<1>1. CASE cmd.moves
    <2> DEFINE e == Elapsed(t, Touchdown(t))
    <2>1. e \in 0 .. Stride - 1
        BY ElapsedBelowStride
    <2>2. SwingLock(e) \in BOOLEAN
        BY DEF SwingLock
    <2>3. \A l \in Legs : Signals(l, e, SwingLock(e))
        BY <1>1 DEF VelocityCommand, RunPhase, Advance, Signals
    <2> QED BY <2>1, <2>2, <2>3
<1>2. CASE ~cmd.moves
    BY <1>2 DEF VelocityCommand, RunPhase, Halt, AllZero
<1> QED BY <1>1, <1>2

LEMMA SignalsType ==
    ASSUME TypeOK, NEW cmd \in Commands, NEW pose \in BodyPoses, NEW t \in Times,
           VelocityCommand(cmd, pose, t), NEW l \in Legs
    PROVE  /\ stance_signal'[l] \in 0 .. 2 * StancePeriod - 1
           /\ swing_signal'[l] \in 0 .. 2 * SwingPeriod - 1
           /\ stance_signal'[l] > 0 => swing_signal'[l] = 0
<1>1. CASE stance_signal'[l] = 0 /\ swing_signal'[l] = 0
    BY <1>1, GaitAssumption
<1>2. CASE \E e \in 0 .. Stride - 1, locked \in BOOLEAN : Signals(l, e, locked)
    <2> PICK e \in 0 .. Stride - 1, locked \in BOOLEAN : Signals(l, e, locked)
        BY <1>2
    <2>1. LegClock(l, e) \in Int
        BY LegClockType
    <2> DEFINE c == LegClock(l, e)
    <2>2. /\ StanceSignal(c) \in 0 .. 2 * StancePeriod - 1
          /\ SwingSignal(c) \in 0 .. 2 * SwingPeriod - 1
          /\ StanceSignal(c) > 0 => SwingSignal(c) = 0
        BY <2>1, SignalRange
    <2> QED BY <2>2, GaitAssumption DEF Signals
<1> QED BY <1>1, <1>2, TickSignals

\* What the planner concludes from the signals of a leg.
LEMMA PlannerReads ==
    ASSUME TypeOK, NEW cmd \in Commands, NEW pose \in BodyPoses, NEW t \in Times,
           VelocityCommand(cmd, pose, t), NEW l \in Legs
    PROVE  /\ InStance(l) <=> stance_signal'[l] > 0
           /\ InSwing(l) <=> swing_signal'[l] > 0
           /\ NoSignal(l) <=> ~InStance(l) /\ ~InSwing(l)
           /\ ~(InStance(l) /\ InSwing(l))
<1> DEFINE st == stance_signal'[l]  sw == swing_signal'[l]
           a == st * SwingPeriod     b == sw * StancePeriod
<1>1. st \in Nat /\ sw \in Nat /\ (st > 0 => sw = 0)
    BY SignalsType, GaitAssumption
<1>2. StancePeriod \in Nat /\ StancePeriod > 0 /\ SwingPeriod \in Nat /\ SwingPeriod > 0
    BY GaitAssumption
<1>3. (st > 0 => a > 0) /\ (st = 0 => a = 0) /\ a \in Nat
    BY <1>1, <1>2, ProductPositive
<1>4. (sw > 0 => b > 0) /\ (sw = 0 => b = 0) /\ b \in Nat
    BY <1>1, <1>2, ProductPositive
<1>5. /\ InStance(l) <=> a > b
      /\ InSwing(l) <=> a < b
      /\ NoSignal(l) <=> st = 0 /\ sw = 0
    BY DEF InStance, InSwing, NoSignal
<1> HIDE DEF a, b, st, sw
<1>6. /\ InStance(l) <=> st > 0
      /\ InSwing(l) <=> sw > 0
      /\ NoSignal(l) <=> ~InStance(l) /\ ~InSwing(l)
      /\ ~(InStance(l) /\ InSwing(l))
    BY <1>1, <1>3, <1>4, <1>5
<1> QED BY <1>6 DEF st, sw

-----------------------------------------------------------------------------
(* Type correctness *)

LEMMA FootPositionType ==
    ASSUME TypeOK, NEW cmd \in Commands, NEW pose \in BodyPoses, NEW l \in Legs
    PROVE  FootPosition(cmd.step[l], l, pose) \in FootPositions
<1>1. \A k \in {"nominal", "ground", "air", "nan"} : Foot(k, pose) \in FootPositions
    BY DEF Foot, FootPositions
<1>2. foot[l] \in FootPositions
    BY DEF TypeOK
<1>3. cmd.step[l] \in Steps
    BY GaitAssumption
<1>4. CASE cmd.step[l] = "zero"
    BY <1>4, <1>1 DEF FootPosition
<1>5. CASE cmd.step[l] = "nan"
    BY <1>5, <1>1 DEF FootPosition
<1>6. CASE cmd.step[l] = "some"
    BY <1>6, <1>1, <1>2 DEF FootPosition
<1> QED BY <1>3, <1>4, <1>5, <1>6 DEF Steps

LEMMA TickType ==
    ASSUME TypeOK, NEW cmd \in Commands, NEW pose \in BodyPoses, NEW t \in Times,
           VelocityCommand(cmd, pose, t)
    PROVE  TypeOK'
<1>1. now' \in Times /\ run_once' \in BOOLEAN
    BY DEF VelocityCommand
<1>2. /\ last_touchdown' \in Times
      /\ has_started' \in BOOLEAN
      /\ has_swung' \in BOOLEAN
    <2>1. CASE cmd.moves
        <3>1. Advance(t)
            BY <2>1 DEF VelocityCommand, RunPhase
        <3>2. last_touchdown' \in Times
            BY <3>1, ElapsedBelowStride DEF Advance
        <3>3. has_started' \in BOOLEAN /\ has_swung' \in BOOLEAN
            BY <3>1 DEF Advance, SwingLock
        <3> QED BY <3>2, <3>3
    <2>2. CASE ~cmd.moves
        <3>1. Halt
            BY <2>2 DEF VelocityCommand, RunPhase
        <3>2. last_touchdown' \in Times
            BY <3>1, GaitAssumption DEF Halt, Times
        <3>3. has_started' \in BOOLEAN /\ has_swung' \in BOOLEAN
            BY <3>1 DEF Halt, TypeOK
        <3> QED BY <3>2, <3>3
    <2> QED BY <2>1, <2>2
<1>3. /\ stance_signal' = [l \in Legs |-> stance_signal'[l]]
      /\ swing_signal' = [l \in Legs |-> swing_signal'[l]]
    <2>1. CASE cmd.moves
        BY <2>1 DEF VelocityCommand, RunPhase, Advance
    <2>2. CASE ~cmd.moves
        BY <2>2 DEF VelocityCommand, RunPhase, Halt, AllZero
    <2> QED BY <2>1, <2>2
<1>4. /\ stance_signal' \in [Legs -> 0 .. 2 * StancePeriod - 1]
      /\ swing_signal' \in [Legs -> 0 .. 2 * SwingPeriod - 1]
    BY <1>3, SignalsType
<1>5. gait_phase' \in [Legs -> BOOLEAN]
    <2>1. \A l \in Legs : GaitPhase(cmd.step[l], l) \in BOOLEAN
        BY DEF GaitPhase, TypeOK
    <2> QED BY <2>1 DEF VelocityCommand
<1>6. foot' \in [Legs -> FootPositions]
    BY FootPositionType DEF VelocityCommand
<1> QED BY <1>1, <1>2, <1>4, <1>5, <1>6 DEF TypeOK

LEMMA LaterType ==
    ASSUME TypeOK, NEW step \in TimeSteps
    PROVE  Later(step) \in Times
BY GaitAssumption DEF Later, TypeOK, Times

\* The variables keep their types: the unsigned clock and touchdown stay in
\* range across set-backs and wraps, and each signal stays in its period.
THEOREM TypeCorrect == Spec => []TypeOK
<1>1. Init => TypeOK
    <2> SUFFICES ASSUME Init PROVE TypeOK
        OBVIOUS
    <2>1. PICK pose \in BodyPoses : foot = [l \in Legs |-> Foot("nominal", pose)]
        BY DEF Init
    <2>2. foot \in [Legs -> FootPositions]
        BY <2>1 DEF Foot, FootPositions
    <2>3. AllZero \in [Legs -> 0 .. 2 * StancePeriod - 1]
        BY GaitAssumption DEF AllZero
    <2>4. AllZero \in [Legs -> 0 .. 2 * SwingPeriod - 1]
        BY GaitAssumption DEF AllZero
    <2> QED BY <2>2, <2>3, <2>4 DEF Init, TypeOK
<1>2. TypeOK /\ [Next]_vars => TypeOK'
    <2> SUFFICES ASSUME TypeOK, [Next]_vars PROVE TypeOK'
        OBVIOUS
    <2>1. CASE Next
        <3> PICK cmd \in Commands, pose \in BodyPoses, step \in TimeSteps :
                VelocityCommand(cmd, pose, Later(step))
            BY <2>1 DEF Next
        <3> QED BY TickType, LaterType
    <2>2. CASE UNCHANGED vars
        BY <2>2 DEF vars, phaseVars, legVars, TypeOK
    <2> QED BY <2>1, <2>2
<1> QED BY <1>1, <1>2, PTL DEF Spec

-----------------------------------------------------------------------------
(* Contact and foot position agree *)

\* Before the first tick there is nothing to be left over.
PhaseInv ==
    /\ PhaseMatchesFoot
    /\ ~run_once => \A l \in Legs : gait_phase[l]

LEMMA TickPhase ==
    ASSUME TypeOK, PhaseInv, NEW cmd \in Commands, NEW pose \in BodyPoses,
           NEW t \in Times, VelocityCommand(cmd, pose, t)
    PROVE  PhaseInv'
<1>1. run_once' = TRUE
    BY DEF VelocityCommand
<1>2. ASSUME NEW l \in Legs
      PROVE  /\ foot'[l].kind = "air" => ~gait_phase'[l]
             /\ foot'[l].kind \in {"ground", "nominal"} => gait_phase'[l]
    <2>1. /\ foot'[l] = FootPosition(cmd.step[l], l, pose)
          /\ gait_phase'[l] = GaitPhase(cmd.step[l], l)
        BY DEF VelocityCommand
    <2>2. \A k \in {"nominal", "ground", "air", "nan"} : Foot(k, pose).kind = k
        BY DEF Foot
    <2>3. cmd.step[l] \in Steps
        BY GaitAssumption
    <2>4. CASE cmd.step[l] = "zero"
        BY <2>1, <2>2, <2>4 DEF FootPosition, GaitPhase
    <2>5. CASE cmd.step[l] = "nan"
        BY <2>1, <2>2, <2>5 DEF FootPosition
    <2>6. CASE cmd.step[l] = "some"
        <3>1. CASE InStance(l)
            <4>1. foot'[l] = Foot("ground", pose) /\ gait_phase'[l] = TRUE
                BY <2>1, <2>6, <3>1, PlannerReads DEF FootPosition, GaitPhase
            <4>2. Foot("ground", pose).kind # "air"
                BY <2>2
            <4> QED BY <4>1, <4>2
        <3>2. CASE InSwing(l) /\ ~InStance(l)
            <4>1. foot'[l] = Foot("air", pose) /\ gait_phase'[l] = FALSE
                BY <2>1, <2>6, <3>2, PlannerReads DEF FootPosition, GaitPhase
            <4>2. Foot("air", pose).kind \notin {"ground", "nominal"}
                BY <2>2
            <4> QED BY <4>1, <4>2
        <3>3. CASE NoSignal(l) /\ ~InStance(l) /\ ~InSwing(l)
            <4>1. /\ foot'[l] = IF run_once THEN foot[l] ELSE Foot("nominal", pose)
                  /\ gait_phase'[l] = gait_phase[l]
                BY <2>1, <2>6, <3>3 DEF FootPosition, GaitPhase
            <4> QED BY <4>1, <2>2 DEF PhaseInv, PhaseMatchesFoot
        <3> QED BY <3>1, <3>2, <3>3, PlannerReads
    <2> QED BY <2>3, <2>4, <2>5, <2>6 DEF Steps
<1> QED BY <1>1, <1>2 DEF PhaseInv, PhaseMatchesFoot

\* The published contact of a leg is true of its planned position for every
\* gait timing, also on the ticks that keep both from an earlier tick.
THEOREM ContactsAreTrue == Spec => []PhaseMatchesFoot
<1>1. Init => PhaseInv
    <2> SUFFICES ASSUME Init PROVE PhaseInv
        OBVIOUS
    <2> QED BY DEF Init, PhaseInv, PhaseMatchesFoot, Foot
<1>2. TypeOK /\ PhaseInv /\ [Next]_vars => PhaseInv'
    <2> SUFFICES ASSUME TypeOK, PhaseInv, [Next]_vars PROVE PhaseInv'
        OBVIOUS
    <2>1. CASE Next
        <3> PICK cmd \in Commands, pose \in BodyPoses, step \in TimeSteps :
                VelocityCommand(cmd, pose, Later(step))
            BY <2>1 DEF Next
        <3> QED BY TickPhase, LaterType
    <2>2. CASE UNCHANGED vars
        BY <2>2 DEF vars, legVars, PhaseInv, PhaseMatchesFoot
    <2> QED BY <2>1, <2>2
<1>3. PhaseInv => PhaseMatchesFoot
    BY DEF PhaseInv
<1> QED BY <1>1, <1>2, <1>3, TypeCorrect, PTL DEF Spec

-----------------------------------------------------------------------------
(* A diagonal is always planted *)

\* While a leg of one diagonal swings, both legs of the other are in stance:
\* the second clock runs half a stride behind the first, and a stance is long
\* enough to cover a swing.
LEMMA SwingNeedsStance ==
    ASSUME StancePeriod >= SwingPeriod,
           NEW e \in 0 .. Stride - 1, NEW locked \in BOOLEAN,
           \A l \in Legs : Signals(l, e, locked),
           NEW a \in FirstDiagonal, NEW b \in SecondDiagonal
    PROVE  /\ swing_signal'[a] > 0 => stance_signal'[b] > 0
           /\ swing_signal'[b] > 0 => stance_signal'[a] > 0
<1>1. a \in Legs /\ b \in Legs /\ a \notin SecondDiagonal /\ b \notin FirstDiagonal
    BY DEF FirstDiagonal, SecondDiagonal, Legs
<1>2. LegClock(a, e) = 2 * e /\ LegClock(b, e) = 2 * e - Stride
    BY <1>1 DEF LegClock
<1>3. ASSUME swing_signal'[a] > 0 PROVE stance_signal'[b] > 0
    <2>1. SwingSignal(2 * e) > 0
        BY <1>1, <1>2, <1>3 DEF Signals
    <2>2. e > StancePeriod
        BY <2>1, GaitAssumption DEF SwingSignal, Stride
    <2>3. StanceSignal(2 * e - Stride) > 0
        BY <2>2, GaitAssumption DEF StanceSignal, Stride
    <2> QED BY <1>1, <1>2, <2>3 DEF Signals
<1>4. ASSUME swing_signal'[b] > 0 PROVE stance_signal'[a] > 0
    <2>1. ~locked /\ SwingSignal(2 * e - Stride) > 0
        BY <1>1, <1>2, <1>4 DEF Signals
    <2>2. 0 < 2 * e /\ 2 * e < Stride
        BY <2>1, GaitAssumption DEF SwingSignal, Stride
    <2>3. StanceSignal(2 * e) > 0
        BY <2>2, GaitAssumption DEF StanceSignal, Stride
    <2> QED BY <1>1, <1>2, <2>1, <2>3 DEF Signals
<1> QED BY <1>3, <1>4

LEMMA TickSupport ==
    ASSUME StancePeriod >= SwingPeriod, TypeOK, DiagonalSupport,
           NEW cmd \in Commands, NEW pose \in BodyPoses, NEW t \in Times,
           VelocityCommand(cmd, pose, t)
    PROVE  DiagonalSupport'
<1> SUFFICES ASSUME NEW a \in FirstDiagonal, NEW b \in SecondDiagonal
             PROVE  gait_phase'[a] \/ gait_phase'[b]
    BY DEF DiagonalSupport
<1>1. a \in Legs /\ b \in Legs
    BY DEF FirstDiagonal, SecondDiagonal, Legs
<1>2. gait_phase[a] \/ gait_phase[b]
    BY DEF DiagonalSupport
<1>3. /\ InSwing(a) => InStance(b)
      /\ InSwing(b) => InStance(a)
    <2>1. /\ swing_signal'[a] > 0 => stance_signal'[b] > 0
          /\ swing_signal'[b] > 0 => stance_signal'[a] > 0
        <3>1. CASE \A l \in Legs : stance_signal'[l] = 0 /\ swing_signal'[l] = 0
            BY <3>1, <1>1
        <3>2. CASE \E e \in 0 .. Stride - 1, locked \in BOOLEAN :
                     \A l \in Legs : Signals(l, e, locked)
            BY <3>2, SwingNeedsStance
        <3> QED BY <3>1, <3>2, TickSignals
    <2> QED BY <1>1, <2>1, PlannerReads
<1>4. \A l \in Legs : gait_phase'[l] = GaitPhase(cmd.step[l], l)
    BY DEF VelocityCommand
<1>5. ASSUME NEW l \in Legs
      PROVE  /\ InStance(l) => gait_phase'[l]
             /\ ~InSwing(l) /\ gait_phase[l] => gait_phase'[l]
    BY <1>4, PlannerReads DEF GaitPhase
<1> QED BY <1>1, <1>2, <1>3, <1>5

\* For every timing of the gait in which a stance is no shorter than a swing,
\* and for every sequence of commands and clock readings, late, repeated and
\* set back, a leg of one diagonal lifts only while the other is planted.
THEOREM AlwaysADiagonal ==
    ASSUME StancePeriod >= SwingPeriod
    PROVE  Spec => []DiagonalSupport
<1>1. Init => DiagonalSupport
    BY DEF Init, DiagonalSupport, FirstDiagonal, SecondDiagonal, Legs
<1>2. TypeOK /\ DiagonalSupport /\ [Next]_vars => DiagonalSupport'
    <2> SUFFICES ASSUME TypeOK, DiagonalSupport, [Next]_vars PROVE DiagonalSupport'
        OBVIOUS
    <2>1. CASE Next
        <3> PICK cmd \in Commands, pose \in BodyPoses, step \in TimeSteps :
                VelocityCommand(cmd, pose, Later(step))
            BY <2>1 DEF Next
        <3> QED BY TickSupport, LaterType
    <2>2. CASE UNCHANGED vars
        BY <2>2 DEF vars, legVars, DiagonalSupport
    <2> QED BY <2>1, <2>2
<1> QED BY <1>1, <1>2, TypeCorrect, PTL DEF Spec

-----------------------------------------------------------------------------
(* The node *)

RequestsOfType == req_vel \in Commands /\ req_pose \in BodyPoses

LEMMA RequestsStayTyped == CSpec => []RequestsOfType
<1>1. CInit => RequestsOfType
    BY ControllerAssumption DEF CInit, RequestsOfType
<1>2. RequestsOfType /\ [CNext]_controllerVars => RequestsOfType'
    BY DEF CNext, CmdVelCallback, CmdPoseCallback, ControlLoop, RequestsOfType,
           controllerVars, requestVars
<1> QED BY <1>1, <1>2, PTL DEF CSpec

\* The node is a gait generator: its loop is a tick of LegController with the
\* requests that came last, and its callbacks leave the gait alone.
THEOREM ControllerRunsTheGait == CSpec => Spec
<1>1. CInit => Init
    BY DEF CInit
<1>2. RequestsOfType /\ [CNext]_controllerVars => [Next]_vars
    <2> SUFFICES ASSUME RequestsOfType, [CNext]_controllerVars PROVE [Next]_vars
        OBVIOUS
    <2>1. CASE \E cmd \in Commands : CmdVelCallback(cmd)
        BY <2>1 DEF CmdVelCallback
    <2>2. CASE \E pose \in BodyPoses : CmdPoseCallback(pose)
        BY <2>2 DEF CmdPoseCallback
    <2>3. CASE ControlLoop
        BY <2>3 DEF ControlLoop, RequestsOfType, Next
    <2>4. CASE UNCHANGED controllerVars
        BY <2>4 DEF controllerVars
    <2> QED BY <2>1, <2>2, <2>3, <2>4 DEF CNext
<1> QED BY <1>1, <1>2, RequestsStayTyped, PTL DEF CSpec, Spec

\* The node never lifts legs of both diagonals, whenever the requests come.
COROLLARY NodeKeepsADiagonal ==
    ASSUME StancePeriod >= SwingPeriod
    PROVE  CSpec => []DiagonalSupport
BY ControllerRunsTheGait, AlwaysADiagonal, PTL

-----------------------------------------------------------------------------
\* What is stored is what was published, and it is used as the next seed.
StoredPlan ==
    /\ last_joints = joints
    /\ joints \in Plans => has_last_joints

LEMMA ZeroJointsIsNoPlan == ZeroJoints \notin Plans
<1>1. ReachableFeet \subseteq FootPositions
    BY ControllerAssumption DEF FootPositions
<1> QED BY <1>1, ControllerAssumption DEF Plans

LEMMA PlannedFeet ==
    ASSUME TypeOK', ControlLoop
    PROVE  joints' \in Plans \/ joints' = Seed
<1>1. foot' \in [Legs -> FootPositions]
    BY DEF TypeOK
<1>2. joints' = Inverse(Seed, foot')
    BY DEF ControlLoop
<1>3. CASE \A l \in Legs : foot'[l] \in ReachableFeet
    BY <1>1, <1>2, <1>3 DEF Inverse, Reaches, Plans
<1>4. CASE ~ \A l \in Legs : foot'[l] \in ReachableFeet
    BY <1>2, <1>4 DEF Inverse, Reaches
<1> QED BY <1>3, <1>4

LEMMA StoredPlanInvariant == CSpec => []StoredPlan
<1>1. CInit => StoredPlan
    BY ZeroJointsIsNoPlan DEF CInit, StoredPlan
<1>2. StoredPlan /\ [CNext]_controllerVars => StoredPlan'
    BY DEF CNext, CmdVelCallback, CmdPoseCallback, ControlLoop, StoredPlan,
           controllerVars, outputVars
<1> QED BY <1>1, <1>2, PTL DEF CSpec

\* Once a plan is out, no NaN velocity, unreachable pose or leftover foot
\* makes the node publish anything but a plan, for every set of reachable feet.
THEOREM AlwaysAPlan == CSpec => KeepsAPlan
<1>1. TypeOK' /\ StoredPlan /\ [CNext]_controllerVars
          => (joints \in Plans => joints' \in Plans)
    <2> SUFFICES ASSUME TypeOK', StoredPlan, [CNext]_controllerVars, joints \in Plans
                 PROVE  joints' \in Plans
        OBVIOUS
    <2>1. CASE ControlLoop
        <3>1. Seed = joints
            BY DEF Seed, StoredPlan
        <3> QED BY <2>1, <3>1, PlannedFeet
    <2>2. CASE ~ControlLoop
        BY <2>2 DEF CNext, CmdVelCallback, CmdPoseCallback, controllerVars, outputVars
    <2> QED BY <2>1, <2>2
<1>2. CSpec => []TypeOK
    BY ControllerRunsTheGait, TypeCorrect, PTL
<1> QED BY <1>1, <1>2, StoredPlanInvariant, PTL DEF CSpec, KeepsAPlan

\* What the node publishes and stores keeps its type: a plan, or the zeros of
\* the array it starts from.
THEOREM NodeTypeCorrect == CSpec => []CTypeOK
<1> DEFINE OutputsOfType ==
        /\ has_last_joints \in BOOLEAN
        /\ last_joints \in Plans \cup {ZeroJoints}
        /\ joints \in Plans \cup {ZeroJoints}
        /\ contacts \in [Legs -> BOOLEAN]
<1>1. CInit => OutputsOfType
    BY DEF CInit
<1>2. TypeOK' /\ OutputsOfType /\ [CNext]_controllerVars => OutputsOfType'
    <2> SUFFICES ASSUME TypeOK', OutputsOfType, [CNext]_controllerVars PROVE OutputsOfType'
        OBVIOUS
    <2>1. CASE ControlLoop
        <3>1. Seed \in Plans \cup {ZeroJoints}
            BY DEF Seed
        <3>2. joints' \in Plans \cup {ZeroJoints}
            BY <2>1, <3>1, PlannedFeet
        <3>3. contacts' \in [Legs -> BOOLEAN]
            BY <2>1 DEF ControlLoop, PublishedContacts, TypeOK
        <3>4. last_joints' = joints' /\ has_last_joints' = TRUE
            BY <2>1 DEF ControlLoop
        <3> QED BY <3>2, <3>3, <3>4
    <2>2. CASE ~ControlLoop
        <3>1. UNCHANGED outputVars
            BY <2>2 DEF CNext, CmdVelCallback, CmdPoseCallback, controllerVars
        <3> QED BY <3>1 DEF outputVars
    <2> QED BY <2>1, <2>2
<1>3. TypeOK /\ RequestsOfType /\ OutputsOfType => CTypeOK
    BY DEF RequestsOfType, CTypeOK
<1> QED BY <1>1, <1>2, <1>3, ControllerRunsTheGait, TypeCorrect, RequestsStayTyped, PTL DEF CSpec

\* The contacts published are true of the joints published with them, for
\* every gait timing and whatever was rejected before.
THEOREM PublishedContactsAreTrue == CSpec => []ContactsTrueOfPlan
<1> DEFINE Ticked == joints = foot => contacts = gait_phase
<1>1. CInit => Ticked
    BY DEF CInit, Init
<1>2. Ticked /\ [CNext]_controllerVars => Ticked'
    <2> SUFFICES ASSUME Ticked, [CNext]_controllerVars PROVE Ticked'
        OBVIOUS
    <2>1. CASE ControlLoop
        BY <2>1 DEF ControlLoop, PublishedContacts
    <2>2. CASE ~ControlLoop
        BY <2>2 DEF CNext, CmdVelCallback, CmdPoseCallback, controllerVars, outputVars, vars, legVars
    <2> QED BY <2>1, <2>2
<1>3. PhaseMatchesFoot /\ Ticked => ContactsTrueOfPlan
    BY DEF PhaseMatchesFoot, ContactsTrueOfPlan
<1> QED BY <1>1, <1>2, <1>3, ControllerRunsTheGait, ContactsAreTrue, PTL DEF CSpec
=============================================================================
