---------------------------- MODULE LegController ----------------------------
(***************************************************************************)
(* The trot generator of champ/leg_controller: PhaseGenerator turns the    *)
(* clock into a stance and a swing signal per leg, TrajectoryPlanner turns *)
(* the signals into a foot position and a gait phase.                      *)
(*                                                                         *)
(* A velocity command is reduced to what the generator tells apart: does   *)
(* the robot move at all (velocity # 0), and how long is each leg's step.  *)
(* A foot position is reduced to the branch that computed it and the body  *)
(* pose it was computed for.  Leg clocks are doubled, so that half a       *)
(* stride is a whole number, and a signal is kept as a numerator: stance   *)
(* signals over 2 * StancePeriod, swing signals over 2 * SwingPeriod.      *)
(***************************************************************************)
EXTENDS Integers

CONSTANTS
    StancePeriod,  \* gait_config.stance_duration
    SwingPeriod,   \* 0.25 s in the code
    TimeModulus,   \* the range of PhaseGenerator::Time, 2^64 microseconds
    TimeSteps,     \* what the clock may advance by between two ticks
    RegularSteps,  \* those of a timer on time, under a clock nobody sets
    BodyPoses,     \* the poses the body can be asked to take
    Commands       \* [moves, step]: the velocity commands

Legs == {"LF", "RF", "LH", "RH"}
FirstDiagonal == {"LF", "RH"}
SecondDiagonal == {"RF", "LH"}

Stride == StancePeriod + SwingPeriod
Times == 0 .. TimeModulus - 1

\* A NaN in cmd_vel passes capVelocities and makes every step NaN.
Steps == {"zero", "some", "nan"}

ASSUME GaitAssumption ==
    /\ StancePeriod \in Nat \ {0}
    /\ SwingPeriod \in Nat \ {0}
    /\ TimeModulus \in Nat /\ TimeModulus > Stride
    /\ TimeSteps \subseteq Times
    /\ RegularSteps \subseteq TimeSteps
    /\ Commands \subseteq [moves : BOOLEAN, step : [Legs -> Steps]]

VARIABLES
    now,             \* the clock at the last tick
    last_touchdown,  \* last_touchdown_
    has_started,
    has_swung,       \* has_swung_
    stance_signal,   \* stance_phase_signal
    swing_signal,    \* swing_phase_signal
    gait_phase,      \* QuadrupedLeg::gait_phase_: is the leg in stance?
    foot,            \* the foot's position, which is also prev_foot_position_
    run_once         \* run_once_ of the four planners

phaseVars == <<last_touchdown, has_started, has_swung, stance_signal, swing_signal>>
legVars == <<gait_phase, foot, run_once>>
vars == <<now, phaseVars, legVars>>

-----------------------------------------------------------------------------
(* PhaseGenerator *)

\* Unsigned subtraction: a clock set back gives a huge elapsed time.
Elapsed(t, since) == IF t >= since THEN t - since ELSE t - since + TimeModulus

LegClockQuarter(l, elapsed) ==
    IF l \in FirstDiagonal THEN 2 * elapsed ELSE 2 * elapsed - Stride \div 2

LegClock(l, elapsed) ==
    IF l \in FirstDiagonal THEN 2 * elapsed ELSE 2 * elapsed - Stride

StanceSignal(clock) ==
    IF 0 < clock /\ clock < 2 * StancePeriod THEN clock ELSE 0

SwingSignalForward(clock) ==
    IF 2 * StancePeriod < clock /\ clock < 2 * Stride THEN clock - 2 * StancePeriod ELSE 0

SwingSignal(clock) ==
    IF -2 * SwingPeriod < clock /\ clock < 0 THEN clock + 2 * SwingPeriod
    ELSE IF 2 * StancePeriod < clock /\ clock < 2 * Stride THEN clock - 2 * StancePeriod
    ELSE 0

AllZero == [l \in Legs |-> 0]

Halt ==
    /\ last_touchdown' = 0
    /\ has_swung' = FALSE
    /\ stance_signal' = AllZero
    /\ swing_signal' = AllZero
    /\ UNCHANGED has_started

\* The touchdown the stride is counted from: this tick, when it is the first
\* or a stride has passed.
Touchdown(t) ==
    IF ~has_started \/ Elapsed(t, last_touchdown) >= Stride THEN t ELSE last_touchdown

\* Until LF has stood for half its stance, no leg strides or swings with it:
\* the first diagonal may not push and the second may not lift.
SwingLock(elapsed) ==
    ~has_swung /\ StanceSignal(LegClock("LF", elapsed)) < StancePeriod

Advance(t) ==
    LET elapsed == Elapsed(t, Touchdown(t))
        locked == SwingLock(elapsed)
    IN  /\ last_touchdown' = Touchdown(t)
        /\ has_started' = TRUE
        /\ has_swung' = ~locked
        /\ stance_signal' = [l \in Legs |->
               IF locked /\ l \in FirstDiagonal THEN 0
               ELSE StanceSignal(LegClock(l, elapsed))]
        /\ swing_signal' = [l \in Legs |->
               IF locked /\ l \in SecondDiagonal THEN 0
               ELSE SwingSignal(LegClock(l, elapsed))]

\* PhaseGenerator::run
RunPhase(moves, t) == IF moves THEN Advance(t) ELSE Halt

-----------------------------------------------------------------------------
(* TrajectoryPlanner, as a function of the signals RunPhase has just set. *)

InStance(l) == stance_signal'[l] * SwingPeriod > swing_signal'[l] * StancePeriod
InSwing(l) == stance_signal'[l] * SwingPeriod < swing_signal'[l] * StancePeriod
NoSignal(l) == stance_signal'[l] = 0 /\ swing_signal'[l] = 0

Foot(kind, pose) == [kind |-> kind, pose |-> pose]

GaitPhaseForgotten(step, l) == step = "zero" \/ ~InSwing(l)

\* Between two phases a leg keeps the phase it had.
GaitPhase(step, l) ==
    IF step = "zero" \/ InStance(l) THEN TRUE
    ELSE IF InSwing(l) THEN FALSE
    ELSE gait_phase[l]

FootPositionStale(step, l, pose) ==
    IF step = "zero" THEN foot[l]
    ELSE IF step = "nan" THEN Foot("nan", pose)
    ELSE IF InStance(l) THEN Foot("ground", pose)
    ELSE IF InSwing(l) THEN Foot("air", pose)
    ELSE foot[l]

\* ... and the position it had; before the first tick that is this tick's.
FootPosition(step, l, pose) ==
    CASE step = "zero" -> Foot("nominal", pose)
      [] step = "nan" -> Foot("nan", pose)
      [] step = "some" /\ InStance(l) -> Foot("ground", pose)
      [] step = "some" /\ InSwing(l) -> Foot("air", pose)
      [] step = "some" /\ NoSignal(l) ->
             IF run_once THEN foot[l] ELSE Foot("nominal", pose)
      [] OTHER -> Foot("nominal", pose)

\* LegController::velocityCommand
VelocityCommand(cmd, pose, t) ==
    /\ RunPhase(cmd.moves, t)
    /\ gait_phase' = [l \in Legs |-> GaitPhase(cmd.step[l], l)]
    /\ foot' = [l \in Legs |-> FootPosition(cmd.step[l], l, pose)]
    /\ run_once' = TRUE
    /\ now' = t

-----------------------------------------------------------------------------
\* The node's clock may start anywhere: wall time, or a simulator's zero.
Init ==
    /\ now \in Times
    /\ last_touchdown = now
    /\ has_started = FALSE
    /\ has_swung = FALSE
    /\ stance_signal = AllZero
    /\ swing_signal = AllZero
    /\ gait_phase = [l \in Legs |-> TRUE]
    /\ \E pose \in BodyPoses : foot = [l \in Legs |-> Foot("nominal", pose)]
    /\ run_once = FALSE

Later(step) == (now + step) % TimeModulus

Next ==
    \E cmd \in Commands, pose \in BodyPoses, step \in TimeSteps :
        VelocityCommand(cmd, pose, Later(step))

Spec == Init /\ [][Next]_vars

-----------------------------------------------------------------------------
FootPositions == [kind : {"nominal", "ground", "air", "nan"}, pose : BodyPoses]

TypeOK ==
    /\ now \in Times
    /\ last_touchdown \in Times
    /\ has_started \in BOOLEAN
    /\ has_swung \in BOOLEAN
    /\ stance_signal \in [Legs -> 0 .. 2 * StancePeriod - 1]
    /\ swing_signal \in [Legs -> 0 .. 2 * SwingPeriod - 1]
    /\ gait_phase \in [Legs -> BOOLEAN]
    /\ foot \in [Legs -> FootPositions]
    /\ run_once \in BOOLEAN

\* The robot always stands on a whole diagonal: a leg of one diagonal lifts
\* only while both legs of the other are planted, whatever the commands, for
\* any jitter of the timer, and when the clock is set back or forward.  It
\* needs a stance no shorter than the swing (both are 0.25 s as shipped).
DiagonalSupport ==
    \A a \in FirstDiagonal, b \in SecondDiagonal : gait_phase[a] \/ gait_phase[b]

\* The contact published for a leg is true of the position planned for it,
\* also on the ticks between two phases, where both are left over.
PhaseMatchesFoot ==
    \A l \in Legs :
        /\ foot[l].kind = "air" => ~gait_phase[l]
        /\ foot[l].kind \in {"ground", "nominal"} => gait_phase[l]

Walks(cmd) == cmd.moves /\ \A l \in Legs : cmd.step[l] = "some"

WalkTick ==
    \E cmd \in Commands, pose \in BodyPoses, step \in RegularSteps :
        Walks(cmd) /\ VelocityCommand(cmd, pose, Later(step))

\* While it is told to walk by a timer on time, no leg drags and no leg hangs:
\* each one lifts and each one lands again and again, whatever the clock did
\* before, and also when the walk begins right after a stop that left
\* last_touchdown_ at 0.
EveryLegSteps ==
    <>[][WalkTick]_vars
        => \A l \in Legs : []<>(gait_phase[l]) /\ []<>(~gait_phase[l])
=============================================================================
