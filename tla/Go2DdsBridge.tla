---------------------------- MODULE Go2DdsBridge ----------------------------
(***************************************************************************)
(* The node of src/go2_dds_bridge.cpp between CHAMP and the motors.        *)
(*                                                                         *)
(* Two threads run its handlers.  The DDS thread of unitree_sdk2 runs      *)
(* onLowState; the single-threaded ROS executor runs onJointCommand and    *)
(* onTimer, one at a time.  onTimer copies the shared state under the      *)
(* mutex, releases it, and only then publishes and writes: it is two       *)
(* actions here, OnTimerLocked and OnTimerWrite, and an OnLowState may     *)
(* fall between them.                                                      *)
(*                                                                         *)
(* Time is two ages, advanced by Tick and saturated where their exact      *)
(* value stops mattering.  A measured angle is a float of any value, NaN   *)
(* and the infinities included; a commanded one is a finite double, which  *)
(* need not fit a float.  Joint velocities and the IMU travel with the     *)
(* pose they were measured with and are left out, as are kp, tau and the   *)
(* CRC of the LowCmd.                                                      *)
(***************************************************************************)
EXTENDS Go2LowCmdMap, Sequences, FiniteSets

CONSTANTS
    LowStates,       \* what rt/lowstate may carry: [q, force]
    JointCommands,   \* what joint_commands may carry: [name, position]
    MaxFloat,        \* FLT_MAX: a double beyond it has no float
    CommandTimeout,  \* command_timeout_sec in ticks; 0 or less: no watchdog
    RampTicks,       \* ramp_sec in ticks; 0: no ramp
    Kd,              \* the parameter kd
    ContactForceThreshold

Forces == [Feet -> Int]

ASSUME BridgeAssumption ==
    /\ LowStates \subseteq [q : FloatPoses, force : Forces]
    /\ JointCommands \subseteq [name : Seq(STRING), position : Seq(Numbers)]
    /\ MaxFloat \in Nat
    /\ CommandTimeout \in Int
    /\ RampTicks \in Nat
    /\ Kd \in Nat
    /\ ContactForceThreshold \in Int

VARIABLES
    \* shared, under mutex_
    measured_q,      \* measured_q_
    foot_force,      \* foot_force_
    has_lowstate,    \* has_lowstate_
    command_q,       \* command_q_
    has_command,     \* has_command_
    start_q,         \* start_q_
    ramp_started,    \* ramp_started_
    command_age,     \* now - last_command_monotonic_
    ramp_age,        \* now - ramp_start_monotonic_
    \* local to onTimer, between the unlock and the Write
    snap,
    \* what the last finished onTimer published and wrote
    published,       \* joint_states and foot_contacts
    low_cmd,         \* low_cmd_ as last written to rt/lowcmd
    sent             \* history: what kind of target low_cmd is

lowstateVars == <<measured_q, foot_force, has_lowstate>>
commandVars == <<command_q, has_command>>
rampVars == <<start_q, ramp_started>>
outVars == <<published, low_cmd, sent>>
vars == <<lowstateVars, commandVars, rampVars, command_age, ramp_age, snap, outVars>>

-----------------------------------------------------------------------------
\* Ages saturate at the first value whose successors behave alike.
MaxCommandAge == IF CommandTimeout > 0 THEN CommandTimeout + 1 ELSE 0
RampSteps == IF RampTicks > 0 THEN RampTicks ELSE 1

OlderUnbounded(age, max) == age + 1
OlderStuck(age, max) == IF age + 1 < max THEN age + 1 ELSE age

Older(age, max) == IF age < max THEN age + 1 ELSE age

ZeroPose == [m \in Motors |-> 0]
ZeroForce == [f \in Feet |-> 0]

(* The loop of onJointCommand. *)
PairCount(msg) ==
    IF Len(msg.name) <= Len(msg.position) THEN Len(msg.name) ELSE Len(msg.position)

\* The pairs that name a motor; the others are skipped.
KnownPairs(msg) == {i \in 1 .. PairCount(msg) : go2MotorIndex(msg.name[i]) # NoMotor}

PairsOf(msg, m) == {i \in KnownPairs(msg) : go2MotorIndex(msg.name[i]) = m}

\* std::isfinite on the double of the message.
AllFinite(msg) == \A i \in KnownPairs(msg) : msg.position[i] \in Int

AllSeen(msg) == \A m \in Motors : PairsOf(msg, m) # {}

AcceptsPartial(msg) == AllFinite(msg)

Accepts(msg) == AllFinite(msg) /\ AllSeen(msg)

\* A joint named twice takes its last position, one not named keeps q{} = 0.
CommandOf(msg) ==
    [m \in Motors |->
        IF PairsOf(msg, m) = {} THEN 0
        ELSE msg.position[CHOOSE i \in PairsOf(msg, m) :
                              \A j \in PairsOf(msg, m) : j <= i]]

(* The arithmetic of onTimer. *)
StaleOnlyBeforeCommand == ~has_command

StaleTooSoon == ~has_command \/ (CommandTimeout > 0 /\ command_age >= CommandTimeout)

\* A watchdog needs a timeout; before the first command the state is stale.
CommandStale == ~has_command \/ (CommandTimeout > 0 /\ command_age > CommandTimeout)

\* Steps of the ramp done; min and max of the code are the saturation of age.
RampProgress(started, age) ==
    IF started /\ RampTicks > 0 THEN age ELSE RampSteps

\* static_cast<float> of a commanded double: beyond FLT_MAX it is what
\* IEEE 754 hardware makes of it, an infinity.
ToFloat(x) ==
    IF x > MaxFloat THEN PosInf
    ELSE IF x < -MaxFloat THEN NegInf
    ELSE x

FitsFloat(x) == x \in -MaxFloat .. MaxFloat

FloatPose(pose) == [m \in Motors |-> ToFloat(pose[m])]

\* (1 - blend) * q_start + blend * q_cmd, rounded down to whole units.  A
\* measured angle was a float before, and its cast changes nothing.
Blend(start, cmd, progress) ==
    [m \in Motors |->
        Over(Plus(Times(RampSteps - progress, start[m]),
                  Times(progress, ToFloat(cmd[m]))), RampSteps)]

DampedKd == IF Kd < 2 THEN 2 ELSE Kd

Contacts(force) ==
    [c \in Feet |->
        \E f \in Feet : /\ kChampIndexFromFootForce[f] = c
                        /\ force[f] > ContactForceThreshold]

Measurement(q, force) == [q |-> q, contacts |-> Contacts(force)]

TornMeasurement == Measurement(snap.measured, foot_force)

\* publishMeasurements is given the copies made under the mutex.
SnapMeasurement == Measurement(snap.measured, snap.force)

Target ==
    IF snap.have_command THEN Blend(snap.start_q, snap.command, snap.progress)
    ELSE snap.measured

NullSnap ==
    [have_state |-> FALSE, have_command |-> FALSE, measured |-> ZeroPose,
     force |-> ZeroForce, command |-> ZeroPose, start_q |-> ZeroPose,
     progress |-> 0, command_stale |-> TRUE]

-----------------------------------------------------------------------------
Init ==
    /\ measured_q = ZeroPose
    /\ foot_force = ZeroForce
    /\ has_lowstate = FALSE
    /\ command_q = ZeroPose
    /\ has_command = FALSE
    /\ start_q = ZeroPose
    /\ ramp_started = FALSE
    /\ command_age = 0
    /\ ramp_age = 0
    /\ snap = NullSnap
    /\ published = Measurement(ZeroPose, ZeroForce)
    /\ low_cmd = [q |-> ZeroPose, kd |-> 0]
    /\ sent = [phase |-> "silent", progress |-> 0, command |-> ZeroPose]

InTimer == snap.have_state

(* The DDS thread.  Only the locked block touches the node's state. *)
OnLowState(state) ==
    /\ measured_q' = state.q
    /\ foot_force' = state.force
    /\ has_lowstate' = TRUE
    /\ UNCHANGED <<commandVars, rampVars, command_age, ramp_age, snap, outVars>>

(* The executor.  A message that is not accepted returns early and changes *)
(* nothing, the watchdog's clock included: a stuttering step.              *)
OnJointCommand(msg) ==
    /\ ~InTimer
    /\ Accepts(msg)
    /\ command_q' = CommandOf(msg)
    /\ has_command' = TRUE
    /\ command_age' = 0
    /\ UNCHANGED <<lowstateVars, rampVars, ramp_age, snap, outVars>>

StartsRampUnmeasured == has_command /\ ~ramp_started
StartsRampAgain == has_lowstate /\ has_command

StartsRamp == has_lowstate /\ has_command /\ ~ramp_started

(* onTimer up to the end of the locked block, and the early return that    *)
(* leaves the robot alone until a LowState has arrived.                    *)
OnTimerLocked ==
    /\ ~InTimer
    /\ ramp_started' = (ramp_started \/ StartsRamp)
    /\ ramp_age' = IF StartsRamp THEN 0 ELSE ramp_age
    /\ start_q' = IF StartsRamp THEN measured_q ELSE start_q
    /\ snap' = IF has_lowstate
               THEN [have_state |-> TRUE,
                     have_command |-> has_command,
                     measured |-> measured_q,
                     force |-> foot_force,
                     command |-> command_q,
                     start_q |-> start_q',
                     progress |-> RampProgress(ramp_started', ramp_age'),
                     command_stale |-> CommandStale]
               ELSE NullSnap
    /\ UNCHANGED <<lowstateVars, commandVars, command_age, outVars>>

(* The rest of onTimer: publishMeasurements, the twelve targets, Write. *)
OnTimerWrite ==
    /\ InTimer
    /\ published' = SnapMeasurement
    /\ low_cmd' = [q |-> ClampPose(Target),
                   kd |-> IF snap.command_stale THEN DampedKd ELSE Kd]
    /\ sent' = IF snap.have_command
               THEN [phase |-> "drive", progress |-> snap.progress,
                     command |-> snap.command]
               ELSE [sent EXCEPT !.phase = "hold"]
    /\ snap' = NullSnap
    /\ UNCHANGED <<lowstateVars, commandVars, rampVars, command_age, ramp_age>>

(* Time passes, whatever the threads are doing. *)
Tick ==
    /\ command_age' = IF has_command THEN Older(command_age, MaxCommandAge)
                      ELSE command_age
    /\ ramp_age' = IF ramp_started THEN Older(ramp_age, RampTicks) ELSE ramp_age
    /\ UNCHANGED <<lowstateVars, commandVars, rampVars, snap, outVars>>

Next ==
    \/ \E state \in LowStates : OnLowState(state)
    \/ \E msg \in JointCommands : OnJointCommand(msg)
    \/ OnTimerLocked
    \/ OnTimerWrite
    \/ Tick

Spec == Init /\ [][Next]_vars

(* The wall timer of a spinning executor keeps firing, a callback that has *)
(* begun returns, and time passes.  Nothing makes a message arrive.        *)
Fairness == WF_vars(OnTimerLocked) /\ WF_vars(OnTimerWrite) /\ WF_vars(Tick)

FairSpec == Spec /\ Fairness

-----------------------------------------------------------------------------
Snapshots ==
    [have_state : BOOLEAN, have_command : BOOLEAN, measured : FloatPoses,
     force : Forces, command : Poses, start_q : FloatPoses,
     progress : 0 .. RampSteps, command_stale : BOOLEAN]

TypeOK ==
    /\ measured_q \in FloatPoses
    /\ foot_force \in Forces
    /\ has_lowstate \in BOOLEAN
    /\ command_q \in Poses
    /\ has_command \in BOOLEAN
    /\ start_q \in FloatPoses
    /\ ramp_started \in BOOLEAN
    /\ command_age \in 0 .. MaxCommandAge
    /\ ramp_age \in 0 .. RampTicks
    /\ snap \in Snapshots
    /\ published \in [q : FloatPoses, contacts : [Feet -> BOOLEAN]]
    /\ low_cmd \in [q : FloatPoses, kd : Nat]
    /\ sent \in [phase : {"silent", "hold", "drive"}, progress : 0 .. RampSteps,
                 command : Poses]

\* The two ways in which a motor's target can fail to be a number: holding,
\* the robot measured none; driving, the ramp began at none, or begins with a
\* command that no float holds.
NoNumberToHold(m) == sent.phase = "hold" /\ published.q[m] = NaN

NoNumberToBlend(m) ==
    /\ sent.phase = "drive"
    /\ \/ start_q[m] \notin Int
       \/ sent.progress = 0 /\ ~FitsFloat(sent.command[m])

\* Whatever the robot measures and CHAMP commands, every LowCmd written to
\* rt/lowcmd keeps every motor within its URDF limits, a commanded, a blended
\* and a merely measured angle and an infinite one alike, or sends it NaN,
\* which the clamp lets through (go2_dds_bridge.cpp:274-288): that only to a
\* motor with no number to hold or to blend, never because of another motor,
\* nor because of an angle measured before or after the ramp began.
OnlyNaNLeavesLimits ==
    sent.phase # "silent" =>
        \A m \in Motors :
            \/ low_cmd.q[m] \in Limits(m)
            \/ low_cmd.q[m] = NaN /\ (NoNumberToHold(m) \/ NoNumberToBlend(m))

\* joint_states and foot_contacts of one timer come from one LowState, though
\* the DDS thread may store another while they are being published.
NoTornMeasurement ==
    sent.phase # "silent" =>
        \E state \in LowStates : published = Measurement(state.q, state.force)

\* The pose driven to was carried whole by one joint_commands message: no
\* motor is commanded from two messages, from a message that left it out, or
\* from a non-finite position.
CommandFromOneMessage ==
    has_command =>
        \E msg \in JointCommands : \A m \in Motors : \E i \in KnownPairs(msg) :
            /\ msg.name[i] = kGo2MotorJointNames[m]
            /\ msg.position[i] = command_q[m]

\* The handover from holding to driving has no jump: the first target that
\* CHAMP's command enters is the pose measured, and published, in that same
\* timer, whatever order the first LowState and the first command came in.
\* (A command that no float holds enters as 0 * inf.)
BumplessHandover ==
    [][(sent.phase # "drive" /\ sent'.phase = "drive" /\ RampTicks > 0)
        => \A m \in Motors :
              FitsFloat(sent'.command[m])
                => low_cmd'.q[m] = go2ClampJoint(m, published'.q[m])]_vars

Between(a, x, b) == (a <= x /\ x <= b) \/ (b <= x /\ x <= a)

\* For as long as the command stays the same, no target that is a number
\* moves away from it or past it: the ramp neither restarts nor goes back,
\* also when commands go stale and come again, and when the timer is late.
RampNeverGoesBack ==
    [][(sent.phase = "drive" /\ sent'.phase = "drive" /\ sent'.command = sent.command)
        => \A m \in Motors :
              (low_cmd.q[m] # NaN /\ low_cmd'.q[m] # NaN)
                => Between(low_cmd.q[m], low_cmd'.q[m],
                           go2ClampJoint(m, ToFloat(sent.command[m])))]_vars

AcceptedCommand == \E msg \in JointCommands : OnJointCommand(msg)

\* When no command is accepted any more, the motors end up, and stay, under
\* the extra damping of go2_dds_bridge.cpp:272.
WatchdogDamps ==
    (CommandTimeout > 0 /\ <>[][~AcceptedCommand]_vars)
        => <>[](sent.phase # "silent" => low_cmd.kd = DampedKd)

\* The motors whose ramp began at a number are sent this pose, clamped.
Reached(pose) ==
    \A m \in Motors :
        start_q[m] \in Int => low_cmd.q[m] = go2ClampJoint(m, ToFloat(pose[m]))

\* When one command is repeated from some time on, the motors are eventually
\* sent exactly that command, within the limits, and nothing else; all but
\* those that were measured at no number when the ramp began: they never are.
CommandReached ==
    \A msg \in JointCommands :
        Accepts(msg) =>
            (<>[](has_lowstate /\ has_command /\ command_q = CommandOf(msg))
                => <>[]Reached(CommandOf(msg)))

MeasuredPoses == {state.q : state \in LowStates}

\* The bridge is a JointDriver: threads, mutex and clock do not show.
Driver == INSTANCE JointDriver WITH
    MeasuredPoses <- MeasuredPoses,
    CommandPoses <- {FloatPose(CommandOf(msg)) :
                        msg \in {m \in JointCommands : Accepts(m)}},
    phase <- sent.phase,
    command <- FloatPose(command_q),
    commanded <- has_command,
    anchor <- IF sent.phase = "drive" THEN start_q ELSE ZeroPose,
    progress <- sent.progress,
    target <- low_cmd.q,
    damped <- low_cmd.kd = DampedKd

ImplementsDriver == Driver!Spec

-----------------------------------------------------------------------------
(* What the shared state, the copy and the last LowCmd owe each other: the *)
(* parts of the inductive invariant behind the safety properties.          *)

\* The measurement is one LowState, not a mixture.
MeasuredWhole ==
    has_lowstate =>
        \E state \in LowStates : measured_q = state.q /\ foot_force = state.force

\* While onTimer runs unlocked, its copy still is what the executor's own
\* variables say, and as far along the ramp as the clock was or less.
SnapCurrent ==
    InTimer =>
        /\ has_lowstate
        /\ \E state \in LowStates : snap.measured = state.q /\ snap.force = state.force
        /\ snap.have_command = has_command
        /\ snap.command = command_q
        /\ snap.start_q = start_q
        /\ ~has_command => snap.command_stale
        /\ has_command => /\ ramp_started
                          /\ snap.progress <= RampProgress(ramp_started, ramp_age)

\* A ramp leaves from a measured pose and is there for a command.
RampFounded == ramp_started => has_command /\ start_q \in MeasuredPoses

\* A LowCmd that drives is on the ramp, behind the clock and the next LowCmd.
SentBehind ==
    /\ sent.phase = "drive" =>
        /\ has_command
        /\ ramp_started
        /\ sent.progress <= RampProgress(ramp_started, ramp_age)
        /\ InTimer => sent.progress <= snap.progress
    /\ sent.phase # "drive" => sent.progress = 0

\* The ramp started in the timer whose LowCmd is the first to drive.
RampStartsInTimer ==
    (ramp_started /\ sent.phase # "drive") =>
        /\ InTimer
        /\ snap.start_q = snap.measured
        /\ RampTicks > 0 => snap.progress = 0

BridgeInv ==
    /\ MeasuredWhole
    /\ SnapCurrent
    /\ RampFounded
    /\ SentBehind
    /\ RampStartsInTimer

-----------------------------------------------------------------------------
\* README.md:51-52, "the launch releases Sport and holds pose": two targets
\* in a row sent before any command are the same pose.
HoldsPose ==
    [][(sent.phase = "hold" /\ sent'.phase = "hold") => low_cmd'.q = low_cmd.q]_vars

StaleDrive == sent.phase = "drive" /\ low_cmd.kd = DampedKd

\* champ_base_gait_planning/README.md:151, "If CHAMP commands stop, the last
\* pose is held with extra damping": two stale targets in a row, with no
\* command accepted between them, are the same pose.
StaleHoldsPose ==
    [][(StaleDrive /\ StaleDrive' /\ sent'.command = sent.command)
        => low_cmd'.q = low_cmd.q]_vars
=============================================================================
