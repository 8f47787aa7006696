# UnitreeCHAMP in TLA+

A formal model of the Go2 software in this repository: the URDF loader, the gait
generator, the controller node, the Sim2Real bridge to the motors with its
checksum and its subscriber, the state estimator and the MuJoCo node,
model-checked with TLC on small instances and, for the safety properties, proved
with TLAPS for every value of the constants. Paths below are relative to
`src/src/` unless they start with `README.md`, which is the repository's own
(`src/README.md`), or with `unitree_sdk2/`, which is beside `src/src/`.

## 1. The system

```
 cmd_vel, body_pose                 joint_commands                 rt/lowcmd
 ----------------> quadruped_controller ----------> go2_dds_bridge ----------> Go2
                   (BodyController,      |              |   ^                   |
                    LegController,       |              |   '--- rt/lowstate ---'
                    Kinematics)          '-> MujocoSim  | joint_states, foot_contacts, imu
                                               |        v
                                               '---> state_estimation_node --> odom/raw,
                                                     (Odometry)                base_to_footprint_pose
```

Between `rt/lowstate` and the bridge stands the subscriber of `unitree_sdk2`, with
a queue and a thread of its own; between `joint_commands` and the bridge a queue
of ten and the executor; `rt/lowcmd` is sealed with a checksum. Both nodes of
CHAMP load the URDF before anything else.

The bridge and the simulation node are alternatives: both consume
`joint_commands` and both publish `joint_states`, `foot_contacts` and the IMU.

| Component | State | Operations | What is hard |
|---|---|---|---|
| Phase generator, planner, leg controller (`champ/include/champ/leg_controller/*.h`) | last touchdown, has_started, has_swung, phase signals, last foot, gait phase | one tick with a velocity and a time | unsigned clock arithmetic, stop and restart at any point of a stride, ticks at which both signals are 0, NaN that stays in the last foot |
| Quadruped controller node (`champ_base_gait_planning/src/quadruped_controller.cpp`) | requested velocity and pose, last plan | two subscriptions, the 200 Hz loop | an unreachable leg rejects all four; the array that a rejected plan leaves behind is published |
| Kinematics, body controller | none | pure functions | a NaN in one leg |
| Go2 DDS bridge (`.../src/go2_dds_bridge.cpp`) | last LowState, last command, ramp, LowCmd | constructor with `releaseSport`; DDS thread: `onLowState`; executor: `onJointCommand`, `onTimer` | two threads, a lock that covers half of the timer, arrival orders, watchdog, ramp, half-valid messages, angles that are no number |
| LowCmd map (`.../include/go2_lowcmd_map.h`) | none | name to motor, clamp, foot permutation | limits that a lying robot exceeds, and NaN, which is neither above nor below one |
| State estimation (`.../src/state_estimation.cpp`, `champ/.../odometry.h`) | feet, contacts, previous feet and times, velocity, pose | synchronised callback, two 20 ms timers | first samples, zero or negative intervals, no feet in contact, joints that are NaN |
| MuJoCo node (`.../mujoco/mujoco_sim.py`) | MjData, setpoint, target, age, started | command and timer callbacks; physics thread | two threads and a lock, first stance, stale gait, shutdown |
| Subscriber of the SDK (`unitree_sdk2/include/unitree/common/dds/dds_entity.hpp`, `.../block_queue.hpp`) | queue, `mQuit`, thread `rlsnr` | put by the DDS thread; get and handle by `rlsnr`; quit, interrupt, join by the destructor | three threads, two flags under different protection, a wait without a time |
| Command path (controller, `joint_commands`, executor, watchdog) | what waits, and how late everyone is | plans, crash and restart, take, timer | the watchdog counts from receipt, not from sending |
| LowState path (topic, subscriber, bridge, `joint_states`) | both | both | two hand-overs between three threads |
| Motor CRC (`.../src/motor_crc.cpp`) | `low_cmd_`, the register | fill, sum bit by bit, write | the previous checksum is still in the message |
| URDF loader (`champ/include/champ/utils/urdf_loader.h`) | chain of each leg, joint names | parse, climb from link to link, list names | loops over a tree that someone else wrote; null links; lists indexed without a look at their length |
| Verifiers, launch files, the rest of the vendored SDK | - | - | see section 7 |

What makes each correct, in the names of the properties below:

- **Gait**: a whole diagonal always carries the robot (`DiagonalSupport`), the
  contacts are true of the planned feet (`PhaseMatchesFoot`), every leg goes on
  stepping while walking (`EveryLegSteps`).
- **Controller**: once a plan is out only plans are published (`KeepsAPlan`), the
  contacts published are true of the joints published (`ContactsTrueOfPlan`), and
  bad requests do no lasting harm (`Recovers`).
- **Command path**: the watchdog does not damp a controller that runs
  (`NoFalseAlarm`), and damps one that died, whatever it left in the queue
  (`DeathIsNoticed`).
- **Subscriber**: what waits is the newest, in order (`NewestInOrder`); its end
  ends its thread (`QuitsUnlessAboutToWait`); in one sentence, it is
  `LatestChannel`, by which no wakeup is lost either (`ImplementsChannel`).
- **LowState path**: `joint_states` never goes back in time
  (`MeasurementsInOrder`) and ends with the robot's last word
  (`LastStatePublished`).
- **Checksum**: it is the remainder of the polynomial (`RegisterIsRemainder`), of
  the payload alone (`WrittenIsSealed`).
- **URDF loader**: the translations add up from each listed link to the next
  (`TranslationsLeadToLinks`), names and chains agree (`NamesMatchChains`), a
  well-listed leg of a parsed URDF follows no null link and reads no list beyond
  its end (`ChainsAreSafe`), and loading ends (`LoadEnds`).
- **Bridge**: limits on every LowCmd, out of which nothing gets but a NaN that was
  measured or could not be blended (`OnlyNaNLeavesLimits`), untorn measurements,
  whole commands, a bumpless and monotone ramp, a watchdog, arrival; in one
  sentence, it is the sequential `JointDriver`. Its start: it comes up
  (`ComesUp`), and never sends a LowCmd beside Sport without having warned of it
  (`NeverBesideSportUnwarned`).
- **Estimator**: no velocity spike and no NaN after standing
  (`NoSpikeAfterStanding`), a footprint from real feet (`FootprintHasFeet`), rest
  when the samples stop (`EstimateSettles`).
- **Simulation**: setpoints in range, without jumps, no advance along a stale
  gait, arrival, a clean end.

`PROJECT.json` lists the hazards behind these at their lines, with the properties
that would show them, and with a note where nothing in the repository promises
anything that a property could state.

## 2. Modules

| Module | Models | Correspondence |
|---|---|---|
| `FloatNumbers` | external: IEEE 754 | whole numbers, the infinities and NaN, with comparison, sum, product and quotient |
| `Go2LowCmdMap` | `go2_lowcmd_map.h` | operators under the source's names |
| `JointDriver` | abstract | what the bridge promises: silent, then hold, then one ramp that never goes back |
| `Go2DdsBridge` | the bridge after its constructor | `OnLowState` (DDS thread), `OnJointCommand`, and the timer cut at its unlock: `OnTimerLocked` is lines 225-265, `OnTimerWrite` lines 267-302, with `snap` the copy taken between. `Tick` is the clock |
| `Go2BridgeNode` | the bridge with its constructor | `CheckMode`, `ReleaseMode`, `Sleep`, `Throw` are the loop of `releaseSport`; the bridge's own actions become possible as the channels open and the executor spins; the robot's Sport is a variable of its own, and `told_off` and `warned` are what the node has logged of it |
| `LegController` | `PhaseGenerator::run`, `TrajectoryPlanner::generate`, `LegController::velocityCommand` | one tick is one action, `VelocityCommand`; a foot is the branch that computed it and the body pose it was computed for |
| `QuadrupedController` | the controller node | extends `LegController`; one action per callback; the loop publishes joints and contacts |
| `LatestChannel` | abstract | what a subscriber gives its handler: samples in order, each at most once, none of the newest `Depth` skipped, none after the end |
| `DdsReaderListener` | the subscriber of the SDK | one action per section under the queue's lock; `TestQuit` is the test of `mQuit`, which is outside it |
| `Go2LowStatePath` | topic, subscriber, bridge | `OnLowState` of the bridge is the step `CallHandler` of the subscriber; the executor stops before the subscriber is destroyed |
| `Go2CommandPath` | controller process, queue, executor, watchdog | extends the bridge; `TickAll` lets time pass, and no deadline |
| `MotorCrc` | `crc32_core` and its use in `onTimer` | one bit per step; a word is the set of its bits |
| `UrdfLoader` | `loadFromString`, `fillLeg`, `getPose`, `getJointNames` | one iteration of a loop per step; `ReadLinks` is the two reads at the top of `fillLeg`'s loop |
| `StateEstimation` | estimator and odometry | one action per callback, that of the IMU included; both clock readings of the odometry timer are inputs |
| `MujocoSim` | the simulation node | callbacks that hold the lock for all they do are one action; the physics thread is `LoopCheck`, `TakeLock`, and one `Step` per `mj_step`, with time passing and stops in between; `RequestStop` is the stop event, `Shutdown` the end of `rclpy.ok()` |
| `MC*` | TLC instances | the values of the constants |
| `*Proofs` | theorems | section 6 |

`Go2DdsBridge` refines `JointDriver`, and is composed three times: with its
constructor (`Go2BridgeNode`), with what sends it commands (`Go2CommandPath`), and
with what hands it measurements (`Go2LowStatePath`, with `DdsReaderListener`, which
refines `LatestChannel`). Each composition implements `Go2DdsBridge`, so that what
is proved of the bridge holds of all three. `QuadrupedController` composes
requests, kinematics and the gait.
Operators next to a definition and used by nothing (such as `Towards` and
`TowardsOneSided`) are plausible bugs of that definition, kept to show that the
properties can fail.

### Abstractions

- **Messages.** A message that the code rejects changes no state, so that a
  rejection is a stuttering step. The bridge's acceptance rules are modelled pair
  by pair (unknown names, missing positions, repeated names, non-finite values).
- **Time.** An age (`command_age`, `ramp_age`) stands for the difference between
  the clock and a stored time, and is counted only as far as the code can tell it
  apart: one tick beyond a timeout, or the end of the ramp.
- **Numbers.** An angle is a whole number of some unit, an infinity or NaN, with
  the comparisons and sums of IEEE 754 (`FloatNumbers`): what a LowState holds is
  taken as it is, as `go2_dds_bridge.cpp:162` does; a command is finite as a double
  (line 203) and infinite as a float beyond `MaxFloat` (line 278); and both
  comparisons of `go2ClampJoint` are false for NaN. Between numbers the blend of the
  bridge is `((n - p) * start + p * cmd) \div n`, with `p` of the `n` ticks of
  the ramp passed, for the code's float `(1 - a) * start + a * cmd`: exact at the
  ends and monotone between. The rounding of floats is not modelled. Gait signals
  are numerators over twice their period, so that comparing the stance and the
  swing signal of a leg is exact. Feet in the estimator have one coordinate, in
  which x, y and heading are computed alike, and are NaN when one of their joints
  is NaN or infinite (its sine is); a heading that is NaN loses x and y for good.
  Divisions round towards zero.
- **Polynomials.** A word is the set of its bits that are 1 and a polynomial the
  set of its exponents; shifts add to the members, exclusive or is the symmetric
  difference.
- **Reading beyond a list.** `urdf_loader.h` indexes the lists of the parameter
  files up to the fourth link and the third joint, whatever their length. What is
  read beyond the end of a shorter list is undefined: it is any name at all
  (`NameAt`), a link of the tree among them, or the end of the program
  (`ReadBeyond`).
- **Trees.** A URDF is the parent of each link; that it is a tree, with no set of
  links wholly below itself, is assumed of it (`LoaderAssumption`), as `getRoot()`
  and the code that climbs to it do. An origin is one coordinate. Every sum of
  origins in the instance is another number. Where the URDF places a link
  (`PlaceOf`) and which links are above one (`Above`) are defined on the tree,
  without the loader's way of climbing it.
- **Left out.** `dq`, `kp`, `tau` and the IMU of the bridge; the Bezier and sine
  curves of a foot (only which curve applies); trigonometry, and of the two
  orientations of the estimator all but which feet and which vertical they are
  taken from; logging, parameters and message headers.
- **External.** `mj_step` may move the joints anywhere near, out of range as well
  (`Near`); the robot may stop Sport at any time or never (`SportStops`), and may
  start it until it has been reported off (`SportStarts`): from then on the
  documents ask of the operator to leave it off; `rclpy` may shut down at any time
  (`Shutdown`); a
  condition variable may wake up for no reason (`WakeForNoReason`); the controller
  process may die at any time (`Crash`); timers and the executor are late by no
  more than constants say (`Deadlines`); the parsed model knows a link or not
  (`Known`).

## 3. Runs

| Run | Question | Instance |
|---|---|---|
| `bridge` | every bridge property, liveness, and that it implements `JointDriver` | both threads, two LowStates of numbers and one with a NaN and an infinity, six kinds of message |
| `bridge_node` | the start against a motion switcher that fails, throws or answers late | two attempts, one motor |
| `controller` | gait and controller under requests at any time, NaN and unreachable ones too, and under any clock; walking and recovery on time | stance = swing = 3, all clock steps, two body poses, five commands |
| `lowstate_path` | the subscriber's promises, that it implements `LatestChannel`, and the order of what is published | a queue of two, four different samples, the end of the node |
| `command_path` | false alarms and unnoticed deaths under crashes, restarts and lateness | a queue of three, every delay up to its bound |
| `estimation` | the estimator under eight contact patterns, joints that are NaN, an IMU that may be silent and a bad clock | intervals -1, 0, 2, 3 |
| `mujoco` | both threads of the simulation node | two joints, two steps a chunk |
| `crc` | the checksum against long division, write after write | words of three bits, all payloads of two words |
| `urdf` | every tree, and lists of every kind and length | six links, all 1296 trees, two legs |
| `hold_drifts`, `stale_ramp_moves`, `first_plan_invalid` | disagreements between documents and code, section 5 | |

### Why the bounds are enough

- **Bridge.** Two motors tell a whole command from a mixed one and have different
  limits. One LowState lies beyond the calf's limit on one foot, the other is in
  range on another, so a torn measurement shows in both parts. Messages come in
  and out of motor order, repeat a joint, leave one out, name a foreign joint,
  lack a position, carry a NaN, or a number that no float holds. A third LowState
  has a NaN for one motor and an infinity for the other, so that either may be
  measured before, at and after the start of the ramp. Two ramp ticks give a start, a middle and an
  end; a timeout of one tick is shorter than the ramp, so that a command can go
  stale on it and come again.
- **Bridge node.** Two attempts give a first, a repeated and an exhausted one, and
  Sport may be inactive at first and come up between them.
- **Gait and controller.** With the clock free to go anywhere, a modulus of 8
  against a stride of 6 gives every elapsed time below, at and beyond a stride,
  and every phase at the wrap. Stance and swing are equal, as shipped, which is
  the least that `DiagonalSupport` allows. Liveness asks that the timer be on time
  from some moment on, whatever the clock did before. The commands stand, walk,
  turn about one foot, turn against a side step, or are NaN; the poses are
  reachable, or reachable only at a stand.
- **LowState path.** The code's queue holds one sample; two also put their order
  at stake. Four samples overfill it twice, and are all different, so that what is
  published tells which sample it was.
- **Command path.** The timeout leaves exactly room for one late plan that waits
  (`RoomForOnePlan`); three places in the queue give a first, a middle and a last
  message. `QuietAfter` and `DampedAfter` are the least bounds: with one tick less
  TLC finds a counterexample to either.
- **Checksum.** The polynomial x^3 + x + 1 has a top bit, a constant term and a
  gap between. A second write finds the previous checksum in the message.
- **URDF loader.** Six links leave fixed links between listed ones, above the
  first and below the last. The legs list a chain, links in an order that is no
  chain, a link the URDF lacks, one link too few or too many, two links alone, a
  joint too few, or nothing.
- **Estimator.** Feet before the URDF, with all joints at zero and measured are
  far apart compared to a step, as on the robot; the samples have all, three, two
  (each kind of pair), one and no feet down, and one foot NaN while it stands with
  all others, in a stride, and in the air. The clock is late, on time, stands
  still or is set back; 1000 stands for 2^64.
- **MuJoCo.** One limited joint, which the physics can push beyond its limit, and
  one without; a command beyond the limit; a speed limit shorter than the way
  between two commands; a timeout of one tick, so that a gait goes stale within a
  chunk.

Deadlock is checked in every run but `urdf`, whose program ends.

### Fairness

Assumed, because the code's scheduling gives it: wall timers of a spinning
executor fire again (`OnTimerLocked`, `ControlLoop`, `OdomTimer`, ...), a
callback that has begun returns (`OnTimerWrite`), time passes (`Tick` of the
bridge), the physics thread is scheduled and gets a lock that nobody holds for
ever, calls to the motion switcher return within `SetTimeout(5.0)` and sleeps end
(`Constructing`), the threads of the subscriber and of the destructor are
scheduled, a sequential program goes on (`UrdfLoader`). Never assumed: that a
message arrives, that Sport stops, that a condition variable wakes up by itself,
that anyone asks to stop. `command_path` needs no fairness: its deadlines make
"soon" a safety property. Liveness about commands is therefore conditional on the
commands (`CommandReached`, `Recovers`, `EveryLegSteps`, `EstimateSettles`).

## 4. What the runs show

All passing runs finish without error; every property has a mutant of the code
that breaks it, listed in `PROJECT.json`. Points worth knowing:

- `DiagonalSupport` holds under any jitter and any jump of the clock, but needs a
  stance no shorter than the swing. The shipped 0.25 s and 0.25 s satisfy it with
  nothing to spare.
- `DeathIsNoticed` is later than the timeout by the whole queue: each of the ten
  commands a dead controller may leave behind starts the watchdog anew. With an
  executor that keeps up (`TakeDelay` of a few milliseconds) this is little.
- `QuitsUnlessAboutToWait` has an exception in its name. `mQuit` is tested at
  `dds_entity.hpp:274`, outside the lock under which `Get` waits without a time; a
  destructor that sets it and interrupts the queue once (lines 236-237) in between
  joins a thread that nothing wakes. It may happen when the node stops.
- After the executor has stopped, the handler may run once more, but never after
  the join (`ImplementsChannel`). The model stops there. In the code the mutex and
  the last LowState are declared after the subscriber (`go2_dds_bridge.cpp:339-348`)
  and are therefore destroyed before it, so that this last call writes to members
  whose lifetime is over; it matters only while the node ends.
- `OnlyNaNLeavesLimits` is the most that holds of the limits. Infinities are
  clamped like any number beyond a limit; NaN is not. A NaN that is measured while
  the bridge holds is written once; one that is measured in the timer in which the
  ramp begins stays in `start_q_`, and that motor gets NaN until the bridge is
  started again, because `0 * NaN` is NaN at the end of the ramp as well. The motors
  whose ramp began at a number are driven to their command all the same
  (`CommandReached`).
- `NoSpikeAfterStanding` holds from the first timer that saw a measured robot
  stand, and anew from the first after the feet were all numbers again. A robot that
  trots when the first `joint_states` arrives is outside it: its first velocity is
  measured from all-zero joints. A joint that is NaN during a stride makes the
  velocity NaN until all feet are down, or none; the pose and the heading stay NaN
  for as long as the estimator runs (`EstimateSettles` says which is which).
- A parameter file with too short a list crashes the nodes or loads a leg at a
  wrong place; with lists of the right length for the other legs, their names are
  still at the right indices (`NamesMatchChains`), and loading ends.
- `ServoWithinRange` holds though a stale gait takes the measured pose for its
  target, because the setpoint is clipped after it has moved.

## 5. Disagreements between documents and code

1. `hold_drifts` (`HoldsPose`): before the first command the target is the pose
   measured in that very timer (`go2_dds_bridge.cpp:275-276`), so that it follows
   the legs under load; README.md:51-52 and the package README:146 say that the
   bridge holds the pose.
2. `stale_ramp_moves` (`StaleHoldsPose`): the ramp goes on with the clock while
   the command is stale (`go2_dds_bridge.cpp:257-259`); the package README:151
   says that the last pose is held.
3. `first_plan_invalid` (`LastPlanIsValid`): `Kinematics::inverse` never writes a
   NaN, so that the check in `controlLoop_` (lines 98-110) never fails, and a
   rejected first plan stores and publishes all zeros as the last valid plan;
   `kinematics.h:112` says that NaN is left for the caller to see.

Three more were met that no run states. A target that is NaN passes `go2ClampJoint`
unchanged and is written to `rt/lowcmd` (`go2_dds_bridge.cpp:282-288`); as NaN
differs from itself the bridge counts it as clamped, and lines 295-297 warn that
the target "outside Go2 URDF limits" was "clamped before rt/lowcmd"
(`OnlyNaNLeavesLimits` says when it happens). When Sport cannot be released the
constructor only warns, and LowCmd is written beside it
(`go2_dds_bridge.cpp:127-135`; `NeverBesideSportUnwarned` says that it does warn),
where README.md:51-52 says that the launch releases Sport. And `urdf_loader.h:101`
logs "Successfully parsed urdf file" also after line 98 has logged the failure; the model in which this happens is part of `urdf`.

## 6. Proofs

All theorems hold for every value of the constants that satisfies the `ASSUME`s
of the modules: any number of motors, joints, messages and LowStates, these with
NaN and infinities at will, any timeout, ramp, limits, gait timing, clock width, queue and delays, and any physics.

- **Bridge** (`Go2DdsBridgeProofs`). `TypeCorrect` first. Of the safety
  properties none is inductive: what a LowCmd contains was read a step earlier,
  before the unlock. `BridgeInv` says what the shared state, the copy and the last
  LowCmd owe each other: the measurement is one LowState (`MeasuredWhole`); the
  executor's copy still equals the executor's own variables, though not the DDS
  thread's (`SnapCurrent`); a ramp leaves from a measured pose (`RampFounded`);
  the last LowCmd is behind the copy, which is behind the clock (`SentBehind`);
  and a ramp that has not yet reached a LowCmd began in the running timer
  (`RampStartsInTimer`). `OnlyNaNEscapes`, `NeverTorn`, `CommandsAreWhole`
  and `HandoverIsBumpless` follow. For the first, `ClampType` says of which numbers
  the clamp makes limits, and the lemmas `BlendOf...` when a blend of them is NaN:
  at the ends of the ramp a factor is 0.
- **Refinement** (`Go2DdsBridgeProofs`). `BridgeImplementsDriver` under the
  mapping in `Go2DdsBridge` (`Driver`): `OnJointCommand` is `Command`,
  `OnTimerWrite` is `Hold`, `Engage` or `Advance`, all else stutters.
- **Ramp** (`Go2DdsBridgeProofs`). `RampIsMonotone`, from lemmas on integer
  division and multiplication, and that clamping keeps an order.
- **Compositions** (`Go2CompositionProofs`). `NodeIsBridge`, `PathIsBridge` and
  `LowStatePathIsBridge`, by which each composition inherits every safety theorem
  of the bridge, `NodeRespectsLimits` among them. Of the node, `NodeTypeCorrect`
  and `SportIsWarnedOf`, by `NodeInv`: what was reported off has stayed off
  (`ReportStands`), no way leads out of `releaseSport` without a report or a warning
  (`LeftWithReport`), and nobody writes a LowCmd before the executor spins
  (`SilentUntilSpin`). Of the command path, `NoAlarmIsFalse` and
  `DeathsAreNoticed`: neither is inductive, because a LowCmd is older than the
  clocks it is judged by. `CommandPathInv` bounds the age of the command by how
  long the controller has been up and the first message has waited, the age of
  every message left by how long it has been down, and the copy between the
  halves of a timer by both, one timer earlier. Of the LowState path,
  `PathSamplesInOrder` and `JointStatesInOrder`: what is published, copied and
  measured last are three samples in this order (`MeasurementsNested`); and
  `PathImplementsChannel`: the subscriber refines `LatestChannel` also when its
  handler is the bridge and its destructor the end of the node.
- **Subscriber** (`DdsReaderListenerProofs`), for any length of the queue above 0
  (`ListenerAssumption`, a hypothesis of each theorem, which the path's assumption
  implies). `ListenerInv` adds to the order of the queue what the destructor has
  made known. `ListenerImplementsChannel` is the safety part of the refinement.
  Two more say what liveness owes to the order of tests, waits and notifications:
  `NoWakeupIsLost` (nobody sleeps while a sample waits) and `OneWindowOnly` (the
  exception in `QuitsUnlessAboutToWait` is the only one: found anywhere else, the
  thread never again comes to sleep for good).
- **Gait** (`QuadrupedControllerProofs`). `TypeCorrect`; `ContactsAreTrue`;
  `AlwaysADiagonal`, which assumes `StancePeriod >= SwingPeriod`: legs of
  different diagonals are half a stride apart, so that when one is in its swing
  the other is within its stance, and the swing lock covers the first stance.
- **Controller** (`QuadrupedControllerProofs`). `ControllerRunsTheGait` (the node
  implements the gait specification), hence `NodeKeepsADiagonal`; `AlwaysAPlan`;
  `NodeTypeCorrect`; `PublishedContactsAreTrue`.
- **Estimator** (`StateEstimationProofs`). `TypeCorrect`, with the bound of the
  filter: a velocity that is a number is within what three feet can do in the
  shortest interval, since the filter is a mean of two such; `NoSpikes`, for which
  `EstimationInv` says that after a standing timer the feet remembered are measured
  ones and numbers, and the velocity fed back is one; and
  `FootprintsHaveFeet`. They assume what the constants' comments say of the feet
  (`BoundsAssumption`): how far apart they can be, measured and before.
- **Simulation** (`MujocoSimProofs`). `TypeCorrect` with `SimInv` (in range; a
  target exists once started; only a started simulation steps), then
  `ServosStayInRange`, `SetpointsNeverJump`, `StaleGaitsStop`.
- **Checksum** (`MotorCrcProofs`), for words of any width, commands of any length
  and any polynomial. `RegisterRemainder`: before every bit the register is the
  remainder of the message so far. `RegisterIsRemainder` says "there is a
  quotient", so that the step must find the next one: adding a bit to the message
  adds to the quotient the bit that the shift pushes out of the register, and
  nothing else (`OneBit`, `NextBit`). `CommandIsSealed` follows, since the word
  that is replaced is not summed. That the remainder is a sound reference is
  proved too: a message has only one (`RemainderIsUnique`), since two quotients
  that differ give products that differ at the highest differing bit plus the
  width of a word, where no remainder reaches; so the word written is the only one
  that seals the payload (`ChecksumIsDetermined`). `BurstsAreCaught` is what a
  checksum is for: two payloads that differ within a span shorter than a word have
  different checksums, if the polynomial has a constant term, as `0x04c11db7` has.
- **URDF loader** (`UrdfLoaderProofs`), for any number of legs, any tree and any
  files, their lists of any length. `LoaderInv` says that a translation already set leads from the link
  listed above it to its own (`SetLeads`), that the pose is what has been climbed
  (`PoseIsClimbed`), that on the way up from a link of a chain the link to reach is
  still above (`RefLinkAhead`), and which names have been appended. Then
  `LoadedTranslationsLead`, `LoadedNamesMatch` and `ChainsNeverCrash`. Of
  `LoadEnds`, what is not fairness: `LoaderGoesForward` (each step advances the
  stage, the leg or the link, or climbs to a parent with fewer links above it),
  and no way up a tree is endless (`ClimbIsFinite`).

Induction over data is done with sets: the library's induction theorems take an
operator as a parameter, which the provers cannot instantiate, but "a set that
holds the root, and each link whose parent it holds, is all of the links"
(`TreeInduction`) and "a non-empty set of naturals has a least member" do as
well. That `PlaceOf` has the values its recursive definition gives it
(`PlaceOfEquation`) is proved from the least set of pairs closed under that
definition, of which each link has exactly one.

Types are proved (`TypeCorrect`, `NodeTypeCorrect`, `PathTypeCorrect`,
`ListenerTypeCorrect`) where the runs do not check them.

Only model-checked: every liveness property (`WatchdogDamps`, `CommandReached`,
`ComesUp`, `EveryLegSteps`, `Recovers`, `EstimateSettles`, `ThreadEnds`,
`QuitsUnlessAboutToWait`, `LastStatePublished`, `LoadEnds`, and
the fairness of `ImplementsChannel`), since fairness is out of the prover's reach.
Every invariant and every action property of the passing runs has its theorem.

## 7. Not modelled

- **Trigonometry** of kinematics and body controller: real arithmetic. It appears
  as the set `ReachableFeet` and the kind of a foot.
- **Rotations** of the URDF's joint origins, which the loader ignores
  (`verify_champ_go2.cpp:10` states that the shipped URDF has none), and the algebra
  of the estimator's orientations.
- **Offline verifiers, launch files**: tests and configuration; read as
  statements of what is expected.
- **The rest of `unitree_sdk2` and the geometry library**: third-party. Nearly all
  lines of the repository are these: declarations of CycloneDDS, message types
  generated from IDL, clients of other robots, examples, and the headers of a
  library whose implementation is a binary. They hold no behaviour of this program
  to model; what is used of them appears as messages that arrive and calls that
  return or throw. A share of all lines therefore says little about this project:
  of the program's own sources every handler that changes state is modelled.
- **The motion switcher's RPC** and the condition variable are in that binary: what
  the code may see of them is an input.

## 8. Plan

Done: the bridge with its abstract driver and refinement; the gait; the
controller; the bridge's start; the simulation node; the estimator; the
subscriber with its abstract channel and refinement; the command path and the
LowState path; the checksum; the URDF loader.

Left:

1. The loop back: bridge, approximate-time synchroniser and estimator, with
   queues of ten and stamps that differ. The synchroniser is a library of ROS.
2. A second refinement of `JointDriver` by the simulation node, whose servos move
   by a speed limit where the bridge has a ramp: this needs a weaker driver.
3. For the gait: that a stopped robot ends with four feet planted, and how long a
   leg may stay in the air.
4. For the liveness that only TLC checks: proofs that no step of the ramp, of the
   setpoint's way to its target, or of the simulation thread's end goes back, as
   `LoaderGoesForward` and `OneWindowOnly` are for the loader and the subscriber.
