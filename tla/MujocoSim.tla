------------------------------ MODULE MujocoSim ------------------------------
(***************************************************************************)
(* The simulation node mujoco/mujoco_sim.py: an executor thread that takes *)
(* joint commands and publishes the simulated state, and a thread that     *)
(* steps the physics in chunks of StepsPerChunk.  One lock guards MjData;  *)
(* a chunk holds it from its first to its last step, a callback for all it *)
(* does to shared state, so that a callback is one action here and a chunk *)
(* is several, with only time passing between them.                        *)
(*                                                                         *)
(* mj_step is the physics engine's: it may take the joints anywhere it can *)
(* take them in one step, under the servo, gravity and contact.            *)
(***************************************************************************)
EXTENDS Integers, Sequences

CONSTANTS
    Joints,         \* self.joint_names
    Limited,        \* the joints with joint_limited
    Lower, Upper,   \* joint_ranges
    Messages,       \* what joint_commands may carry: [name, position]
    NonFinite,      \* a NaN or an infinity in a position
    PhysicalPoses,  \* where the physics can take the joints
    Reach,          \* how far one mj_step can take one joint
    MaxDelta,       \* max_joint_velocity * dt; 0 or less: no limit
    CommandTimeout, \* command_timeout_sec in ticks; 0 or less: no watchdog
    StepsPerChunk,
    NoCommand       \* target_command is None

Poses == [Joints -> Int]

ASSUME SimAssumption ==
    /\ Joints \subseteq STRING
    /\ Limited \subseteq Joints
    /\ Lower \in Poses /\ Upper \in Poses
    /\ \A j \in Limited : Lower[j] <= Upper[j]
    /\ Messages \subseteq [name : Seq(STRING), position : Seq(Int \cup {NonFinite})]
    /\ NonFinite \notin Int
    /\ PhysicalPoses \subseteq Poses
    /\ MaxDelta \in Int
    /\ CommandTimeout \in Int
    /\ StepsPerChunk \in Nat \ {0}
    /\ NoCommand \notin Poses

VARIABLES
    qpos,             \* data.qpos of the joints
    control_command,  \* control_command, which is also data.ctrl
    target_command,   \* target_command
    command_age,      \* now - last_command_monotonic
    started,
    steps_left,       \* steps the chunk that holds the lock has still to do
    stop,             \* stop_event
    context_ok,       \* rclpy.ok()
    sim_pc,           \* where simulation_loop is between chunks
    published         \* the last joint_states

simVars == <<qpos, control_command, target_command, command_age, started, steps_left,
             stop, context_ok, sim_pc, published>>
shutdownVars == <<stop, context_ok>>

-----------------------------------------------------------------------------
MaxAge == IF CommandTimeout > 0 THEN CommandTimeout + 1 ELSE 0
ZeroPose == [j \in Joints |-> 0]

Clamp(x, low, high) == IF x < low THEN low ELSE IF x > high THEN high ELSE x

ClipOneSided(pose) ==
    [j \in Joints |->
        IF j \in Limited /\ pose[j] < Lower[j] THEN Lower[j] ELSE pose[j]]

\* _clip_to_joint_ranges
Clip(pose) ==
    [j \in Joints |->
        IF j \in Limited THEN Clamp(pose[j], Lower[j], Upper[j]) ELSE pose[j]]

\* name_to_index: a name given twice means its last place.
PlacesOf(msg, j) == {i \in 1 .. Len(msg.name) : msg.name[i] = j}
LastPlaceOf(msg, j) == CHOOSE i \in PlacesOf(msg, j) : \A k \in PlacesOf(msg, j) : k <= i

AcceptsNonFinite(msg) ==
    \A j \in Joints :
        PlacesOf(msg, j) # {} /\ LastPlaceOf(msg, j) <= Len(msg.position)

Accepts(msg) ==
    /\ msg.name # <<>> /\ msg.position # <<>>
    /\ \A j \in Joints :
          /\ PlacesOf(msg, j) # {}
          /\ LastPlaceOf(msg, j) <= Len(msg.position)
          /\ msg.position[LastPlaceOf(msg, j)] # NonFinite

CommandOf(msg) == Clip([j \in Joints |-> msg.position[LastPlaceOf(msg, j)]])

Init ==
    /\ qpos = ZeroPose
    /\ control_command = ZeroPose
    /\ target_command = NoCommand
    /\ command_age = 0
    /\ started = FALSE
    /\ steps_left = 0
    /\ stop = FALSE
    /\ context_ok = TRUE
    /\ sim_pc = "loop"
    /\ published = ZeroPose

LockFree == steps_left = 0

-----------------------------------------------------------------------------
JumpsToCommand(msg, first) == CommandOf(msg)

\* The first command puts the model into its stance; later ones leave the
\* servos to _update_control_for_step.
ControlOnCommand(msg, first) == IF first THEN CommandOf(msg) ELSE control_command

(* The executor.  A rejected message changes nothing: a stuttering step.    *)
(* A callback that waits for the lock runs also when the context has been  *)
(* shut down meanwhile, but nothing can be published then.                 *)
CommandCallback(msg) ==
    /\ LockFree
    /\ Accepts(msg)
    /\ qpos' = IF started THEN qpos ELSE CommandOf(msg)
    /\ control_command' = ControlOnCommand(msg, ~started)
    /\ started' = TRUE
    /\ target_command' = CommandOf(msg)
    /\ command_age' = 0
    /\ UNCHANGED <<steps_left, shutdownVars, sim_pc, published>>

PublishState ==
    /\ LockFree
    /\ started
    /\ context_ok
    /\ published' = qpos
    /\ UNCHANGED <<qpos, control_command, target_command, command_age, started,
                   steps_left, shutdownVars, sim_pc>>

(* The simulation thread. *)
RunsOn == ~stop

\* The condition of the loop, looked at before the lock is asked for.
KeepsRunning == context_ok /\ ~stop

LoopCheck ==
    /\ sim_pc = "loop"
    /\ steps_left = 0
    /\ sim_pc' = IF KeepsRunning THEN "lock" ELSE "ended"
    /\ UNCHANGED <<qpos, control_command, target_command, command_age, started,
                   steps_left, shutdownVars, published>>

\* Before the first command there is nothing to step: it sleeps and looks again.
TakeLock ==
    /\ sim_pc = "lock"
    /\ LockFree
    /\ steps_left' = IF started THEN StepsPerChunk ELSE 0
    /\ sim_pc' = "loop"
    /\ UNCHANGED <<qpos, control_command, target_command, command_age, started,
                   shutdownVars, published>>

StaleNever == FALSE

CommandStale == CommandTimeout > 0 /\ command_age > CommandTimeout

StepTarget == IF CommandStale THEN qpos ELSE target_command

TowardsOneSided(from, to) ==
    [j \in Joints |-> from[j] + Clamp(to[j] - from[j], 0, MaxDelta)]

Towards(from, to) ==
    IF MaxDelta > 0
    THEN [j \in Joints |-> from[j] + Clamp(to[j] - from[j], -MaxDelta, MaxDelta)]
    ELSE to

Near(pose) ==
    {p \in PhysicalPoses :
        \A j \in Joints : p[j] - pose[j] \in -Reach .. Reach}

\* _update_control_for_step and mj_step
Step ==
    /\ steps_left > 0
    /\ steps_left' = steps_left - 1
    /\ control_command' = Clip(Towards(control_command, StepTarget))
    /\ qpos' \in Near(qpos)
    /\ UNCHANGED <<target_command, command_age, started, shutdownVars, sim_pc,
                   published>>

\* An exception out of the physics ends the thread, which gives up the lock;
\* the node goes on answering and publishing.
StepFails ==
    /\ steps_left > 0
    /\ steps_left' = 0
    /\ sim_pc' = "ended"
    /\ UNCHANGED <<qpos, control_command, target_command, command_age, started,
                   shutdownVars, published>>

(* SIGINT, SIGTERM, the viewer closed, or main found the context down. *)
RequestStop ==
    /\ ~stop
    /\ stop' = TRUE
    /\ UNCHANGED <<qpos, control_command, target_command, command_age, started,
                   steps_left, context_ok, sim_pc, published>>

(* rclpy.shutdown: by main when destroy_node has returned, with the thread  *)
(* ended or not joined in time, or by whoever else shuts the context down.  *)
Shutdown ==
    /\ context_ok
    /\ context_ok' = FALSE
    /\ UNCHANGED <<qpos, control_command, target_command, command_age, started,
                   steps_left, stop, sim_pc, published>>

(* Time passes, also while the lock is held. *)
Tick ==
    /\ started
    /\ command_age' = IF command_age < MaxAge THEN command_age + 1 ELSE command_age
    /\ UNCHANGED <<qpos, control_command, target_command, started, steps_left,
                   shutdownVars, sim_pc, published>>

Next ==
    \/ \E msg \in Messages : CommandCallback(msg)
    \/ PublishState
    \/ LoopCheck
    \/ TakeLock
    \/ Step
    \/ StepFails
    \/ RequestStop
    \/ Shutdown
    \/ Tick

Spec == Init /\ [][Next]_simVars

\* The simulation thread is scheduled and mj_step returns; the lock is free
\* whenever no chunk and no callback runs, and the thread gets it in the end.
FairSpec ==
    Spec /\ WF_simVars(LoopCheck) /\ WF_simVars(TakeLock) /\ WF_simVars(Step)

-----------------------------------------------------------------------------
TypeOK ==
    /\ qpos \in Poses
    /\ control_command \in Poses
    /\ target_command \in Poses \cup {NoCommand}
    /\ command_age \in 0 .. MaxAge
    /\ started \in BOOLEAN
    /\ steps_left \in 0 .. StepsPerChunk
    /\ stop \in BOOLEAN
    /\ context_ok \in BOOLEAN
    /\ sim_pc \in {"loop", "lock", "ended"}
    /\ published \in Poses

\* Once the simulation runs, no servo is ever told to go beyond its joint's
\* range, also when the physics has taken the joint there and the command is
\* stale (mujoco_sim.py:246, 258).
ServoWithinRange ==
    started => \A j \in Limited : Lower[j] <= control_command[j] /\ control_command[j] <= Upper[j]

Distance(x, y) == IF x < y THEN y - x ELSE x - y

\* No servo setpoint jumps: whatever commands come, stop and come again, and
\* however often between two steps, a setpoint moves by at most
\* max_joint_velocity * dt once the robot stands in its first stance.
NoServoJumps ==
    [][(started /\ MaxDelta > 0)
        => \A j \in Joints : Distance(control_command[j], control_command'[j]) <= MaxDelta]_simVars

Between(a, x, b) == (a <= x /\ x <= b) \/ (b <= x /\ x <= a)

\* When commands have stopped for longer than the timeout, the servos no
\* longer advance along the stale gait: a setpoint only moves towards where
\* the joint is, and so to rest when the joint does.
StaleGaitStops ==
    [][(CommandTimeout > 0 /\ command_age > CommandTimeout /\ steps_left' < steps_left)
        => \A j \in Joints :
              Between(control_command[j], control_command'[j], Clip(qpos)[j])]_simVars

\* A command that is repeated in time is reached, exactly, by every servo.
CommandReached ==
    \A msg \in Messages :
        Accepts(msg) =>
            (<>[](target_command = CommandOf(msg) /\ ~CommandStale /\ ~stop /\ sim_pc # "ended")
                => <>[](control_command = CommandOf(msg)))

\* Asked to stop, or left without a context by whoever shut it down, the
\* simulation thread ends, whether it holds the lock, is waiting for it, or
\* sleeps before the first command.
ThreadEnds == (stop \/ ~context_ok) ~> sim_pc = "ended"
=============================================================================
