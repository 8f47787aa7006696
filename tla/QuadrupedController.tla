------------------------- MODULE QuadrupedController -------------------------
(***************************************************************************)
(* The node of src/quadruped_controller.cpp: two subscriptions that store  *)
(* the latest request, and a 200 Hz loop that runs the body controller,    *)
(* the leg controller and the inverse kinematics on it, all on one         *)
(* executor thread, so that each callback is one action.                   *)
(*                                                                         *)
(* Inverse kinematics is abstracted to which foot positions are reachable; *)
(* the twelve joints of a plan stand for the four feet they reach.         *)
(***************************************************************************)
EXTENDS LegController

CONSTANTS
    NominalPose,    \* level, at nominal_height
    StandCommand,   \* no velocity: req_vel_ before the first cmd_vel
    ReachableFeet,  \* the foot positions the leg can be bent or stretched to
    ZeroJoints      \* float target_joint_positions[12] = {}

ASSUME ControllerAssumption ==
    /\ NominalPose \in BodyPoses
    /\ StandCommand \in Commands
    /\ StandCommand = [moves |-> FALSE, step |-> [l \in Legs |-> "zero"]]
    /\ ReachableFeet \subseteq
         [kind : {"nominal", "ground", "air"}, pose : BodyPoses]
    /\ ZeroJoints \notin [Legs -> FootPositions]

VARIABLES
    req_vel,          \* req_vel_
    req_pose,         \* req_pose_
    last_joints,      \* last_joint_positions_
    has_last_joints,  \* has_last_joints_
    joints,           \* the last joint positions published
    contacts          \* the last foot contacts published

requestVars == <<req_vel, req_pose>>
outputVars == <<last_joints, has_last_joints, joints, contacts>>
controllerVars == <<vars, requestVars, outputVars>>

-----------------------------------------------------------------------------
CInit ==
    /\ Init
    /\ req_vel = StandCommand
    /\ req_pose = NominalPose
    /\ last_joints = ZeroJoints
    /\ has_last_joints = FALSE
    /\ joints = ZeroJoints
    /\ contacts = [l \in Legs |-> TRUE]

CmdVelCallback(cmd) ==
    /\ req_vel' = cmd
    /\ UNCHANGED <<vars, req_pose, outputVars>>

CmdPoseCallback(pose) ==
    /\ req_pose' = pose
    /\ UNCHANGED <<vars, req_vel, outputVars>>

\* A leg out of reach, or sent to a NaN, gets NaN for joints.
Reaches(position) == position \in ReachableFeet

\* Kinematics::inverse writes all joints, or none when a leg's are NaN.
Inverse(seed, feet) ==
    IF \A l \in Legs : Reaches(feet[l]) THEN feet ELSE seed

SeedForgotten == ZeroJoints

\* The array the plan is written into.
Seed == IF has_last_joints THEN last_joints ELSE ZeroJoints

PublishedContactsEarly == gait_phase

\* publishFootContacts_ reads the gait phases this tick has set.
PublishedContacts == gait_phase'

\* As inverse never writes a non-finite joint, the array is finite on every
\* tick, is stored as the last plan, and the else branch never runs.
ControlLoop ==
    \E step \in TimeSteps :
        /\ VelocityCommand(req_vel, req_pose, Later(step))
        /\ joints' = Inverse(Seed, foot')
        /\ last_joints' = joints'
        /\ has_last_joints' = TRUE
        /\ contacts' = PublishedContacts
        /\ UNCHANGED requestVars

CNext ==
    \/ \E cmd \in Commands : CmdVelCallback(cmd)
    \/ \E pose \in BodyPoses : CmdPoseCallback(pose)
    \/ ControlLoop

CSpec == CInit /\ [][CNext]_controllerVars

\* The executor keeps running the wall timer, whatever messages come in.
CFairSpec == CSpec /\ WF_controllerVars(ControlLoop)

-----------------------------------------------------------------------------
Plans == [Legs -> ReachableFeet]

CTypeOK ==
    /\ TypeOK
    /\ req_vel \in Commands
    /\ req_pose \in BodyPoses
    /\ last_joints \in Plans \cup {ZeroJoints}
    /\ has_last_joints \in BOOLEAN
    /\ joints \in Plans \cup {ZeroJoints}
    /\ contacts \in [Legs -> BOOLEAN]

\* Once a plan has been published, joints are only ever those of a plan that
\* inverse kinematics accepted as a whole: a NaN velocity, a pose out of
\* reach or a foot left over from one never takes the robot out of it.
KeepsAPlan == [][(joints \in Plans) => (joints' \in Plans)]_controllerVars

\* What the node says of a leg on foot_contacts is true of the joints it sends
\* on the same tick, whenever these are the plan just made: not of the tick
\* before, nor of a phase left over.
ContactsTrueOfPlan ==
    joints = foot =>
        \A l \in Legs :
            /\ joints[l].kind = "air" => ~contacts[l]
            /\ joints[l].kind \in {"ground", "nominal"} => contacts[l]

Reachable(pose) ==
    \A kind \in {"nominal", "ground", "air"} : Foot(kind, pose) \in ReachableFeet

\* The loop's timer is on time and its clock is not set.
RegularLoop == \E step \in RegularSteps : now' = Later(step)

\* A bad velocity or an unreachable pose does no lasting harm: once the
\* requests stay at a reachable pose and at a stand or a walk, and the loop
\* runs on time, the joints published are those of the feet just planned, for
\* good.
Recovers ==
    \A pose \in BodyPoses, cmd \in Commands :
        (Reachable(pose) /\ (cmd = StandCommand \/ Walks(cmd)))
        => (<>[](req_vel = cmd /\ req_pose = pose) /\ <>[][RegularLoop]_controllerVars
              => <>[](joints = foot))

\* kinematics.h:112, "leave joints as NAN so the caller keeps the last valid
\* plan": what is stored as the last plan is a plan.
LastPlanIsValid == has_last_joints => last_joints \in Plans
=============================================================================
