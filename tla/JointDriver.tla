----------------------------- MODULE JointDriver -----------------------------
(***************************************************************************)
(* What the Go2 bridge promises to the motors and to CHAMP, with no        *)
(* threads, no clock and no messages (package README, "Sim2Real"): the     *)
(* motors are left alone until the robot has reported its state; they are  *)
(* then held, damped, at a measured pose; and from the first command on    *)
(* they are driven along one ramp that begins at a measured pose, never    *)
(* goes back and never restarts, towards the latest whole command.  Every  *)
(* target is within the joint limits or NaN, and a motor that was measured *)
(* and is commanded by numbers is exactly on the ramp.                     *)
(***************************************************************************)
EXTENDS Go2LowCmdMap

CONSTANTS
    MeasuredPoses,   \* the poses the robot may report
    CommandPoses,    \* the poses CHAMP may command
    RampSteps        \* the ramp goes from 0 to RampSteps

VARIABLES
    phase,      \* "silent", "hold" or "drive"
    command,    \* the latest command
    commanded,  \* has there been one?
    anchor,     \* the pose the ramp began at
    progress,   \* how far along the ramp the last target was
    target,     \* the last pose sent to the motors
    damped      \* was it sent with the extra damping?

vars == <<phase, command, commanded, anchor, progress, target, damped>>

Zero == [m \in Motors |-> 0]

\* The point at step p of the ramp from s to c.
Along(s, c, p) == s + (p * (c - s)) \div RampSteps

\* A pose for step p of the ramp from pose s to pose c.  Where either end is
\* no number, it is within the limits or NaN, and no more is promised.
OnRamp(pose, s, c, p) ==
    \A m \in Motors :
        IF s[m] \in Int /\ c[m] \in Int
        THEN pose[m] = go2ClampJoint(m, Along(s[m], c[m], p))
        ELSE pose[m] \in Limits(m) \cup {NaN}

Init ==
    /\ phase = "silent"
    /\ command = Zero
    /\ commanded = FALSE
    /\ anchor = Zero
    /\ progress = 0
    /\ target = Zero
    /\ damped = FALSE

Command(c) ==
    /\ command' = c
    /\ commanded' = TRUE
    /\ UNCHANGED <<phase, anchor, progress, target, damped>>

Hold(pose) ==
    /\ ~commanded
    /\ phase' = "hold"
    /\ target' = ClampPose(pose)
    /\ damped' = TRUE
    /\ UNCHANGED <<command, commanded, anchor, progress>>

\* The first target of the ramp: it leaves from a measured pose.
Engage(pose, p) ==
    /\ commanded
    /\ phase # "drive"
    /\ phase' = "drive"
    /\ anchor' = pose
    /\ progress' = p
    /\ OnRamp(target', pose, command, p)
    /\ damped' \in BOOLEAN
    /\ UNCHANGED <<command, commanded>>

\* Every later target is no less far along the same ramp.
Advance(p) ==
    /\ phase = "drive"
    /\ p >= progress
    /\ progress' = p
    /\ OnRamp(target', anchor, command, p)
    /\ damped' \in BOOLEAN
    /\ UNCHANGED <<phase, command, commanded, anchor>>

Next ==
    \/ \E c \in CommandPoses : Command(c)
    \/ \E pose \in MeasuredPoses : Hold(pose)
    \/ \E pose \in MeasuredPoses, p \in 0 .. RampSteps : Engage(pose, p)
    \/ \E p \in 0 .. RampSteps : Advance(p)

Spec == Init /\ [][Next]_vars
=============================================================================
