--------------------------- MODULE MCGo2DdsBridge ---------------------------
(* A bridge with two motors, a hip and a calf, for TLC. *)
EXTENDS Go2DdsBridge

MCNames == (0 :> "hip") @@ (1 :> "calf")
MCLower == (0 :> -3) @@ (1 :> -6)
MCUpper == (0 :> 3) @@ (1 :> -1)

Pose(hip, calf) == (0 :> hip) @@ (1 :> calf)
ForceOn(f) == [g \in Feet |-> IF g = f THEN 9 ELSE 2]

\* Lying down, beyond the calf's lower limit, on one foot; then standing; and
\* with both encoders at fault.
MCSoundLowStates ==
    {[q |-> Pose(2, -8), force |-> ForceOn(0)],
     [q |-> Pose(-1, -4), force |-> ForceOn(3)]}

MCLowStates ==
    MCSoundLowStates \cup {[q |-> Pose(NaN, NegInf), force |-> ForceOn(3)]}

\* In and out of motor order; beyond a limit; a joint of another robot, named
\* first; a name without a position; a joint named twice; a joint left out; a
\* position that is not finite; and one beyond the largest float.
MCSoundCommands ==
    {[name |-> <<"hip", "calf">>, position |-> <<5, -2>>],
     [name |-> <<"arm", "calf", "hip", "hip">>, position |-> <<NaN, -5, 5, 1>>],
     [name |-> <<"hip", "arm">>, position |-> <<3, 3>>],
     [name |-> <<"hip", "calf">>, position |-> <<2>>],
     [name |-> <<"calf", "hip">>, position |-> <<-3, PosInf>>]}

MCJointCommands ==
    MCSoundCommands \cup {[name |-> <<"hip", "calf">>, position |-> <<200, -2>>]}
=============================================================================
