---------------------------- MODULE MCMujocoSim ----------------------------
(* A limited hip and an unlimited wheel, one tick of timeout, for TLC. *)
EXTENDS MujocoSim, TLC

CONSTANT NaN

Pose(hip, wheel) == ("hip" :> hip) @@ ("wheel" :> wheel)

MCLower == Pose(-1, 0)
MCUpper == Pose(1, 0)

\* The hip may be pushed beyond its upper limit.
MCPhysicalPoses == {Pose(h, w) : h \in -1 .. 2, w \in 0 .. 1}

\* A stance; another, out of range, in another order, with a stray joint; a
\* joint without a position; a NaN; a message without positions.
MCMessages ==
    {[name |-> <<"hip", "wheel">>, position |-> <<-1, 0>>],
     [name |-> <<"wheel", "arm", "hip">>, position |-> <<1, NaN, 4>>],
     [name |-> <<"hip", "wheel">>, position |-> <<1>>],
     [name |-> <<"hip", "wheel">>, position |-> <<1, NaN>>],
     [name |-> <<"hip", "wheel">>, position |-> <<>>]}
=============================================================================
