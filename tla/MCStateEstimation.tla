------------------------- MODULE MCStateEstimation -------------------------
(***************************************************************************)
(* Bounds for checking StateEstimation: a robot that stands, trots on      *)
(* either diagonal, has three feet down, paces, hops and is lifted; its    *)
(* feet swing by one or two places, far from where they were before the    *)
(* first joint_states and before the URDF.                                 *)
(***************************************************************************)
EXTENDS StateEstimation

Feet(a, b, c, d) == <<a, b, c, d>>
Place4(a, b, c, d) == [l \in Legs |-> Feet(a, b, c, d)[l + 1]]

MCSamples ==
    {[foot |-> Place4(20, 20, 20, 20), contact |-> Legs],
     [foot |-> Place4(20, 21, 20, 20), contact |-> {0, 3}],
     [foot |-> Place4(19, 21, 21, 19), contact |-> {1, 2}],
     [foot |-> Place4(19, 20, 20, 19), contact |-> {0, 1, 3}],
     [foot |-> Place4(20, 21, 20, 20), contact |-> {0, 2}],
     [foot |-> Place4(20, 20, 20, 20), contact |-> {2, 3}],
     [foot |-> Place4(19, 21, 21, 19), contact |-> {0}],
     [foot |-> Place4(20, 21, 20, 20), contact |-> {}],
     \* a joint that is not a number, of a leg on the ground and in the air
     [foot |-> Place4(NaN, 20, 20, 20), contact |-> Legs],
     [foot |-> Place4(NaN, 21, 20, 20), contact |-> {0, 3}],
     [foot |-> Place4(NaN, 21, 21, 19), contact |-> {1, 2}]}

MCPreUrdfFeet == Place4(0, 0, 0, 0)
MCZeroJointFeet == Place4(12, 12, 12, 12)
\* Set back, not moved, on time, late.
MCIntervals == {-1, 0, 2, 3}
=============================================================================
