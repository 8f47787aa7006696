------------------------ MODULE MCQuadrupedController ------------------------
EXTENDS QuadrupedController

CONSTANTS level, stretched, Zeros

Command(moves, step) == [moves |-> moves, step |-> [l \in Legs |-> step]]

MCStand == Command(FALSE, "zero")
\* A turn about one foot: that leg has no step to make.
Pivot == [moves |-> TRUE, step |-> [l \in Legs |-> IF l = "LF" THEN "zero" ELSE "some"]]

\* Standing, walking, turning against a sideways step, and a NaN.
MCCommands ==
    {MCStand, Command(TRUE, "some"), Pivot, Command(FALSE, "some"), Command(TRUE, "nan")}

\* Stretched, the robot can stand; a step is out of reach.
MCReachableFeet ==
    {Foot(kind, pose) : kind \in {"nominal", "ground", "air"}, pose \in {level}}
        \cup {Foot("nominal", stretched)}

\* A late timer, and a clock that stands still or is set back or forward.
MCAnyClock == 0 .. 7
=============================================================================
