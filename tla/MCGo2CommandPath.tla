--------------------------- MODULE MCGo2CommandPath ---------------------------
(* One motor; a controller that repeats one plan; timers and queue at their  *)
(* slowest, and the shortest timeout that leaves room for that.              *)
EXTENDS Go2CommandPath

MCNames == 0 :> "hip"
MCLower == 0 :> -3
MCUpper == 0 :> 3

MCLowStates == {[q |-> 0 :> 2, force |-> [f \in Feet |-> f]]}

MCJointCommands == {[name |-> <<"hip">>, position |-> <<-1>>]}
=============================================================================
