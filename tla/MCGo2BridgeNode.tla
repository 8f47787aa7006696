--------------------------- MODULE MCGo2BridgeNode ---------------------------
(* A one-motor robot that Sport may be driving, for TLC. *)
EXTENDS Go2BridgeNode

MCNames == 0 :> "hip"
MCLower == 0 :> -3
MCUpper == 0 :> 3

MCLowStates == {[q |-> 0 :> 2, force |-> [f \in Feet |-> f]]}

MCJointCommands ==
    {[name |-> <<"hip">>, position |-> <<-1>>],
     [name |-> <<"hip">>, position |-> <<NaN>>]}
=============================================================================
