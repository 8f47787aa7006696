-------------------------- MODULE MCGo2LowStatePath --------------------------
(* One motor; a robot that reports four different states and falls silent.  *)
(* The code's queue holds one sample; here it holds two, so that their order *)
(* is at stake too.                                                          *)
EXTENDS Go2LowStatePath

MCNames == 0 :> "hip"
MCLower == 0 :> -3
MCUpper == 0 :> 3

StateAt(hip, force) == [q |-> 0 :> hip, force |-> [f \in Feet |-> force]]

MCTopic == <<StateAt(1, 0), StateAt(2, 9), StateAt(3, 0), StateAt(-1, 9)>>

MCJointCommands == {[name |-> <<"hip">>, position |-> <<2>>]}

MCLowStates == {MCTopic[n] : n \in 1 .. 4}
=============================================================================
