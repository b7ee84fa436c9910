------------------------------ MODULE MCPhc2sys ------------------------------
(* Instances of Phc2sys for TLC. *)
EXTENDS Phc2sys

Own == [p \in Ports |-> p]
Shared == [p \in Ports |-> 1]

\* Two network cards and the system clock; one card with two ports.
MCConfs ==
    {[rt |-> "dest_only", clockOf |-> Own, phc |-> [p \in Ports |-> p - 1]],
     [rt |-> "source", clockOf |-> Own, phc |-> [p \in Ports |-> 0]],
     [rt |-> "none", clockOf |-> Shared, phc |-> [p \in Ports |-> 0]]}
=============================================================================
