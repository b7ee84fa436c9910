------------------------- MODULE MCTransparentClock -------------------------
(* Instances of TransparentClock for TLC. *)
EXTENDS TransparentClock

MCConfs ==
    {[dm |-> "E2E", spanning |-> FALSE, asap |-> FALSE],
     [dm |-> "E2E", spanning |-> TRUE, asap |-> FALSE],
     [dm |-> "P2P", spanning |-> FALSE, asap |-> TRUE]}
=============================================================================
