----------------------------- MODULE MCSlavePort -----------------------------
(****************************************************************************)
(* The two halves of a client port: the choice of its master and the        *)
(* measurement of the path delay.  They share no state beyond the port      *)
(* state, which each of them lets change as the other may make it change;   *)
(* so the run moves one half in each behaviour.                             *)
(****************************************************************************)
EXTENDS ForeignMasters, PathDelay

CONSTANTS s1, s2, m1, m2

VARIABLE half   \* the half that moves

allvars == <<half, fmvars, pdvars>>

TwoSources == {s1, s2}
TwoMasters == {m1, m2}
NearAndFar == (m1 :> 1) @@ (m2 :> 3)

\* Both filters, both uses of them, and a port that relies on the service.
Plain == [dm |-> "E2E", filter |-> "MOVING_MEDIAN", mode |-> "FILTER", timeout |-> 2]
ClientSetups ==
    {[Plain EXCEPT !.filter = f, !.mode = m] :
        f \in {"MOVING_AVERAGE", "MOVING_MEDIAN"}, m \in {"FILTER", "RAW"}}
    \cup {[Plain EXCEPT !.dm = "COMMON_P2P"]}

\* The half that rests stands still in one initial state, with silent sources or
\* without a delay timer; the sources of the other are there from the start.
Resting ==
    IF half = "master" THEN setup = Plain /\ master = m1 /\ \A s \in Sources : quality[s] > 0
    ELSE machine = "ptp_fsm" /\ \A s \in Sources : quality[s] = 0

Init == half \in {"master", "delay"} /\ FMInit /\ PDInit /\ Resting

Next ==
    \/ half = "master" /\ FMNext /\ UNCHANGED <<half, pdvars>>
    \/ half = "delay" /\ PDNext /\ UNCHANGED <<half, fmvars>>

Spec == Init /\ [][Next]_allvars

FairSpec == Spec /\ (half = "master" => FMFairness) /\ PDFairness

\* The port makes use of what is there: BestWins and CapableAgain.
Settles == BestWins /\ CapableAgain
=============================================================================
