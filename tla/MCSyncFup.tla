------------------------------ MODULE MCSyncFup ------------------------------
(****************************************************************************)
(* Instances of the places where what belongs together is put together:     *)
(* SyncFup and NetSync by sequence numbers, TxStamps and EventMonitor by    *)
(* order.  They share no state; a behaviour is about one of them.           *)
(****************************************************************************)
EXTENDS SyncFup, NetSync, TxStamps, EventMonitor

CONSTANTS A, B, b1, b2, b3, two, one, deaf

TwoMasters == {A, B}
OneStepB == {B}
ThreeBuffers == {b1, b2, b3}
ThreeNodes == {two, one, deaf}
OneStepNode == {one}
DeafNode == {deaf}
TwoParents == {"P", "Q"}

VARIABLE half   \* what the behaviour is about

allvars == <<half, vars, nvars, tvars, mvars>>

\* A half that rests stands still in one initial state.  No buffer is special,
\* so the first pointer is any of them.
MCInit ==
    /\ half \in {"port", "nsm", "socket", "monitor"}
    /\ Init /\ NsInit /\ TxInit /\ MonInit
    /\ port.last = b1
    /\ half # "nsm" => ~batch
    /\ half # "port" => parent = A
    /\ half # "socket" => user = "port" /\ trp = "raw"

MCNext ==
    \/ half = "port" /\ Next /\ UNCHANGED <<half, nvars, tvars, mvars>>
    \/ half = "nsm" /\ NsNext /\ UNCHANGED <<half, vars, tvars, mvars>>
    \/ half = "socket" /\ TxNext /\ UNCHANGED <<half, vars, nvars, mvars>>
    \/ half = "monitor" /\ MonNext /\ UNCHANGED <<half, vars, nvars, tvars>>

FairSpec == MCInit /\ [][MCNext]_allvars /\ (half = "nsm" => NsFairness)

\* What is reported belongs to the message it is reported for: StampIsOwn,
\* ForwardsFresh and RecordFits (sk_receive(), monitor_sync(), monitor_delay()).
ReportsInOrder == StampIsOwn /\ ForwardsFresh /\ RecordFits
=============================================================================
