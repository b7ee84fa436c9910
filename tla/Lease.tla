-------------------------------- MODULE Lease --------------------------------
(****************************************************************************)
(* What a unicast grantor promises (IEEE 1588 unicast negotiation), without *)
(* intervals, queues, timers or messages: a contract ends only when it is   *)
(* canceled, refused, forgotten by a restart, or after its time; and only   *)
(* messages under a running contract are sent.                              *)
(****************************************************************************)
EXTENDS Integers

CONSTANTS Clients, Types, Duration, Nothing

VARIABLES
    lease,  \* client, type -> seconds left; Expired; or NoLease
    asked,  \* the request or cancellation of the last step, or Nothing
    sent    \* the messages of the last step

vars == <<lease, asked, sent>>

NoLease == -2
Expired == -1

Init ==
    /\ lease = [c \in Clients |-> [t \in Types |-> NoLease]]
    /\ asked = Nothing /\ sent = {}

\* A contract that is asked for begins, is extended or is refused.  The grant
\* may extend what the client already has, even what has expired but was not
\* cleared yet, and does nothing to other clients.
Request(c, types) ==
    /\ asked' = [client |-> c, kind |-> "REQUEST", types |-> types] /\ sent' = {}
    /\ \A d \in Clients, t \in Types :
           IF d = c /\ t \in types THEN lease'[d][t] \in {Duration, NoLease}
           ELSE \/ lease'[d][t] = lease[d][t]
                \/ d = c /\ lease[d][t] # NoLease /\ lease'[d][t] = Duration

Cancel(c, types) ==
    /\ asked' = [client |-> c, kind |-> "CANCEL", types |-> types] /\ sent' = {}
    /\ lease' = [lease EXCEPT ![c] = [t \in Types |->
                     IF t \in types THEN NoLease ELSE @[t]]]

\* Messages are sent under running contracts; expired ones may be cleared.
Serve ==
    /\ asked' = Nothing
    /\ \A m \in sent' : lease[m[1]][m[2]] >= 0
    /\ \A c \in Clients, t \in Types :
           \/ lease'[c][t] = lease[c][t]
           \/ lease[c][t] = Expired /\ lease'[c][t] = NoLease

Tick ==
    /\ asked' = Nothing /\ sent' = {}
    /\ lease' = [c \in Clients |-> [t \in Types |->
                    IF lease[c][t] >= 0 THEN lease[c][t] - 1 ELSE lease[c][t]]]

Restart ==
    /\ asked' = Nothing /\ sent' = {}
    /\ lease' = [c \in Clients |-> [t \in Types |-> NoLease]]

Next ==
    \/ \E c \in Clients, types \in SUBSET Types : Request(c, types) \/ Cancel(c, types)
    \/ Serve \/ Tick \/ Restart

Spec == Init /\ [][Next]_vars
=============================================================================
