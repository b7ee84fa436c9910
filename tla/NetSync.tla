------------------------------- MODULE NetSync -------------------------------
(****************************************************************************)
(* The NetSync monitor: the client nsm.c sends a delay request to a port of *)
(* another node, which answers with a Delay_Resp, a Sync and a Follow_Up of *)
(* the same sequence number (process_delay_req(), port_tx_sync()).          *)
(*                                                                          *)
(* The network loses, duplicates and reorders; an answer arrives while the  *)
(* client has made fewer than Late newer requests.  A request that arrives  *)
(* twice is answered twice; the answers to one request are not told apart.  *)
(****************************************************************************)
EXTENDS Integers, FiniteSets

CONSTANTS
    Nodes,          \* the nodes that are asked
    OneStepNodes,   \* those that send one-step Syncs
    DeafNodes,      \* those with hybrid_e2e but without net_sync_monitor
    IdMod,          \* sequence numbers are taken modulo IdMod (2^16)
    Late,           \* bound: requests an answer may be late by, or made in vain meanwhile
    MaxRequests     \* bound: commands given

ASSUME NetSyncAssumption ==
    /\ OneStepNodes \subseteq Nodes /\ DeafNodes \subseteq Nodes
    /\ IdMod \in Nat /\ Late \in Nat /\ MaxRequests \in Nat /\ Late < IdMod

\* A message of the exchange that the n-th request began with a node.
Answers == {"DELAY_RESP", "SYNC", "FOLLOW_UP"}
NsMessages == [type : Answers \cup {"DELAY_REQ"}, node : Nodes, n : 1..MaxRequests]

Slots == {"nsm_sync", "nsm_fup", "nsm_delay_resp"}
SlotOf(type) == CASE type = "SYNC" -> "nsm_sync" [] type = "FOLLOW_UP" -> "nsm_fup"
                  [] type = "DELAY_RESP" -> "nsm_delay_resp"

VARIABLES
    nsm,        \* struct nsm: the request, the answers kept, the next sequence number
    batch,      \* the commands are arguments
    waiting,    \* tmo >= 0: poll() returns after a while
    left,       \* commands still to come
    status,     \* of the client: run, ended, crashed
    asked,      \* history: requests that took a sequence number
    net,        \* messages that may still arrive
    faulty,     \* nodes whose port is out of order
    measured    \* history: the messages of the newest measurement

nvars == <<nsm, batch, waiting, left, status, asked, net, faulty, measured>>

Nothing == {}   \* a NULL pointer; a message m that is there is {m}
Idle_nsm == [req |-> Nothing, kept |-> [s \in Slots |-> Nothing], sequence_id |-> 0]

NsInit ==
    /\ nsm = Idle_nsm /\ batch \in BOOLEAN /\ waiting = batch
    /\ left = MaxRequests /\ status = "run" /\ asked = 0
    /\ net = {} /\ faulty = {} /\ measured = {}

SequenceIdOf(m) == (m.n - 1) % IdMod

-----------------------------------------------------------------------------
\* The client.  Mutant: the Follow_Up is forgotten.
ResetKeepsFollowUp(s) ==
    [s EXCEPT !.req = Nothing, !.kept = [@ EXCEPT !["nsm_sync"] = Nothing,
                                                  !["nsm_delay_resp"] = Nothing]]

nsm_reset(s) == [s EXCEPT !.req = Nothing, !.kept = [x \in Slots |-> Nothing]]

\* Mutant: wider than sixteen bits.
NextIdWide(s) == [s EXCEPT !.sequence_id = @ + 1]

NextId(s) == [s EXCEPT !.sequence_id = (@ + 1) % IdMod]

\* nsm_request(): it fails before it takes a number, or after; in the second
\* case the request may be on its way, without a time stamp.
nsm_request(node) ==
    LET m == [type |-> "DELAY_REQ", node |-> node, n |-> asked + 1]
        Young == {x \in net : asked + 1 - x.n < Late}
    IN  \/ UNCHANGED <<nsm, asked, net>>
        \/ /\ \A r \in nsm.req : asked - r.n < Late
           /\ nsm' = NextId(nsm) /\ asked' = asked + 1
           /\ net' \in {Young, Young \cup {m}}
        \/ /\ nsm' = [nsm_reset(NextId(nsm)) EXCEPT !.req = {m}]
           /\ asked' = asked + 1 /\ net' = Young \cup {m}

\* A command: the next argument, once no request is outstanding, or a line of input.
nsm_command ==
    /\ status = "run" /\ left > 0 /\ left' = left - 1
    /\ batch => nsm.req = Nothing
    /\ ~batch => ~waiting
    /\ \E node \in Nodes : nsm_request(node)
    /\ UNCHANGED <<batch, waiting, status, faulty, measured>>

nsm_complete(s) ==
    /\ s.kept["nsm_sync"] # Nothing /\ s.kept["nsm_delay_resp"] # Nothing
    /\ \/ \A m \in s.kept["nsm_sync"] : m.node \in OneStepNodes
       \/ s.kept["nsm_fup"] # Nothing

Belongs(s, m) == s.req # Nothing /\ \A r \in s.req : SequenceIdOf(m) = SequenceIdOf(r)

Keep(s, m) == [s EXCEPT !.kept[SlotOf(m.type)] = IF @ = Nothing THEN {m} ELSE @]

\* nsm_handle_msg() of a message that nsm_recv() took.  Of a one-step node there
\* is no Follow_Up, which nsm_compute_offset() reads all the same.
nsm_handle_msg(m) ==
    /\ status = "run" /\ m.type \in Answers /\ Belongs(nsm, m)
    /\ LET s == Keep(nsm, m)
       IN  IF ~nsm_complete(s) THEN nsm' = s /\ UNCHANGED <<measured, status>>
           ELSE IF s.kept["nsm_fup"] = Nothing
                THEN nsm' = s /\ status' = "crashed" /\ UNCHANGED measured
                ELSE /\ measured' = UNION ({s.req} \cup {s.kept[x] : x \in Slots})
                     /\ nsm' = nsm_reset(s) /\ UNCHANGED status
    /\ UNCHANGED <<batch, waiting, left, asked, net, faulty>>

Arrives == \E m \in net : nsm_handle_msg(m)

\* Mutant: the client goes on waiting for the answer.
TimeoutWaits ==
    /\ status' = IF left > 0 THEN status ELSE "ended"
    /\ UNCHANGED nsm

TimedOut ==
    /\ status' = IF batch /\ left > 0 THEN status ELSE "ended"
    /\ nsm' = nsm_reset(nsm)

\* poll() returns after a while of silence: the next command, or the end.
PollTimeout ==
    /\ status = "run" /\ waiting /\ (batch /\ left > 0 => nsm.req # Nothing)
    /\ TimedOut
    /\ UNCHANGED <<batch, waiting, left, asked, net, faulty, measured>>

\* The input ends: outstanding answers are waited for, or nothing is.
EndOfInput ==
    /\ status = "run" /\ ~batch /\ ~waiting
    /\ \/ waiting' = TRUE /\ UNCHANGED <<nsm, status>>
       \/ status' = "ended" /\ nsm' = nsm_reset(nsm) /\ UNCHANGED waiting
    /\ UNCHANGED <<batch, left, asked, net, faulty, measured>>

-----------------------------------------------------------------------------
\* The node.  What is sent, and whether the call succeeded.
Sent(types, ok) == [types |-> types, ok |-> ok]

\* port_tx_sync(): the port is not capable; the Sync cannot be sent; it has no
\* time stamp, or its Follow_Up cannot be completed or sent; or all went well.
port_tx_sync(node) ==
    IF node \in OneStepNodes
    THEN {Sent({}, TRUE), Sent({}, FALSE), Sent({"SYNC"}, TRUE)}
    ELSE {Sent({}, TRUE), Sent({}, FALSE), Sent({"SYNC"}, FALSE),
          Sent({"SYNC", "FOLLOW_UP"}, TRUE)}

port_nsm_reply(node) == node \notin DeafNodes

\* net_sync_resp_append() fails without memory.
net_sync_resp_append == BOOLEAN

\* process_delay_req(): a port without the monitor answers a request in unicast
\* only if it is the master, and sends no Sync.
process_delay_req(node) ==
    IF ~port_nsm_reply(node) THEN {Sent({}, TRUE), Sent({}, FALSE), Sent({"DELAY_RESP"}, TRUE)}
    ELSE UNION {IF ~appended THEN {Sent({}, FALSE)}
                ELSE {Sent({}, FALSE)}
                       \cup {Sent({"DELAY_RESP"} \cup s.types, s.ok) : s \in port_tx_sync(node)} :
                    appended \in net_sync_resp_append}

Serve(m) ==
    /\ m.type = "DELAY_REQ" /\ m.node \notin faulty
    /\ \E s \in process_delay_req(m.node) :
         /\ net' = net \cup {[m EXCEPT !.type = t] : t \in s.types}
         /\ faulty' = IF s.ok THEN faulty ELSE faulty \cup {m.node}
    /\ UNCHANGED <<nsm, batch, waiting, left, status, asked, measured>>

\* The port of a node is initialized again, see Port.
Repair ==
    /\ faulty # {} /\ faulty' = {}
    /\ UNCHANGED <<nsm, batch, waiting, left, status, asked, net, measured>>

NsNext ==
    \/ nsm_command \/ Arrives \/ PollTimeout \/ EndOfInput
    \/ (\E m \in net : Serve(m)) \/ Repair

\* The client runs, and the network is silent for long enough now and then.
NsFairness == WF_nvars(nsm_command) /\ WF_nvars(PollTimeout)

-----------------------------------------------------------------------------
\* The types; sequence numbers stay in their 16 bits (nsm_request()).
NsTypeOK ==
    /\ nsm.req \subseteq NsMessages /\ nsm.kept \in [Slots -> SUBSET NsMessages]
    /\ \A s \in Slots : Cardinality(nsm.kept[s]) <= 1
    /\ nsm.sequence_id \in 0..(IdMod - 1) /\ nsm.sequence_id = asked % IdMod
    /\ {batch, waiting} \subseteq BOOLEAN /\ left \in 0..MaxRequests
    /\ status \in {"run", "ended", "crashed"} /\ asked \in 0..MaxRequests
    /\ net \subseteq NsMessages /\ faulty \subseteq Nodes

\* A measurement is made of the four messages of one exchange with one node,
\* although only the sequence number is compared, and never of an answer to a
\* request that was given up or superseded (nsm_handle_msg(), nsm_reset()); in a
\* state of the right type.
MeasuresOneExchange ==
    NsTypeOK /\ \A a, b \in measured : a.node = b.node /\ a.n = b.n

\* The batch comes to an end, whatever is lost and whoever does not answer.
BatchEnds == batch => <>(status # "run")
=============================================================================
