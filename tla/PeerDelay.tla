------------------------------ MODULE PeerDelay ------------------------------
(****************************************************************************)
(* The peer delay mechanism of an IEEE 802.1AS port (delay mechanism P2P,   *)
(* follow_up_info set, asCapable "auto"): port_delay_request(),             *)
(* process_pdelay_resp(), process_pdelay_resp_fup(), port_peer_delay(), the *)
(* neighbor rate estimate, and port_capable(), which derives asCapable from *)
(* them and sends the fork's gPTP-capable signaling.                        *)
(*                                                                          *)
(* The network loses, duplicates and reorders the peers' answers.  A message*)
(* stays deliverable until Window newer requests have been sent.            *)
(****************************************************************************)
EXTENDS Naturals, FiniteSets

CONSTANTS
    Peers,       \* ports that may answer
    PeerSets,    \* those that do; more than one is a misconfigured network
    Allowed,     \* allowedLostResponses
    MaxCount,    \* nrate.max_count: exchanges per rate estimate
    SeqIds,      \* requests carry sequence numbers modulo SeqIds (2^16)
    Window,      \* bound: how many requests long a message can be in flight
    None         \* no message, no peer

ASSUME PeersAssumption == IsFiniteSet(Peers) /\ PeerSets \subseteq SUBSET Peers
ASSUME AllowedAssumption == Allowed \in Nat
ASSUME MaxCountAssumption == MaxCount \in Nat \ {0}
ASSUME SequenceAssumption ==
    SeqIds \in Nat /\ Window \in Nat /\ 1 <= Window /\ Window <= SeqIds

\* An answer: the peer it comes from, how many requests ago the request that
\* it answers was sent, and whether it names this port as the requester.
Messages == [src : Peers, kind : {"RESP", "ONE_STEP_RESP", "FUP"},
             age : 0 .. Window - 1, mine : BOOLEAN]

ASSUME NoneAssumption == None \notin Messages \cup Peers

\* The sequence number of a message is that of the newest request.
SameSequence(m) == m.age % SeqIds = 0

VARIABLES
    peers,   \* the ports that answer
    port,    \* struct port, see PortType
    peerUp,  \* the peers answer
    meas,    \* history: the last step completed an exchange
    misses   \* history: requests a single peer left unanswered since, saturating

vars == <<peers, port, peerUp, meas, misses>>

MaxMisses == Allowed + 3

\* Stored messages keep their age: a new request forgets them.
PortType ==
    [up : BOOLEAN,                           \* enabled; FAULTY otherwise
     req : BOOLEAN,                          \* p->peer_delay_req
     resp : Messages \cup {None},            \* p->peer_delay_resp
     fup : Messages \cup {None},             \* p->peer_delay_fup
     pdr_missing : 0 .. Allowed + 1,
     multiple_pdr_detected : BOOLEAN,
     multiple_seq_pdr_count : 0 .. Allowed + 1,
     peer : Peers \cup {None},               \* peer_portid, when valid
     delay : {"ok", "out_of_range"},         \* peer_delay and its thresholds
     ingress : BOOLEAN, count : 0 .. MaxCount, ratio_valid : BOOLEAN,
     asCapable : BOOLEAN,
     tlv : BOOLEAN]                          \* gPTP-capable TLV sent in this step

-----------------------------------------------------------------------------
port_nrate_initialize(p) ==
    [p EXCEPT !.pdr_missing = Allowed + 1, !.peer = None, !.ingress = FALSE,
              !.count = 0, !.ratio_valid = FALSE]

\* The estimate is skipped, and counting goes on, when the time stamps are bad.
port_nrate_calculate(p, bad) ==
    LET reached == p.ingress /\ p.count + 1 >= MaxCount
        valid   == reached /\ ~bad
    IN  [p EXCEPT !.pdr_missing = 0,
                  !.ingress = TRUE,
                  !.count = IF ~p.ingress THEN @
                            ELSE IF valid THEN 0
                            ELSE IF reached THEN MaxCount ELSE @ + 1,
                  !.ratio_valid = @ \/ valid]

\* Mutants: lost responses, or the missing rate estimate, do not matter.
CapableInSilence(p) ==
    /\ p.delay = "ok"
    /\ p.multiple_seq_pdr_count <= Allowed
    /\ p.peer # None \/ p.multiple_pdr_detected
    /\ p.ratio_valid

CapableUnmeasured(p) ==
    /\ p.delay = "ok"
    /\ p.pdr_missing <= Allowed
    /\ p.multiple_seq_pdr_count <= Allowed
    /\ p.peer # None \/ p.multiple_pdr_detected

\* The conditions of port_capable().
Capable(p) ==
    /\ p.delay = "ok"
    /\ p.pdr_missing <= Allowed
    /\ p.multiple_seq_pdr_count <= Allowed
    /\ p.peer # None \/ p.multiple_pdr_detected
    /\ p.ratio_valid

port_capable(p) ==
    IF Capable(p)
    THEN [p EXCEPT !.tlv = @ \/ ~p.asCapable, !.asCapable = TRUE]
    ELSE [IF p.asCapable THEN port_nrate_initialize(p) ELSE p
            EXCEPT !.tlv = TRUE, !.asCapable = FALSE]

\* flush_peer_delay()
flush_peer_delay(p) == [p EXCEPT !.req = FALSE, !.resp = None, !.fup = None]

\* Mutant: the follow up may come from another port.
CompleteAnySource(p) ==
    /\ p.req /\ p.resp # None
    /\ p.resp.mine /\ SameSequence(p.resp)
    /\ \/ p.resp.kind = "ONE_STEP_RESP"
       \/ p.fup # None /\ p.fup.mine /\ SameSequence(p.fup)

\* The exchange that port_peer_delay() can complete with what is stored.
Complete(p) ==
    /\ p.req /\ p.resp # None
    /\ p.resp.mine /\ SameSequence(p.resp)
    /\ \/ p.resp.kind = "ONE_STEP_RESP"
       \/ /\ p.fup # None /\ p.fup.mine
          /\ SameSequence(p.fup) /\ p.fup.src = p.resp.src

\* The port before a reception or a timeout.
Idle(p) == [p EXCEPT !.tlv = FALSE]

\* EV_FAULT_DETECTED: the port is disabled.
Faulted(p) == [flush_peer_delay(p) EXCEPT !.up = FALSE]

-----------------------------------------------------------------------------
Init ==
    /\ peers \in PeerSets
    /\ port = [up |-> TRUE, req |-> FALSE, resp |-> None, fup |-> None,
               pdr_missing |-> Allowed + 1, multiple_pdr_detected |-> FALSE,
               multiple_seq_pdr_count |-> 0, peer |-> None, delay |-> "ok",
               ingress |-> FALSE, count |-> 0, ratio_valid |-> FALSE,
               asCapable |-> FALSE, tlv |-> TRUE]
    /\ peerUp \in BOOLEAN
    /\ meas = FALSE
    /\ misses = 0

\* Mutant: misses are not counted.
NotMissed(p, q) == q.pdr_missing

\* The new count of misses when q, which was p before port_capable(), sends.
Missed(p, q) == IF p.req /\ q.asCapable THEN q.pdr_missing + 1 ELSE q.pdr_missing

\* What port_delay_request() and port_pdelay_request() forget before they send.
Forgotten(p) ==
    [Idle(p) EXCEPT !.resp = None, !.fup = None,
                    !.multiple_seq_pdr_count =
                       IF p.multiple_pdr_detected THEN @ ELSE 0,
                    !.multiple_pdr_detected = FALSE]

\* FD_DELAY_TIMER: port_delay_request() and port_pdelay_request()
port_pdelay_request ==
    /\ port.up
    /\ LET p == Forgotten(port)
           q == IF p.req THEN port_capable(p) ELSE p
       IN  port' = [q EXCEPT !.req = TRUE, !.pdr_missing = Missed(p, q)]
    /\ misses' = IF port.req /\ Cardinality(peers) = 1 /\ misses < MaxMisses
                 THEN misses + 1 ELSE misses
    /\ meas' = FALSE
    /\ UNCHANGED <<peers, peerUp>>

\* A request that cannot be sent is a fault.
RequestFails ==
    /\ port.up
    /\ port' = Faulted(Forgotten(port))
    /\ meas' = FALSE
    /\ UNCHANGED <<peers, peerUp, misses>>

\* port_peer_delay() once the answer is stored in p; the new delay may be out
\* of the configured range.
PeerDelayDone(p) ==
    \/ /\ Complete(p)
       /\ \E delay \in {"ok", "out_of_range"}, bad \in BOOLEAN :
            port' = [port_nrate_calculate(p, bad) EXCEPT !.req = FALSE,
                                                         !.delay = delay]
       /\ meas' = TRUE
       /\ misses' = 0
    \/ /\ ~Complete(p)
       /\ port' = p /\ meas' = FALSE
       /\ UNCHANGED misses

\* process_pdelay_resp(), after port_ignore() evaluated asCapable
process_pdelay_resp(m) ==
    /\ port.up /\ m.kind # "FUP" /\ peerUp
    /\ LET p0 == port_capable(Idle(port))
           second == p0.resp # None
           p1 == IF second /\ ~p0.multiple_pdr_detected
                 THEN [p0 EXCEPT !.multiple_pdr_detected = TRUE,
                                 !.multiple_seq_pdr_count = @ + 1]
                 ELSE p0
           p2 == IF p1.peer = None THEN [p1 EXCEPT !.peer = m.src]
                 ELSE IF p1.peer = m.src THEN p1
                 ELSE port_capable([p1 EXCEPT !.peer = None])
       IN  \/ /\ second /\ p1.multiple_seq_pdr_count > Allowed
              /\ port' = Faulted(p1)
              /\ meas' = FALSE /\ UNCHANGED misses
           \/ /\ ~(second /\ p1.multiple_seq_pdr_count > Allowed)
              /\ ~p1.req                   \* rogue peer delay response
              /\ port' = Faulted(p1)
              /\ meas' = FALSE /\ UNCHANGED misses
           \/ /\ ~(second /\ p1.multiple_seq_pdr_count > Allowed)
              /\ p1.req
              /\ PeerDelayDone([p2 EXCEPT !.resp = m])
    /\ UNCHANGED <<peers, peerUp>>

\* process_pdelay_resp_fup()
process_pdelay_resp_fup(m) ==
    /\ port.up /\ m.kind = "FUP" /\ peerUp
    /\ LET p == port_capable(Idle(port))
       IN  IF ~p.req
           THEN port' = p /\ meas' = FALSE /\ UNCHANGED misses
           ELSE PeerDelayDone([p EXCEPT !.fup = m])
    /\ UNCHANGED <<peers, peerUp>>

\* process_pdelay_req() of a peer: it may tell another peer port identity.
process_pdelay_req(peer) ==
    /\ port.up /\ peerUp
    /\ LET p == port_capable(Idle(port))
       IN  port' = IF p.peer = None THEN [p EXCEPT !.peer = peer]
                   ELSE IF p.peer = peer THEN p
                   ELSE port_capable([p EXCEPT !.peer = None])
    /\ meas' = FALSE
    /\ UNCHANGED <<peers, peerUp, misses>>

\* Any other reception: port_ignore() evaluates asCapable.
OtherReception ==
    /\ port.up
    /\ port' = port_capable(Idle(port))
    /\ meas' = FALSE
    /\ UNCHANGED <<peers, peerUp, misses>>

\* The transition to UNCALIBRATED flushes the exchange; a servo jump forgets
\* only the request (port_synchronize()).
Flush ==
    /\ port.up
    /\ port' \in {flush_peer_delay(Idle(port)), [Idle(port) EXCEPT !.req = FALSE]}
    /\ meas' = FALSE
    /\ UNCHANGED <<peers, peerUp, misses>>

\* The fault is cleared: port_initialize(), and the TLV sent in LISTENING.
port_initialize ==
    /\ ~port.up
    /\ port' = [port_nrate_initialize(port) EXCEPT
                  !.up = TRUE, !.multiple_seq_pdr_count = 0,
                  !.multiple_pdr_detected = FALSE,
                  !.asCapable = FALSE, !.tlv = TRUE]
    /\ misses' = 0
    /\ meas' = FALSE
    /\ UNCHANGED <<peers, peerUp>>

PeerChange ==
    /\ peerUp' = ~peerUp /\ port' = Idle(port) /\ meas' = FALSE
    /\ UNCHANGED <<peers, misses>>

Next ==
    \/ port_pdelay_request \/ RequestFails
    \/ \E m \in {x \in Messages : x.src \in peers} : process_pdelay_resp(m) \/ process_pdelay_resp_fup(m)
    \/ \E peer \in peers : process_pdelay_req(peer)
    \/ OtherReception
    \/ Flush
    \/ port_initialize
    \/ PeerChange

Spec == Init /\ [][Next]_vars

\* The delay timer keeps firing, unless sending fails and the port is faulty,
\* and the clock clears faults.
FairSpec == Spec /\ WF_vars(port_pdelay_request) /\ WF_vars(port_initialize)

-----------------------------------------------------------------------------
\* The types; the counters stay within the limits that port_capable() acts on.
TypeOK ==
    /\ peers \in PeerSets
    /\ port \in PortType
    /\ peerUp \in BOOLEAN /\ meas \in BOOLEAN
    /\ misses \in 0..MaxMisses

\* A measurement takes its four time stamps from one exchange: the response
\* and its follow up are answers of one peer to the request that was timed,
\* in spite of loss, duplication and reordering (port_peer_delay()).
OneExchange ==
    meas => /\ port.resp.age = 0 /\ port.resp.mine
            /\ port.resp.kind = "RESP" =>
                 /\ port.fup.age = 0 /\ port.fup.mine
                 /\ port.fup.src = port.resp.src

\* asCapable is lost in time: a port keeps it for at most one unanswered
\* request beyond allowedLostResponses, also when the losses began before it
\* became capable, which pdr_missing does not count (port_pdelay_request()).
LossNoticed == port.up /\ port.asCapable => misses <= Allowed + 1

\* A port that is capable has estimated the neighbor's rate from measurements
\* made since it last was not (port_nrate_initialize()).
CapableIsMeasured == port.asCapable => port.ratio_valid /\ port.ingress

\* A port whose neighbor stays silent ends up not capable, provided that the
\* exchange is not flushed for ever: a request that a flush forgets is never
\* counted as missed (port_pdelay_request(), flush_peer_delay()).
SilenceEndsCapability ==
    (<>[](~peerUp) /\ <>[][~Flush]_vars) => <>[](~port.asCapable)

\* asCapable is earned by measurements and lost with the answers: LossNoticed and
\* CapableIsMeasured, in a state of the right type.
CapableIsEarned == TypeOK /\ LossNoticed /\ CapableIsMeasured
=============================================================================
