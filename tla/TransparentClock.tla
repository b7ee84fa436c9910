--------------------------- MODULE TransparentClock ---------------------------
(****************************************************************************)
(* An end to end or peer to peer transparent clock: tc.c, e2e_tc.c and      *)
(* p2p_tc.c.  Messages are forwarded out of the other ports; the residence  *)
(* time of an event message is remembered per egress port, and goes into    *)
(* the correction of the Follow_Up or of the Delay_Resp that belongs to it. *)
(*                                                                          *)
(* A residence time is the number of the event message and the ports it     *)
(* came in and left by.  Numbers grow with time, one each second; the       *)
(* sequence id is the number modulo IdMod.  What the clock's own port does *)
(* with its copy of a message is in SyncFup and PeerDelay.                  *)
(****************************************************************************)
EXTENDS PortFsm, Integers, Sequences, SequencesExt, FiniteSets

CONSTANTS
    NPorts,     \* network ports; they are visited in the order of the list
    Ingress,    \* the ports by which messages arrive
    Confs,      \* the configurations considered
    IdMod,     \* 2^16 in the code
    SharedIdentity, \* the masters of both domains have the same port identity
    MaxTime,    \* bound: seconds
    MaxMessages,\* bound: messages received in a behaviour
    MaxEvents   \* bound: events of the clock, faults and failures in a behaviour

ASSUME TcAssumption ==
    /\ NPorts \in Nat \ {0} /\ IdMod \in Nat \ {0, 1}
    /\ Ingress \subseteq 1..NPorts
    /\ Confs \subseteq [dm : {"E2E", "P2P"}, spanning : BOOLEAN, asap : BOOLEAN]
    /\ {MaxTime, MaxMessages, MaxEvents} \subseteq Nat

Ports == 1..NPorts

VARIABLES
    conf,       \* the configuration; never changes
    ports,      \* struct port, for each
    now,        \* seconds
    messages, events,  \* counters for the bounds
    broken,     \* a descriptor was released twice: anything may follow
    out         \* history: what the last step sent with a residence time

tcvars == <<conf, ports, now, messages, events, broken, out>>

TcTimers == {"ANNOUNCE", "DELAY", "QUALIFICATION"}
EventTypes == {"SYNC", "DELAY_REQ"}
MessageTypes == EventTypes \cup {"FOLLOW_UP", "DELAY_RESP", "GENERAL"}

\* foreign: the message is of another domain.  oneStep is a flag of a Sync.
Message == [type : MessageTypes, num : 0..MaxTime, foreign : BOOLEAN, oneStep : BOOLEAN]

NoResidence == <<-1, 0, 0>>

\* struct tc_txd; kept is a history: the port had no delay timer at the time,
\* that is nothing prunes the list.
Txd == [msg : Message, residence : (-1..MaxTime) \X (0..NPorts) \X (0..NPorts),
        ingress_port : Ports, host : 0..MaxTime, kept : BOOLEAN]

\* The types; descriptors hold residence times of real ports (tc_fwd_event()).
TcTypeOK ==
    /\ conf \in Confs
    /\ \A p \in Ports :
           /\ ports[p].state \in PortStates
           /\ ports[p].timers \subseteq TcTimers
           /\ \A k \in DOMAIN ports[p].queue : ports[p].queue[k] \in Txd
    /\ now \in 0..MaxTime
    /\ messages \in 0..MaxMessages /\ events \in 0..MaxEvents
    /\ broken \in BOOLEAN

-----------------------------------------------------------------------------
Enabled(r) == r.state \notin {"INITIALIZING", "FAULTY", "DISABLED"}

Down == {"INITIALIZING", "FAULTY", "DISABLED", "LISTENING", "PRE_MASTER", "PASSIVE"}
Masters == {"MASTER", "GRAND_MASTER"}
Slaves == {"UNCALIBRATED", "SLAVE"}

\* Is m, received on q, not to leave by p?
tc_blocked(list, q, p, m) ==
    LET up == m.type = "DELAY_REQ"   \* swims against the stream
    IN  \/ q = p
        \/ /\ conf.spanning /\ ~m.foreign
           /\ \/ list[q].state \in Down \cup (IF up THEN {} ELSE Masters)
              \/ list[p].state \in Down \cup (IF up THEN Masters ELSE Slaves)

\* Mutant: a disabled port keeps its list.
FlushNothing(r) == r

tc_flush(r) == [r EXCEPT !.queue = <<>>]
port_disable(r) == [tc_flush(r) EXCEPT !.timers = {}]

\* port_state_update(): faults may be cleared at once, and a port that is to
\* initialize does so at once (here with success, see Port).
port_state_update(r, event, mdiff) ==
    LET next == ptp_fsm(r.state, event, mdiff)
    IN  IF next = "INITIALIZING" \/ (next = "FAULTY" /\ conf.asap)
        THEN [(IF Enabled(r) THEN port_disable(r) ELSE r)
                EXCEPT !.state = "LISTENING", !.timers = {"ANNOUNCE"}]
        ELSE [r EXCEPT !.state = next]

\* Mutant: the delay timer is stopped with the others.
TransitionStopsDelay(r) ==
    [r EXCEPT !.timers =
        CASE r.state \in Electable -> {"ANNOUNCE"}
          [] r.state = "PRE_MASTER" -> {"QUALIFICATION"}
          [] OTHER -> {}]

\* The side effects of a new state.  The delay timer is left running.
Transition(r) ==
    IF r.state \in {"FAULTY", "DISABLED"} THEN port_disable(r)
    ELSE [r EXCEPT !.timers = (@ \cap {"DELAY"})
            \cup (IF r.state = "LISTENING" THEN {"ANNOUNCE", "DELAY"} ELSE {})
            \cup (IF r.state = "PRE_MASTER" THEN {"QUALIFICATION"} ELSE {})
            \cup (IF r.state \in Electable THEN {"ANNOUNCE"} ELSE {})]

\* e2e_dispatch(), p2p_dispatch()
dispatch(r, event, mdiff) ==
    LET s == port_state_update(r, event, mdiff)
    IN  IF s.state = r.state THEN s ELSE Transition(s)

-----------------------------------------------------------------------------
\* The forwarding functions work on a = [ports, out, left, broken],
\* left being the ports by which the message itself left.
Fault(a, p) == [a EXCEPT !.ports[p] = dispatch(@, "FAULT_DETECTED", FALSE)]

\* m leaves by p; link is the ingress port whose path delay is added, and kept
\* tells of the descriptor that was used.
Emit(a, p, m, residence, link, kept) ==
    [a EXCEPT !.out = @ \cup {[port |-> p, type |-> m.type, num |-> m.num,
                               foreign |-> m.foreign, residence |-> residence,
                               link |-> link, kept |-> kept]}]

Left(a, p) == [a EXCEPT !.left = @ \cup {p}]

sequenceId(m) == m.num % IdMod
Source(m) == m.foreign /\ ~SharedIdentity

\* Mutant: ports are counted from 0.
StoreFromZero(a, q, p, m, residence) ==
    [a EXCEPT !.ports[p].queue =
        Append(@, [msg |-> m, residence |-> residence, ingress_port |-> q - 1,
                   host |-> now, kept |-> FALSE])]

Store(a, q, p, m, residence) ==
    [a EXCEPT !.ports[p].queue =
        Append(@, [msg |-> m, residence |-> residence, ingress_port |-> q,
                   host |-> now, kept |-> "DELAY" \notin a.ports[p].timers])]

\* Mutant: the ingress port is not compared.
MatchAnyIngress(types, q, m, t) ==
    {m.type, t.msg.type} = types /\ sequenceId(m) = sequenceId(t.msg)

\* tc_match_syfup(), tc_match_delay().  The domain is not compared.
Matches(types, q, m, t) ==
    /\ t.ingress_port = q
    /\ sequenceId(m) = sequenceId(t.msg) /\ Source(m) = Source(t.msg)
    /\ {m.type, t.msg.type} = types

tc_match_syfup(q, m, t) == Matches({"SYNC", "FOLLOW_UP"}, q, m, t)
tc_match_delay(q, m, t) == Matches({"DELAY_REQ", "DELAY_RESP"}, q, m, t)

\* The first descriptor of a queue that passes the test, or 0.
FirstMatch(queue, Test(_)) ==
    LET found == {k \in DOMAIN queue : Test(queue[k])}
    IN  IF found = {} THEN 0 ELSE CHOOSE k \in found : \A j \in found : k <= j

\* A Follow_Up leaves with the residence time of its Sync, whichever came
\* first.  If that fails, the port's fault flushes the list with the
\* descriptor on it, which is then removed and recycled once more.
tc_complete_syfup(a, q, p, m, residence, fails) ==
    LET queue == a.ports[p].queue
        k     == FirstMatch(queue, LAMBDA t : tc_match_syfup(q, m, t))
        up    == Enabled(a.ports[p])
        drop(b) == [b EXCEPT !.ports[p].queue = RemoveAt(queue, k)]
    IN  CASE k = 0 -> Store(a, q, p, m, residence)
          [] k # 0 /\ ~up -> drop(Fault(a, p))
          [] k # 0 /\ up /\ p \in fails -> [Fault(a, p) EXCEPT !.broken = TRUE]
          [] k # 0 /\ up /\ p \notin fails ->
                 drop(IF m.type = "SYNC"
                      THEN Emit(a, p, queue[k].msg, residence, q, queue[k].kept)
                      ELSE Emit(a, p, m, queue[k].residence, q, queue[k].kept))

tc_complete_request(a, q, p, m, residence) == Store(a, q, p, m, residence)

\* The request left by q; a response without one goes nowhere.
tc_complete_response(a, q, p, m, fails) ==
    LET queue == a.ports[q].queue
        k     == FirstMatch(queue, LAMBDA t : tc_match_delay(p, m, t))
        sent  == IF p \in fails \/ ~Enabled(a.ports[p]) THEN Fault(a, p)
                 ELSE Emit(a, p, m, queue[k].residence, 0, queue[k].kept)
    IN  IF k = 0 THEN a ELSE [sent EXCEPT !.ports[q].queue = RemoveAt(queue, k)]

tc_complete(a, q, p, m, residence, fails) ==
    CASE m.type \in {"SYNC", "FOLLOW_UP"} -> tc_complete_syfup(a, q, p, m, residence, fails)
      [] m.type = "DELAY_REQ"  -> tc_complete_request(a, q, p, m, residence)
      [] m.type = "DELAY_RESP" -> tc_complete_response(a, q, p, m, fails)

\* The loops over the ports of the clock, in the order of the list.
ForEachPort(a, q, m, Body(_, _)) ==
    LET after[p \in 0..NPorts] ==
            IF p = 0 THEN a
            ELSE LET b == after[p - 1]
                 IN  IF tc_blocked(b.ports, q, p, m) THEN b ELSE Body(b, p)
    IN  after[NPorts]

\* m leaves by p, or cannot.
SendBy(b, p, fails) ==
    IF p \in fails \/ ~Enabled(b.ports[p]) THEN Fault(b, p) ELSE Left(b, p)

\* The time stamp of m on p; it has none where its transmission failed.
Stamp(b, q, p, m, left, fails) ==
    IF p \in fails.txts \/ p \notin left \/ ~Enabled(b.ports[p]) THEN Fault(b, p)
    ELSE tc_complete(b, q, p, m, <<m.num, q, p>>, fails.general)

\* The event message leaves by all ports, then the time stamps are fetched.
tc_fwd_event(a, q, m, fails) ==
    LET sent == ForEachPort(a, q, m, LAMBDA b, p : SendBy(b, p, fails.send))
    IN  ForEachPort(sent, q, m, LAMBDA b, p : Stamp(b, q, p, m, sent.left, fails))

\* tc_fwd_folup(), tc_fwd_response()
tc_fwd_folup(a, q, m, fails) ==
    ForEachPort(a, q, m, LAMBDA b, p : tc_complete(b, q, p, m, NoResidence, fails.general))

\* A one step Sync is split in two.
tc_fwd_sync(a, q, m, fails) ==
    LET first == tc_fwd_event(a, q, [m EXCEPT !.oneStep = FALSE], fails)
    IN  IF m.oneStep
        THEN tc_fwd_folup(first, q, [m EXCEPT !.type = "FOLLOW_UP", !.oneStep = FALSE], fails)
        ELSE first

\* Announce, Signaling and Management.
tc_forward(a, q, m, fails) ==
    ForEachPort(a, q, m, LAMBDA b, p : SendBy(b, p, fails.general))

Forwarded(a, q, m, fails) ==
    CASE m.type = "SYNC" -> tc_fwd_sync(a, q, m, fails)
      [] m.type = "FOLLOW_UP" -> tc_fwd_folup(a, q, m, fails)
      [] m.type = "DELAY_REQ" /\ conf.dm = "E2E" -> tc_fwd_event(a, q, m, fails)
      [] m.type = "DELAY_RESP" /\ conf.dm = "E2E" -> tc_fwd_folup(a, q, m, fails)
      [] m.type = "GENERAL" -> tc_forward(a, q, m, fails)
      [] OTHER -> a

\* Stale descriptors leave from the head of the list.
tc_prune(r) ==
    LET stale(t) == now - t.host >= 1
        k == FirstMatch(r.queue, LAMBDA t : ~stale(t))
    IN  [r EXCEPT !.queue = IF k = 0 THEN <<>> ELSE SubSeq(@, k, Len(@))]

-----------------------------------------------------------------------------
\* Descriptors and sockets may fail one after another, which is counted.
Failures == [send : SUBSET Ports, txts : SUBSET Ports, general : SUBSET Ports]
NoFailure == [send |-> {}, txts |-> {}, general |-> {}]
Single == {f \in Failures :
               Cardinality(f.send) + Cardinality(f.txts) + Cardinality(f.general) = 1}

CountFailure(fails) == events' = events + (IF fails = NoFailure THEN 0 ELSE 1)

\* e2e_event(), p2p_event(): a message that is neither unicast nor rejected.
Receive(q, m, fails) ==
    /\ ~broken /\ messages < MaxMessages /\ Enabled(ports[q])
    /\ LET a == Forwarded([ports |-> ports, out |-> {}, left |-> {}, broken |-> FALSE], q, m, fails)
       IN  /\ ports' = a.ports
           /\ out' = a.out
           /\ broken' = a.broken
    /\ messages' = messages + 1
    /\ CountFailure(fails)
    /\ UNCHANGED <<conf, now>>

\* An event of port p that leaves it as r.
Becomes(p, r) ==
    /\ ~broken
    /\ ports' = [ports EXCEPT ![p] = r]
    /\ out' = {}
    /\ UNCHANGED <<conf, now, messages, broken>>

\* FD_ANNOUNCE_TIMER, FD_SYNC_RX_TIMER
AnnounceTimeout(p) ==
    /\ "ANNOUNCE" \in ports[p].timers
    /\ Becomes(p, dispatch(ports[p], "ANNOUNCE_RECEIPT_TIMEOUT_EXPIRES", FALSE))

\* FD_DELAY_TIMER; a delay request that fails is a fault.
DelayTimeout(p, event) ==
    /\ "DELAY" \in ports[p].timers
    /\ Becomes(p, dispatch([tc_prune(ports[p]) EXCEPT !.timers = @ \cup {"DELAY"}],
                           event, FALSE))

\* FD_QUALIFICATION_TIMER
QualificationTimeout(p) ==
    /\ "QUALIFICATION" \in ports[p].timers
    /\ Becomes(p, dispatch(ports[p], "QUALIFICATION_TIMEOUT_EXPIRES", FALSE))

\* The clock's decisions, FD_RTNL, the fault timer, and failures to receive.
ClockEvents == {"RS_MASTER", "RS_GRAND_MASTER", "RS_SLAVE", "RS_PASSIVE",
                "SYNCHRONIZATION_FAULT", "FAULT_DETECTED"}

ClockEvent(p, event) == Becomes(p, dispatch(ports[p], event, FALSE))

\* A second passes.  Delay timers run in every one of them, so that the
\* sequence ids do not wrap in the life of a descriptor: in the code this is
\* 65536 messages against the interval of the delay requests.
Tick ==
    /\ ~broken /\ now < MaxTime
    /\ \A p \in Ports : "DELAY" \in ports[p].timers /\ ports[p].queue # <<>>
           => Head(ports[p].queue).host = now
    /\ now' = now + 1
    /\ out' = {}
    /\ UNCHANGED <<conf, ports, messages, events, broken>>

-----------------------------------------------------------------------------
\* A network port in state s as its last transition left it.
Running(s) == Transition([state |-> s, timers |-> {"DELAY"}, queue |-> <<>>])

TcInit ==
    /\ conf \in Confs
    /\ ports = [p \in Ports |-> Running(IF p = 1 THEN "SLAVE" ELSE "MASTER")]
    /\ now = 0 /\ messages = 0 /\ events = 0
    /\ broken = FALSE /\ out = {}

Arrives(type) ==
    \E q \in Ingress, foreign, oneStep \in BOOLEAN, fails \in {NoFailure} \cup Single :
        /\ oneStep => type = "SYNC"
        /\ foreign => conf.spanning /\ type \in {"SYNC", "FOLLOW_UP"}
        /\ fails # NoFailure => events < MaxEvents
        /\ Receive(q, [type |-> type, num |-> now, foreign |-> foreign,
                       oneStep |-> oneStep], fails)

\* Limited in number.
Event(A(_)) == events < MaxEvents /\ events' = events + 1 /\ \E p \in Ports : A(p)

Calm(p) ==
    \/ DelayTimeout(p, "NONE")
    \/ QualificationTimeout(p)
    \/ ports[p].state = "FAULTY" /\ ClockEvent(p, "FAULT_CLEARED")

TcNext ==
    \/ \E type \in MessageTypes : Arrives(type)
    \/ \E p \in Ports : Calm(p) /\ UNCHANGED events
    \/ Tick
    \/ Event(AnnounceTimeout)
    \/ Event(LAMBDA p : DelayTimeout(p, "FAULT_DETECTED"))
    \/ \E event \in ClockEvents : Event(LAMBDA p : ClockEvent(p, event))

TcSpec == TcInit /\ [][TcNext]_tcvars

-----------------------------------------------------------------------------
\* What leaves with a residence time was on its way by that very port: a
\* Follow_Up carries the time its own Sync took, and the path delay of the port
\* the Sync came in by; a Delay_Resp that of its request, and goes where the
\* request came from.  The exception is a descriptor stored on a port without
\* a delay timer, say one that is down: nothing prunes it, and it may meet a
\* message of a later round of sequence ids.
ResidenceBelongs ==
    \A o \in out :
        \/ o.kept
        \/ o.type \notin {"FOLLOW_UP", "DELAY_RESP"}
        \/ o.type = "FOLLOW_UP" /\ o.residence = <<o.num, o.link, o.port>>
        \/ /\ o.type = "DELAY_RESP"
           /\ o.residence[1] = o.num /\ o.residence[2] = o.port

\* A port that is down holds no message, except that without the spanning tree
\* rules, or for another domain, the Follow_Ups it cannot forward pile up.
DownHoldsNothing ==
    \A p \in Ports :
        \/ Enabled(ports[p])
        \/ \A k \in DOMAIN ports[p].queue :
               LET t == ports[p].queue[k]
               IN  t.msg.type = "FOLLOW_UP" /\ (conf.spanning => t.msg.foreign)

\* The lists of enabled ports are pruned, and ports that wait for a master hear
\* of its silence.  A fault in LISTENING that is cleared at once loses the
\* delay timer, since the state does not change.
KeepsPruning ==
    \A p \in Ports :
        /\ Enabled(ports[p]) /\ ~conf.asap => "DELAY" \in ports[p].timers
        /\ ports[p].state \in Electable => "ANNOUNCE" \in ports[p].timers

\* The lists of transmitted messages are kept short: DownHoldsNothing and
\* KeepsPruning, in a state of the right type.
ListsInOrder == TcTypeOK /\ DownHoldsNothing /\ KeepsPruning
=============================================================================
