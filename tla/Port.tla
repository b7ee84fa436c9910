--------------------------------- MODULE Port ---------------------------------
(****************************************************************************)
(* One BC/OC network port of port.c: its state machine, the timers it arms, *)
(* the descriptors it owns, its link status and its faults.                 *)
(*                                                                          *)
(* The clock's loop is the environment: it polls the port's descriptors,    *)
(* handles the ready ones in the order of fd.h (port_event, then            *)
(* port_dispatch), takes state decisions when one is due, and clears faults *)
(* with the port's fault timer.  What a received message means is left to   *)
(* the other modules; here a reception has one of the effects that matter   *)
(* to the port's life cycle.                                                *)
(****************************************************************************)
EXTENDS PortFsm, Naturals, FiniteSets

CONSTANTS
    Configs,   \* the configurations considered; each run of the port has one
    MaxReady   \* bound: descriptors that become ready in one poll()

Mechanisms == {"E2E", "P2P", "COMMON_P2P"}

\* The configuration items of port_open() and port_initialize() that the life
\* cycle depends on.  inhibitDelay stands for inhibit_delay_req and for the
\* delay mechanism "none", which sets it; asap and badPeerAsap say whether
\* fault_reset_interval and fault_badpeernet_interval are ASAP.
ConfigType ==
    [fsm : Machines, dm : Mechanisms, slaveOnly : BOOLEAN,
     inhibitAnnounce : BOOLEAN, inhibitDelay : BOOLEAN, asap : BOOLEAN,
     badPeerAsap : BOOLEAN, jbod : BOOLEAN, unicast : BOOLEAN, raw : BOOLEAN,
     delayTimeout : BOOLEAN]

ASSUME ConfigsAssumption == Configs \subseteq ConfigType
ASSUME MaxReadyAssumption == MaxReady \in Nat \ {0}

Timers == {"DELAY", "ANNOUNCE", "SYNC_RX", "QUALIFICATION", "MANNO", "SYNC_TX",
           "UNICAST_REQ", "UNICAST_SRV"}
Sockets == {"EVENT", "CMLDS", "RTNL"}   \* EVENT: the event and general sockets

\* The position of a descriptor in fd.h's enum.
FdRank(fd) ==
    CASE fd = "EVENT" -> 0          [] fd = "DELAY" -> 2
      [] fd = "ANNOUNCE" -> 3       [] fd = "SYNC_RX" -> 4
      [] fd = "QUALIFICATION" -> 5  [] fd = "MANNO" -> 6
      [] fd = "SYNC_TX" -> 7        [] fd = "UNICAST_REQ" -> 8
      [] fd = "UNICAST_SRV" -> 9    [] fd = "CMLDS" -> 10
      [] fd = "RTNL" -> 11

LinkFlags == {"LINK_UP", "LINK_DOWN", "LINK_STATE_CHANGED", "TS_LABEL_CHANGED"}
FaultTypes == {"FT_UNSPECIFIED", "FT_BAD_PEER_NETWORK", "FT_SWITCH_PHC"}

\* Message queues of the port that hold references on messages.
Queues == {"syfu", "delay_req", "peer_delay", "foreign_masters"}

VARIABLES
    cfg,      \* the port's configuration; never changes
    port,     \* struct port
    ready,    \* descriptors the current poll() round has still to handle
    sde,      \* the clock owes a state decision
    osUp,     \* sockets and timers can be opened
    cmldsUp   \* the CMLDS server accepts requests

vars == <<cfg, port, ready, sde, osUp, cmldsUp>>

PortType ==
    [state : PortStates,
     timers : [Timers -> {"off", "armed", "expired"}],
     fds : {"open", "closed", "dangling"},    \* the timer entries of p->fda
     trp : BOOLEAN,                           \* p->trp is open
     pmc : BOOLEAN, leaked : BOOLEAN,         \* p->cmlds.pmc; a lost pmc
     link : SUBSET LinkFlags,
     lastFault : FaultTypes,
     held : SUBSET Queues,
     dirty : BOOLEAN]                         \* p->unicast_state_dirty

-----------------------------------------------------------------------------
noop == cfg.fsm \in {"designated_master_fsm", "designated_slave_fsm"}

AllOff == [t \in Timers |-> "off"]

\* Mutant: a zero interval, which disarms the timer.
set_tmo_zero(p, t) == [p EXCEPT !.timers[t] = "off"]

\* timerfd_settime() on a descriptor of p->fda; it fails when that is closed.
set_tmo(p, t) == IF p.fds = "open" THEN [p EXCEPT !.timers[t] = "armed"] ELSE p
port_clr_tmo(p, t) == [p EXCEPT !.timers[t] = "off"]

port_set_delay_tmo(p) == IF cfg.inhibitDelay THEN p ELSE set_tmo(p, "DELAY")

port_is_enabled(s) == s \notin {"INITIALIZING", "FAULTY", "DISABLED"}

clear_fault_asap(ft) ==
    \/ ft = "FT_UNSPECIFIED" /\ cfg.asap
    \/ ft = "FT_BAD_PEER_NETWORK" /\ cfg.badPeerAsap

port_disable(p) ==
    [p EXCEPT !.held = {}, !.timers = AllOff, !.fds = "closed", !.trp = FALSE,
              !.pmc = FALSE]

InitOk == osUp /\ (cfg.dm = "COMMON_P2P" => cmldsUp)

\* Mutant: the fault type is reset to the count of fault types.
port_initialize_ft_cnt(p) ==
    [p EXCEPT !.lastFault = "FT_CNT",
              !.fds = IF osUp THEN "open" ELSE @, !.trp = osUp]

\* The error path after the timers were stored in p->fda (no_tmo) closes them
\* but leaves their numbers and the new CMLDS client in place.
port_initialize(p) ==
    LET reset   == [p EXCEPT !.lastFault = "FT_UNSPECIFIED"]
        common  == cfg.dm = "COMMON_P2P"
        started == [t \in Timers |->
                      IF \/ t = "ANNOUNCE"
                         \/ t = "UNICAST_REQ" /\ cfg.unicast
                         \/ t = "DELAY" /\ noop /\ ~cfg.inhibitDelay
                      THEN "armed" ELSE "off"]
    IN  IF ~osUp THEN reset
        ELSE [reset EXCEPT !.fds = IF InitOk THEN "open" ELSE "dangling",
                           !.trp = InitOk,
                           !.timers = IF InitOk THEN started ELSE AllOff,
                           !.leaked = @ \/ (common /\ p.pmc),
                           !.pmc = @ \/ common]

\* port_state_update(): a fault that is to be cleared as soon as possible is.
ClearAsap(p, next) ==
    IF next = "FAULTY" /\ "LINK_UP" \in p.link /\ clear_fault_asap(p.lastFault)
    THEN state_machine(cfg.fsm, "FAULTY", "FAULT_CLEARED", FALSE)
    ELSE next

\* A port about to initialize is initialized at once; q is p so far.
Base(p) == IF port_is_enabled(p.state) THEN port_disable(p) ELSE p

SetState(p, q, next, mdiff) ==
    [q EXCEPT !.state = next, !.dirty = @ \/ mdiff \/ next # p.state]

Initialized(p, next, mdiff) ==
    IF next = "INITIALIZING"
    THEN SetState(p, port_initialize(Base(p)),
                  state_machine(cfg.fsm, "INITIALIZING",
                    IF InitOk THEN "INIT_COMPLETE" ELSE "FAULT_DETECTED", FALSE),
                  mdiff)
    ELSE SetState(p, p, next, mdiff)

port_state_update(p, event, mdiff) ==
    Initialized(p, ClearAsap(p, state_machine(cfg.fsm, p.state, event, mdiff)), mdiff)

\* port_e2e_transition() and port_p2p_transition(): the timers of the new
\* state.  A peer delay port leaves its delay timer running.
Transition(p) ==
    LET p2p     == cfg.dm \in {"P2P", "COMMON_P2P"}
        start   == {t \in Timers :
                      \/ /\ t = "ANNOUNCE"
                         /\ p.state \in {"LISTENING", "PASSIVE", "UNCALIBRATED", "SLAVE"}
                      \/ t = "QUALIFICATION" /\ p.state = "PRE_MASTER"
                      \/ /\ t = "MANNO" /\ ~cfg.inhibitAnnounce
                         /\ p.state \in {"MASTER", "GRAND_MASTER"}
                      \/ t = "SYNC_TX" /\ p.state \in {"MASTER", "GRAND_MASTER"}
                      \/ /\ t = "DELAY" /\ ~cfg.inhibitDelay
                         /\ p.state \in IF p2p THEN {"LISTENING"}
                                        ELSE {"UNCALIBRATED", "SLAVE"}}
        running == {"UNICAST_REQ", "UNICAST_SRV"}
                   \cup (IF p2p THEN {"DELAY"} ELSE {})
        timers  == [t \in Timers |->
                      IF t \in start /\ p.fds = "open" THEN "armed"
                      ELSE IF t \in running THEN p.timers[t] ELSE "off"]
        flushed == IF p.state = "UNCALIBRATED"
                   THEN {"syfu", IF p2p THEN "peer_delay" ELSE "delay_req"}
                   ELSE {}
    IN  IF p.state \in {"FAULTY", "DISABLED"}
        THEN port_disable(p)
        ELSE [p EXCEPT !.timers = timers, !.held = @ \ flushed]

\* Mutant: a port that becomes faulty is not disabled.
EnterStillUp(p, q) ==
    IF q.state \in {p.state, "FAULTY"} THEN q ELSE Transition(q)

\* bc_dispatch(): a change of the state from p to q is a transition.
Enter(p, q) == IF q.state = p.state THEN q ELSE Transition(q)

Dispatched(p, event, mdiff) == Enter(p, port_state_update(p, event, mdiff))

\* bc_dispatch(): a port with a clock of its own that has become uncalibrated
\* switches to that clock, or is faulty; switched is clock_switch_phc()'s outcome.
SwitchPhc(p, q, switched) ==
    IF /\ q.state # p.state /\ q.state = "UNCALIBRATED"
       /\ cfg.jbod /\ ~switched
    THEN Dispatched([q EXCEPT !.lastFault = "FT_SWITCH_PHC"], "FAULT_DETECTED", FALSE)
    ELSE q

bc_dispatch(p, event, mdiff, switched) ==
    SwitchPhc(p, Dispatched(p, event, mdiff), switched)

-----------------------------------------------------------------------------
Init ==
    /\ cfg \in Configs
    /\ port = [state |-> "INITIALIZING", timers |-> AllOff, fds |-> "closed",
               trp |-> FALSE, pmc |-> FALSE, leaked |-> FALSE,
               link |-> {"LINK_UP"}, lastFault |-> "FT_UNSPECIFIED",
               held |-> {}, dirty |-> FALSE]
    /\ ready = {}
    /\ sde = FALSE
    /\ osUp \in BOOLEAN
    /\ cmldsUp \in BOOLEAN /\ (cfg.dm # "COMMON_P2P" => cmldsUp)

\* The clock starts the port.
Powerup ==
    /\ port.state = "INITIALIZING"
    /\ port' = bc_dispatch(port, "INITIALIZE", FALSE, TRUE)
    /\ UNCHANGED <<cfg, ready, sde, osUp, cmldsUp>>

\* poll(): some armed timers expire and some sockets have input.  A timer that
\* expired earlier and was neither armed nor cleared since is ready again.
Poll ==
    /\ port.state # "INITIALIZING"
    /\ ready = {} /\ ~sde
    /\ \E expire \in SUBSET {t \in Timers : port.timers[t] = "armed"},
          input  \in SUBSET ({"RTNL"} \cup (IF port.trp THEN {"EVENT"} ELSE {})
                                      \cup (IF port.pmc THEN {"CMLDS"} ELSE {})) :
         /\ Cardinality(expire) + Cardinality(input) \in 1..MaxReady
         /\ port' = [port EXCEPT !.timers =
                       [t \in Timers |-> IF t \in expire THEN "expired" ELSE @[t]]]
         /\ ready' = input \cup {t \in Timers : port'.timers[t] = "expired"}
    /\ UNCHANGED <<cfg, sde, osUp, cmldsUp>>

\* The clock handles fd, the first of the descriptors that are ready.
Handles(fd) == fd \in ready /\ \A other \in ready : FdRank(fd) <= FdRank(other)

\* The port reports event after the handler left it as p; the clock dispatches
\* it, notes that a state decision is due, and goes on with the round, which
\* it may give up when the port became faulty.
Reports(fd, p, event) ==
    /\ \E switched \in BOOLEAN : port' = bc_dispatch(p, event, FALSE, switched)
    /\ sde' = (\/ sde
               \/ event \in {"STATE_DECISION_EVENT",
                             "ANNOUNCE_RECEIPT_TIMEOUT_EXPIRES"})
    /\ ready' \in {ready \ {fd}} \cup (IF port'.state = "FAULTY" THEN {{}} ELSE {})
    /\ UNCHANGED <<cfg, osUp, cmldsUp>>

\* bc_event(), FD_ANNOUNCE_TIMER and FD_SYNC_RX_TIMER
ReceiptTimeout(fd) ==
    /\ Handles(fd)
    /\ \E pruned \in BOOLEAN :
         LET p1 == IF noop THEN port_clr_tmo(port, "SYNC_RX") ELSE port
             p2 == IF cfg.inhibitAnnounce THEN port_clr_tmo(p1, "ANNOUNCE")
                                          ELSE set_tmo(p1, "ANNOUNCE")
             p3 == IF pruned THEN [p2 EXCEPT !.held = @ \ {"delay_req"}] ELSE p2
             renew == /\ cfg.slaveOnly /\ cfg.dm # "P2P" /\ ~cfg.raw
                      /\ port_is_enabled(port.state)
             p4 == IF renew THEN [p3 EXCEPT !.trp = osUp] ELSE p3
         IN  Reports(fd, p4,
               IF renew /\ ~osUp THEN "FAULT_DETECTED"
               ELSE IF cfg.inhibitAnnounce THEN "NONE"
               ELSE "ANNOUNCE_RECEIPT_TIMEOUT_EXPIRES")

\* bc_event(), FD_DELAY_TIMER.  Sending or renewing the CMLDS subscription may
\* fail; a slave may run out of delay responses.
DelayTimeout ==
    /\ Handles("DELAY")
    /\ LET p == port_set_delay_tmo(port)
       IN  \/ Reports("DELAY", p, "FAULT_DETECTED")
           \/ cfg.dm = "COMMON_P2P" /\ Reports("DELAY", p, "NONE")
           \/ /\ cfg.dm # "COMMON_P2P" /\ port.trp
              /\ LET queue == IF cfg.dm = "P2P" THEN "peer_delay" ELSE "delay_req"
                     q == [p EXCEPT !.held = @ \cup {queue}]
                 IN  \/ Reports("DELAY", q, "NONE")
                     \/ /\ cfg.delayTimeout /\ port.state = "SLAVE"
                        /\ Reports("DELAY", q, "SYNCHRONIZATION_FAULT")

\* bc_event(), FD_QUALIFICATION_TIMER
QualificationTimeout ==
    /\ Handles("QUALIFICATION")
    /\ Reports("QUALIFICATION", port, "QUALIFICATION_TIMEOUT_EXPIRES")

\* Mutant: transmit without arming the timer again.
TransmitOnce(fd) ==
    /\ Handles(fd)
    /\ \E event \in {"NONE", "FAULT_DETECTED"} : Reports(fd, port, event)

\* bc_event(), FD_MANNO_TIMER and FD_SYNC_TX_TIMER: arm again, then transmit.
\* After a detected master restart the Sync is not sent, which reports NONE.
TransmitTimeout(fd) ==
    /\ Handles(fd)
    /\ \E event \in {"NONE", "FAULT_DETECTED"} : Reports(fd, set_tmo(port, fd), event)

\* bc_event(), FD_UNICAST_REQ_TIMER and FD_UNICAST_SRV_TIMER; the service timer
\* stops when no client is left.
UnicastTimeout(fd) ==
    /\ Handles(fd)
    /\ \E event \in {"NONE", "FAULT_DETECTED"} :
         \/ Reports(fd, set_tmo(port, fd), event)
         \/ /\ fd = "UNICAST_SRV" /\ Reports(fd, port_clr_tmo(port, fd), event)

\* bc_event(), FD_CMLDS
process_cmlds ==
    /\ Handles("CMLDS")
    /\ \E event \in {"NONE", "FAULT_DETECTED"} : Reports("CMLDS", port, event)

\* Mutant: a change of the link is stored but not flagged.
LinkStatusUnflagged(p, state, label, phc) == [p EXCEPT !.link = {state}]

\* port_link_status() with port_change_phc() for a notification about this
\* port's interface.
LinkStatus(p, state, label, phc) ==
    LET changed == IF state \in p.link THEN {} ELSE {"LINK_STATE_CHANGED"}
        named   == IF label THEN {"TS_LABEL_CHANGED"} ELSE {}
        q       == [p EXCEPT !.link = {state} \cup changed \cup named]
    IN  CASE state = "LINK_UP" /\ phc = "unsupported" ->
               [q EXCEPT !.link = {"LINK_DOWN", "LINK_STATE_CHANGED"}]
          [] state = "LINK_UP" /\ phc = "switch_failed" ->
               bc_dispatch([q EXCEPT !.lastFault = "FT_SWITCH_PHC"],
                           "FAULT_DETECTED", FALSE, TRUE)
          [] OTHER -> q

\* bc_event(), FD_RTNL: the event that the link flags stand for.
LinkEvent(p) ==
    CASE p.link = {"LINK_UP", "LINK_STATE_CHANGED"} -> "FAULT_CLEARED"
      [] \/ p.link = {"LINK_DOWN", "LINK_STATE_CHANGED"}
         \/ "TS_LABEL_CHANGED" \in p.link -> "FAULT_DETECTED"
      [] OTHER -> "NONE"

ReportsLink(p, own) ==
    /\ port' = bc_dispatch(p, LinkEvent(p), FALSE, TRUE)
    /\ sde' = (sde \/ (own /\ "LINK_DOWN" \in p.link))
    /\ ready' \in {ready \ {"RTNL"}} \cup (IF port'.state = "FAULTY" THEN {{}} ELSE {})
    /\ UNCHANGED <<cfg, osUp, cmldsUp>>

\* The status is evaluated after every notification, one about another
\* interface included, for which the callback is not called.
LinkNotification ==
    /\ Handles("RTNL")
    /\ \/ ReportsLink(port, FALSE)
       \/ \E state \in {"LINK_UP", "LINK_DOWN"}, label \in BOOLEAN,
             phc \in {"kept", "unsupported", "switch_failed"} :
            ReportsLink(LinkStatus(port, state, label, phc), TRUE)

Synced == {"UNCALIBRATED", "SLAVE"}

\* port_synchronize(): a complete Sync reaches the servo, whose verdict is
\* dispatched, with the message interval request's dispatch before it.
port_synchronize(p, verdict, restarted, sw1, sw2) ==
    LET q == set_tmo(p, "SYNC_RX")
        fault(r, sw) == bc_dispatch(r, "SYNCHRONIZATION_FAULT", FALSE, sw)
        selected(r, sw) == bc_dispatch(r, "MASTER_CLOCK_SELECTED", FALSE, sw)
    IN  CASE verdict = "SERVO_UNLOCKED" -> fault(q, sw1)
          [] verdict = "SERVO_JUMP" ->
               [fault(q, sw1) EXCEPT !.held = @ \ {"delay_req"}]
          [] verdict = "SERVO_LOCKED" -> selected(q, sw1)
          [] verdict = "SERVO_LOCKED_STABLE" ->
               selected(IF restarted THEN fault(q, sw1) ELSE q, sw2)

Verdicts == {"SERVO_UNLOCKED", "SERVO_JUMP", "SERVO_LOCKED", "SERVO_LOCKED_STABLE"}

\* bc_event(), the receive path
Receive ==
    /\ Handles("EVENT")
    /\ \/ \* receive or reply failed, or a rogue peer delay response
          Reports("EVENT", port, "FAULT_DETECTED")
       \/ \* too many responses in sequence
          /\ cfg.dm = "P2P" /\ port.trp /\ "peer_delay" \in port.held
          /\ Reports("EVENT", [port EXCEPT !.lastFault = "FT_BAD_PEER_NETWORK"],
                     "FAULT_DETECTED")
       \/ \* ignored, dropped by a handler, or answered
          port.trp /\ Reports("EVENT", port, "NONE")
       \/ \* Announce
          /\ port.trp /\ port_is_enabled(port.state)
          /\ Reports("EVENT", [port EXCEPT !.held = @ \cup {"foreign_masters"}],
                     "STATE_DECISION_EVENT")
       \/ \* half of a Sync / Follow_Up pair
          /\ port.trp /\ port.state \in Synced
          /\ Reports("EVENT", [port EXCEPT !.held = @ \cup {"syfu"}], "NONE")
       \/ \* a complete Sync
          /\ port.trp /\ port.state \in Synced
          /\ \E verdict \in Verdicts, restarted, sw1, sw2 \in BOOLEAN :
               Reports("EVENT",
                 [port_synchronize(port, verdict, restarted, sw1, sw2)
                    EXCEPT !.held = @ \ {"syfu"}], "NONE")
       \/ \* Delay_Resp to an outstanding request; it may change the interval
          /\ port.trp /\ port.state \in Synced /\ "delay_req" \in port.held
          /\ \E p \in {port, port_set_delay_tmo(port)},
                left \in {{}, {"delay_req"}} :
               Reports("EVENT", [p EXCEPT !.held = (@ \ {"delay_req"}) \cup left],
                       "NONE")
       \/ \* a peer delay response that completes the exchange
          /\ port.trp /\ cfg.dm = "P2P"
          /\ Reports("EVENT", [port EXCEPT !.held = @ \ {"peer_delay"}], "NONE")
       \/ \* Signaling that grants unicast service
          /\ port.trp /\ cfg.unicast /\ port_is_enabled(port.state)
          /\ Reports("EVENT", set_tmo(port, "UNICAST_SRV"), "NONE")

\* The clock's state decision: the recommended state of this port.
StateDecision ==
    /\ ready = {} /\ sde
    /\ \E event \in {"NONE", "RS_MASTER", "RS_GRAND_MASTER", "RS_SLAVE", "RS_PASSIVE"},
          mdiff, switched \in BOOLEAN :
         port' = bc_dispatch(port, event, mdiff, switched)
    /\ sde' = FALSE
    /\ UNCHANGED <<cfg, ready, osUp, cmldsUp>>

\* The clock's fault timer of a faulty port; with the link down it is ignored.
FaultTimeout ==
    /\ ready = {} /\ port.state = "FAULTY" /\ "LINK_UP" \in port.link
    /\ port' = bc_dispatch(port, "FAULT_CLEARED", FALSE, TRUE)
    /\ UNCHANGED <<cfg, ready, sde, osUp, cmldsUp>>

\* port_update_unicast_state(), called by the clock
UpdateUnicastState ==
    /\ port.dirty
    /\ port' = [port EXCEPT !.dirty = FALSE]
    /\ UNCHANGED <<cfg, ready, sde, osUp, cmldsUp>>

\* Resources and the CMLDS server come and go.
OsChange == osUp' = ~osUp /\ UNCHANGED <<cfg, port, ready, sde, cmldsUp>>
CmldsChange ==
    /\ cfg.dm = "COMMON_P2P"
    /\ cmldsUp' = ~cmldsUp /\ UNCHANGED <<cfg, port, ready, sde, osUp>>

Handler ==
    \/ Receive
    \/ DelayTimeout
    \/ ReceiptTimeout("ANNOUNCE") \/ ReceiptTimeout("SYNC_RX")
    \/ QualificationTimeout
    \/ TransmitTimeout("MANNO") \/ TransmitTimeout("SYNC_TX")
    \/ UnicastTimeout("UNICAST_REQ") \/ UnicastTimeout("UNICAST_SRV")
    \/ process_cmlds
    \/ LinkNotification

Clock == Powerup \/ Poll \/ StateDecision \/ FaultTimeout \/ UpdateUnicastState

Next == Handler \/ Clock \/ OsChange \/ CmldsChange

Spec == Init /\ [][Next]_vars

\* Every round of the clock's loop ends: what is ready is handled and the decision
\* that is owed is taken.  An expired fault timer stays readable, so some round
\* between others sees it.
Fairness == WF_vars(Powerup) /\ []<>(ready = {} /\ ~sde) /\ SF_vars(FaultTimeout)

FairSpec == Spec /\ Fairness

-----------------------------------------------------------------------------
\* The types; timers, descriptors and queues are in states that bc_event() and
\* port_initialize() can leave them in.
TypeOK ==
    /\ cfg \in Configs
    /\ port \in PortType
    /\ ready \subseteq Timers \cup Sockets
    /\ sde \in BOOLEAN /\ osUp \in BOOLEAN /\ cmldsUp \in BOOLEAN

Running(t) == port.timers[t] # "off"
Master == port.state \in {"MASTER", "GRAND_MASTER"}

\* A master transmits: the Sync timer, and the Announce timer unless announces
\* are inhibited, run in the master states, however the port got there
\* (port_*_transition(), FD_MANNO_TIMER, FD_SYNC_TX_TIMER).
NeverSilent ==
    Master => /\ Running("SYNC_TX")
              /\ cfg.inhibitAnnounce \/ Running("MANNO")

\* Only a master transmits: in every other state the Sync and Announce
\* transmit timers are stopped, also when a handler of the same poll() round
\* took the port out of the master state before theirs was called.  With ASAP
\* fault clearing that handler leaves the port enabled, and the late Sync
\* handler arms its timer in LISTENING.
OnlyMastersSend ==
    cfg.asap \/ (Running("SYNC_TX") \/ Running("MANNO") => Master)

\* A port that is not master notices that no master is left: the announce
\* receipt timer runs unless inhibited, and a port in PRE_MASTER has its
\* qualification timer (port_*_transition(), FD_ANNOUNCE_TIMER).
NeverDeaf ==
    /\ port.state \in {"LISTENING", "PASSIVE", "UNCALIBRATED", "SLAVE"}
         => cfg.inhibitAnnounce \/ Running("ANNOUNCE")
    /\ port.state = "PRE_MASTER" => Running("QUALIFICATION")

\* Delay measurement never stops: a peer delay port measures whenever it is
\* enabled, an end to end port while it follows a master
\* (port_initialize(), port_*_transition(), FD_DELAY_TIMER).
KeepsMeasuring ==
    \/ cfg.inhibitDelay
    \/ cfg.dm = "E2E" /\ port.state \notin Synced
    \/ ~port_is_enabled(port.state)
    \/ Running("DELAY")

\* A port is enabled exactly while its transport and timers are open, and a
\* port that is down keeps no message and no running timer; without CMLDS it
\* keeps no descriptor number but the rtnl socket either, and no client
\* (port_disable(), the error paths of port_initialize()).
DownOwnsNothing ==
    LET up == port_is_enabled(port.state)
    IN  /\ up <=> port.fds = "open"
        /\ up <=> port.trp
        /\ ~up => port.held = {} /\ port.timers = AllOff
        /\ \/ cfg.dm = "COMMON_P2P"
           \/ (~up => port.fds = "closed") /\ ~port.pmc /\ ~port.leaked

\* A port that knows its link is down does not run: neither ASAP fault clearing
\* nor a queued event revives it before the link is back
\* (port_state_update(), port_link_status()).
DownLinkIsFaulty == port_is_enabled(port.state) => "LINK_UP" \in port.link

\* The loop never spins: every expired timer is armed again or cleared by the
\* round that handles it (bc_event(): "Clear out the event returned by poll()").
NoSpin == ready = {} => \A t \in Timers : port.timers[t] # "expired"

\* A faulty port recovers: if the link stays up and its resources can be opened
\* from some time on, the port is enabled again and again.
Recovers ==
    <>[](osUp /\ cmldsUp /\ "LINK_UP" \in port.link)
       => []<>port_is_enabled(port.state)

\* The timers follow the state: the four invariants above together.
TimersFollowState == NeverSilent /\ OnlyMastersSend /\ NeverDeaf /\ KeepsMeasuring
=============================================================================
