----------------------------- MODULE Port_proof -----------------------------
(****************************************************************************)
(* Theorems about Port for every set of configurations: its types, that a   *)
(* port with its link down does not run, that a port that is down owns      *)
(* nothing, and, with the configurations the hypotheses name, that its      *)
(* timers are those of its state and that the loop never spins.             *)
(****************************************************************************)
EXTENDS Port, TLAPS

\* The states in which a port with machine m is enabled.
RunningStates(m) ==
    CASE m = "ptp_fsm" -> {"LISTENING", "PRE_MASTER", "MASTER", "PASSIVE",
                           "UNCALIBRATED", "SLAVE", "GRAND_MASTER"}
      [] m = "ptp_slave_fsm" -> {"LISTENING", "UNCALIBRATED", "SLAVE"}
      [] m = "designated_master_fsm" -> {"MASTER"}
      [] m = "designated_slave_fsm" -> {"SLAVE"}

\* The state that a completed initialization leads to.
FirstState(m) ==
    CASE m = "designated_master_fsm" -> "MASTER"
      [] m = "designated_slave_fsm" -> "SLAVE"
      [] OTHER -> "LISTENING"

\* The events that handlers and the clock dispatch to a started port.
Dispatchable == FsmEvents \ {"POWERUP", "INITIALIZE", "INIT_COMPLETE",
                             "DESIGNATED_ENABLED", "DESIGNATED_DISABLED"}

\* A running port moves between the running states of its machine until it is
\* faulty; only a cleared fault starts a faulty port again (fsm.c,
\* designated_fsm.c).
LEMMA Machine ==
    ASSUME NEW m \in Machines
    PROVE  /\ \A mdiff : \A s \in RunningStates(m), e \in Dispatchable :
                /\ state_machine(m, s, e, mdiff) \in RunningStates(m) \cup {"FAULTY"}
                /\ e = "FAULT_DETECTED" => state_machine(m, s, e, mdiff) = "FAULTY"
           /\ \A mdiff : \A e \in Dispatchable :
                state_machine(m, "FAULTY", e, mdiff) =
                   IF e = "FAULT_CLEARED" THEN "INITIALIZING" ELSE "FAULTY"
           /\ state_machine(m, "INITIALIZING", "INITIALIZE", FALSE) = "INITIALIZING"
           /\ state_machine(m, "INITIALIZING", "INIT_COMPLETE", FALSE) = FirstState(m)
           /\ FirstState(m) \in RunningStates(m)
           /\ state_machine(m, "INITIALIZING", "FAULT_DETECTED", FALSE) = "FAULTY"
<1> USE DEF Machines, state_machine, RunningStates, FirstState, Dispatchable, FsmEvents,
            Restart, BootFsm, ManagedFsm, Electable
<1>1. CASE m = "ptp_fsm" BY <1>1 DEF ptp_fsm
<1>2. CASE m = "ptp_slave_fsm" BY <1>2 DEF ptp_slave_fsm
<1>3. CASE m = "designated_master_fsm" BY <1>3 DEF designated_master_fsm, designated_fsm
<1>4. CASE m = "designated_slave_fsm" BY <1>4 DEF designated_slave_fsm, designated_fsm
<1> QED BY <1>1, <1>2, <1>3, <1>4

-----------------------------------------------------------------------------
\* A started port: running or faulty.
Started(p) == p \in PortType /\ p.state \in RunningStates(cfg.fsm) \cup {"FAULTY"}

\* What the environment variables and the configuration may be.
Environment == cfg \in ConfigType /\ osUp \in BOOLEAN /\ cmldsUp \in BOOLEAN

\* The running states are the ones port_is_enabled() accepts.
LEMMA Enabled ==
    ASSUME cfg \in ConfigType
    PROVE  /\ RunningStates(cfg.fsm) \subseteq PortStates
           /\ \A s \in RunningStates(cfg.fsm) : port_is_enabled(s)
           /\ ~port_is_enabled("FAULTY") /\ ~port_is_enabled("INITIALIZING")
           /\ "FAULTY" \notin RunningStates(cfg.fsm)
           /\ "INITIALIZING" \notin RunningStates(cfg.fsm)
BY DEF ConfigType, Machines, RunningStates, PortStates, port_is_enabled

\* port_disable() keeps the type, the state and the link.
LEMMA DisableType ==
    ASSUME NEW p \in PortType
    PROVE  /\ port_disable(p) \in PortType
           /\ port_disable(p).link = p.link /\ port_disable(p).state = p.state
BY DEF PortType, port_disable, AllOff

\* port_initialize() keeps the type and the link, whether it
\* succeeds or not.
LEMMA InitializeType ==
    ASSUME Environment, NEW p \in PortType
    PROVE  /\ port_initialize(p) \in PortType
           /\ port_initialize(p).link = p.link
<1> DEFINE started == [t \in Timers |->
                      IF \/ t = "ANNOUNCE"
                         \/ t = "UNICAST_REQ" /\ cfg.unicast
                         \/ t = "DELAY" /\ noop /\ ~cfg.inhibitDelay
                      THEN "armed" ELSE "off"]
           reset == [p EXCEPT !.lastFault = "FT_UNSPECIFIED"]
           common == cfg.dm = "COMMON_P2P"
           fds == IF InitOk THEN "open" ELSE "dangling"
           timers == IF InitOk THEN started ELSE AllOff
<1> HIDE DEF started
<1>1. started \in [Timers -> {"off", "armed", "expired"}] BY DEF started
<1>2. reset \in PortType /\ reset.link = p.link BY DEF PortType, FaultTypes
<1>3. InitOk \in BOOLEAN BY DEF Environment, InitOk
<1>4. timers \in [Timers -> {"off", "armed", "expired"}] BY <1>1 DEF AllOff
<1>5. fds \in {"open", "closed", "dangling"} OBVIOUS
<1>6. CASE ~osUp BY <1>2, <1>6 DEF port_initialize
<1>7. CASE osUp
  <2>1. port_initialize(p) =
          [reset EXCEPT !.fds = fds, !.trp = InitOk, !.timers = timers,
                        !.leaked = @ \/ (common /\ p.pmc), !.pmc = @ \/ common]
    BY <1>7 DEF port_initialize, started
  <2>2. /\ (reset.leaked \/ (common /\ p.pmc)) \in BOOLEAN
        /\ (reset.pmc \/ common) \in BOOLEAN
    BY <1>2 DEF PortType
  <2> HIDE DEF fds, timers, reset
  <2> QED BY <1>2, <1>3, <1>4, <1>5, <2>1, <2>2 DEF PortType
<1> QED BY <1>6, <1>7 DEF Environment

\* port_state_update() turns p into q without initializing the port ...
Kept(p, e, mdiff, q) ==
    /\ q = [p EXCEPT !.state = q.state, !.dirty = q.dirty]
    /\ q.dirty \in BOOLEAN
    /\ q.state = state_machine(cfg.fsm, p.state, e, mdiff)
    /\ q.state \in RunningStates(cfg.fsm) \cup {"FAULTY"}
    /\ e = "FAULT_DETECTED" \/ p.state = "FAULTY" => q.state = "FAULTY"

\* ... or initializes it, after disabling it if it was running.
Restarted(p, e, q) ==
    /\ q = [port_initialize(Base(p)) EXCEPT !.state = q.state, !.dirty = q.dirty]
    /\ q.dirty \in BOOLEAN
    /\ q.state = IF InitOk THEN FirstState(cfg.fsm) ELSE "FAULTY"
    /\ \/ "LINK_UP" \in p.link /\ clear_fault_asap(p.lastFault)
       \/ p.state = "FAULTY" /\ e = "FAULT_CLEARED"

\* What port_state_update() can do to a started port, by event and link.
LEMMA Update ==
    ASSUME Environment, NEW p, Started(p), NEW e \in Dispatchable, NEW mdiff
    PROVE  \/ Kept(p, e, mdiff, port_state_update(p, e, mdiff))
           \/ Restarted(p, e, port_state_update(p, e, mdiff))
<1> DEFINE next0 == state_machine(cfg.fsm, p.state, e, mdiff)
           asap == /\ next0 = "FAULTY" /\ "LINK_UP" \in p.link
                   /\ clear_fault_asap(p.lastFault)
           next1 == IF asap THEN state_machine(cfg.fsm, "FAULTY", "FAULT_CLEARED", FALSE)
                    ELSE next0
           d == Base(p)
           next2 == IF next1 = "INITIALIZING"
                    THEN state_machine(cfg.fsm, "INITIALIZING",
                           IF InitOk THEN "INIT_COMPLETE" ELSE "FAULT_DETECTED", FALSE)
                    ELSE next1
           base == IF next1 = "INITIALIZING" THEN port_initialize(d) ELSE p
           dirty2 == base.dirty \/ mdiff \/ next2 # p.state
<1>m. cfg.fsm \in Machines BY DEF Environment, ConfigType
<1>n. /\ \A s \in RunningStates(cfg.fsm), f \in Dispatchable :
           /\ state_machine(cfg.fsm, s, f, mdiff) \in RunningStates(cfg.fsm) \cup {"FAULTY"}
           /\ f = "FAULT_DETECTED" => state_machine(cfg.fsm, s, f, mdiff) = "FAULTY"
      /\ \A f \in Dispatchable :
           state_machine(cfg.fsm, "FAULTY", f, mdiff) =
              IF f = "FAULT_CLEARED" THEN "INITIALIZING" ELSE "FAULTY"
  BY <1>m, Machine, Zenon
<1>0. port_state_update(p, e, mdiff) = [base EXCEPT !.state = next2, !.dirty = dirty2]
  BY DEF port_state_update, ClearAsap, Initialized, SetState
<1>1. base \in PortType
  BY DisableType, InitializeType DEF Started, Base
<1>2. /\ [base EXCEPT !.state = next2, !.dirty = dirty2].state = next2
      /\ [base EXCEPT !.state = next2, !.dirty = dirty2].dirty = dirty2
      /\ dirty2 \in BOOLEAN
  BY <1>1 DEF PortType
<1>3. CASE next1 # "INITIALIZING"
  <2>1. next1 = next0 /\ next2 = next0 /\ base = p
    BY <1>3, <1>m, Machine DEF Dispatchable, FsmEvents
  <2>2. /\ next0 \in RunningStates(cfg.fsm) \cup {"FAULTY"}
        /\ e = "FAULT_DETECTED" \/ p.state = "FAULTY" => next0 = "FAULTY"
    <3>1. CASE p.state \in RunningStates(cfg.fsm)
      <4>1. /\ next0 \in RunningStates(cfg.fsm) \cup {"FAULTY"}
            /\ e = "FAULT_DETECTED" => next0 = "FAULTY"
        BY <3>1, <1>n
      <4> QED BY <3>1, <4>1, Enabled DEF Environment
    <3>2. CASE p.state = "FAULTY"
      <4>1. next0 = IF e = "FAULT_CLEARED" THEN "INITIALIZING" ELSE "FAULTY"
        BY <3>2, <1>n
      <4> QED BY <1>3, <2>1, <4>1
    <3> QED BY <3>1, <3>2 DEF Started
  <2>3. Kept(p, e, mdiff, [base EXCEPT !.state = next2, !.dirty = dirty2])
    BY <1>2, <2>1, <2>2 DEF Kept
  <2> QED BY <1>0, <2>3
<1>4. CASE next1 = "INITIALIZING"
  <2>1. base = port_initialize(d) BY <1>4
  <2>2. next2 = IF InitOk THEN FirstState(cfg.fsm) ELSE "FAULTY"
    BY <1>4, <1>m, Machine
  <2>3. \/ "LINK_UP" \in p.link /\ clear_fault_asap(p.lastFault)
        \/ p.state = "FAULTY" /\ e = "FAULT_CLEARED"
    <3>1. CASE asap BY <3>1
    <3>2. CASE ~asap
      BY <1>4, <3>2, <1>m, Machine, Enabled DEF Started, Environment
    <3> QED BY <3>1, <3>2
  <2>4. Restarted(p, e, [base EXCEPT !.state = next2, !.dirty = dirty2])
    BY <1>2, <2>1, <2>2, <2>3 DEF Restarted
  <2> QED BY <1>0, <2>4
<1> QED BY <1>3, <1>4

\* port_e2e_transition() and port_p2p_transition() keep the state and the link.
LEMMA TransitionType ==
    ASSUME NEW p \in PortType
    PROVE  /\ Transition(p) \in PortType
           /\ Transition(p).link = p.link /\ Transition(p).state = p.state
<1>1. CASE p.state \in {"FAULTY", "DISABLED"}
  BY <1>1, DisableType DEF Transition
<1>2. CASE p.state \notin {"FAULTY", "DISABLED"}
  <2>1. PICK timers, flushed :
          /\ timers \in [Timers -> {"off", "armed", "expired"}]
          /\ Transition(p) = [p EXCEPT !.timers = timers, !.held = @ \ flushed]
    <3> DEFINE p2p == cfg.dm \in {"P2P", "COMMON_P2P"}
               start == {t \in Timers :
                      \/ /\ t = "ANNOUNCE"
                         /\ p.state \in {"LISTENING", "PASSIVE", "UNCALIBRATED", "SLAVE"}
                      \/ t = "QUALIFICATION" /\ p.state = "PRE_MASTER"
                      \/ /\ t = "MANNO" /\ ~cfg.inhibitAnnounce
                         /\ p.state \in {"MASTER", "GRAND_MASTER"}
                      \/ t = "SYNC_TX" /\ p.state \in {"MASTER", "GRAND_MASTER"}
                      \/ /\ t = "DELAY" /\ ~cfg.inhibitDelay
                         /\ p.state \in IF p2p THEN {"LISTENING"}
                                        ELSE {"UNCALIBRATED", "SLAVE"}}
               running == {"UNICAST_REQ", "UNICAST_SRV"} \cup (IF p2p THEN {"DELAY"} ELSE {})
               timers == [t \in Timers |->
                      IF t \in start /\ p.fds = "open" THEN "armed"
                      ELSE IF t \in running THEN p.timers[t] ELSE "off"]
               flushed == IF p.state = "UNCALIBRATED"
                          THEN {"syfu", IF p2p THEN "peer_delay" ELSE "delay_req"}
                          ELSE {}
    <3> HIDE DEF start, running, flushed
    <3>1. timers \in [Timers -> {"off", "armed", "expired"}] BY DEF PortType
    <3> HIDE DEF timers
    <3>2. Transition(p) = [p EXCEPT !.timers = timers, !.held = @ \ flushed]
      BY <1>2, Zenon DEF Transition, timers, start, running, flushed
    <3> QED BY <3>1, <3>2
  <2> QED BY <2>1 DEF PortType
<1> QED BY <1>1, <1>2

\* One dispatch: the port stays started and keeps its link flags, and with the
\* link down a fault stops it and nothing but a cleared fault starts it.
LEMMA DispatchedOnce ==
    ASSUME Environment, NEW p, Started(p), NEW e \in Dispatchable, NEW mdiff
    PROVE  LET q == Dispatched(p, e, mdiff)
           IN  /\ Started(q) /\ q.link = p.link
               /\ "LINK_UP" \notin p.link /\ e = "FAULT_DETECTED" => q.state = "FAULTY"
               /\ "LINK_UP" \notin p.link /\ p.state = "FAULTY" /\ e # "FAULT_CLEARED"
                    => q.state = "FAULTY"
<1> DEFINE q == port_state_update(p, e, mdiff)
<1>0. Base(p) \in PortType /\ Base(p).link = p.link BY DisableType DEF Started, Base
<1>1. /\ Started(q) /\ q.link = p.link
      /\ "LINK_UP" \notin p.link /\ e = "FAULT_DETECTED" => q.state = "FAULTY"
      /\ "LINK_UP" \notin p.link /\ p.state = "FAULTY" /\ e # "FAULT_CLEARED"
           => q.state = "FAULTY"
  <2>0. Kept(p, e, mdiff, q) \/ Restarted(p, e, q) BY Update
  <2> HIDE DEF q
  <2>1. CASE Kept(p, e, mdiff, q)
    <3>1. q.state \in PortStates BY <2>1, Enabled DEF Environment, PortStates, Kept
    <3> QED BY <2>1, <3>1 DEF Started, PortType, Kept
  <2>2. CASE Restarted(p, e, q)
    <3>0. q.state \in RunningStates(cfg.fsm) \cup {"FAULTY"}
      <4>1. cfg.fsm \in Machines BY DEF Environment, ConfigType
      <4>2. FirstState(cfg.fsm) \in RunningStates(cfg.fsm) BY <4>1, Machine, Zenon
      <4> QED BY <2>2, <4>2 DEF Restarted
    <3>1. q.state \in PortStates BY <3>0, Enabled DEF Environment, PortStates
    <3>2. port_initialize(Base(p)) \in PortType /\ port_initialize(Base(p)).link = p.link
      BY <1>0, InitializeType
    <3>3. e = "FAULT_CLEARED" => e # "FAULT_DETECTED" OBVIOUS
    <3> QED BY <2>2, <3>0, <3>1, <3>2, <3>3 DEF Started, PortType, Restarted
  <2> QED BY <2>0, <2>1, <2>2
<1>2. Transition(q) \in PortType /\ Transition(q).link = q.link
      /\ Transition(q).state = q.state
  BY <1>1, TransitionType DEF Started
<1>3. Dispatched(p, e, mdiff) \in {q, Transition(q)} BY DEF Dispatched, Enter
<1> HIDE DEF q
<1> QED BY <1>1, <1>2, <1>3 DEF Started

\* The same of bc_dispatch(), which may dispatch a second event.
LEMMA Dispatch ==
    ASSUME Environment, NEW p, Started(p), NEW e \in Dispatchable, NEW mdiff,
           NEW switched
    PROVE  LET q == bc_dispatch(p, e, mdiff, switched)
           IN  /\ Started(q) /\ q.link = p.link
               /\ "LINK_UP" \notin p.link /\ e = "FAULT_DETECTED" => q.state = "FAULTY"
               /\ "LINK_UP" \notin p.link /\ p.state = "FAULTY" /\ e # "FAULT_CLEARED"
                    => q.state = "FAULTY"
<1> DEFINE q == Dispatched(p, e, mdiff)
           r == [q EXCEPT !.lastFault = "FT_SWITCH_PHC"]
           s == Dispatched(r, "FAULT_DETECTED", FALSE)
<1>1. /\ Started(q) /\ q.link = p.link
      /\ "LINK_UP" \notin p.link /\ e = "FAULT_DETECTED" => q.state = "FAULTY"
      /\ "LINK_UP" \notin p.link /\ p.state = "FAULTY" /\ e # "FAULT_CLEARED"
           => q.state = "FAULTY"
  BY DispatchedOnce
<1> HIDE DEF q
<1>2. Started(r) /\ r.link = q.link BY <1>1 DEF Started, PortType, FaultTypes
<1>3. "FAULT_DETECTED" \in Dispatchable BY DEF Dispatchable, FsmEvents
<1>4. /\ Started(s) /\ s.link = r.link
      /\ "LINK_UP" \notin r.link => s.state = "FAULTY"
  BY <1>2, <1>3, DispatchedOnce
<1>5. bc_dispatch(p, e, mdiff, switched) \in {q, s} BY DEF bc_dispatch, SwitchPhc, q
<1> HIDE DEF r, s
<1> QED BY <1>1, <1>2, <1>4, <1>5

-----------------------------------------------------------------------------
\* A started port whose link is down is faulty; the link is up or down.
Safe(p) ==
    /\ Started(p)
    /\ "LINK_DOWN" \in p.link <=> "LINK_UP" \notin p.link
    /\ "LINK_UP" \notin p.link => p.state = "FAULTY"

\* A dispatch keeps a port safe, and a fault makes it safe.
LEMMA DispatchSafe ==
    ASSUME Environment, NEW p, Started(p), NEW e \in Dispatchable, NEW mdiff,
           NEW switched,
           "LINK_DOWN" \in p.link <=> "LINK_UP" \notin p.link,
           \/ "LINK_UP" \in p.link
           \/ e = "FAULT_DETECTED"
           \/ p.state = "FAULTY" /\ e # "FAULT_CLEARED"
    PROVE  /\ Safe(bc_dispatch(p, e, mdiff, switched))
           /\ bc_dispatch(p, e, mdiff, switched).link = p.link
<1> DEFINE q == bc_dispatch(p, e, mdiff, switched)
<1>1. /\ Started(q) /\ q.link = p.link
      /\ "LINK_UP" \notin p.link /\ e = "FAULT_DETECTED" => q.state = "FAULTY"
      /\ "LINK_UP" \notin p.link /\ p.state = "FAULTY" /\ e # "FAULT_CLEARED"
           => q.state = "FAULTY"
  BY Dispatch
<1> HIDE DEF q
<1>2. Safe(q) /\ q.link = p.link BY <1>1 DEF Safe
<1> QED BY <1>2 DEF q

SameLink(p, q) == q.link = p.link

\* bc_dispatch() leaves the link flags alone.
LEMMA DispatchLink ==
    ASSUME Environment, NEW p, Started(p), NEW e \in Dispatchable, NEW mdiff,
           NEW switched
    PROVE  SameLink(p, bc_dispatch(p, e, mdiff, switched))
BY Dispatch DEF SameLink

\* What handlers do to a port before they report keeps it safe.
LEMMA Fields ==
    ASSUME Environment, NEW p, Safe(p)
    PROVE  /\ \A t \in Timers : Safe(set_tmo(p, t)) /\ set_tmo(p, t).state = p.state
           /\ \A t \in Timers : Safe(port_clr_tmo(p, t)) /\ port_clr_tmo(p, t).state = p.state
           /\ \A h \in SUBSET Queues :
                /\ Safe([p EXCEPT !.held = h])
                /\ [p EXCEPT !.held = h].state = p.state
           /\ \A b \in BOOLEAN : Safe([p EXCEPT !.trp = b])
           /\ Safe([p EXCEPT !.dirty = FALSE])
           /\ \A f \in FaultTypes : Safe([p EXCEPT !.lastFault = f])
           /\ p.held \subseteq Queues
<1> USE DEF Safe, Started, PortType
<1>1. \A t \in Timers : Safe(set_tmo(p, t)) /\ set_tmo(p, t).state = p.state
  BY DEF set_tmo
<1>2. \A t \in Timers : Safe(port_clr_tmo(p, t)) /\ port_clr_tmo(p, t).state = p.state
  BY DEF port_clr_tmo
<1>3. \A h \in SUBSET Queues : /\ Safe([p EXCEPT !.held = h])
                               /\ [p EXCEPT !.held = h].state = p.state
  OBVIOUS
<1>4. \A b \in BOOLEAN : Safe([p EXCEPT !.trp = b])
  OBVIOUS
<1>5. Safe([p EXCEPT !.dirty = FALSE])
  OBVIOUS
<1>6. \A f \in FaultTypes : Safe([p EXCEPT !.lastFault = f])
  OBVIOUS
<1>7. p.held \subseteq Queues
  OBVIOUS
<1> QED BY <1>1, <1>2, <1>3, <1>4, <1>5, <1>6, <1>7

\* The inductive invariant: before Powerup nothing has happened to the port.
Inv ==
    /\ cfg \in Configs /\ osUp \in BOOLEAN /\ cmldsUp \in BOOLEAN /\ sde \in BOOLEAN
    /\ ready \subseteq Timers \cup Sockets
    /\ \/ Safe(port)
       \/ /\ port \in PortType /\ port.state = "INITIALIZING"
          /\ port.link = {"LINK_UP"} /\ ready = {} /\ ~sde

\* The configuration and the environment have their types.
LEMMA InvEnvironment == ASSUME Inv PROVE Environment
BY ConfigsAssumption DEF Inv, Environment

\* The clock's part of a handler: dispatch, and go on with the round.
LEMMA ReportsKeeps ==
    ASSUME Inv, NEW fd, NEW p, Safe(p), NEW e \in Dispatchable \ {"FAULT_CLEARED"},
           Reports(fd, p, e)
    PROVE  Inv'
<1>1. PICK switched \in BOOLEAN : port' = bc_dispatch(p, e, FALSE, switched)
  BY DEF Reports
<1>2. Safe(port')
  <2>1. Environment BY InvEnvironment
  <2>2. /\ Started(p) /\ ("LINK_DOWN" \in p.link <=> "LINK_UP" \notin p.link)
        /\ \/ "LINK_UP" \in p.link
           \/ e = "FAULT_DETECTED"
           \/ p.state = "FAULTY" /\ e # "FAULT_CLEARED"
    BY DEF Safe
  <2>3. Safe(bc_dispatch(p, e, FALSE, switched))
    BY <2>1, <2>2, DispatchSafe, Zenon
  <2> QED BY <1>1, <2>3
<1>3. UNCHANGED <<cfg, osUp, cmldsUp>> /\ ready' \subseteq ready /\ sde' \in BOOLEAN
  BY DEF Reports
<1>4. Safe(port)' BY <1>2, <1>3 DEF Safe, Started
<1> QED BY <1>3, <1>4 DEF Inv

\* Handlers run only after Powerup.
LEMMA HandlesStarted ==
    ASSUME Inv, NEW fd, Handles(fd)
    PROVE  Safe(port) /\ Environment
BY InvEnvironment DEF Inv, Handles

\* port_set_delay_tmo() keeps a port safe.
LEMMA DelayTmo == ASSUME Environment, NEW p, Safe(p) PROVE Safe(port_set_delay_tmo(p))
BY Fields DEF port_set_delay_tmo, Timers

\* The receipt timeouts
LEMMA ReceiptTimeoutKeeps ==
    ASSUME Inv, NEW fd, ReceiptTimeout(fd)
    PROVE  Inv'
<1>0. Safe(port) /\ Environment BY HandlesStarted DEF ReceiptTimeout
<1>1. PICK pruned \in BOOLEAN :
        LET p1 == IF noop THEN port_clr_tmo(port, "SYNC_RX") ELSE port
            p2 == IF cfg.inhibitAnnounce THEN port_clr_tmo(p1, "ANNOUNCE")
                                         ELSE set_tmo(p1, "ANNOUNCE")
            p3 == IF pruned THEN [p2 EXCEPT !.held = @ \ {"delay_req"}] ELSE p2
            renew == /\ cfg.slaveOnly /\ cfg.dm # "P2P" /\ ~cfg.raw
                     /\ port_is_enabled(port.state)
            p4 == IF renew THEN [p3 EXCEPT !.trp = osUp] ELSE p3
        IN  Reports(fd, p4,
              IF renew /\ ~osUp THEN "FAULT_DETECTED"
              ELSE IF cfg.inhibitAnnounce THEN "NONE"
              ELSE "ANNOUNCE_RECEIPT_TIMEOUT_EXPIRES")
  BY DEF ReceiptTimeout
<1> DEFINE p1 == IF noop THEN port_clr_tmo(port, "SYNC_RX") ELSE port
           p2 == IF cfg.inhibitAnnounce THEN port_clr_tmo(p1, "ANNOUNCE")
                                        ELSE set_tmo(p1, "ANNOUNCE")
           p3 == IF pruned THEN [p2 EXCEPT !.held = @ \ {"delay_req"}] ELSE p2
           renew == /\ cfg.slaveOnly /\ cfg.dm # "P2P" /\ ~cfg.raw
                    /\ port_is_enabled(port.state)
           p4 == IF renew THEN [p3 EXCEPT !.trp = osUp] ELSE p3
           event == IF renew /\ ~osUp THEN "FAULT_DETECTED"
                    ELSE IF cfg.inhibitAnnounce THEN "NONE"
                    ELSE "ANNOUNCE_RECEIPT_TIMEOUT_EXPIRES"
<1>2. Safe(p1) BY <1>0, Fields DEF Timers
<1> HIDE DEF p1
<1>3. Safe(p2) BY <1>0, <1>2, Fields DEF Timers
<1> HIDE DEF p2
<1>4. Safe(p3)
  <2>1. p2.held \subseteq Queues BY <1>0, <1>3, Fields
  <2>2. p2.held \ {"delay_req"} \in SUBSET Queues BY <2>1
  <2>3. Safe([p2 EXCEPT !.held = p2.held \ {"delay_req"}]) BY <1>0, <1>3, <2>2, Fields
  <2> QED BY <1>3, <2>3
<1> HIDE DEF p3
<1>5. Safe(p4) BY <1>0, <1>4, Fields DEF Environment
<1>6. event \in Dispatchable \ {"FAULT_CLEARED"} BY DEF Dispatchable, FsmEvents
<1>7. Reports(fd, p4, event) BY <1>1 DEF p1, p2, p3
<1> HIDE DEF p4, event
<1> QED BY <1>5, <1>6, <1>7, ReportsKeeps

\* The delay timer
LEMMA DelayTimeoutKeeps == ASSUME Inv, DelayTimeout PROVE Inv'
<1>0. Safe(port) /\ Environment BY HandlesStarted DEF DelayTimeout
<1> DEFINE p == port_set_delay_tmo(port)
           queue == IF cfg.dm = "P2P" THEN "peer_delay" ELSE "delay_req"
           q == [p EXCEPT !.held = @ \cup {queue}]
<1>1. Safe(p) BY <1>0, DelayTmo
<1>2. \/ Reports("DELAY", p, "FAULT_DETECTED")
      \/ Reports("DELAY", p, "NONE")
      \/ Reports("DELAY", q, "NONE")
      \/ Reports("DELAY", q, "SYNCHRONIZATION_FAULT")
  BY DEF DelayTimeout
<1> HIDE DEF p
<1>3. Safe(q)
  <2>1. p.held \subseteq Queues BY <1>0, <1>1, Fields
  <2>2. p.held \cup {queue} \in SUBSET Queues BY <2>1 DEF Queues
  <2> QED BY <1>0, <1>1, <2>2, Fields
<1>4. {"FAULT_DETECTED", "NONE", "SYNCHRONIZATION_FAULT"}
        \subseteq Dispatchable \ {"FAULT_CLEARED"}
  BY DEF Dispatchable, FsmEvents
<1> HIDE DEF q
<1> QED BY <1>1, <1>2, <1>3, <1>4, ReportsKeeps

\* The other timers and the CMLDS client
LEMMA TimeoutKeeps ==
    ASSUME Inv,
           \/ QualificationTimeout
           \/ TransmitTimeout("MANNO") \/ TransmitTimeout("SYNC_TX")
           \/ UnicastTimeout("UNICAST_REQ") \/ UnicastTimeout("UNICAST_SRV")
           \/ process_cmlds
    PROVE  Inv'
<1> USE DEF Timers
<1>e. {"FAULT_DETECTED", "NONE", "QUALIFICATION_TIMEOUT_EXPIRES"}
        \subseteq Dispatchable \ {"FAULT_CLEARED"}
  BY DEF Dispatchable, FsmEvents
<1>1. CASE QualificationTimeout
  <2>1. Safe(port) BY <1>1, HandlesStarted DEF QualificationTimeout
  <2> QED BY <1>1, <2>1, <1>e, ReportsKeeps DEF QualificationTimeout
<1>2. ASSUME NEW fd \in Timers, TransmitTimeout(fd) PROVE Inv'
  <2>1. Safe(port) /\ Environment BY <1>2, HandlesStarted DEF TransmitTimeout
  <2>2. Safe(set_tmo(port, fd)) BY <2>1, Fields
  <2> QED BY <1>2, <2>2, <1>e, ReportsKeeps DEF TransmitTimeout
<1>3. ASSUME NEW fd \in Timers, UnicastTimeout(fd) PROVE Inv'
  <2>1. Safe(port) /\ Environment BY <1>3, HandlesStarted DEF UnicastTimeout
  <2>2. Safe(set_tmo(port, fd)) /\ Safe(port_clr_tmo(port, fd)) BY <2>1, Fields
  <2> QED BY <1>3, <2>2, <1>e, ReportsKeeps DEF UnicastTimeout
<1>4. CASE process_cmlds
  <2>1. Safe(port) BY <1>4, HandlesStarted DEF process_cmlds
  <2> QED BY <1>4, <2>1, <1>e, ReportsKeeps DEF process_cmlds
<1> QED BY <1>1, <1>2, <1>3, <1>4

\* A complete Sync: port_synchronize() on a port that runs
LEMMA SynchronizeSafe ==
    ASSUME Environment, NEW p, Safe(p), "LINK_UP" \in p.link,
           NEW verdict \in Verdicts, NEW restarted, NEW sw1, NEW sw2
    PROVE  Safe(port_synchronize(p, verdict, restarted, sw1, sw2))
<1> DEFINE q == set_tmo(p, "SYNC_RX")
           f == bc_dispatch(q, "SYNCHRONIZATION_FAULT", FALSE, sw1)
           r == IF restarted THEN f ELSE q
<1>1. Safe(q) BY Fields DEF Timers
<1>2. "LINK_UP" \in q.link BY DEF set_tmo, Safe, Started, PortType
<1> HIDE DEF q
<1>3. "SYNCHRONIZATION_FAULT" \in Dispatchable /\ "MASTER_CLOCK_SELECTED" \in Dispatchable
  BY DEF Dispatchable, FsmEvents
<1>4. Started(q) /\ ("LINK_DOWN" \in q.link <=> "LINK_UP" \notin q.link)
  BY <1>1 DEF Safe
<1>5. Safe(f) /\ f.link = q.link
  <2>1. Safe(bc_dispatch(q, "SYNCHRONIZATION_FAULT", FALSE, sw1))
    BY <1>2, <1>3, <1>4, DispatchSafe, Zenon
  <2>2. SameLink(q, bc_dispatch(q, "SYNCHRONIZATION_FAULT", FALSE, sw1))
    BY <1>3, <1>4, DispatchLink, Zenon
  <2> QED BY <2>1, <2>2 DEF SameLink
<1> HIDE DEF f
<1>6. Safe([f EXCEPT !.held = @ \ {"delay_req"}])
  <2>1. f.held \ {"delay_req"} \in SUBSET Queues BY <1>5, Fields
  <2> QED BY <1>5, <2>1, Fields
<1>7. Safe(bc_dispatch(q, "MASTER_CLOCK_SELECTED", FALSE, sw1))
  BY <1>2, <1>3, <1>4, DispatchSafe, Zenon
<1>8. Started(r) /\ ("LINK_DOWN" \in r.link <=> "LINK_UP" \notin r.link)
      /\ "LINK_UP" \in r.link
  BY <1>2, <1>4, <1>5 DEF Safe
<1> HIDE DEF r
<1>9. Safe(bc_dispatch(r, "MASTER_CLOCK_SELECTED", FALSE, sw2))
  BY <1>3, <1>8, DispatchSafe, Zenon
<1>10. CASE verdict = "SERVO_UNLOCKED"
  BY <1>5, <1>10 DEF port_synchronize, q, f
<1>11. CASE verdict = "SERVO_JUMP"
  BY <1>6, <1>11 DEF port_synchronize, q, f
<1>12. CASE verdict = "SERVO_LOCKED"
  BY <1>7, <1>12 DEF port_synchronize, q
<1>13. CASE verdict = "SERVO_LOCKED_STABLE"
  <2>1. port_synchronize(p, verdict, restarted, sw1, sw2)
          = bc_dispatch(r, "MASTER_CLOCK_SELECTED", FALSE, sw2)
    BY <1>13, Zenon DEF port_synchronize, q, r, f
  <2> QED BY <1>9, <2>1
<1> QED BY <1>10, <1>11, <1>12, <1>13 DEF Verdicts

\* The receive path
LEMMA ReceiveKeeps == ASSUME Inv, Receive PROVE Inv'
<1>0. Safe(port) /\ Environment BY HandlesStarted DEF Receive
<1>e. {"FAULT_DETECTED", "NONE", "STATE_DECISION_EVENT"}
        \subseteq Dispatchable \ {"FAULT_CLEARED"}
  BY DEF Dispatchable, FsmEvents
<1>h. \A h \in SUBSET Queues : Safe([port EXCEPT !.held = h]) BY <1>0, Fields
<1>q. port.held \subseteq Queues BY <1>0, Fields
<1>1. ASSUME NEW p, Safe(p), NEW e \in {"FAULT_DETECTED", "NONE", "STATE_DECISION_EVENT"},
             Reports("EVENT", p, e)
      PROVE  Inv'
  BY <1>1, <1>e, ReportsKeeps
<1>2. CASE Reports("EVENT", port, "FAULT_DETECTED") BY <1>0, <1>1, <1>2
<1>3. CASE Reports("EVENT", [port EXCEPT !.lastFault = "FT_BAD_PEER_NETWORK"],
                   "FAULT_DETECTED")
  <2>1. Safe([port EXCEPT !.lastFault = "FT_BAD_PEER_NETWORK"])
    BY <1>0, Fields DEF FaultTypes
  <2> QED BY <1>1, <1>3, <2>1
<1>4. CASE Reports("EVENT", port, "NONE") BY <1>0, <1>1, <1>4
<1>5. CASE Reports("EVENT", [port EXCEPT !.held = @ \cup {"foreign_masters"}],
                   "STATE_DECISION_EVENT")
  <2>1. port.held \cup {"foreign_masters"} \in SUBSET Queues BY <1>q DEF Queues
  <2> QED BY <1>1, <1>5, <1>h, <2>1
<1>6. CASE Reports("EVENT", [port EXCEPT !.held = @ \cup {"syfu"}], "NONE")
  <2>1. port.held \cup {"syfu"} \in SUBSET Queues BY <1>q DEF Queues
  <2> QED BY <1>1, <1>6, <1>h, <2>1
<1>7. CASE /\ port.state \in Synced
           /\ \E verdict \in Verdicts, restarted, sw1, sw2 \in BOOLEAN :
                Reports("EVENT",
                  [port_synchronize(port, verdict, restarted, sw1, sw2)
                     EXCEPT !.held = @ \ {"syfu"}], "NONE")
  <2>1. PICK verdict \in Verdicts, restarted \in BOOLEAN, sw1 \in BOOLEAN, sw2 \in BOOLEAN :
          Reports("EVENT",
            [port_synchronize(port, verdict, restarted, sw1, sw2)
               EXCEPT !.held = @ \ {"syfu"}], "NONE")
    BY <1>7
  <2> DEFINE p == port_synchronize(port, verdict, restarted, sw1, sw2)
  <2>2. "LINK_UP" \in port.link BY <1>0, <1>7 DEF Safe, Synced
  <2>3. Safe(p) BY <1>0, <2>2, SynchronizeSafe, Zenon
  <2> HIDE DEF p
  <2>4. p.held \ {"syfu"} \in SUBSET Queues BY <1>0, <2>3, Fields
  <2>5. Safe([p EXCEPT !.held = @ \ {"syfu"}]) BY <1>0, <2>3, <2>4, Fields
  <2>6. Reports("EVENT", [p EXCEPT !.held = @ \ {"syfu"}], "NONE") BY <2>1 DEF p
  <2> QED BY <1>1, <2>5, <2>6
<1>8. CASE \E p \in {port, port_set_delay_tmo(port)}, left \in {{}, {"delay_req"}} :
             Reports("EVENT", [p EXCEPT !.held = (@ \ {"delay_req"}) \cup left], "NONE")
  <2>1. PICK p \in {port, port_set_delay_tmo(port)}, left \in {{}, {"delay_req"}} :
          Reports("EVENT", [p EXCEPT !.held = (@ \ {"delay_req"}) \cup left], "NONE")
    BY <1>8
  <2>2. Safe(p) BY <1>0, DelayTmo
  <2>3. p.held \subseteq Queues BY <1>0, <2>2, Fields
  <2>4. (p.held \ {"delay_req"}) \cup left \in SUBSET Queues BY <2>3 DEF Queues
  <2>5. Safe([p EXCEPT !.held = (@ \ {"delay_req"}) \cup left])
    BY <1>0, <2>2, <2>4, Fields
  <2> QED BY <1>1, <2>1, <2>5
<1>9. CASE Reports("EVENT", [port EXCEPT !.held = @ \ {"peer_delay"}], "NONE")
  <2>1. port.held \ {"peer_delay"} \in SUBSET Queues BY <1>q
  <2> QED BY <1>1, <1>9, <1>h, <2>1
<1>10. CASE Reports("EVENT", set_tmo(port, "UNICAST_SRV"), "NONE")
  <2>1. Safe(set_tmo(port, "UNICAST_SRV")) BY <1>0, Fields DEF Timers
  <2> QED BY <1>1, <1>10, <2>1
<1> QED BY <1>2, <1>3, <1>4, <1>5, <1>6, <1>7, <1>8, <1>9, <1>10 DEF Receive

\* After port_link_status() a port is started, its link is up or down, and if
\* it is down then the port is faulty or the fault is about to be reported.
LEMMA LinkStatusKeeps ==
    ASSUME Environment, NEW p, Safe(p), NEW state \in {"LINK_UP", "LINK_DOWN"},
           NEW label \in BOOLEAN, NEW phc \in {"kept", "unsupported", "switch_failed"}
    PROVE  LET q == LinkStatus(p, state, label, phc)
           IN  /\ Started(q)
               /\ "LINK_DOWN" \in q.link <=> "LINK_UP" \notin q.link
               /\ \/ "LINK_UP" \in q.link
                  \/ LinkEvent(q) = "FAULT_DETECTED"
                  \/ q.state = "FAULTY" /\ LinkEvent(q) # "FAULT_CLEARED"
<1> DEFINE changed == IF state \in p.link THEN {} ELSE {"LINK_STATE_CHANGED"}
           named == IF label THEN {"TS_LABEL_CHANGED"} ELSE {}
           link == {state} \cup changed \cup named
           q == [p EXCEPT !.link = link]
           r == [q EXCEPT !.lastFault = "FT_SWITCH_PHC"]
<1>1. link \in SUBSET LinkFlags BY DEF LinkFlags
<1>2. "LINK_DOWN" \in link <=> "LINK_UP" \notin link OBVIOUS
<1>3. "LINK_UP" \in link
      \/ link = {"LINK_DOWN", "LINK_STATE_CHANGED"}
      \/ "TS_LABEL_CHANGED" \in link
      \/ (link = {"LINK_DOWN"} /\ p.state = "FAULTY")
  BY DEF Safe
<1> HIDE DEF link
<1>4. Started(q) /\ q.link = link /\ q.state = p.state
  BY <1>1 DEF Safe, Started, PortType
<1>5. CASE state = "LINK_UP" /\ phc = "unsupported"
  <2> DEFINE s == [q EXCEPT !.link = {"LINK_DOWN", "LINK_STATE_CHANGED"}]
  <2>1. LinkStatus(p, state, label, phc) = s BY <1>5, Zenon DEF LinkStatus, link
  <2> HIDE DEF q
  <2>2. Started(s) /\ s.link = {"LINK_DOWN", "LINK_STATE_CHANGED"}
    BY <1>4 DEF Started, PortType, LinkFlags
  <2> HIDE DEF s
  <2>3. LinkEvent(s) = "FAULT_DETECTED" BY <2>2 DEF LinkEvent
  <2> QED BY <2>1, <2>2, <2>3
<1>6. CASE state = "LINK_UP" /\ phc = "switch_failed"
  <2> DEFINE s == bc_dispatch(r, "FAULT_DETECTED", FALSE, TRUE)
  <2>1. LinkStatus(p, state, label, phc) = s BY <1>6 DEF LinkStatus, link
  <2> HIDE DEF q
  <2>2. Started(r) /\ r.link = link
    BY <1>4 DEF Started, PortType, FaultTypes
  <2> HIDE DEF r
  <2>3. "FAULT_DETECTED" \in Dispatchable BY DEF Dispatchable, FsmEvents
  <2>4. "LINK_DOWN" \in r.link <=> "LINK_UP" \notin r.link BY <1>2, <2>2
  <2>5. Safe(s) BY <2>2, <2>3, <2>4, DispatchSafe, Zenon
  <2>6. SameLink(r, s) BY <2>2, <2>3, DispatchLink, Zenon
  <2>7. "LINK_UP" \in r.link BY <1>6, <2>2 DEF link
  <2> HIDE DEF s
  <2> QED BY <2>1, <2>5, <2>6, <2>7 DEF Safe, SameLink
<1>7. CASE ~(state = "LINK_UP" /\ phc \in {"unsupported", "switch_failed"})
  <2>1. LinkStatus(p, state, label, phc) = q BY <1>7 DEF LinkStatus, link
  <2> HIDE DEF q
  <2>2. \/ "LINK_UP" \in q.link
        \/ LinkEvent(q) = "FAULT_DETECTED"
        \/ q.state = "FAULTY" /\ LinkEvent(q) # "FAULT_CLEARED"
    BY <1>2, <1>3, <1>4 DEF LinkEvent
  <2> QED BY <1>2, <1>4, <2>1, <2>2
<1> QED BY <1>5, <1>6, <1>7

\* The rtnl socket
LEMMA LinkNotificationKeeps == ASSUME Inv, LinkNotification PROVE Inv'
<1>0. Safe(port) /\ Environment BY HandlesStarted DEF LinkNotification
<1>1. PICK own \in BOOLEAN, state \in {"LINK_UP", "LINK_DOWN"}, label \in BOOLEAN,
           phc \in {"kept", "unsupported", "switch_failed"} :
        ReportsLink(IF own THEN LinkStatus(port, state, label, phc) ELSE port, own)
  <2>1. CASE ReportsLink(port, FALSE) BY <2>1
  <2>2. CASE \E state \in {"LINK_UP", "LINK_DOWN"}, label \in BOOLEAN,
               phc \in {"kept", "unsupported", "switch_failed"} :
               ReportsLink(LinkStatus(port, state, label, phc), TRUE)
    BY <2>2
  <2> QED BY <2>1, <2>2 DEF LinkNotification
<1> DEFINE p == IF own THEN LinkStatus(port, state, label, phc) ELSE port
<1>r. ReportsLink(p, own) BY <1>1
<1>2. /\ Started(p)
      /\ "LINK_DOWN" \in p.link <=> "LINK_UP" \notin p.link
      /\ \/ "LINK_UP" \in p.link
         \/ LinkEvent(p) = "FAULT_DETECTED"
         \/ p.state = "FAULTY" /\ LinkEvent(p) # "FAULT_CLEARED"
  <2>1. CASE own BY <1>0, <2>1, LinkStatusKeeps
  <2>2. CASE ~own
    <3>1. "LINK_UP" \notin port.link => LinkEvent(port) # "FAULT_CLEARED"
      BY DEF LinkEvent
    <3> QED BY <1>0, <2>2, <3>1 DEF Safe
  <2> QED BY <2>1, <2>2
<1>3. LinkEvent(p) \in Dispatchable BY DEF LinkEvent, Dispatchable, FsmEvents
<1>b. sde \in BOOLEAN BY DEF Inv
<1> HIDE DEF p
<1>4. port' = bc_dispatch(p, LinkEvent(p), FALSE, TRUE) BY <1>r DEF ReportsLink
<1>5. sde' \in BOOLEAN BY <1>r, <1>b DEF ReportsLink
<1>6. ready' \subseteq ready BY <1>r DEF ReportsLink
<1>7. Safe(bc_dispatch(p, LinkEvent(p), FALSE, TRUE))
  BY <1>0, <1>2, <1>3, DispatchSafe, Zenon
<1>8. Safe(port') BY <1>4, <1>7
<1>9. UNCHANGED <<cfg, osUp, cmldsUp>> BY <1>r DEF ReportsLink
<1>10. Safe(port)' BY <1>8, <1>9 DEF Safe, Started
<1> QED BY <1>5, <1>6, <1>9, <1>10 DEF Inv

\* The clock starts the port.
LEMMA PowerupKeeps == ASSUME Inv, Powerup PROVE Inv'
<1>0. Environment /\ cfg.fsm \in Machines BY InvEnvironment DEF Environment, ConfigType
<1>1. port \in PortType /\ port.state = "INITIALIZING" /\ port.link = {"LINK_UP"}
  BY <1>0, Enabled DEF Powerup, Inv, Safe, Started, Environment
<1> DEFINE i == port_initialize(port)
           n == state_machine(cfg.fsm, "INITIALIZING",
                  IF InitOk THEN "INIT_COMPLETE" ELSE "FAULT_DETECTED", FALSE)
           q == port_state_update(port, "INITIALIZE", FALSE)
<1>2. state_machine(cfg.fsm, port.state, "INITIALIZE", FALSE) = "INITIALIZING"
  <2>1. state_machine(cfg.fsm, "INITIALIZING", "INITIALIZE", FALSE) = "INITIALIZING"
    BY <1>0, Machine, Zenon
  <2> QED BY <1>1, <2>1
<1>3. ~port_is_enabled(port.state) BY <1>1 DEF port_is_enabled
<1>4. n \in RunningStates(cfg.fsm) \cup {"FAULTY"} BY <1>0, Machine
<1>5. i \in PortType /\ i.link = port.link BY <1>0, <1>1, InitializeType
<1>6. \E b \in BOOLEAN : q = [i EXCEPT !.state = n, !.dirty = b]
  <2>1. q = [i EXCEPT !.state = n, !.dirty = @ \/ FALSE \/ n # port.state]
    BY <1>2, <1>3 DEF port_state_update, ClearAsap, Initialized, SetState, Base
  <2> QED BY <2>1, <1>5 DEF PortType
<1> HIDE DEF i, n, q
<1>7. n \in PortStates BY <1>0, <1>4, Enabled DEF PortStates, Environment
<1>8. q \in PortType /\ q.link = port.link /\ q.state = n
  BY <1>5, <1>6, <1>7 DEF PortType
<1>9. Transition(q) \in PortType /\ Transition(q).link = port.link /\ Transition(q).state = n
  BY <1>8, TransitionType
<1>10. bc_dispatch(port, "INITIALIZE", FALSE, TRUE) \in {q, Transition(q)}
  BY Zenon DEF bc_dispatch, SwitchPhc, Dispatched, Enter, q
<1>11. Safe(port')
  <2>1. port' = q \/ port' = Transition(q) BY <1>10 DEF Powerup
  <2>2. port' \in PortType /\ port'.link = {"LINK_UP"} /\ port'.state = n
    BY <1>1, <1>8, <1>9, <2>1
  <2> QED BY <1>4, <2>2 DEF Safe, Started
<1>12. UNCHANGED <<cfg, ready, sde, osUp, cmldsUp>> BY DEF Powerup
<1>13. Safe(port)' BY <1>11, <1>12 DEF Safe, Started
<1> QED BY <1>12, <1>13 DEF Inv

\* The clock's loop
LEMMA ClockKeeps ==
    ASSUME Inv, Poll \/ StateDecision \/ FaultTimeout \/ UpdateUnicastState
    PROVE  Inv'
<1>0. Environment BY InvEnvironment
<1>1. CASE Poll
  <2>1. Safe(port) BY <1>1 DEF Poll, Inv
  <2>2. PICK expire \in SUBSET {t \in Timers : port.timers[t] = "armed"},
             input \in SUBSET ({"RTNL"} \cup (IF port.trp THEN {"EVENT"} ELSE {})
                                        \cup (IF port.pmc THEN {"CMLDS"} ELSE {})) :
          /\ port' = [port EXCEPT !.timers =
                        [t \in Timers |-> IF t \in expire THEN "expired" ELSE @[t]]]
          /\ ready' = input \cup {t \in Timers : port'.timers[t] = "expired"}
    BY <1>1, Zenon DEF Poll
  <2>a. input \subseteq Sockets BY DEF Sockets
  <2>3. Safe(port') BY <2>1, <2>2 DEF Safe, Started, PortType
  <2>4. UNCHANGED <<cfg, sde, osUp, cmldsUp>> BY <1>1 DEF Poll
  <2>5. Safe(port)' BY <2>3, <2>4 DEF Safe, Started
  <2> QED BY <2>2, <2>a, <2>4, <2>5 DEF Inv
<1>2. CASE StateDecision
  <2>1. Safe(port) BY <1>2 DEF StateDecision, Inv
  <2>2. PICK e \in {"NONE", "RS_MASTER", "RS_GRAND_MASTER", "RS_SLAVE", "RS_PASSIVE"},
             mdiff \in BOOLEAN, switched \in BOOLEAN :
          port' = bc_dispatch(port, e, mdiff, switched)
    BY <1>2 DEF StateDecision
  <2>3. e \in Dispatchable /\ e # "FAULT_CLEARED" BY DEF Dispatchable, FsmEvents
  <2>4. /\ Started(port) /\ ("LINK_DOWN" \in port.link <=> "LINK_UP" \notin port.link)
        /\ \/ "LINK_UP" \in port.link
           \/ e = "FAULT_DETECTED"
           \/ port.state = "FAULTY" /\ e # "FAULT_CLEARED"
    BY <2>1, <2>3 DEF Safe
  <2>5. Safe(bc_dispatch(port, e, mdiff, switched))
    BY <1>0, <2>3, <2>4, DispatchSafe, Zenon
  <2>6. UNCHANGED <<cfg, ready, osUp, cmldsUp>> /\ sde' = FALSE BY <1>2 DEF StateDecision
  <2>7. Safe(port') BY <2>2, <2>5
  <2>8. Safe(port)' BY <2>6, <2>7 DEF Safe, Started
  <2> QED BY <2>6, <2>8 DEF Inv
<1>3. CASE FaultTimeout
  <2>1. Safe(port) BY <1>3 DEF FaultTimeout, Inv
  <2>2. "FAULT_CLEARED" \in Dispatchable BY DEF Dispatchable, FsmEvents
  <2>3. /\ Started(port) /\ ("LINK_DOWN" \in port.link <=> "LINK_UP" \notin port.link)
        /\ "LINK_UP" \in port.link
    BY <1>3, <2>1 DEF Safe, FaultTimeout
  <2>4. Safe(bc_dispatch(port, "FAULT_CLEARED", FALSE, TRUE))
    BY <1>0, <2>2, <2>3, DispatchSafe, Zenon
  <2>5. Safe(port') BY <1>3, <2>4 DEF FaultTimeout
  <2>6. UNCHANGED <<cfg, ready, sde, osUp, cmldsUp>> BY <1>3 DEF FaultTimeout
  <2>7. Safe(port)' BY <2>5, <2>6 DEF Safe, Started
  <2> QED BY <2>6, <2>7 DEF Inv
<1>4. CASE UpdateUnicastState
  <2>1. UNCHANGED <<cfg, ready, sde, osUp, cmldsUp>>
        /\ port' = [port EXCEPT !.dirty = FALSE]
    BY <1>4 DEF UpdateUnicastState
  <2> QED BY <2>1 DEF Inv, Safe, Started, PortType
<1> QED BY <1>1, <1>2, <1>3, <1>4

\* The invariant holds at first and is inductive.
LEMMA InitInv == Init => Inv
<1> SUFFICES ASSUME Init PROVE Inv
  OBVIOUS
<1>1. port \in PortType
  BY DEF Init, PortType, AllOff, PortStates, LinkFlags, FaultTypes
<1> QED BY <1>1 DEF Init, Inv

\* Every step of the port, the clock and the environment keeps the invariant.
LEMMA NextInv == Inv /\ [Next]_vars => Inv'
<1> SUFFICES ASSUME Inv, [Next]_vars PROVE Inv'
  OBVIOUS
<1>1. CASE Handler
  <2>1. CASE Receive BY <2>1, ReceiveKeeps
  <2>2. CASE DelayTimeout BY <2>2, DelayTimeoutKeeps
  <2>3. CASE ReceiptTimeout("ANNOUNCE") \/ ReceiptTimeout("SYNC_RX")
    BY <2>3, ReceiptTimeoutKeeps
  <2>4. CASE LinkNotification BY <2>4, LinkNotificationKeeps
  <2> QED BY <1>1, <2>1, <2>2, <2>3, <2>4, TimeoutKeeps DEF Handler
<1>2. CASE Clock BY <1>2, PowerupKeeps, ClockKeeps DEF Clock
<1>3. CASE OsChange \/ CmldsChange \/ UNCHANGED vars
  <2>1. UNCHANGED <<cfg, port, ready, sde>> BY <1>3 DEF OsChange, CmldsChange, vars
  <2>2. osUp' \in BOOLEAN BY <1>3, Zenon DEF OsChange, CmldsChange, vars, Inv
  <2>3. cmldsUp' \in BOOLEAN BY <1>3, Zenon DEF OsChange, CmldsChange, vars, Inv
  <2>4. Safe(port)' <=> Safe(port) BY <2>1 DEF Safe, Started
  <2> QED BY <2>1, <2>2, <2>3, <2>4 DEF Inv
<1> QED BY <1>1, <1>2, <1>3 DEF Next

\* The port's fields, the poll round and the pending decision keep their types
\* whatever the configurations are (struct port).
THEOREM TypeCorrect == Spec => []TypeOK
<1>1. Inv => TypeOK BY DEF Inv, TypeOK, Safe, Started
<1> QED BY <1>1, InitInv, NextInv, PTL DEF Spec

\* In every configuration a port that knows its link is down is faulty, in
\* spite of ASAP fault clearing, queued events and stale notifications
\* (port_state_update(), port_link_status(), bc_event() FD_RTNL).
THEOREM LinkDownStops == Spec => []DownLinkIsFaulty
<1>1. Inv => DownLinkIsFaulty
  BY InvEnvironment, Enabled DEF Inv, DownLinkIsFaulty, Safe, Started, Environment,
                               port_is_enabled
<1> QED BY <1>1, InitInv, NextInv, PTL DEF Spec

-----------------------------------------------------------------------------
\* A fault cleared as soon as possible may leave the state as it is, and then
\* no transition arms the timers: only port_initialize() does.
Rearms(c) ==
    /\ c.badPeerAsap => c.asap
    /\ c.asap => \/ c.fsm = "designated_slave_fsm"
                 \/ /\ c.fsm # "designated_master_fsm"
                    /\ c.dm = "E2E" \/ c.inhibitDelay

\* What a port owns, by whether it is up; the transport apart, which a renewal
\* may have failed to open when the fault is reported.
Owns(p) ==
    LET up == port_is_enabled(p.state)
    IN  /\ up <=> p.fds = "open"
        /\ ~up => ~p.trp /\ p.held = {} /\ p.timers = AllOff
        /\ \/ cfg.dm = "COMMON_P2P"
           \/ (~up => p.fds = "closed") /\ ~p.pmc /\ ~p.leaked

Opened(p) == port_is_enabled(p.state) => p.trp

\* The timers of a state, whatever the configuration.
Timely(p) ==
    /\ p.timers["SYNC_RX"] # "off" => p.state \in Synced
    /\ p.timers["QUALIFICATION"] # "off" => p.state = "PRE_MASTER"
    /\ cfg.inhibitDelay => p.timers["DELAY"] = "off"
    /\ p.state \in {"LISTENING", "PASSIVE", "UNCALIBRATED", "SLAVE"}
         => cfg.inhibitAnnounce \/ p.timers["ANNOUNCE"] # "off"
    /\ p.state = "PRE_MASTER" => p.timers["QUALIFICATION"] # "off"

MasterStates == {"MASTER", "GRAND_MASTER"}

\* The timers of a state with a configuration that rearms them.
Serves(p) ==
    Rearms(cfg) =>
      /\ p.state \in MasterStates
           => /\ p.timers["SYNC_TX"] # "off"
              /\ cfg.inhibitAnnounce \/ p.timers["MANNO"] # "off"
      /\ \/ cfg.asap
         \/ p.timers["SYNC_TX"] = "off" /\ p.timers["MANNO"] = "off"
         \/ p.state \in MasterStates
      /\ \/ cfg.inhibitDelay
         \/ cfg.dm = "E2E" /\ p.state \notin Synced
         \/ ~port_is_enabled(p.state)
         \/ p.timers["DELAY"] # "off"

Good(p) == Owns(p) /\ Timely(p) /\ Serves(p)

\* The timers that port_initialize() starts
InitTimers == [t \in Timers |->
                 IF \/ t = "ANNOUNCE"
                    \/ t = "UNICAST_REQ" /\ cfg.unicast
                    \/ t = "DELAY" /\ noop /\ ~cfg.inhibitDelay
                 THEN "armed" ELSE "off"]

\* A port that is down, owning what Owns() lets it.
Rests(p) ==
    /\ p.fds # "open" /\ ~p.trp /\ p.held = {} /\ p.timers = AllOff
    /\ \/ cfg.dm = "COMMON_P2P"
       \/ p.fds = "closed" /\ ~p.pmc /\ ~p.leaked

\* A port that port_initialize() has just brought up.
Fresh(p) ==
    /\ p.fds = "open" /\ p.trp /\ p.timers = InitTimers
    /\ \/ cfg.dm = "COMMON_P2P"
       \/ ~p.pmc /\ ~p.leaked

\* port_initialize() brings a port up, or leaves it down, without a leak.
LEMMA InitializeRests ==
    ASSUME Environment, NEW p \in PortType, Rests(p)
    PROVE  IF InitOk THEN Fresh(port_initialize(p)) ELSE Rests(port_initialize(p))
<1> DEFINE reset == [p EXCEPT !.lastFault = "FT_UNSPECIFIED"]
           common == cfg.dm = "COMMON_P2P"
           fds == IF InitOk THEN "open" ELSE "dangling"
           timers == IF InitOk THEN InitTimers ELSE AllOff
           i == port_initialize(p)
<1>1. CASE ~osUp
  <2>1. i = reset BY <1>1 DEF port_initialize
  <2>2. ~InitOk BY <1>1 DEF InitOk
  <2>3. Rests(reset) BY DEF Rests, PortType
  <2> QED BY <2>1, <2>2, <2>3
<1>2. CASE osUp
  <2>1. i = [reset EXCEPT !.fds = fds, !.trp = InitOk, !.timers = timers,
                          !.leaked = @ \/ (common /\ p.pmc), !.pmc = @ \/ common]
    BY <1>2 DEF port_initialize, InitTimers
  <2>2. ~InitOk => common BY <1>2 DEF InitOk
  <2>3. reset \in PortType /\ reset.held = p.held /\ reset.pmc = p.pmc
        /\ reset.leaked = p.leaked
    BY DEF PortType, FaultTypes
  <2> HIDE DEF reset, fds, timers, i, common
  <2>4. /\ i.fds = fds /\ (i.trp <=> InitOk) /\ i.timers = timers /\ i.held = p.held
        /\ i.pmc <=> (p.pmc \/ common)
        /\ i.leaked <=> (p.leaked \/ (common /\ p.pmc))
    BY <2>1, <2>3 DEF PortType
  <2>5. CASE InitOk
    <3>1. fds = "open" /\ timers = InitTimers BY <2>5 DEF fds, timers
    <3> QED BY <2>4, <2>5, <3>1 DEF Fresh, Rests, i, common
  <2>6. CASE ~InitOk
    <3>1. fds = "dangling" /\ timers = AllOff BY <2>6 DEF fds, timers
    <3> QED BY <2>2, <2>4, <2>6, <3>1 DEF Rests, i, common
  <2> QED BY <2>5, <2>6
<1> QED BY <1>1, <1>2 DEF Environment

\* port_disable() leaves nothing behind.
LEMMA DisableRests ==
    ASSUME NEW p \in PortType, cfg.dm = "COMMON_P2P" \/ ~p.leaked
    PROVE  Rests(port_disable(p))
BY DEF PortType, port_disable, Rests, AllOff


\* port_e2e_transition() and port_p2p_transition() arm the timers of a running
\* state, whatever ran before.
LEMMA TransitionTimers ==
    ASSUME Environment, NEW p \in PortType, p.state \in RunningStates(cfg.fsm),
           p.fds = "open"
    PROVE  LET q   == Transition(p)
               p2p == cfg.dm \in {"P2P", "COMMON_P2P"}
           IN  /\ q.fds = p.fds /\ q.trp = p.trp /\ q.pmc = p.pmc /\ q.leaked = p.leaked
               /\ \A t \in Timers : q.timers[t] = "expired" => p.timers[t] = "expired"
               /\ q.timers["SYNC_RX"] = "off"
               /\ q.timers["QUALIFICATION"] # "expired"
               /\ q.timers["QUALIFICATION"] # "off" <=> p.state = "PRE_MASTER"
               /\ q.timers["SYNC_TX"] # "off" <=> p.state \in MasterStates
               /\ q.timers["MANNO"] # "off"
                    <=> p.state \in MasterStates /\ ~cfg.inhibitAnnounce
               /\ p.state \in {"LISTENING", "PASSIVE", "UNCALIBRATED", "SLAVE"}
                    => q.timers["ANNOUNCE"] # "off"
               /\ q.timers["DELAY"] # "off"
                    <=> \/ p2p /\ p.timers["DELAY"] # "off"
                        \/ /\ ~cfg.inhibitDelay
                           /\ p.state \in IF p2p THEN {"LISTENING"} ELSE Synced
<1> DEFINE p2p == cfg.dm \in {"P2P", "COMMON_P2P"}
           start == {t \in Timers :
                      \/ /\ t = "ANNOUNCE"
                         /\ p.state \in {"LISTENING", "PASSIVE", "UNCALIBRATED", "SLAVE"}
                      \/ t = "QUALIFICATION" /\ p.state = "PRE_MASTER"
                      \/ /\ t = "MANNO" /\ ~cfg.inhibitAnnounce
                         /\ p.state \in {"MASTER", "GRAND_MASTER"}
                      \/ t = "SYNC_TX" /\ p.state \in {"MASTER", "GRAND_MASTER"}
                      \/ /\ t = "DELAY" /\ ~cfg.inhibitDelay
                         /\ p.state \in IF p2p THEN {"LISTENING"}
                                        ELSE {"UNCALIBRATED", "SLAVE"}}
           running == {"UNICAST_REQ", "UNICAST_SRV"} \cup (IF p2p THEN {"DELAY"} ELSE {})
           timers == [t \in Timers |->
                      IF t \in start /\ p.fds = "open" THEN "armed"
                      ELSE IF t \in running THEN p.timers[t] ELSE "off"]
           flushed == IF p.state = "UNCALIBRATED"
                      THEN {"syfu", IF p2p THEN "peer_delay" ELSE "delay_req"}
                      ELSE {}
           q == Transition(p)
<1>1. p.state \notin {"FAULTY", "DISABLED"} BY Enabled DEF Environment, port_is_enabled
<1>2. q = [p EXCEPT !.timers = timers, !.held = @ \ flushed]
  BY <1>1, Zenon DEF Transition
<1>3. /\ "SYNC_RX" \notin start /\ "SYNC_RX" \notin running
      /\ "QUALIFICATION" \in start <=> p.state = "PRE_MASTER"
      /\ "QUALIFICATION" \notin running
      /\ "SYNC_TX" \in start <=> p.state \in MasterStates
      /\ "SYNC_TX" \notin running /\ "MANNO" \notin running
      /\ "MANNO" \in start <=> p.state \in MasterStates /\ ~cfg.inhibitAnnounce
      /\ "ANNOUNCE" \in start
           <=> p.state \in {"LISTENING", "PASSIVE", "UNCALIBRATED", "SLAVE"}
      /\ "DELAY" \in start <=> /\ ~cfg.inhibitDelay
                               /\ p.state \in IF p2p THEN {"LISTENING"} ELSE Synced
      /\ "DELAY" \in running <=> p2p
  BY DEF Timers, MasterStates, Synced
<1> HIDE DEF start, running
<1>4. /\ timers["SYNC_RX"] = "off"
      /\ timers["QUALIFICATION"] = IF p.state = "PRE_MASTER" THEN "armed" ELSE "off"
      /\ timers["SYNC_TX"] = IF p.state \in MasterStates THEN "armed" ELSE "off"
      /\ timers["MANNO"] = IF p.state \in MasterStates /\ ~cfg.inhibitAnnounce
                           THEN "armed" ELSE "off"
      /\ p.state \in {"LISTENING", "PASSIVE", "UNCALIBRATED", "SLAVE"}
           => timers["ANNOUNCE"] = "armed"
      /\ timers["DELAY"] = IF "DELAY" \in start THEN "armed"
                           ELSE IF p2p THEN p.timers["DELAY"] ELSE "off"
  BY <1>3 DEF Timers
<1>5. \A t \in Timers : timers[t] = "expired" => p.timers[t] = "expired"
  OBVIOUS
<1> HIDE DEF timers, flushed, q, p2p
<1>6. /\ q.timers = timers
      /\ q.fds = p.fds /\ q.trp = p.trp /\ q.pmc = p.pmc /\ q.leaked = p.leaked
  BY <1>2 DEF PortType
<1> QED BY <1>3, <1>4, <1>5, <1>6 DEF q, p2p


\* The values of these timers
LEMMA FreshTimers ==
    /\ \A t \in Timers : InitTimers[t] # "expired"
    /\ InitTimers["SYNC_RX"] = "off" /\ InitTimers["QUALIFICATION"] = "off"
    /\ InitTimers["SYNC_TX"] = "off" /\ InitTimers["MANNO"] = "off"
    /\ InitTimers["ANNOUNCE"] = "armed"
    /\ InitTimers["DELAY"] = IF noop /\ ~cfg.inhibitDelay THEN "armed" ELSE "off"
BY DEF InitTimers, Timers

\* p after a dispatch, seen from before: nothing expired meanwhile.
Expires(p, q) == \A t \in Timers : q.timers[t] = "expired" => p.timers[t] = "expired"

\* A port that is faulty and owns nothing is as it should be.
LEMMA RestsGood ==
    ASSUME NEW p, p.state = "FAULTY", Rests(p)
    PROVE  Good(p) /\ Opened(p) /\ \A t \in Timers : p.timers[t] = "off"
<1>1. ~port_is_enabled(p.state) BY DEF port_is_enabled
<1>2. \A t \in Timers : p.timers[t] = "off" BY DEF Rests, AllOff
<1>3. /\ p.timers["SYNC_RX"] = "off" /\ p.timers["QUALIFICATION"] = "off"
      /\ p.timers["SYNC_TX"] = "off" /\ p.timers["MANNO"] = "off"
      /\ p.timers["DELAY"] = "off"
  BY <1>2 DEF Timers
<1>4. Owns(p) /\ Opened(p) BY <1>1 DEF Owns, Opened, Rests
<1>5. Timely(p) BY <1>3 DEF Timely
<1>6. Serves(p) BY <1>1, <1>3 DEF Serves, MasterStates
<1> QED BY <1>2, <1>4, <1>5, <1>6 DEF Good

\* The state machines, by mechanism of delay measurement
LEMMA ConfigFields ==
    ASSUME Environment
    PROVE  /\ cfg.dm \in {"E2E", "P2P", "COMMON_P2P"}
           /\ cfg.fsm \in Machines /\ cfg.asap \in BOOLEAN /\ cfg.badPeerAsap \in BOOLEAN
           /\ cfg.inhibitDelay \in BOOLEAN /\ cfg.inhibitAnnounce \in BOOLEAN
BY DEF Environment, ConfigType, Mechanisms

\* A transition into a running state, from a port whose descriptors are open
\* and which measures if it did not just initialize
LEMMA TransitionGood ==
    ASSUME Environment, NEW p \in PortType, p.state \in RunningStates(cfg.fsm),
           p.fds = "open", p.trp,
           cfg.dm = "COMMON_P2P" \/ (~p.pmc /\ ~p.leaked),
           cfg.inhibitDelay => p.timers["DELAY"] = "off",
           \/ ~Rearms(cfg) \/ cfg.inhibitDelay \/ p.state = "LISTENING"
           \/ cfg.dm = "E2E" \/ p.timers["DELAY"] # "off"
    PROVE  /\ Good(Transition(p)) /\ Opened(Transition(p)) /\ Expires(p, Transition(p))
           /\ Transition(p).timers["SYNC_RX"] # "expired"
           /\ Transition(p).timers["QUALIFICATION"] # "expired"
<1> DEFINE q == Transition(p)
           p2p == cfg.dm \in {"P2P", "COMMON_P2P"}
<1>1. /\ q.fds = p.fds /\ q.trp = p.trp /\ q.pmc = p.pmc /\ q.leaked = p.leaked
      /\ \A t \in Timers : q.timers[t] = "expired" => p.timers[t] = "expired"
      /\ q.timers["SYNC_RX"] = "off"
      /\ q.timers["QUALIFICATION"] # "expired"
      /\ q.timers["QUALIFICATION"] # "off" <=> p.state = "PRE_MASTER"
      /\ q.timers["SYNC_TX"] # "off" <=> p.state \in MasterStates
      /\ q.timers["MANNO"] # "off"
           <=> p.state \in MasterStates /\ ~cfg.inhibitAnnounce
      /\ p.state \in {"LISTENING", "PASSIVE", "UNCALIBRATED", "SLAVE"}
           => q.timers["ANNOUNCE"] # "off"
      /\ q.timers["DELAY"] # "off"
           <=> \/ p2p /\ p.timers["DELAY"] # "off"
               \/ /\ ~cfg.inhibitDelay
                  /\ p.state \in IF p2p THEN {"LISTENING"} ELSE Synced
  BY TransitionTimers, Zenon
<1>2. q.state = p.state BY TransitionType
<1>3. port_is_enabled(p.state) BY Enabled DEF Environment
<1> HIDE DEF q
<1>4. Owns(q) /\ Opened(q) BY <1>1, <1>2, <1>3 DEF Owns, Opened
<1>5. Timely(q) BY <1>1, <1>2 DEF Timely
<1>6. Serves(q) BY <1>1, <1>2, ConfigFields DEF Serves, Synced
<1> QED BY <1>1, <1>4, <1>5, <1>6 DEF Good, Expires, q


\* One dispatch keeps a port as it should be, and a change of the state takes
\* care of the timers that only a transition stops.
LEMMA DispatchedGood ==
    ASSUME Environment, NEW p, Started(p), NEW e \in Dispatchable, NEW mdiff,
           Good(p), Opened(p) \/ e = "FAULT_DETECTED"
    PROVE  LET q == Dispatched(p, e, mdiff)
           IN  /\ Good(q) /\ Opened(q) /\ Expires(p, q)
               /\ state_machine(cfg.fsm, p.state, e, mdiff) # p.state
                    => /\ q.timers["SYNC_RX"] # "expired"
                       /\ q.timers["QUALIFICATION"] # "expired"
<1> DEFINE u == port_state_update(p, e, mdiff)
           q == Dispatched(p, e, mdiff)
           Goal == /\ Good(q) /\ Opened(q) /\ Expires(p, q)
                   /\ state_machine(cfg.fsm, p.state, e, mdiff) # p.state
                        => /\ q.timers["SYNC_RX"] # "expired"
                           /\ q.timers["QUALIFICATION"] # "expired"
<1> SUFFICES Goal OBVIOUS
<1>0. q = IF u.state = p.state THEN u ELSE Transition(u) BY DEF Dispatched, Enter
<1>1. Kept(p, e, mdiff, u) \/ Restarted(p, e, u) BY Update
<1>2. /\ p \in PortType /\ p.state \in RunningStates(cfg.fsm) \cup {"FAULTY"}
  BY DEF Started
<1>3. /\ \A s \in RunningStates(cfg.fsm) : port_is_enabled(s)
      /\ ~port_is_enabled("FAULTY") /\ "FAULTY" \notin RunningStates(cfg.fsm)
      /\ RunningStates(cfg.fsm) \subseteq PortStates
  BY Enabled DEF Environment
<1>f. "FAULTY" \in PortStates BY DEF PortStates
<1> HIDE DEF u, q
\* A faulty port is good whatever was before.
<1>4. ASSUME q.state = "FAULTY", Rests(q) PROVE Goal
  <2>1. Good(q) /\ Opened(q) /\ \A t \in Timers : q.timers[t] = "off"
    BY <1>4, RestsGood
  <2> QED BY <2>1 DEF Expires, Timers
<1>5. CASE Kept(p, e, mdiff, u)
  <2>1. /\ u = [p EXCEPT !.state = u.state, !.dirty = u.dirty] /\ u.dirty \in BOOLEAN
        /\ u.state = state_machine(cfg.fsm, p.state, e, mdiff)
        /\ u.state \in RunningStates(cfg.fsm) \cup {"FAULTY"}
        /\ e = "FAULT_DETECTED" \/ p.state = "FAULTY" => u.state = "FAULTY"
    BY <1>5 DEF Kept
  <2>2. u \in PortType BY <1>2, <1>3, <1>f, <2>1 DEF PortType
  <2>3. /\ u.timers = p.timers /\ u.fds = p.fds /\ u.trp = p.trp /\ u.held = p.held
        /\ u.pmc = p.pmc /\ u.leaked = p.leaked
    BY <1>2, <2>1 DEF PortType
  <2>4. CASE u.state = p.state
    <3>1. q = u BY <1>0, <2>4
    <3>2. Good(u) BY <2>3, <2>4 DEF Good, Owns, Timely, Serves
    <3>3. Opened(u) BY <1>3, <2>1, <2>3, <2>4 DEF Opened
    <3> QED BY <2>1, <2>3, <2>4, <3>1, <3>2, <3>3 DEF Expires
  <2>5. CASE u.state # p.state /\ u.state = "FAULTY"
    <3>1. q = port_disable(u) BY <1>0, <2>5 DEF Transition
    <3>2. cfg.dm = "COMMON_P2P" \/ ~u.leaked BY <2>3 DEF Good, Owns
    <3>3. Rests(q) BY <2>2, <3>1, <3>2, DisableRests
    <3>4. q.state = "FAULTY" BY <2>2, <2>5, <3>1, DisableType
    <3> QED BY <1>4, <3>3, <3>4
  <2>6. CASE u.state # p.state /\ u.state # "FAULTY"
    <3>1. q = Transition(u) BY <1>0, <2>6
    <3>2. /\ u.state \in RunningStates(cfg.fsm) /\ port_is_enabled(p.state)
          /\ p.state \in RunningStates(cfg.fsm) /\ e # "FAULT_DETECTED"
      BY <1>2, <1>3, <2>1, <2>6
    <3>3. /\ u.fds = "open" /\ u.trp
          /\ cfg.dm = "COMMON_P2P" \/ (~u.pmc /\ ~u.leaked)
      BY <2>3, <3>2 DEF Good, Owns, Opened
    <3>4. cfg.inhibitDelay => u.timers["DELAY"] = "off" BY <2>3 DEF Good, Timely
    <3>5. \/ ~Rearms(cfg) \/ cfg.inhibitDelay \/ u.state = "LISTENING"
          \/ cfg.dm = "E2E" \/ u.timers["DELAY"] # "off"
      BY <2>3, <3>2 DEF Good, Serves
    <3>6. /\ Good(q) /\ Opened(q) /\ Expires(u, q)
          /\ q.timers["SYNC_RX"] # "expired" /\ q.timers["QUALIFICATION"] # "expired"
      BY <2>2, <3>1, <3>2, <3>3, <3>4, <3>5, TransitionGood
    <3> QED BY <2>3, <3>6 DEF Expires
  <2> QED BY <2>4, <2>5, <2>6
<1>6. CASE Restarted(p, e, u)
  <2> DEFINE b == Base(p)
             i == port_initialize(b)
  <2>1. /\ u = [i EXCEPT !.state = u.state, !.dirty = u.dirty] /\ u.dirty \in BOOLEAN
        /\ u.state = IF InitOk THEN FirstState(cfg.fsm) ELSE "FAULTY"
        /\ \/ "LINK_UP" \in p.link /\ clear_fault_asap(p.lastFault)
           \/ p.state = "FAULTY" /\ e = "FAULT_CLEARED"
    BY <1>6 DEF Restarted
  <2>2. b \in PortType /\ Rests(b)
    <3>1. CASE port_is_enabled(p.state)
      BY <1>2, <3>1, DisableType, DisableRests DEF Base, Good, Owns
    <3>2. CASE ~port_is_enabled(p.state)
      BY <1>2, <3>2 DEF Base, Good, Owns, Rests
    <3> QED BY <3>1, <3>2
  <2> HIDE DEF b
  <2>3. /\ i \in PortType
        /\ IF InitOk THEN Fresh(i) ELSE Rests(i)
    BY <2>2, InitializeType, InitializeRests
  <2> HIDE DEF i
  <2>4. FirstState(cfg.fsm) \in RunningStates(cfg.fsm) BY ConfigFields, Machine, Zenon
  <2>5. u.state \in PortStates BY <1>3, <1>f, <2>1, <2>4
  <2>6. u \in PortType BY <2>1, <2>3, <2>5 DEF PortType
  <2>7. /\ u.timers = i.timers /\ u.fds = i.fds /\ u.trp = i.trp /\ u.held = i.held
        /\ u.pmc = i.pmc /\ u.leaked = i.leaked
    BY <2>1, <2>3 DEF PortType
  <2>8. CASE ~InitOk
    <3>1. u.state = "FAULTY" /\ Rests(u) BY <2>1, <2>3, <2>7, <2>8 DEF Rests
    <3>2. q.state = "FAULTY" /\ Rests(q)
      <4>1. CASE q = u BY <3>1, <4>1
      <4>2. CASE q = Transition(u)
        <5>1. q = port_disable(u) BY <3>1, <4>2 DEF Transition
        <5>2. cfg.dm = "COMMON_P2P" \/ ~u.leaked BY <3>1 DEF Rests
        <5> QED BY <2>6, <3>1, <5>1, <5>2, DisableRests, DisableType
      <4> QED BY <1>0, <4>1, <4>2
    <3> QED BY <1>4, <3>2
  <2>9. CASE InitOk
    <3>1. u.state = FirstState(cfg.fsm) /\ Fresh(u) BY <2>1, <2>3, <2>7, <2>9 DEF Fresh
    <3>2. u.state \in RunningStates(cfg.fsm) /\ port_is_enabled(u.state)
      BY <1>3, <2>4, <3>1
    <3>3. /\ \A t \in Timers : u.timers[t] # "expired"
          /\ u.timers["SYNC_RX"] = "off" /\ u.timers["QUALIFICATION"] = "off"
          /\ u.timers["SYNC_TX"] = "off" /\ u.timers["MANNO"] = "off"
          /\ u.timers["ANNOUNCE"] = "armed"
          /\ u.timers["DELAY"] = IF noop /\ ~cfg.inhibitDelay THEN "armed" ELSE "off"
      BY <3>1, FreshTimers DEF Fresh
    <3>4. /\ u.fds = "open" /\ u.trp
          /\ cfg.dm = "COMMON_P2P" \/ (~u.pmc /\ ~u.leaked)
      BY <3>1 DEF Fresh
    <3>5. ~noop => u.state = "LISTENING"
      BY <3>1, ConfigFields DEF noop, FirstState, Machines
    <3>6. CASE u.state = p.state
      <4>1. q = u BY <1>0, <3>6
      <4>2. Owns(u) /\ Opened(u) BY <3>2, <3>4 DEF Owns, Opened
      <4>3. Timely(u)
        BY <3>1, <3>3, ConfigFields DEF Timely, FirstState
      <4>4. Serves(u)
        <5>1. clear_fault_asap(p.lastFault) BY <1>3, <2>1, <3>2, <3>6
        <5>2. SUFFICES ASSUME Rearms(cfg)
                       PROVE  /\ u.state \notin MasterStates
                              /\ \/ cfg.inhibitDelay
                                 \/ cfg.dm = "E2E" /\ u.state \notin Synced
                                 \/ u.timers["DELAY"] # "off"
          BY <3>3 DEF Serves
        <5>3. cfg.asap BY <5>1, <5>2 DEF clear_fault_asap, Rearms
        <5>4. CASE cfg.fsm = "designated_slave_fsm"
          <6>1. noop /\ u.state = "SLAVE" BY <3>1, <5>4 DEF noop, FirstState
          <6> QED BY <3>3, <6>1 DEF MasterStates
        <5>5. CASE cfg.fsm # "designated_slave_fsm"
          <6>1. cfg.fsm # "designated_master_fsm" /\ (cfg.dm = "E2E" \/ cfg.inhibitDelay)
            BY <5>2, <5>3, <5>5 DEF Rearms
          <6>2. u.state = "LISTENING" BY <3>5, <5>5, <6>1 DEF noop
          <6> QED BY <6>1, <6>2 DEF MasterStates, Synced
        <5> QED BY <5>4, <5>5
      <4> QED BY <3>3, <4>1, <4>2, <4>3, <4>4 DEF Good, Expires, Timers
    <3>7. CASE u.state # p.state
      <4>1. q = Transition(u) BY <1>0, <3>7
      <4>2. cfg.inhibitDelay => u.timers["DELAY"] = "off" BY <3>3
      <4>3. \/ ~Rearms(cfg) \/ cfg.inhibitDelay \/ u.state = "LISTENING"
            \/ cfg.dm = "E2E" \/ u.timers["DELAY"] # "off"
        BY <3>3, <3>5
      <4>4. /\ Good(q) /\ Opened(q) /\ Expires(u, q)
            /\ q.timers["SYNC_RX"] # "expired" /\ q.timers["QUALIFICATION"] # "expired"
        BY <2>6, <3>2, <3>4, <4>1, <4>2, <4>3, TransitionGood
      <4> QED BY <3>3, <4>4 DEF Expires
    <3> QED BY <3>6, <3>7
  <2> QED BY <2>8, <2>9
<1> QED BY <1>1, <1>5, <1>6


\* The same of bc_dispatch(), which may dispatch a second event.
LEMMA DispatchGood ==
    ASSUME Environment, NEW p, Started(p), NEW e \in Dispatchable, NEW mdiff,
           NEW switched, Good(p), Opened(p) \/ e = "FAULT_DETECTED"
    PROVE  LET q == bc_dispatch(p, e, mdiff, switched)
           IN  /\ Good(q) /\ Opened(q) /\ Expires(p, q)
               /\ state_machine(cfg.fsm, p.state, e, mdiff) # p.state
                    => /\ q.timers["SYNC_RX"] # "expired"
                       /\ q.timers["QUALIFICATION"] # "expired"
<1> DEFINE q == Dispatched(p, e, mdiff)
           r == [q EXCEPT !.lastFault = "FT_SWITCH_PHC"]
           s == Dispatched(r, "FAULT_DETECTED", FALSE)
<1>1. /\ Good(q) /\ Opened(q) /\ Expires(p, q)
      /\ state_machine(cfg.fsm, p.state, e, mdiff) # p.state
           => q.timers["SYNC_RX"] # "expired" /\ q.timers["QUALIFICATION"] # "expired"
  BY DispatchedGood
<1>2. Started(q) BY DispatchedOnce
<1>5. bc_dispatch(p, e, mdiff, switched) \in {q, s} BY DEF bc_dispatch, SwitchPhc
<1> HIDE DEF q
<1>3. Started(r) /\ Good(r) /\ Expires(q, r)
  <2>1. q \in PortType BY <1>2 DEF Started
  <2>2. /\ r \in PortType
        /\ r.state = q.state /\ r.timers = q.timers /\ r.fds = q.fds /\ r.trp = q.trp
        /\ r.held = q.held /\ r.pmc = q.pmc /\ r.leaked = q.leaked
    BY <2>1 DEF PortType, FaultTypes
  <2> HIDE DEF r
  <2>3. Good(r) BY <1>1, <2>2 DEF Good, Owns, Timely, Serves
  <2> QED BY <1>2, <2>2, <2>3 DEF Started, Expires
<1> HIDE DEF r
<1>4. Good(s) /\ Opened(s) /\ Expires(r, s)
  <2>1. "FAULT_DETECTED" \in Dispatchable BY DEF Dispatchable, FsmEvents
  <2> QED BY <1>3, <2>1, DispatchedGood
<1> HIDE DEF s
<1>6. CASE bc_dispatch(p, e, mdiff, switched) = q BY <1>1, <1>6
<1>7. CASE bc_dispatch(p, e, mdiff, switched) = s
  BY <1>1, <1>3, <1>4, <1>7 DEF Expires, Timers
<1> QED BY <1>5, <1>6, <1>7

\* The events that handlers report and the port dispatches on its own
HandlerEvents == {"NONE", "FAULT_DETECTED", "ANNOUNCE_RECEIPT_TIMEOUT_EXPIRES",
                  "QUALIFICATION_TIMEOUT_EXPIRES", "SYNCHRONIZATION_FAULT",
                  "MASTER_CLOCK_SELECTED", "STATE_DECISION_EVENT"}

\* Only a fault takes a master out of its state before the next decision, and
\* the timeouts that no handler clears change the state.
LEMMA MachineTimeouts ==
    ASSUME NEW m \in Machines
    PROVE  /\ \A s \in MasterStates \cap RunningStates(m), e \in HandlerEvents :
                state_machine(m, s, e, FALSE) \in MasterStates \cup {"FAULTY"}
           /\ m \in {"ptp_fsm", "ptp_slave_fsm"} =>
                \A s \in Synced :
                  state_machine(m, s, "ANNOUNCE_RECEIPT_TIMEOUT_EXPIRES", FALSE) # s
           /\ "PRE_MASTER" \in RunningStates(m) =>
                state_machine(m, "PRE_MASTER", "QUALIFICATION_TIMEOUT_EXPIRES", FALSE)
                  # "PRE_MASTER"
<1> USE DEF Machines, state_machine, RunningStates, HandlerEvents, Restart,
            BootFsm, ManagedFsm, Electable, MasterStates, Synced
<1>1. CASE m = "ptp_fsm" BY <1>1 DEF ptp_fsm
<1>2. CASE m = "ptp_slave_fsm" BY <1>2 DEF ptp_slave_fsm
<1>3. CASE m = "designated_master_fsm" BY <1>3 DEF designated_master_fsm, designated_fsm
<1>4. CASE m = "designated_slave_fsm" BY <1>4 DEF designated_slave_fsm, designated_fsm
<1> QED BY <1>1, <1>2, <1>3, <1>4

Mastering == MasterStates \cup {"FAULTY"}

\* A master or a faulty port does not follow a master within a round, unless
\* faults are cleared as soon as possible.
LEMMA DispatchMasters ==
    ASSUME Environment, NEW p, Started(p), NEW e \in HandlerEvents, NEW switched,
           ~cfg.asap, ~cfg.badPeerAsap, p.state \in Mastering
    PROVE  bc_dispatch(p, e, FALSE, switched).state \in Mastering
<1> DEFINE u == port_state_update(p, e, FALSE)
           q == Dispatched(p, e, FALSE)
<1>0. e \in Dispatchable /\ e # "FAULT_CLEARED"
  BY DEF HandlerEvents, Dispatchable, FsmEvents
<1>1. ~clear_fault_asap(p.lastFault) BY DEF clear_fault_asap
<1>2. Kept(p, e, FALSE, u) BY <1>0, <1>1, Update DEF Restarted
<1>3. u.state \in Mastering
  <2>1. CASE p.state = "FAULTY" BY <1>2, <2>1 DEF Kept, Mastering
  <2>2. CASE p.state # "FAULTY"
    <3>1. p.state \in MasterStates \cap RunningStates(cfg.fsm)
      BY <2>2 DEF Started, Mastering
    <3>2. state_machine(cfg.fsm, p.state, e, FALSE) \in MasterStates \cup {"FAULTY"}
      BY <3>1, ConfigFields, MachineTimeouts
    <3> QED BY <1>2, <3>2 DEF Kept, Mastering
  <2> QED BY <2>1, <2>2
<1>4. u \in PortType
  <2>1. /\ u = [p EXCEPT !.state = u.state, !.dirty = u.dirty] /\ u.dirty \in BOOLEAN
    BY <1>2 DEF Kept
  <2>2. u.state \in PortStates BY <1>3 DEF PortStates, Mastering, MasterStates
  <2> HIDE DEF u
  <2> QED BY <2>1, <2>2 DEF PortType, Started
<1>5. q.state = u.state
  <2>1. q \in {u, Transition(u)} BY DEF Dispatched, Enter
  <2> HIDE DEF u, q
  <2> QED BY <1>4, <2>1, TransitionType
<1>6. q.state # "UNCALIBRATED" BY <1>3, <1>5 DEF Mastering, MasterStates
<1>7. bc_dispatch(p, e, FALSE, switched) = q BY <1>6 DEF bc_dispatch, SwitchPhc
<1> HIDE DEF q, u
<1> QED BY <1>3, <1>5, <1>7


\* What a handler may do to a port before it reports
Touched(p, q) ==
    /\ Good(q) /\ Expires(p, q)
    /\ q.state = p.state /\ q.trp = p.trp /\ q.fds = p.fds

\* A handler may do it in several steps ...
LEMMA TouchedTwice ==
    ASSUME NEW p, NEW q, NEW r, Touched(p, q), Touched(q, r) PROVE Touched(p, r)
BY DEF Touched, Expires

\* ... or not at all.
LEMMA TouchedNot == ASSUME NEW p, Good(p) PROVE Touched(p, p)
BY DEF Touched, Expires

\* Arming a timer that the state may have
LEMMA SetTouches ==
    ASSUME NEW p \in PortType, Good(p), NEW t \in Timers \ {"QUALIFICATION"},
           t = "DELAY" => ~cfg.inhibitDelay,
           t = "SYNC_RX" => p.state \in Synced,
           t \in {"SYNC_TX", "MANNO"}
             => cfg.asap \/ ~Rearms(cfg) \/ p.state \in Mastering
    PROVE  /\ Touched(p, set_tmo(p, t)) /\ set_tmo(p, t).timers[t] # "expired"
           /\ set_tmo(p, t) \in PortType
<1> DEFINE q == set_tmo(p, t)
<1>1. CASE p.fds # "open"
  <2>1. q = p BY <1>1 DEF set_tmo
  <2>2. p.timers = AllOff BY <1>1 DEF Good, Owns
  <2> QED BY <2>1, <2>2, TouchedNot DEF AllOff
<1>2. CASE p.fds = "open"
  <2>1. q = [p EXCEPT !.timers[t] = "armed"] BY <1>2 DEF set_tmo
  <2> HIDE DEF q
  <2>2. /\ q \in PortType
        /\ q.state = p.state /\ q.fds = p.fds /\ q.trp = p.trp /\ q.held = p.held
        /\ q.pmc = p.pmc /\ q.leaked = p.leaked
        /\ q.timers = [p.timers EXCEPT ![t] = "armed"]
    BY <2>1 DEF PortType
  <2>3. \A u \in Timers : q.timers[u] = IF u = t THEN "armed" ELSE p.timers[u]
    BY <2>2 DEF PortType
  <2>4. port_is_enabled(p.state) BY <1>2 DEF Good, Owns
  <2>5. Owns(q) BY <1>2, <2>2, <2>4 DEF Good, Owns
  <2>6. Timely(q) BY <2>2, <2>3 DEF Good, Timely, Timers
  <2>7. Serves(q)
    <3>1. p.state # "FAULTY" BY <2>4 DEF port_is_enabled
    <3> QED BY <2>2, <2>3, <3>1 DEF Good, Serves, Timers, Mastering
  <2> QED BY <2>2, <2>3, <2>5, <2>6, <2>7 DEF Touched, Good, Expires, q
<1> QED BY <1>1, <1>2

\* Clearing a timer that no state needs
LEMMA ClearTouches ==
    ASSUME NEW p \in PortType, Good(p), NEW t \in {"SYNC_RX", "UNICAST_SRV", "ANNOUNCE"},
           t = "ANNOUNCE" => cfg.inhibitAnnounce
    PROVE  /\ Touched(p, port_clr_tmo(p, t)) /\ port_clr_tmo(p, t).timers[t] # "expired"
           /\ port_clr_tmo(p, t) \in PortType
<1> DEFINE q == port_clr_tmo(p, t)
<1>0. t \in Timers BY DEF Timers
<1>1. q = [p EXCEPT !.timers[t] = "off"] BY DEF port_clr_tmo
<1> HIDE DEF q
<1>2. /\ q \in PortType
      /\ q.state = p.state /\ q.fds = p.fds /\ q.trp = p.trp /\ q.held = p.held
      /\ q.pmc = p.pmc /\ q.leaked = p.leaked
      /\ q.timers = [p.timers EXCEPT ![t] = "off"]
  BY <1>0, <1>1 DEF PortType
<1>3. \A u \in Timers : q.timers[u] = IF u = t THEN "off" ELSE p.timers[u]
  BY <1>0, <1>2 DEF PortType
<1>4. p.timers = AllOff => q.timers = AllOff BY <1>0, <1>2 DEF AllOff
<1>5. Owns(q) BY <1>2, <1>4 DEF Good, Owns
<1>6. Timely(q) BY <1>2, <1>3 DEF Good, Timely, Timers
<1>7. Serves(q) BY <1>2, <1>3 DEF Good, Serves, Timers
<1> QED BY <1>0, <1>2, <1>3, <1>5, <1>6, <1>7 DEF Touched, Good, Expires, q

\* Queues are filled only by a port that runs.
LEMMA HeldTouches ==
    ASSUME NEW p \in PortType, Good(p), NEW h \in SUBSET Queues,
           port_is_enabled(p.state) \/ h \subseteq p.held
    PROVE  Touched(p, [p EXCEPT !.held = h]) /\ [p EXCEPT !.held = h] \in PortType
<1> DEFINE q == [p EXCEPT !.held = h]
<1>1. /\ q \in PortType /\ q.held = h
      /\ q.state = p.state /\ q.fds = p.fds /\ q.trp = p.trp /\ q.timers = p.timers
      /\ q.pmc = p.pmc /\ q.leaked = p.leaked
  BY DEF PortType
<1> HIDE DEF q
<1>2. Good(q) BY <1>1 DEF Good, Owns, Timely, Serves
<1> QED BY <1>1, <1>2 DEF Touched, Expires, q

\* The type of the last fault is no concern of the timers.
LEMMA FaultTouches ==
    ASSUME NEW p \in PortType, Good(p), NEW f \in FaultTypes
    PROVE  Touched(p, [p EXCEPT !.lastFault = f]) /\ [p EXCEPT !.lastFault = f] \in PortType
<1> DEFINE q == [p EXCEPT !.lastFault = f]
<1>1. /\ q \in PortType /\ q.held = p.held
      /\ q.state = p.state /\ q.fds = p.fds /\ q.trp = p.trp /\ q.timers = p.timers
      /\ q.pmc = p.pmc /\ q.leaked = p.leaked
  BY DEF PortType
<1> HIDE DEF q
<1>2. Good(q) BY <1>1 DEF Good, Owns, Timely, Serves
<1> QED BY <1>1, <1>2 DEF Touched, Expires, q


\* A port that inhibits announces has a static role.
Static(c) == c.inhibitAnnounce
               => c.fsm \in {"designated_master_fsm", "designated_slave_fsm"}

\* The round r still handles every expired timer of p ...
Handled(p, r) ==
    Static(cfg) => \A t \in Timers : p.timers[t] = "expired" => t \in r

\* ... and has transmit timers to handle only if p was a master before.
Transmits(p, r) ==
    Rearms(cfg) /\ ~cfg.asap /\ r \cap {"SYNC_TX", "MANNO"} # {} => p.state \in Mastering

\* The second invariant, which rests on the first
Tidy == Good(port) /\ Opened(port) /\ Handled(port, ready) /\ Transmits(port, ready)

\* The invariant after a step that keeps the configuration
LEMMA TidyAfter ==
    ASSUME UNCHANGED cfg, Good(port'), Opened(port'), Handled(port', ready'),
           Transmits(port', ready')
    PROVE  Tidy'
<1>1. Good(port)' BY DEF Good, Owns, Timely, Serves
<1>2. Opened(port)' BY DEF Opened
<1>3. Handled(port, ready)' BY DEF Handled
<1>4. Transmits(port, ready)' BY DEF Transmits
<1> QED BY <1>1, <1>2, <1>3, <1>4 DEF Tidy

\* The clock's part of a handler that left the port as p
LEMMA ReportsTidy ==
    ASSUME Inv, Tidy, NEW fd, NEW p, Started(p), Good(p), NEW e \in HandlerEvents,
           Opened(p) \/ e = "FAULT_DETECTED", Expires(port, p), Transmits(p, ready),
           \/ ~Static(cfg) \/ fd \notin Timers \/ p.timers[fd] # "expired"
           \/ /\ fd \in {"SYNC_RX", "QUALIFICATION"}
              /\ state_machine(cfg.fsm, p.state, e, FALSE) # p.state,
           Reports(fd, p, e)
    PROVE  Tidy'
<1>0. Environment /\ e \in Dispatchable
  BY InvEnvironment DEF HandlerEvents, Dispatchable, FsmEvents
<1>1. PICK switched \in BOOLEAN : port' = bc_dispatch(p, e, FALSE, switched)
  BY DEF Reports
<1>2. /\ UNCHANGED cfg
      /\ ready' = ready \ {fd} \/ (ready' = {} /\ port'.state = "FAULTY")
  BY DEF Reports
<1>3. /\ Good(port') /\ Opened(port') /\ Expires(p, port')
      /\ state_machine(cfg.fsm, p.state, e, FALSE) # p.state
           => /\ port'.timers["SYNC_RX"] # "expired"
              /\ port'.timers["QUALIFICATION"] # "expired"
  <2> DEFINE q == bc_dispatch(p, e, FALSE, switched)
  <2>1. /\ Good(q) /\ Opened(q) /\ Expires(p, q)
        /\ state_machine(cfg.fsm, p.state, e, FALSE) # p.state
             => q.timers["SYNC_RX"] # "expired" /\ q.timers["QUALIFICATION"] # "expired"
    BY <1>0, DispatchGood
  <2> HIDE DEF q
  <2> QED BY <1>1, <2>1 DEF q
<1>4. Handled(port', ready')
  <2>1. CASE ready' = ready \ {fd}
    <3> SUFFICES ASSUME Static(cfg), NEW t \in Timers, port'.timers[t] = "expired"
                 PROVE  t \in ready \ {fd}
      BY <2>1 DEF Handled
    <3>1. p.timers[t] = "expired" /\ port.timers[t] = "expired" BY <1>3 DEF Expires
    <3>2. t \in ready BY <3>1 DEF Tidy, Handled
    <3>3. t # fd BY <1>3, <3>1
    <3> QED BY <3>2, <3>3
  <2>2. CASE port'.state = "FAULTY"
    <3>1. port'.timers = AllOff BY <1>3, <2>2 DEF Good, Owns, port_is_enabled
    <3> QED BY <3>1 DEF Handled, AllOff
  <2> QED BY <1>2, <2>1, <2>2
<1>5. Transmits(port', ready')
  <2> SUFFICES ASSUME Rearms(cfg), ~cfg.asap, ready' \cap {"SYNC_TX", "MANNO"} # {}
               PROVE  port'.state \in Mastering
    BY DEF Transmits
  <2>1. ready \cap {"SYNC_TX", "MANNO"} # {} BY <1>2
  <2>2. p.state \in Mastering BY <2>1 DEF Transmits
  <2>3. ~cfg.badPeerAsap BY DEF Rearms
  <2>4. bc_dispatch(p, e, FALSE, switched).state \in Mastering
    BY <1>0, <2>2, <2>3, DispatchMasters
  <2> QED BY <1>1, <2>4
<1> QED BY <1>2, <1>3, <1>4, <1>5, TidyAfter

\* The same for a handler that touched the port and keeps its transport
LEMMA ReportsTouched ==
    ASSUME Inv, Tidy, NEW fd, NEW p \in PortType, Touched(port, p), NEW e \in HandlerEvents,
           fd \notin Timers \/ p.timers[fd] # "expired",
           Handles(fd), Reports(fd, p, e)
    PROVE  Tidy'
<1>1. Safe(port) BY HandlesStarted
<1>2. Started(p) BY <1>1 DEF Safe, Started, Touched
<1>3. Opened(p) BY DEF Tidy, Opened, Touched
<1>4. Transmits(p, ready) BY DEF Tidy, Transmits, Touched
<1> QED BY <1>2, <1>3, <1>4, ReportsTidy DEF Touched


\* The delay timer is armed again unless requests are inhibited, and then it
\* never runs.
LEMMA DelayTmoTouches ==
    ASSUME NEW p \in PortType, Good(p)
    PROVE  /\ Touched(p, port_set_delay_tmo(p)) /\ port_set_delay_tmo(p) \in PortType
           /\ port_set_delay_tmo(p).timers["DELAY"] # "expired"
<1>1. CASE cfg.inhibitDelay
  BY <1>1, TouchedNot DEF port_set_delay_tmo, Good, Timely
<1>2. CASE ~cfg.inhibitDelay
  <2>1. "DELAY" \in Timers \ {"QUALIFICATION"} BY DEF Timers
  <2> QED BY <1>2, <2>1, SetTouches DEF port_set_delay_tmo
<1> QED BY <1>1, <1>2

\* The receipt timeouts
LEMMA ReceiptTimeoutTidy ==
    ASSUME Inv, Tidy, NEW fd \in {"ANNOUNCE", "SYNC_RX"}, ReceiptTimeout(fd)
    PROVE  Tidy'
<1>0. Safe(port) /\ Environment /\ port \in PortType /\ Good(port) /\ Opened(port)
  BY HandlesStarted DEF ReceiptTimeout, Safe, Started, Tidy
<1>1. PICK pruned \in BOOLEAN :
        LET p1 == IF noop THEN port_clr_tmo(port, "SYNC_RX") ELSE port
            p2 == IF cfg.inhibitAnnounce THEN port_clr_tmo(p1, "ANNOUNCE")
                                         ELSE set_tmo(p1, "ANNOUNCE")
            p3 == IF pruned THEN [p2 EXCEPT !.held = @ \ {"delay_req"}] ELSE p2
            renew == /\ cfg.slaveOnly /\ cfg.dm # "P2P" /\ ~cfg.raw
                     /\ port_is_enabled(port.state)
            p4 == IF renew THEN [p3 EXCEPT !.trp = osUp] ELSE p3
        IN  Reports(fd, p4,
              IF renew /\ ~osUp THEN "FAULT_DETECTED"
              ELSE IF cfg.inhibitAnnounce THEN "NONE"
              ELSE "ANNOUNCE_RECEIPT_TIMEOUT_EXPIRES")
  BY DEF ReceiptTimeout
<1> DEFINE p1 == IF noop THEN port_clr_tmo(port, "SYNC_RX") ELSE port
           p2 == IF cfg.inhibitAnnounce THEN port_clr_tmo(p1, "ANNOUNCE")
                                        ELSE set_tmo(p1, "ANNOUNCE")
           p3 == IF pruned THEN [p2 EXCEPT !.held = @ \ {"delay_req"}] ELSE p2
           renew == /\ cfg.slaveOnly /\ cfg.dm # "P2P" /\ ~cfg.raw
                    /\ port_is_enabled(port.state)
           p4 == IF renew THEN [p3 EXCEPT !.trp = osUp] ELSE p3
           event == IF renew /\ ~osUp THEN "FAULT_DETECTED"
                    ELSE IF cfg.inhibitAnnounce THEN "NONE"
                    ELSE "ANNOUNCE_RECEIPT_TIMEOUT_EXPIRES"
<1>r. Reports(fd, p4, event) BY <1>1
<1>2. /\ Touched(port, p1) /\ p1 \in PortType
      /\ noop => p1.timers["SYNC_RX"] # "expired"
  BY <1>0, ClearTouches, TouchedNot
<1> HIDE DEF p1
<1>3. Touched(p1, p2) /\ p2 \in PortType /\ p2.timers["ANNOUNCE"] # "expired"
  <2>1. CASE cfg.inhibitAnnounce
    <3>1. "ANNOUNCE" \in {"SYNC_RX", "UNICAST_SRV", "ANNOUNCE"} OBVIOUS
    <3> QED BY <1>2, <2>1, <3>1, ClearTouches DEF Touched
  <2>2. CASE ~cfg.inhibitAnnounce
    <3>1. "ANNOUNCE" \in Timers \ {"QUALIFICATION"} BY DEF Timers
    <3>2. Touched(p1, set_tmo(p1, "ANNOUNCE")) /\ set_tmo(p1, "ANNOUNCE") \in PortType
          /\ set_tmo(p1, "ANNOUNCE").timers["ANNOUNCE"] # "expired"
      BY <1>2, <3>1, SetTouches DEF Touched
    <3> QED BY <2>2, <3>2
  <2> QED BY <2>1, <2>2
<1> HIDE DEF p2
<1>4. Touched(p2, p3) /\ p3 \in PortType
  <2>1. p2.held \ {"delay_req"} \in SUBSET Queues /\ p2.held \ {"delay_req"} \subseteq p2.held
    BY <1>3 DEF PortType
  <2>2. /\ Touched(p2, [p2 EXCEPT !.held = p2.held \ {"delay_req"}])
        /\ [p2 EXCEPT !.held = p2.held \ {"delay_req"}] \in PortType
    BY <1>3, <2>1, HeldTouches DEF Touched
  <2> QED BY <1>3, <2>2, TouchedNot DEF Touched
<1> HIDE DEF p3
<1>5. Touched(port, p3) BY <1>2, <1>3, <1>4, TouchedTwice
<1>6. /\ fd = "ANNOUNCE" \/ noop => p3.timers[fd] # "expired"
      /\ p3.state = port.state /\ (Opened(port) => Opened(p3))
  BY <1>2, <1>3, <1>4, <1>5 DEF Touched, Expires, Timers, Opened
<1>7. /\ p4 \in PortType /\ p4.state = p3.state /\ p4.timers = p3.timers
      /\ p4.fds = p3.fds /\ p4.held = p3.held /\ p4.pmc = p3.pmc /\ p4.leaked = p3.leaked
      /\ p4.trp = IF renew THEN osUp ELSE p3.trp
  BY <1>0, <1>4 DEF PortType, Environment
<1>8. event \in HandlerEvents BY DEF HandlerEvents
<1> HIDE DEF p4
<1>9. Good(p4)
  <2>1. renew => port_is_enabled(p3.state) BY <1>6
  <2>2. Good(p3) BY <1>5 DEF Touched
  <2> HIDE DEF renew
  <2>3. Owns(p4) BY <1>7, <2>1, <2>2 DEF Good, Owns
  <2> QED BY <1>7, <2>2, <2>3 DEF Good, Timely, Serves
<1>10. Opened(p4) \/ event = "FAULT_DETECTED" BY <1>0, <1>6, <1>7 DEF Opened
<1>11. Started(p4) BY <1>0, <1>6, <1>7 DEF Safe, Started
<1>12. Expires(port, p4) BY <1>5, <1>7 DEF Touched, Expires
<1>13. Transmits(p4, ready) BY <1>6, <1>7 DEF Tidy, Transmits
<1>14. \/ ~Static(cfg) \/ p4.timers[fd] # "expired"
       \/ fd = "SYNC_RX" /\ state_machine(cfg.fsm, p4.state, event, FALSE) # p4.state
  <2> SUFFICES ASSUME Static(cfg), p4.timers[fd] = "expired"
               PROVE  /\ fd = "SYNC_RX"
                      /\ state_machine(cfg.fsm, p4.state, event, FALSE) # p4.state
    OBVIOUS
  <2>1. fd = "SYNC_RX" /\ ~noop BY <1>6, <1>7
  <2>2. p4.state \in Synced BY <1>9, <2>1 DEF Good, Timely
  <2>3. cfg.fsm \in {"ptp_fsm", "ptp_slave_fsm"} /\ ~cfg.inhibitAnnounce
    BY <1>0, <2>1, ConfigFields DEF noop, Machines, Static
  <2>4. event \in {"FAULT_DETECTED", "ANNOUNCE_RECEIPT_TIMEOUT_EXPIRES"} BY <2>3
  <2>5. state_machine(cfg.fsm, p4.state, "ANNOUNCE_RECEIPT_TIMEOUT_EXPIRES", FALSE)
          # p4.state
    BY <1>0, <2>2, <2>3, ConfigFields, MachineTimeouts
  <2>6. state_machine(cfg.fsm, p4.state, "FAULT_DETECTED", FALSE) # p4.state
    <3>1. p4.state \in RunningStates(cfg.fsm) /\ p4.state # "FAULTY"
      BY <1>11, <2>2 DEF Started, Synced
    <3>2. "FAULT_DETECTED" \in Dispatchable BY DEF Dispatchable, FsmEvents
    <3>3. cfg.fsm \in Machines BY <1>0, ConfigFields
    <3>4. state_machine(cfg.fsm, p4.state, "FAULT_DETECTED", FALSE) = "FAULTY"
      BY <3>1, <3>2, <3>3, Machine, Zenon
    <3> QED BY <3>1, <3>4
  <2> HIDE DEF event
  <2> QED BY <2>1, <2>4, <2>5, <2>6
<1> HIDE DEF event
<1> QED BY <1>r, <1>8, <1>9, <1>10, <1>11, <1>12, <1>13, <1>14, ReportsTidy

\* The delay timer
LEMMA DelayTimeoutTidy == ASSUME Inv, Tidy, DelayTimeout PROVE Tidy'
<1>0. Safe(port) /\ Environment /\ port \in PortType /\ Good(port) /\ Handles("DELAY")
  BY HandlesStarted DEF DelayTimeout, Safe, Started, Tidy
<1> DEFINE p == port_set_delay_tmo(port)
           queue == IF cfg.dm = "P2P" THEN "peer_delay" ELSE "delay_req"
           q == [p EXCEPT !.held = @ \cup {queue}]
<1>1. /\ Touched(port, p) /\ p \in PortType /\ p.timers["DELAY"] # "expired"
  BY <1>0, DelayTmoTouches
<1>2. \/ Reports("DELAY", p, "FAULT_DETECTED")
      \/ Reports("DELAY", p, "NONE")
      \/ /\ port.trp
         /\ \/ Reports("DELAY", q, "NONE")
            \/ Reports("DELAY", q, "SYNCHRONIZATION_FAULT")
  BY DEF DelayTimeout
<1> HIDE DEF p
<1>3. port.trp => Touched(port, q) /\ q \in PortType /\ q.timers["DELAY"] # "expired"
  <2> SUFFICES ASSUME port.trp
               PROVE  Touched(port, q) /\ q \in PortType /\ q.timers["DELAY"] # "expired"
    OBVIOUS
  <2>1. port_is_enabled(p.state) BY <1>0, <1>1 DEF Touched, Good, Owns
  <2>2. p.held \cup {queue} \in SUBSET Queues BY <1>1 DEF Queues, PortType
  <2>3. Touched(p, q) /\ q \in PortType BY <1>1, <2>1, <2>2, HeldTouches DEF Touched
  <2>4. q.timers = p.timers BY <1>1 DEF PortType
  <2> QED BY <1>1, <2>3, <2>4, TouchedTwice
<1>4. {"FAULT_DETECTED", "NONE", "SYNCHRONIZATION_FAULT"} \subseteq HandlerEvents
  BY DEF HandlerEvents
<1> HIDE DEF q
<1> QED BY <1>0, <1>1, <1>2, <1>3, <1>4, ReportsTouched


\* The other timers and the CMLDS client
LEMMA TimeoutTidy ==
    ASSUME Inv, Tidy,
           \/ QualificationTimeout
           \/ TransmitTimeout("MANNO") \/ TransmitTimeout("SYNC_TX")
           \/ UnicastTimeout("UNICAST_REQ") \/ UnicastTimeout("UNICAST_SRV")
           \/ process_cmlds
    PROVE  Tidy'
<1>e. {"FAULT_DETECTED", "NONE", "QUALIFICATION_TIMEOUT_EXPIRES"} \subseteq HandlerEvents
  BY DEF HandlerEvents
<1>g. Good(port) /\ Opened(port) /\ Transmits(port, ready) BY DEF Tidy
<1>1. CASE QualificationTimeout
  <2>1. /\ Safe(port) /\ Environment
        /\ Reports("QUALIFICATION", port, "QUALIFICATION_TIMEOUT_EXPIRES")
    BY <1>1, HandlesStarted DEF QualificationTimeout
  <2>2. Started(port) BY <2>1 DEF Safe
  <2>3. \/ port.timers["QUALIFICATION"] # "expired"
        \/ state_machine(cfg.fsm, port.state, "QUALIFICATION_TIMEOUT_EXPIRES", FALSE)
             # port.state
    <3> SUFFICES ASSUME port.timers["QUALIFICATION"] = "expired"
                 PROVE  state_machine(cfg.fsm, port.state, "QUALIFICATION_TIMEOUT_EXPIRES",
                                      FALSE) # port.state
      OBVIOUS
    <3>1. port.state = "PRE_MASTER" BY <1>g DEF Good, Timely
    <3>2. "PRE_MASTER" \in RunningStates(cfg.fsm) BY <2>2, <3>1 DEF Started
    <3>3. state_machine(cfg.fsm, "PRE_MASTER", "QUALIFICATION_TIMEOUT_EXPIRES", FALSE)
            # "PRE_MASTER"
      BY <2>1, <3>2, ConfigFields, MachineTimeouts
    <3> QED BY <3>1, <3>3
  <2>4. Expires(port, port) BY DEF Expires
  <2> QED BY <1>e, <1>g, <2>1, <2>2, <2>3, <2>4, ReportsTidy
<1>2. ASSUME NEW fd \in {"MANNO", "SYNC_TX"}, TransmitTimeout(fd) PROVE Tidy'
  <2>1. Safe(port) /\ port \in PortType /\ Handles(fd)
    BY <1>2, HandlesStarted DEF TransmitTimeout, Safe, Started
  <2>2. cfg.asap \/ ~Rearms(cfg) \/ port.state \in Mastering
    BY <1>g, <2>1 DEF Transmits, Handles
  <2>3. fd \in Timers \ {"QUALIFICATION"} /\ fd # "DELAY" /\ fd # "SYNC_RX" BY DEF Timers
  <2>4. /\ Touched(port, set_tmo(port, fd)) /\ set_tmo(port, fd).timers[fd] # "expired"
        /\ set_tmo(port, fd) \in PortType
    BY <1>g, <2>1, <2>2, <2>3, SetTouches
  <2> QED BY <1>2, <1>e, <2>1, <2>4, ReportsTouched DEF TransmitTimeout
<1>3. ASSUME NEW fd \in {"UNICAST_REQ", "UNICAST_SRV"}, UnicastTimeout(fd) PROVE Tidy'
  <2>1. Safe(port) /\ port \in PortType /\ Handles(fd)
    BY <1>3, HandlesStarted DEF UnicastTimeout, Safe, Started
  <2>2. /\ fd \in Timers \ {"QUALIFICATION"}
        /\ fd \notin {"DELAY", "SYNC_RX", "SYNC_TX", "MANNO"}
    BY DEF Timers
  <2>3. /\ Touched(port, set_tmo(port, fd)) /\ set_tmo(port, fd).timers[fd] # "expired"
        /\ set_tmo(port, fd) \in PortType
    BY <1>g, <2>1, <2>2, SetTouches
  <2>4. fd = "UNICAST_SRV" =>
          /\ Touched(port, port_clr_tmo(port, fd)) /\ port_clr_tmo(port, fd) \in PortType
          /\ port_clr_tmo(port, fd).timers[fd] # "expired"
    BY <1>g, <2>1, ClearTouches
  <2> QED BY <1>3, <1>e, <2>1, <2>3, <2>4, ReportsTouched DEF UnicastTimeout
<1>4. CASE process_cmlds
  <2>1. port \in PortType /\ Handles("CMLDS")
    BY <1>4, HandlesStarted DEF process_cmlds, Safe, Started
  <2>2. Touched(port, port) BY <1>g, TouchedNot
  <2>3. "CMLDS" \notin Timers BY DEF Timers
  <2> QED BY <1>4, <1>e, <2>1, <2>2, <2>3, ReportsTouched DEF process_cmlds
<1> QED BY <1>1, <1>2, <1>3, <1>4

\* A complete Sync on a port that runs
LEMMA SynchronizeGood ==
    ASSUME Environment, NEW p, Safe(p), Good(p), Opened(p), p.state \in Synced,
           NEW verdict \in Verdicts, NEW restarted, NEW sw1, NEW sw2
    PROVE  LET r == port_synchronize(p, verdict, restarted, sw1, sw2)
           IN  Good(r) /\ Opened(r) /\ Expires(p, r)
<1> DEFINE q == set_tmo(p, "SYNC_RX")
           f == bc_dispatch(q, "SYNCHRONIZATION_FAULT", FALSE, sw1)
           x == IF restarted THEN f ELSE q
           s == bc_dispatch(q, "MASTER_CLOCK_SELECTED", FALSE, sw1)
           y == bc_dispatch(x, "MASTER_CLOCK_SELECTED", FALSE, sw2)
           j == [f EXCEPT !.held = @ \ {"delay_req"}]
           Goal(r) == Good(r) /\ Opened(r) /\ Expires(p, r)
<1>1. q \in PortType /\ Touched(p, q) /\ Started(q)
  <2>1. p \in PortType BY DEF Safe, Started
  <2>2. "SYNC_RX" \in Timers \ {"QUALIFICATION"} BY DEF Timers
  <2>3. q \in PortType /\ Touched(p, q) BY <2>1, <2>2, SetTouches
  <2> QED BY <2>3 DEF Safe, Started, Touched
<1> HIDE DEF q
<1>2. Good(q) /\ Opened(q) /\ Expires(p, q) BY <1>1 DEF Touched, Opened
<1>3. "SYNCHRONIZATION_FAULT" \in Dispatchable /\ "MASTER_CLOCK_SELECTED" \in Dispatchable
  BY DEF Dispatchable, FsmEvents
<1>4. Good(f) /\ Opened(f) /\ Expires(q, f) /\ Started(f)
  BY <1>1, <1>2, <1>3, DispatchGood, Dispatch
<1>5. Goal(s)
  <2>1. Good(s) /\ Opened(s) /\ Expires(q, s) BY <1>1, <1>2, <1>3, DispatchGood
  <2> QED BY <1>2, <2>1 DEF Expires
<1> HIDE DEF f, s
<1>6. Goal(f) BY <1>2, <1>4 DEF Expires
<1>7. Goal(j)
  <2>1. f \in PortType /\ f.held \ {"delay_req"} \in SUBSET Queues
        /\ f.held \ {"delay_req"} \subseteq f.held
    BY <1>4 DEF Started, PortType
  <2>2. Touched(f, j) BY <1>4, <2>1, HeldTouches
  <2> QED BY <1>6, <2>2 DEF Touched, Opened, Expires
<1>8. Goal(x) /\ Started(x) BY <1>1, <1>2, <1>4, <1>6
<1> HIDE DEF x
<1>9. Goal(y)
  <2>1. Good(y) /\ Opened(y) /\ Expires(x, y) BY <1>3, <1>8, DispatchGood
  <2> QED BY <1>8, <2>1 DEF Expires
<1> HIDE DEF y, j
<1>10. port_synchronize(p, verdict, restarted, sw1, sw2) \in {f, j, s, y}
  <2>1. CASE verdict = "SERVO_UNLOCKED" BY <2>1 DEF port_synchronize, q, f
  <2>2. CASE verdict = "SERVO_JUMP" BY <2>2 DEF port_synchronize, q, f, j
  <2>3. CASE verdict = "SERVO_LOCKED" BY <2>3 DEF port_synchronize, q, s
  <2>4. CASE verdict = "SERVO_LOCKED_STABLE"
    BY <2>4, Zenon DEF port_synchronize, q, f, x, y
  <2> QED BY <2>1, <2>2, <2>3, <2>4 DEF Verdicts
<1>11. \A r \in {f, j, s, y} : Goal(r) BY <1>5, <1>6, <1>7, <1>9
<1> QED BY <1>10, <1>11


\* The receive path
LEMMA ReceiveTidy == ASSUME Inv, Tidy, Receive PROVE Tidy'
<1>0. /\ Safe(port) /\ Environment /\ Handles("EVENT")
      /\ port \in PortType /\ Good(port) /\ Opened(port)
  BY HandlesStarted DEF Receive, Safe, Started, Tidy
<1>e. {"FAULT_DETECTED", "NONE", "STATE_DECISION_EVENT"} \subseteq HandlerEvents
  BY DEF HandlerEvents
<1>u. port.trp => port_is_enabled(port.state) BY <1>0 DEF Good, Owns
<1>q. port.held \subseteq Queues BY <1>0 DEF PortType
<1>1. ASSUME NEW p \in PortType, Touched(port, p),
             NEW e \in {"FAULT_DETECTED", "NONE", "STATE_DECISION_EVENT"},
             Reports("EVENT", p, e)
      PROVE  Tidy'
  <2>1. "EVENT" \notin Timers BY DEF Timers
  <2> QED BY <1>0, <1>1, <1>e, <2>1, ReportsTouched
<1>h. ASSUME NEW h \in SUBSET Queues, port.trp \/ h \subseteq port.held
      PROVE  Touched(port, [port EXCEPT !.held = h]) /\ [port EXCEPT !.held = h] \in PortType
  BY <1>0, <1>h, <1>u, HeldTouches
<1>2. CASE \/ Reports("EVENT", port, "FAULT_DETECTED")
           \/ Reports("EVENT", port, "NONE")
  BY <1>0, <1>1, <1>2, TouchedNot
<1>3. CASE Reports("EVENT", [port EXCEPT !.lastFault = "FT_BAD_PEER_NETWORK"],
                   "FAULT_DETECTED")
  <2>1. "FT_BAD_PEER_NETWORK" \in FaultTypes BY DEF FaultTypes
  <2> QED BY <1>0, <1>1, <1>3, <2>1, FaultTouches
<1>4. CASE port.trp /\ Reports("EVENT", [port EXCEPT !.held = @ \cup {"foreign_masters"}],
                               "STATE_DECISION_EVENT")
  <2>1. port.held \cup {"foreign_masters"} \in SUBSET Queues BY <1>q DEF Queues
  <2> QED BY <1>1, <1>4, <1>h, <2>1
<1>5. CASE port.trp /\ Reports("EVENT", [port EXCEPT !.held = @ \cup {"syfu"}], "NONE")
  <2>1. port.held \cup {"syfu"} \in SUBSET Queues BY <1>q DEF Queues
  <2> QED BY <1>1, <1>5, <1>h, <2>1
<1>6. CASE /\ port.state \in Synced
           /\ \E verdict \in Verdicts, restarted, sw1, sw2 \in BOOLEAN :
                Reports("EVENT",
                  [port_synchronize(port, verdict, restarted, sw1, sw2)
                     EXCEPT !.held = @ \ {"syfu"}], "NONE")
  <2>1. PICK verdict \in Verdicts, restarted \in BOOLEAN, sw1 \in BOOLEAN, sw2 \in BOOLEAN :
          Reports("EVENT",
            [port_synchronize(port, verdict, restarted, sw1, sw2)
               EXCEPT !.held = @ \ {"syfu"}], "NONE")
    BY <1>6
  <2> DEFINE p == port_synchronize(port, verdict, restarted, sw1, sw2)
             q == [p EXCEPT !.held = p.held \ {"syfu"}]
  <2>2. "LINK_UP" \in port.link BY <1>0, <1>6 DEF Safe, Synced
  <2>3. Safe(p) BY <1>0, <2>2, SynchronizeSafe, Zenon
  <2>4. Good(p) /\ Opened(p) /\ Expires(port, p) BY <1>0, <1>6, SynchronizeGood
  <2>r. Reports("EVENT", q, "NONE") BY <2>1
  <2> HIDE DEF p
  <2>5. /\ p \in PortType /\ p.held \ {"syfu"} \in SUBSET Queues
        /\ p.held \ {"syfu"} \subseteq p.held
    BY <2>3 DEF Safe, Started, PortType
  <2>6. Touched(p, q) /\ q \in PortType BY <2>4, <2>5, HeldTouches
  <2> HIDE DEF q
  <2>7. Good(q) /\ Opened(q) /\ Expires(port, q) BY <2>4, <2>6 DEF Touched, Opened, Expires
  <2>8. Started(q) BY <2>3, <2>6 DEF Safe, Started, Touched
  <2>9. Transmits(q, ready)
    BY <1>6 DEF Tidy, Transmits, Mastering, MasterStates, Synced
  <2>10. "EVENT" \notin Timers BY DEF Timers
  <2> QED BY <1>e, <2>r, <2>7, <2>8, <2>9, <2>10, ReportsTidy
<1>7. CASE /\ port.trp
           /\ \E p \in {port, port_set_delay_tmo(port)}, left \in {{}, {"delay_req"}} :
                Reports("EVENT", [p EXCEPT !.held = (@ \ {"delay_req"}) \cup left], "NONE")
  <2>1. PICK p \in {port, port_set_delay_tmo(port)}, left \in {{}, {"delay_req"}} :
          Reports("EVENT", [p EXCEPT !.held = (@ \ {"delay_req"}) \cup left], "NONE")
    BY <1>7
  <2>2. Touched(port, p) /\ p \in PortType BY <1>0, DelayTmoTouches, TouchedNot
  <2>3. port_is_enabled(p.state) BY <1>7, <1>u, <2>2 DEF Touched
  <2> DEFINE h == (p.held \ {"delay_req"}) \cup left
             q == [p EXCEPT !.held = h]
  <2>4. h \in SUBSET Queues BY <2>2 DEF PortType, Queues
  <2> HIDE DEF h
  <2>5. Touched(p, q) /\ q \in PortType BY <2>2, <2>3, <2>4, HeldTouches DEF Touched
  <2>6. Touched(port, q) BY <2>2, <2>5, TouchedTwice
  <2>7. Reports("EVENT", q, "NONE") BY <2>1 DEF h
  <2> HIDE DEF q
  <2> QED BY <1>1, <2>5, <2>6, <2>7
<1>8. CASE Reports("EVENT", [port EXCEPT !.held = @ \ {"peer_delay"}], "NONE")
  <2>1. port.held \ {"peer_delay"} \in SUBSET Queues
        /\ port.held \ {"peer_delay"} \subseteq port.held
    BY <1>q
  <2> QED BY <1>1, <1>8, <1>h, <2>1
<1>9. CASE Reports("EVENT", set_tmo(port, "UNICAST_SRV"), "NONE")
  <2>1. "UNICAST_SRV" \in Timers \ {"QUALIFICATION"} BY DEF Timers
  <2>2. /\ Touched(port, set_tmo(port, "UNICAST_SRV"))
        /\ set_tmo(port, "UNICAST_SRV") \in PortType
    BY <1>0, <2>1, SetTouches
  <2> QED BY <1>1, <1>9, <2>2
<1> QED BY <1>2, <1>3, <1>4, <1>5, <1>6, <1>7, <1>8, <1>9 DEF Receive

\* port_link_status() changes the link flags, and may report a fault itself.
LEMMA LinkStatusGood ==
    ASSUME Environment, NEW p, Safe(p), Good(p), Opened(p),
           NEW state \in {"LINK_UP", "LINK_DOWN"},
           NEW label \in BOOLEAN, NEW phc \in {"kept", "unsupported", "switch_failed"}
    PROVE  LET q == LinkStatus(p, state, label, phc)
           IN  Good(q) /\ Opened(q) /\ Expires(p, q)
<1> DEFINE changed == IF state \in p.link THEN {} ELSE {"LINK_STATE_CHANGED"}
           named == IF label THEN {"TS_LABEL_CHANGED"} ELSE {}
           link == {state} \cup changed \cup named
           q == [p EXCEPT !.link = link]
           r == [q EXCEPT !.lastFault = "FT_SWITCH_PHC"]
           s == [q EXCEPT !.link = {"LINK_DOWN", "LINK_STATE_CHANGED"}]
           d == bc_dispatch(r, "FAULT_DETECTED", FALSE, TRUE)
           Goal(x) == Good(x) /\ Opened(x) /\ Expires(p, x)
<1>1. LinkStatus(p, state, label, phc) \in {q, s, d}
  <2>1. CASE state = "LINK_UP" /\ phc = "unsupported" BY <2>1, Zenon DEF LinkStatus
  <2>2. CASE state = "LINK_UP" /\ phc = "switch_failed" BY <2>2 DEF LinkStatus
  <2>3. CASE ~(state = "LINK_UP" /\ phc \in {"unsupported", "switch_failed"})
    BY <2>3 DEF LinkStatus
  <2> QED BY <2>1, <2>2, <2>3
<1>2. link \in SUBSET LinkFlags /\ {"LINK_DOWN", "LINK_STATE_CHANGED"} \in SUBSET LinkFlags
  BY DEF LinkFlags
<1> HIDE DEF link
<1>3. ASSUME NEW x \in PortType, NEW l \in SUBSET LinkFlags, Goal(x), Started(x)
      PROVE  /\ Goal([x EXCEPT !.link = l]) /\ [x EXCEPT !.link = l] \in PortType
             /\ Started([x EXCEPT !.link = l])
  <2> DEFINE y == [x EXCEPT !.link = l]
  <2>1. /\ y \in PortType
        /\ y.state = x.state /\ y.timers = x.timers /\ y.fds = x.fds /\ y.trp = x.trp
        /\ y.held = x.held /\ y.pmc = x.pmc /\ y.leaked = x.leaked
    BY DEF PortType
  <2> HIDE DEF y
  <2>2. Good(y) BY <1>3, <2>1 DEF Good, Owns, Timely, Serves
  <2>3. Goal(y) /\ y \in PortType /\ Started(y)
    BY <1>3, <2>1, <2>2 DEF Opened, Expires, Started
  <2> QED BY <2>3 DEF y
<1>4. p \in PortType /\ Started(p) /\ Goal(p) BY DEF Safe, Started, Expires
<1>5. Goal(q) /\ q \in PortType /\ Started(q) BY <1>2, <1>3, <1>4
<1> HIDE DEF q
<1>6. Goal(s) BY <1>2, <1>3, <1>5
<1>7. Goal(d)
  <2>1. Touched(q, r) /\ r \in PortType
    <3>1. "FT_SWITCH_PHC" \in FaultTypes BY DEF FaultTypes
    <3> QED BY <1>5, <3>1, FaultTouches
  <2> HIDE DEF r
  <2>2. Goal(r) /\ Started(r) BY <1>5, <2>1 DEF Touched, Opened, Expires, Started
  <2>3. "FAULT_DETECTED" \in Dispatchable BY DEF Dispatchable, FsmEvents
  <2>4. Good(d) /\ Opened(d) /\ Expires(r, d) BY <2>2, <2>3, DispatchGood
  <2> QED BY <2>2, <2>4 DEF Expires
<1> HIDE DEF s, d
<1>8. \A x \in {q, s, d} : Goal(x) BY <1>5, <1>6, <1>7
<1> QED BY <1>1, <1>8


\* A dispatch outside the round: nothing is left to handle.
LEMMA DispatchTidy ==
    ASSUME Environment, NEW p, Started(p), NEW e \in Dispatchable, NEW mdiff,
           NEW switched, Good(p), Opened(p),
           Static(cfg) => \A t \in Timers : p.timers[t] # "expired",
           port' = bc_dispatch(p, e, mdiff, switched), ready' = {}, UNCHANGED cfg
    PROVE  Tidy'
<1>1. Good(port') /\ Opened(port') /\ Expires(p, port')
  <2> DEFINE q == bc_dispatch(p, e, mdiff, switched)
  <2>1. Good(q) /\ Opened(q) /\ Expires(p, q) BY DispatchGood
  <2> QED BY <2>1
<1>2. Handled(port', ready') BY <1>1 DEF Handled, Expires
<1>3. Transmits(port', ready') BY DEF Transmits
<1> QED BY <1>1, <1>2, <1>3, TidyAfter

\* The rtnl socket is the last of a round.
LEMMA LinkNotificationTidy == ASSUME Inv, Tidy, LinkNotification PROVE Tidy'
<1>0. /\ Safe(port) /\ Environment /\ Good(port) /\ Opened(port) /\ Handles("RTNL")
  BY HandlesStarted DEF LinkNotification, Tidy
<1>1. PICK own \in BOOLEAN, state \in {"LINK_UP", "LINK_DOWN"}, label \in BOOLEAN,
           phc \in {"kept", "unsupported", "switch_failed"} :
        ReportsLink(IF own THEN LinkStatus(port, state, label, phc) ELSE port, own)
  <2>1. CASE ReportsLink(port, FALSE) BY <2>1
  <2>2. CASE \E state \in {"LINK_UP", "LINK_DOWN"}, label \in BOOLEAN,
               phc \in {"kept", "unsupported", "switch_failed"} :
               ReportsLink(LinkStatus(port, state, label, phc), TRUE)
    BY <2>2
  <2> QED BY <2>1, <2>2 DEF LinkNotification
<1> DEFINE p == IF own THEN LinkStatus(port, state, label, phc) ELSE port
<1>r. ReportsLink(p, own) BY <1>1
<1>2. Started(p) /\ Good(p) /\ Opened(p) /\ Expires(port, p)
  <2>1. CASE own BY <1>0, <2>1, LinkStatusKeeps, LinkStatusGood
  <2>2. CASE ~own BY <1>0, <2>2 DEF Safe, Expires
  <2> QED BY <2>1, <2>2
<1> HIDE DEF p
<1>3. LinkEvent(p) \in Dispatchable BY DEF LinkEvent, Dispatchable, FsmEvents
<1>4. ready = {"RTNL"}
  <2>1. \A fd \in Timers \cup Sockets : FdRank("RTNL") <= FdRank(fd) => fd = "RTNL"
    BY DEF Timers, Sockets, FdRank
  <2>2. ready \subseteq Timers \cup Sockets BY DEF Inv
  <2> QED BY <1>0, <2>1, <2>2 DEF Handles
<1>5. port' = bc_dispatch(p, LinkEvent(p), FALSE, TRUE) /\ ready' = {} /\ UNCHANGED cfg
  BY <1>r, <1>4 DEF ReportsLink
<1>6. Static(cfg) => \A t \in Timers : p.timers[t] # "expired"
  <2>1. "RTNL" \notin Timers BY DEF Timers
  <2> QED BY <1>2, <1>4, <2>1 DEF Tidy, Handled, Expires
<1> QED BY <1>0, <1>2, <1>3, <1>5, <1>6, DispatchTidy

\* The clock starts the port: the first initialization is followed by a transition.
LEMMA PowerupTidy == ASSUME Inv, Tidy, Powerup PROVE Tidy'
<1>0. Environment /\ cfg.fsm \in Machines BY InvEnvironment DEF Environment, ConfigType
<1>1. port \in PortType /\ port.state = "INITIALIZING" /\ ready = {}
  BY <1>0, Enabled DEF Powerup, Inv, Safe, Started, Environment
<1> DEFINE i == port_initialize(port)
           n == IF InitOk THEN FirstState(cfg.fsm) ELSE "FAULTY"
           q == port_state_update(port, "INITIALIZE", FALSE)
<1>2. state_machine(cfg.fsm, port.state, "INITIALIZE", FALSE) = "INITIALIZING"
  <2>1. state_machine(cfg.fsm, "INITIALIZING", "INITIALIZE", FALSE) = "INITIALIZING"
    BY <1>0, Machine, Zenon
  <2> QED BY <1>1, <2>1
<1>3. ~port_is_enabled(port.state) BY <1>1 DEF port_is_enabled
<1>4. n = state_machine(cfg.fsm, "INITIALIZING",
              IF InitOk THEN "INIT_COMPLETE" ELSE "FAULT_DETECTED", FALSE)
  BY <1>0, Machine
<1>5. i \in PortType BY <1>0, <1>1, InitializeType
<1>6. IF InitOk THEN Fresh(i) ELSE Rests(i)
  <2>1. Rests(port) BY <1>3 DEF Tidy, Good, Owns, Rests
  <2> QED BY <1>0, <1>1, <2>1, InitializeRests
<1>7. PICK b \in BOOLEAN : q = [i EXCEPT !.state = n, !.dirty = b]
  <2>1. q = [i EXCEPT !.state = n, !.dirty = @ \/ FALSE \/ n # port.state]
    BY <1>2, <1>3, <1>4 DEF port_state_update, ClearAsap, Initialized, SetState, Base
  <2> HIDE DEF i, n
  <2>2. (i.dirty \/ FALSE \/ n # port.state) \in BOOLEAN BY <1>5 DEF PortType
  <2> QED BY <2>1, <2>2
<1>8. /\ FirstState(cfg.fsm) \in RunningStates(cfg.fsm) /\ "FAULTY" \in PortStates
      /\ RunningStates(cfg.fsm) \subseteq PortStates
      /\ "INITIALIZING" \notin RunningStates(cfg.fsm)
  <2>1. FirstState(cfg.fsm) \in RunningStates(cfg.fsm) BY <1>0, Machine, Zenon
  <2> QED BY <1>0, <2>1, Enabled DEF Environment, PortStates
<1>9. FirstState(cfg.fsm) # "UNCALIBRATED" BY DEF FirstState
<1>10. n \in PortStates /\ n # port.state /\ n # "UNCALIBRATED"
  BY <1>1, <1>8, <1>9
<1> HIDE DEF i, n
<1>11. /\ q \in PortType /\ q.state = n
       /\ q.timers = i.timers /\ q.fds = i.fds /\ q.trp = i.trp /\ q.held = i.held
       /\ q.pmc = i.pmc /\ q.leaked = i.leaked
  BY <1>5, <1>7, <1>10 DEF PortType
<1>12. port' = Transition(q)
  <2>1. Dispatched(port, "INITIALIZE", FALSE) = Transition(q)
    BY <1>10, <1>11 DEF Dispatched, Enter
  <2> HIDE DEF q
  <2>2. Transition(q).state # "UNCALIBRATED" BY <1>10, <1>11, TransitionType
  <2> QED BY <2>1, <2>2 DEF Powerup, bc_dispatch, SwitchPhc
<1> HIDE DEF q
<1>13. /\ Good(port') /\ Opened(port')
       /\ \A t \in Timers : port'.timers[t] # "expired"
  <2>1. CASE InitOk
    <3>1. Fresh(q) /\ q.state = FirstState(cfg.fsm)
      BY <1>6, <1>11, <2>1 DEF Fresh, n
    <3>2. /\ \A t \in Timers : q.timers[t] # "expired"
          /\ q.timers["DELAY"] = IF noop /\ ~cfg.inhibitDelay THEN "armed" ELSE "off"
      BY <3>1, FreshTimers DEF Fresh
    <3>3. ~noop => q.state = "LISTENING"
      BY <1>0, <3>1 DEF noop, FirstState, Machines
    <3>4. /\ q.fds = "open" /\ q.trp
          /\ cfg.dm = "COMMON_P2P" \/ (~q.pmc /\ ~q.leaked)
      BY <3>1 DEF Fresh
    <3>5. cfg.inhibitDelay => q.timers["DELAY"] = "off" BY <3>2
    <3>6. \/ ~Rearms(cfg) \/ cfg.inhibitDelay \/ q.state = "LISTENING"
          \/ cfg.dm = "E2E" \/ q.timers["DELAY"] # "off"
      BY <3>2, <3>3
    <3>7. Good(port') /\ Opened(port') /\ Expires(q, port')
      BY <1>0, <1>8, <1>11, <1>12, <3>1, <3>4, <3>5, <3>6, TransitionGood
    <3> QED BY <3>2, <3>7 DEF Expires
  <2>2. CASE ~InitOk
    <3>1. q.state = "FAULTY" /\ Rests(i) BY <1>6, <1>11, <2>2 DEF n
    <3>2. port' = port_disable(q) BY <1>12, <3>1 DEF Transition
    <3>3. cfg.dm = "COMMON_P2P" \/ ~q.leaked BY <1>11, <3>1 DEF Rests
    <3>4. Rests(port') /\ port'.state = "FAULTY"
      BY <1>11, <3>1, <3>2, <3>3, DisableRests, DisableType
    <3> QED BY <3>4, RestsGood
  <2> QED BY <2>1, <2>2
<1>14. UNCHANGED <<cfg, ready>> BY DEF Powerup
<1>15. Handled(port', ready') /\ Transmits(port', ready')
  BY <1>1, <1>13, <1>14 DEF Handled, Transmits
<1> QED BY <1>13, <1>14, <1>15, TidyAfter


\* The clock's loop
LEMMA ClockTidy ==
    ASSUME Inv, Tidy, Poll \/ StateDecision \/ FaultTimeout \/ UpdateUnicastState
    PROVE  Tidy'
<1>0. Environment /\ Good(port) /\ Opened(port) BY InvEnvironment DEF Tidy
<1>1. CASE Poll
  <2>1. port \in PortType BY <1>1 DEF Poll, Inv, Safe, Started
  <2>2. PICK expire \in SUBSET {t \in Timers : port.timers[t] = "armed"},
             input \in SUBSET ({"RTNL"} \cup (IF port.trp THEN {"EVENT"} ELSE {})
                                        \cup (IF port.pmc THEN {"CMLDS"} ELSE {})) :
          /\ port' = [port EXCEPT !.timers =
                        [t \in Timers |-> IF t \in expire THEN "expired" ELSE @[t]]]
          /\ ready' = input \cup {t \in Timers : port'.timers[t] = "expired"}
    BY <1>1, Zenon DEF Poll
  <2> DEFINE timers == [t \in Timers |-> IF t \in expire THEN "expired" ELSE port.timers[t]]
  <2>3. /\ port'.timers = timers
        /\ port'.state = port.state /\ port'.fds = port.fds /\ port'.trp = port.trp
        /\ port'.held = port.held /\ port'.pmc = port.pmc /\ port'.leaked = port.leaked
    BY <2>1, <2>2 DEF PortType
  <2>4. \A t \in Timers : port'.timers[t] # "off" <=> port.timers[t] # "off"
    BY <2>3
  <2>5. port.timers = AllOff => port'.timers = AllOff
    <3>1. port.timers = AllOff => timers = AllOff BY DEF AllOff
    <3> QED BY <2>3, <3>1
  <2>6. Owns(port') BY <1>0, <2>3, <2>5 DEF Good, Owns
  <2>7. Timely(port') BY <1>0, <2>3, <2>4 DEF Good, Timely, Timers
  <2>8. Serves(port') BY <1>0, <2>3, <2>4 DEF Good, Serves, Timers
  <2>9. Opened(port') BY <1>0, <2>3 DEF Opened
  <2>10. Handled(port', ready') BY <2>2 DEF Handled
  <2>11. Transmits(port', ready')
    <3> SUFFICES ASSUME Rearms(cfg), ~cfg.asap, ready' \cap {"SYNC_TX", "MANNO"} # {}
                 PROVE  port'.state \in Mastering
      BY DEF Transmits
    <3>1. PICK t \in {"SYNC_TX", "MANNO"} : t \in ready' OBVIOUS
    <3>2. t \notin input OBVIOUS
    <3>3. port'.timers[t] = "expired" BY <2>2, <3>1, <3>2
    <3> QED BY <2>8, <3>3 DEF Serves, Mastering
  <2>12. UNCHANGED cfg BY <1>1 DEF Poll
  <2> QED BY <2>6, <2>7, <2>8, <2>9, <2>10, <2>11, <2>12, TidyAfter DEF Good
<1>2. CASE StateDecision
  <2>1. Started(port) BY <1>2 DEF StateDecision, Inv, Safe
  <2>2. PICK e \in {"NONE", "RS_MASTER", "RS_GRAND_MASTER", "RS_SLAVE", "RS_PASSIVE"},
             mdiff \in BOOLEAN, switched \in BOOLEAN :
          port' = bc_dispatch(port, e, mdiff, switched)
    BY <1>2 DEF StateDecision
  <2>3. e \in Dispatchable BY DEF Dispatchable, FsmEvents
  <2>4. ready = {} /\ UNCHANGED <<cfg, ready>> BY <1>2 DEF StateDecision
  <2>5. Static(cfg) => \A t \in Timers : port.timers[t] # "expired"
    BY <2>4 DEF Tidy, Handled
  <2> QED BY <1>0, <2>1, <2>2, <2>3, <2>4, <2>5, DispatchTidy
<1>3. CASE FaultTimeout
  <2>1. Started(port) BY <1>3 DEF FaultTimeout, Inv, Safe
  <2>2. "FAULT_CLEARED" \in Dispatchable BY DEF Dispatchable, FsmEvents
  <2>3. /\ port' = bc_dispatch(port, "FAULT_CLEARED", FALSE, TRUE)
        /\ ready = {} /\ UNCHANGED <<cfg, ready>>
    BY <1>3 DEF FaultTimeout
  <2>4. Static(cfg) => \A t \in Timers : port.timers[t] # "expired"
    BY <2>3 DEF Tidy, Handled
  <2> QED BY <1>0, <2>1, <2>2, <2>3, <2>4, DispatchTidy
<1>4. CASE UpdateUnicastState
  <2>1. UNCHANGED <<cfg, ready>> /\ port' = [port EXCEPT !.dirty = FALSE]
    BY <1>4 DEF UpdateUnicastState
  <2>2. port \in PortType BY DEF Inv, Safe, Started
  <2>3. /\ port'.timers = port.timers
        /\ port'.state = port.state /\ port'.fds = port.fds /\ port'.trp = port.trp
        /\ port'.held = port.held /\ port'.pmc = port.pmc /\ port'.leaked = port.leaked
    BY <2>1, <2>2 DEF PortType
  <2>4. Good(port') BY <1>0, <2>3 DEF Good, Owns, Timely, Serves
  <2> QED BY <2>1, <2>3, <2>4, TidyAfter DEF Tidy, Opened, Handled, Transmits
<1> QED BY <1>1, <1>2, <1>3, <1>4

\* The second invariant holds at first and is inductive, given the first.
LEMMA InitTidy == Init => Tidy
<1> SUFFICES ASSUME Init PROVE Tidy
  OBVIOUS
<1>1. /\ port.state = "INITIALIZING" /\ port.timers = AllOff /\ port.fds = "closed"
      /\ ~port.trp /\ ~port.pmc /\ ~port.leaked /\ port.held = {} /\ ready = {}
  BY DEF Init
<1>2. \A t \in Timers : port.timers[t] = "off" BY <1>1 DEF AllOff
<1>3. ~port_is_enabled(port.state) BY <1>1 DEF port_is_enabled
<1>4. Owns(port) /\ Opened(port) BY <1>1, <1>3 DEF Owns, Opened
<1>5. Timely(port) BY <1>1, <1>2 DEF Timely, Timers
<1>6. Serves(port) BY <1>1, <1>2, <1>3 DEF Serves, Timers, MasterStates
<1> QED BY <1>1, <1>2, <1>4, <1>5, <1>6 DEF Tidy, Good, Handled, Transmits

\* Every step of the port, the clock and the environment keeps the second invariant.
LEMMA NextTidy == Inv /\ Tidy /\ [Next]_vars => Tidy'
<1> SUFFICES ASSUME Inv, Tidy, [Next]_vars PROVE Tidy'
  OBVIOUS
<1>1. CASE Handler
  <2>1. CASE Receive BY <2>1, ReceiveTidy
  <2>2. CASE DelayTimeout BY <2>2, DelayTimeoutTidy
  <2>3. CASE ReceiptTimeout("ANNOUNCE") \/ ReceiptTimeout("SYNC_RX")
    BY <2>3, ReceiptTimeoutTidy
  <2>4. CASE LinkNotification BY <2>4, LinkNotificationTidy
  <2> QED BY <1>1, <2>1, <2>2, <2>3, <2>4, TimeoutTidy DEF Handler
<1>2. CASE Clock BY <1>2, PowerupTidy, ClockTidy DEF Clock
<1>3. CASE OsChange \/ CmldsChange \/ UNCHANGED vars
  <2>1. UNCHANGED <<cfg, port, ready>> BY <1>3 DEF OsChange, CmldsChange, vars
  <2> QED BY <2>1, TidyAfter DEF Tidy
<1> QED BY <1>1, <1>2, <1>3 DEF Next

\* In every configuration a port is enabled exactly while it owns a transport
\* and timers, and leaves no message, running timer or descriptor behind when
\* it goes down, on whatever path (port_disable(), port_initialize()).
THEOREM DownNeverOwns == Spec => []DownOwnsNothing
<1>1. Tidy => DownOwnsNothing BY DEF Tidy, Good, Owns, Opened, DownOwnsNothing
<1> QED BY <1>1, InitInv, NextInv, InitTidy, NextTidy, PTL DEF Spec

\* If the configurations that inhibit announces have static roles, no round of
\* the clock's loop leaves an expired timer behind, also when the port was
\* stopped, restarted or elected in the middle of the round (bc_event()).
THEOREM NeverSpins == (\A c \in Configs : Static(c)) /\ Spec => []NoSpin
<1> SUFFICES ASSUME \A c \in Configs : Static(c) PROVE Spec => []NoSpin
  OBVIOUS
<1>1. Inv /\ Tidy => NoSpin
  <2> SUFFICES ASSUME Inv, Tidy, ready = {}, NEW t \in Timers
               PROVE  port.timers[t] # "expired"
    BY DEF NoSpin
  <2>1. Static(cfg) BY DEF Inv
  <2> QED BY <2>1 DEF Tidy, Handled
<1> QED BY <1>1, InitInv, NextInv, InitTidy, NextTidy, PTL DEF Spec

\* If the configurations that clear faults as soon as possible rearm their
\* timers, the timers that run are those of the state, however the port got
\* there: a master transmits, nobody else does, a port that is not master
\* waits for one, and delay measurement goes on (port_*_transition()).
THEOREM TimersAlwaysFollow ==
    (\A c \in Configs : Rearms(c)) /\ Spec => []TimersFollowState
<1> SUFFICES ASSUME \A c \in Configs : Rearms(c) PROVE Spec => []TimersFollowState
  OBVIOUS
<1>1. Inv /\ Tidy => TimersFollowState
  <2> SUFFICES ASSUME Inv, Tidy PROVE TimersFollowState
    OBVIOUS
  <2>1. Rearms(cfg) BY DEF Inv
  <2>2. Timely(port) /\ Serves(port) BY DEF Tidy, Good
  <2>3. NeverSilent BY <2>1, <2>2 DEF NeverSilent, Serves, MasterStates, Master, Running
  <2>4. OnlyMastersSend
    BY <2>1, <2>2 DEF OnlyMastersSend, Serves, MasterStates, Master, Running
  <2>5. NeverDeaf BY <2>2 DEF NeverDeaf, Timely, Running
  <2>6. KeepsMeasuring BY <2>1, <2>2 DEF KeepsMeasuring, Serves, Running
  <2> QED BY <2>3, <2>4, <2>5, <2>6 DEF TimersFollowState
<1> QED BY <1>1, InitInv, NextInv, InitTidy, NextTidy, PTL DEF Spec
=============================================================================
