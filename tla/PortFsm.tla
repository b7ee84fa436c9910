------------------------------- MODULE PortFsm -------------------------------
(****************************************************************************)
(* The port state machines of fsm.c and designated_fsm.c: pure functions    *)
(* from a port state, an event and the "a new master was selected" flag to  *)
(* the next port state.  port_open() installs exactly one of the four in    *)
(* p->state_machine.                                                        *)
(****************************************************************************)

\* enum port_state (fsm.h).
PortStates == {"INITIALIZING", "FAULTY", "DISABLED", "LISTENING", "PRE_MASTER",
               "MASTER", "PASSIVE", "UNCALIBRATED", "SLAVE", "GRAND_MASTER"}

\* enum fsm_event (fsm.h).
FsmEvents == {"NONE", "POWERUP", "INITIALIZE", "DESIGNATED_ENABLED",
              "DESIGNATED_DISABLED", "FAULT_CLEARED", "FAULT_DETECTED",
              "STATE_DECISION_EVENT", "QUALIFICATION_TIMEOUT_EXPIRES",
              "ANNOUNCE_RECEIPT_TIMEOUT_EXPIRES", "SYNCHRONIZATION_FAULT",
              "MASTER_CLOCK_SELECTED", "INIT_COMPLETE", "RS_MASTER",
              "RS_GRAND_MASTER", "RS_SLAVE", "RS_PASSIVE"}

\* The four machines, by the name of the C function.
Machines == {"ptp_fsm", "ptp_slave_fsm", "designated_master_fsm",
             "designated_slave_fsm"}

Restart == {"INITIALIZE", "POWERUP"}

\* Mutant: a cleared fault is ignored.
BootFsmStuck(s, e, first) ==
    CASE s = "INITIALIZING" /\ e = "FAULT_DETECTED" -> "FAULTY"
      [] s = "INITIALIZING" /\ e = "INIT_COMPLETE"  -> first
      [] OTHER                                      -> s

\* The machines agree outside the running states, except for the state that a
\* completed initialization leads to and for the two management events.
BootFsm(s, e, first) ==
    CASE s = "INITIALIZING" /\ e = "FAULT_DETECTED" -> "FAULTY"
      [] s = "INITIALIZING" /\ e = "INIT_COMPLETE"  -> first
      [] s = "FAULTY" /\ e = "FAULT_CLEARED"        -> "INITIALIZING"
      [] OTHER                                      -> s

ManagedFsm(s, e) ==
    CASE s = "FAULTY" /\ e = "DESIGNATED_DISABLED"  -> "DISABLED"
      [] s = "DISABLED" /\ e = "DESIGNATED_ENABLED" -> "INITIALIZING"
      [] OTHER                                      -> BootFsm(s, e, "LISTENING")

\* States in which a receipt timeout or a state decision can elect this port.
Electable == {"LISTENING", "PASSIVE", "UNCALIBRATED", "SLAVE"}

ptp_fsm(s, e, mdiff) ==
    CASE e \in Restart -> "INITIALIZING"
      [] e \notin Restart /\ s \in {"INITIALIZING", "FAULTY", "DISABLED"} ->
           ManagedFsm(s, e)
      [] OTHER ->
           CASE e = "DESIGNATED_DISABLED" -> "DISABLED"
             [] e = "FAULT_DETECTED" -> "FAULTY"
             [] e = "ANNOUNCE_RECEIPT_TIMEOUT_EXPIRES" /\ s \in Electable -> "MASTER"
             [] e = "QUALIFICATION_TIMEOUT_EXPIRES" /\ s = "PRE_MASTER" -> "MASTER"
             [] e = "RS_MASTER" /\ s \in Electable -> "PRE_MASTER"
             [] e = "RS_GRAND_MASTER" /\ s \in Electable -> "GRAND_MASTER"
             [] e = "RS_PASSIVE" -> "PASSIVE"
             [] e = "RS_SLAVE" /\ (s # "SLAVE" \/ mdiff) -> "UNCALIBRATED"
             [] e = "MASTER_CLOCK_SELECTED" /\ s = "UNCALIBRATED" -> "SLAVE"
             [] e = "SYNCHRONIZATION_FAULT" /\ s = "SLAVE" -> "UNCALIBRATED"
             [] OTHER -> s

ptp_slave_fsm(s, e, mdiff) ==
    CASE e \in Restart -> "INITIALIZING"
      [] e \notin Restart /\ s \in {"INITIALIZING", "FAULTY", "DISABLED"} ->
           ManagedFsm(s, e)
      [] e \notin Restart /\ s \in {"LISTENING", "UNCALIBRATED", "SLAVE"} ->
           CASE e = "DESIGNATED_DISABLED" -> "DISABLED"
             [] e = "FAULT_DETECTED" -> "FAULTY"
             [] e \in {"ANNOUNCE_RECEIPT_TIMEOUT_EXPIRES", "RS_MASTER",
                       "RS_GRAND_MASTER", "RS_PASSIVE"} -> "LISTENING"
             [] e = "RS_SLAVE" /\ (s = "LISTENING" \/ (s = "SLAVE" /\ mdiff)) ->
                  "UNCALIBRATED"
             [] e = "MASTER_CLOCK_SELECTED" /\ s = "UNCALIBRATED" -> "SLAVE"
             [] e = "SYNCHRONIZATION_FAULT" /\ s = "SLAVE" -> "UNCALIBRATED"
             [] OTHER -> s
      [] OTHER -> s

designated_fsm(s, e, role) ==
    CASE e \in Restart -> "INITIALIZING"
      [] s = role /\ e = "FAULT_DETECTED" -> "FAULTY"
      [] OTHER -> BootFsm(s, e, role)

designated_master_fsm(s, e) == designated_fsm(s, e, "MASTER")

designated_slave_fsm(s, e) == designated_fsm(s, e, "SLAVE")

\* p->state_machine(p->state, event, mdiff)
state_machine(m, s, e, mdiff) ==
    CASE m = "ptp_fsm"               -> ptp_fsm(s, e, mdiff)
      [] m = "ptp_slave_fsm"         -> ptp_slave_fsm(s, e, mdiff)
      [] m = "designated_master_fsm" -> designated_master_fsm(s, e)
      [] m = "designated_slave_fsm"  -> designated_slave_fsm(s, e)
=============================================================================
