---------------------------- MODULE UnicastClient ----------------------------
(****************************************************************************)
(* A port's entry of the unicast master table: unicast_client.c and         *)
(* unicast_fsm.c.  An entry is a record of EntryType; the operators are the *)
(* functions of the code, from an entry to an entry, and the messages they  *)
(* send.  Times are seconds from now: None stands for a renewal_tmo of zero.*)
(****************************************************************************)
EXTENDS Integers, Sequences, FiniteSets

CONSTANTS
    Duration,    \* unicast_req_duration
    None

States == {"UC_WAIT", "UC_HAVE_ANN", "UC_NEED_SYDY", "UC_HAVE_SYDY"}
Types == {"ANNOUNCE", "SYNC", "DELAY_RESP", "PDELAY_RESP"}
DelayMechanisms == {"E2E", "P2P", "NO_MECHANISM"}
Renewals == {None} \cup 0..Duration

EntryType ==
    [state : States,
     granted : SUBSET Types,
     renewal_tmo : Renewals,
     peer_tmo : Renewals,          \* renewal_tmo of the table's peer_addr
     dm : DelayMechanisms]              \* delayMechanism of the port

\* unicast_client_initialize(): the table is cloned and the entry is blank.
unicast_client_initialize(dm) ==
    [state |-> "UC_WAIT", granted |-> {}, renewal_tmo |-> None,
     peer_tmo |-> None, dm |-> dm]

sydymsk(e) == {"ANNOUNCE", "SYNC"} \cup (IF e.dm = "E2E" THEN {"DELAY_RESP"} ELSE {})

-----------------------------------------------------------------------------
unicast_fsm(state, ev) ==
    CASE state = "UC_WAIT" /\ ev = "GRANT_ANN" -> "UC_HAVE_ANN"
      [] state # "UC_WAIT" /\ ev = "CANCEL" -> "UC_WAIT"
      [] state = "UC_HAVE_ANN" /\ ev = "SELECTED" -> "UC_NEED_SYDY"
      [] state = "UC_NEED_SYDY" /\ ev = "GRANT_SYDY" -> "UC_HAVE_SYDY"
      [] state \in {"UC_NEED_SYDY", "UC_HAVE_SYDY"} /\ ev = "UNSELECTED"
             -> "UC_HAVE_ANN"
      [] OTHER -> state

\* The TLVs of a signaling message, all of one kind.
Request(types) == [kind |-> "REQUEST", types |-> types]
Cancel(types)  == [kind |-> "CANCEL", types |-> types]
Ack(types)     == [kind |-> "ACK", types |-> types]

\* What unicast_client_announce() and unicast_client_sydy() ask for.
AnnounceRequest == Request({"ANNOUNCE"})
SydyRequest(e) == Request(sydymsk(e) \ {"ANNOUNCE"})

Due(tmo) == tmo = None \/ tmo = 0

\* Mutant: the renewal leaves the synchronization contracts out.
RenewAnnounceOnly(e) ==
    IF Due(e.renewal_tmo)
    THEN [entry |-> [e EXCEPT !.renewal_tmo = None], out |-> <<AnnounceRequest>>]
    ELSE [entry |-> e, out |-> <<>>]

unicast_client_renew(e) ==
    IF Due(e.renewal_tmo)
    THEN [entry |-> [e EXCEPT !.renewal_tmo = None],
          out   |-> <<Request(IF e.state = "UC_HAVE_SYDY" THEN sydymsk(e)
                              ELSE {"ANNOUNCE"})>>]
    ELSE [entry |-> e, out |-> <<>>]

\* The peer of the peer delay mechanism is the master itself here.
unicast_client_peer_renew(r) ==
    IF r.entry.dm = "P2P" /\ Due(r.entry.peer_tmo)
    THEN [entry |-> [r.entry EXCEPT !.peer_tmo = None],
          out   |-> Append(r.out, Request({"PDELAY_RESP"}))]
    ELSE r

\* Mutant: what is needed is not asked for again.
TimerRenewsOnly(e) ==
    unicast_client_peer_renew(
        IF e.state = "UC_WAIT" THEN [entry |-> e, out |-> <<AnnounceRequest>>]
        ELSE unicast_client_renew(e))

\* unicast_client_timer() for one entry: the new entry and what is sent.
unicast_client_timer(e) ==
    unicast_client_peer_renew(
        CASE e.state = "UC_WAIT" -> [entry |-> e, out |-> <<AnnounceRequest>>]
          [] e.state = "UC_NEED_SYDY" -> [entry |-> e, out |-> <<SydyRequest(e)>>]
          [] OTHER -> unicast_client_renew(e))

\* The earliest renewal wins.
unicast_client_set_renewal(old, duration) ==
    LET tmo == (3 * duration) \div 4
    IN  IF old = None \/ tmo < old THEN tmo ELSE old

\* A grant of one message type; a duration of zero is a refusal.
unicast_client_grant(e, type, duration) ==
    LET all   == sydymsk(e) \subseteq e.granted \cup {type}
        renew == unicast_client_set_renewal(e.renewal_tmo, duration)
        fresh == [e EXCEPT !.granted = @ \cup {type}]
    IN  CASE duration = 0 ->
                 IF type = "PDELAY_RESP" THEN e ELSE [e EXCEPT !.state = "UC_WAIT"]
          [] duration # 0 /\ e.dm = "P2P" /\ type = "DELAY_RESP" -> e
          [] duration # 0 /\ e.dm = "P2P" /\ type = "PDELAY_RESP" ->
                 [e EXCEPT !.peer_tmo = unicast_client_set_renewal(@, duration)]
          [] OTHER ->
                 CASE /\ e.state \in {"UC_WAIT", "UC_HAVE_ANN"}
                      /\ type = "ANNOUNCE" ->
                          [fresh EXCEPT !.state = unicast_fsm(@, "GRANT_ANN"),
                                        !.renewal_tmo = renew]
                   [] /\ e.state = "UC_NEED_SYDY"
                      /\ type \in {"SYNC", "DELAY_RESP"} ->
                          [fresh EXCEPT
                               !.state = IF all THEN unicast_fsm(@, "GRANT_SYDY") ELSE @,
                               !.renewal_tmo = renew]
                   [] /\ e.state = "UC_HAVE_SYDY"
                      /\ type \in {"ANNOUNCE", "SYNC", "DELAY_RESP"} ->
                          [fresh EXCEPT !.renewal_tmo = renew]
                   [] OTHER -> fresh

\* The grantor ends a contract; it is acknowledged.
unicast_client_cancel(e, type) ==
    IF type = "PDELAY_RESP" THEN [entry |-> e, out |-> <<>>]
    ELSE [entry |-> [e EXCEPT !.state = unicast_fsm(@, "CANCEL"),
                              !.granted = @ \ {type}],
          out   |-> <<Ack({type})>>]

\* Only granted types are canceled: without one nothing is sent.
unicast_client_tx_cancel(e, mask) ==
    IF e.granted \cap mask = {} THEN [entry |-> e, out |-> <<>>]
    ELSE [entry |-> [e EXCEPT !.granted = @ \ mask],
          out   |-> <<Cancel(e.granted \cap mask)>>]

\* The clock's choice of the parent changed.
unicast_client_state_changed(e, selected) ==
    LET next == [e EXCEPT !.state =
                     unicast_fsm(@, IF selected THEN "SELECTED" ELSE "UNSELECTED")]
    IN  IF ~selected /\ e.state = "UC_HAVE_SYDY" /\ next.state # e.state
        THEN unicast_client_tx_cancel(next, {"SYNC", "DELAY_RESP"})
        ELSE [entry |-> next, out |-> <<>>]

\* A client that closes its port cancels everything (port_cancel_unicast()).
port_cancel_unicast(e) ==
    unicast_client_tx_cancel(e, {"ANNOUNCE", "SYNC", "DELAY_RESP"})
=============================================================================
