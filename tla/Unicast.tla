------------------------------- MODULE Unicast -------------------------------
(****************************************************************************)
(* Unicast negotiation: one client port (UnicastClient), the port that      *)
(* grants (UnicastService) and process_signaling() on both sides, over      *)
(* channels that lose messages.  Further clients of the grantor send        *)
(* whatever they like.                                                      *)
(*                                                                          *)
(* Messages arrive or are lost within the second, and timers that are due   *)
(* run in it: Tick waits for both.                                          *)
(****************************************************************************)
EXTENDS Integers, Sequences, FiniteSets

CONSTANTS
    Mechanisms,    \* the delay mechanisms of the client that are tried
    Duration,      \* unicast_req_duration
    Me, Others,    \* the client in question, and other clients
    Intervals,
    AnnounceInterval,
    MaxLag,        \* bound, see UnicastService
    MaxChannel,    \* bound: messages in a channel; what exceeds it is lost
    MaxTrouble,    \* bound: events of Trouble in a behaviour
    None

ASSUME ChannelAssumption ==
    MaxChannel \in Nat \ {0} /\ MaxTrouble \in Nat /\ Me \notin Others
ASSUME IntervalsAssumption ==
    Intervals \subseteq Nat \ {0} /\ AnnounceInterval \in Intervals
ASSUME DurationAssumption == Duration \in Nat \ {0} /\ MaxLag \in Nat

VARIABLES
    client,     \* the client's entry for the grantor
    selected,   \* the grantor is the client's parent
    interval,   \* logSyncInterval of the client
    due,        \* the client's request timer expired
    service,    \* the grantor's struct unicast_service
    up, master, \* the grantor's port is not FAULTY; it is MASTER
    orphaned,   \* history: a fault took the timer from a queue in use
    toServer, toClient,
    trouble,    \* history: how many of these events happened
    disturbed,  \* history: SYNC ended without the client's knowledge, and the
                \* client has not asked again
    asked,      \* history: the request or cancellation handled in the last step
    sent        \* history: the unicast messages of the last step

clientVars == <<client, selected, interval, due>>
serverVars == <<service, up, master, orphaned>>
vars == <<clientVars, serverVars, toServer, toClient, trouble, disturbed, asked, sent>>

C == INSTANCE UnicastClient
S == INSTANCE UnicastService WITH Clients <- {Me} \cup Others, Grant <- Duration

Requests == [kind : {"REQUEST", "CANCEL", "ACK"}, types : SUBSET C!Types,
             sync : Intervals]
Replies == [kind : {"GRANT", "CANCEL"}, type : C!Types, duration : {0, Duration}]

\* The types; no contract lasts longer than its grant (unicast_service_extend()).
TypeOK ==
    /\ client \in C!EntryType
    /\ selected \in BOOLEAN /\ due \in BOOLEAN /\ interval \in Intervals
    /\ service \in S!ServiceType
    /\ up \in BOOLEAN /\ master \in BOOLEAN /\ orphaned \in BOOLEAN
    /\ \A k \in DOMAIN toServer : toServer[k] \in Requests
    /\ \A k \in DOMAIN toClient : toClient[k] \in Replies
    /\ trouble \in 0..MaxTrouble /\ disturbed \in BOOLEAN
    /\ sent \subseteq ({Me} \cup Others) \X S!Served

Silent == asked' = None /\ sent' = {}

\* port_prepare_and_send(): the channel's bound is a loss.
Send(channel, messages) ==
    SubSeq(channel \o messages, 1,
           IF Len(channel \o messages) > MaxChannel THEN MaxChannel
           ELSE Len(channel \o messages))

Stamped(messages) ==
    [k \in DOMAIN messages |-> [kind |-> messages[k].kind, types |-> messages[k].types,
                                sync |-> interval]]

Asks(messages) == \E k \in DOMAIN messages :
                      messages[k].kind = "REQUEST" /\ "SYNC" \in messages[k].types

\* A cancellation crosses a grant that is on its way: the grant will be taken
\* for valid when the grantor is selected again.
Crosses(messages) ==
    \E k \in DOMAIN messages : messages[k].kind = "CANCEL" /\ toServer \o toClient # <<>>

\* What the client does with an entry and its messages.
ClientDoes(r) ==
    /\ client' = r.entry
    /\ toServer' = Send(toServer, Stamped(r.out))
    /\ disturbed' = (Crosses(r.out) \/ (disturbed /\ ~Asks(r.out)))
    /\ Silent
    /\ UNCHANGED serverVars

-----------------------------------------------------------------------------
\* FD_UNICAST_REQ_TIMER
RequestTimer ==
    /\ due
    /\ due' = FALSE
    /\ ClientDoes(C!unicast_client_timer(client))
    /\ UNCHANGED <<selected, interval, toClient>>

\* A state decision, or a change of the parent (port_update_unicast_state()).
Decide ==
    /\ selected' \in BOOLEAN
    /\ selected' => "ANNOUNCE" \in client.granted
    /\ ClientDoes(C!unicast_client_state_changed(client, selected'))
    /\ UNCHANGED <<interval, due, toClient>>

\* The sync interval is changed by management or a message interval request.
ChangeInterval ==
    /\ interval' \in Intervals \ {interval}
    /\ Silent
    /\ UNCHANGED <<client, selected, due, serverVars, toServer, toClient, disturbed>>

\* port_close() and a new port_open().
ClientRestart ==
    /\ ClientDoes([entry |-> C!unicast_client_initialize(client.dm),
                   out |-> C!port_cancel_unicast(client).out])
    /\ selected' = FALSE
    /\ UNCHANGED <<interval, due, toClient>>

\* process_signaling() of the client: grants and cancellations.
ClientReceives ==
    /\ toClient # <<>>
    /\ toClient' = Tail(toClient)
    /\ LET m == Head(toClient)
       IN  ClientDoes(IF m.kind = "CANCEL"
                      THEN C!unicast_client_cancel(client, m.type)
                      ELSE [entry |-> C!unicast_client_grant(client, m.type, m.duration),
                            out |-> <<>>])
    /\ UNCHANGED <<selected, interval, due>>

-----------------------------------------------------------------------------
Order == <<"ANNOUNCE", "SYNC", "DELAY_RESP", "PDELAY_RESP">>

IntervalOf(type, sync) == IF type = "SYNC" THEN sync ELSE AnnounceInterval

\* process_signaling() of the grantor: the TLVs of a message in their order.
\* Every request is answered by a message of its own.
HandleTlvs(s, c, m, memory) ==
    LET types == SelectSeq(Order, LAMBDA t : t \in m.types)
        add(a, t) ==
            LET r == S!unicast_service_add(a.service, c, t, IntervalOf(t, m.sync),
                                           Duration, memory)
            IN  [service |-> r.service,
                 replies |-> Append(a.replies,
                     [kind |-> "GRANT", type |-> t,
                      duration |-> IF r.granted THEN Duration ELSE 0])]
        remove(a, t) == [a EXCEPT !.service = S!unicast_service_remove(@, c, t)]
        none == [service |-> s, replies |-> <<>>]
    IN  CASE m.kind = "REQUEST" -> S!FoldLeft(add, none, types)
          [] m.kind = "CANCEL"  -> S!FoldLeft(remove, none, types)
          [] m.kind = "ACK"     -> none

\* History: what the grantor was told about the types it keeps records of.
Handled(c, m) ==
    /\ asked' = IF m.kind = "ACK" \/ m.types \cap S!Served = {} THEN None
                ELSE [client |-> c, kind |-> m.kind, types |-> m.types \cap S!Served]
    /\ sent' = {}

Refuses(replies, type) ==
    \E k \in DOMAIN replies : replies[k].type = type /\ replies[k].duration = 0

ServerReceives(memory) ==
    /\ up /\ toServer # <<>>
    /\ toServer' = Tail(toServer)
    /\ LET r == HandleTlvs(service, Me, Head(toServer), memory)
       IN  /\ service' = r.service
           /\ toClient' = Send(toClient, r.replies)
           /\ disturbed' = (disturbed \/ Refuses(r.replies, "SYNC"))
    /\ Handled(Me, Head(toServer))
    /\ orphaned' = (orphaned /\ service'.timer = S!Stopped)
    /\ UNCHANGED <<clientVars, up, master>>

\* Another client's message; the answer to it does not matter here.
OthersMessage(c, m) ==
    /\ up
    /\ service' = HandleTlvs(service, c, m, TRUE).service
    /\ Handled(c, m)
    /\ orphaned' = (orphaned /\ service'.timer = S!Stopped)
    /\ UNCHANGED <<clientVars, up, master, toServer, toClient, disturbed>>

\* FD_UNICAST_SRV_TIMER
ServiceTimer ==
    /\ up /\ service.timer <= 0
    /\ LET r == S!unicast_service_timer(service, master)
       IN  service' = r.service /\ sent' = r.sent /\ asked' = None
    /\ orphaned' = FALSE
    /\ UNCHANGED <<clientVars, up, master, toServer, toClient, disturbed>>

\* The grantor's port changes its role.
ChangeRole ==
    /\ up
    /\ master' = ~master
    /\ Silent
    /\ UNCHANGED <<clientVars, service, up, orphaned, toServer, toClient, disturbed>>

\* A fault closes the timers; they are created anew, and not armed.
Fault ==
    /\ up
    /\ up' = FALSE
    /\ service' = [service EXCEPT !.timer = S!Stopped]
    /\ orphaned' = (service.queue # <<>>)
    /\ Silent
    /\ UNCHANGED <<clientVars, master, toServer, toClient, disturbed>>

ClearFault ==
    /\ ~up
    /\ up' = TRUE
    /\ Silent
    /\ UNCHANGED <<clientVars, service, master, orphaned, toServer, toClient, disturbed>>

\* The grantor is restarted: unicast_service_cleanup() and _initialize().
ServerRestart ==
    /\ service' = S!unicast_service_initialize
    /\ orphaned' = FALSE
    /\ disturbed' = TRUE
    /\ Silent
    /\ UNCHANGED <<clientVars, up, master, toServer, toClient>>

\* A grantor may cancel a contract by itself; this one never does, others do.
ServerCancels(type) ==
    /\ up
    /\ service' = S!unicast_service_remove(service, Me, type)
    /\ toClient' = Send(toClient, <<[kind |-> "CANCEL", type |-> type, duration |-> 0]>>)
    /\ disturbed' = (disturbed \/ type = "SYNC")
    /\ Handled(Me, [kind |-> "CANCEL", types |-> {type}])
    /\ UNCHANGED <<clientVars, up, master, orphaned, toServer>>

\* The network loses the oldest message of a channel, or a port that is FAULTY
\* ignores it.
LoseRequest ==
    /\ toServer # <<>>
    /\ toServer' = Tail(toServer)
    /\ Silent
    /\ UNCHANGED <<clientVars, serverVars, toClient, disturbed>>

LoseReply ==
    /\ toClient # <<>>
    /\ toClient' = Tail(toClient)
    /\ Silent
    /\ UNCHANGED <<clientVars, serverVars, toServer, disturbed>>

Before(tmo) == IF tmo \in Int /\ tmo > 0 THEN tmo - 1 ELSE tmo

Tick ==
    /\ ~due /\ toServer = <<>> /\ toClient = <<>>
    /\ up => service.timer > 0
    /\ client' = [client EXCEPT !.renewal_tmo = Before(@), !.peer_tmo = Before(@)]
    /\ due' = TRUE
    /\ service' = S!ServiceTick(service)
    /\ Silent
    /\ UNCHANGED <<selected, interval, up, master, orphaned, toServer, toClient, disturbed>>

-----------------------------------------------------------------------------
OthersMessages ==
    [kind : {"REQUEST", "CANCEL"}, types : {{"ANNOUNCE"}, {"SYNC"}}, sync : Intervals]

Init ==
    /\ client \in {C!unicast_client_initialize(dm) : dm \in Mechanisms}
    /\ selected = FALSE /\ due = TRUE /\ interval = AnnounceInterval
    /\ service = S!unicast_service_initialize
    /\ up = TRUE /\ master = TRUE /\ orphaned = FALSE
    /\ toServer = <<>> /\ toClient = <<>>
    /\ trouble = 0 /\ disturbed = FALSE /\ asked = None /\ sent = {}

\* What the environment may do MaxTrouble times.
Trouble ==
    \/ ChangeInterval \/ ClientRestart \/ ChangeRole \/ Fault \/ ServerRestart
    \/ \E type \in {"ANNOUNCE", "SYNC"} : ServerCancels(type)
    \/ \E c \in Others, m \in OthersMessages : OthersMessage(c, m)
    \/ ServerReceives(FALSE)

Next ==
    \/ /\ \/ RequestTimer \/ Decide \/ ClientReceives \/ ServerReceives(TRUE)
          \/ ServiceTimer \/ ClearFault \/ LoseRequest \/ LoseReply \/ Tick
       /\ UNCHANGED trouble
    \/ /\ trouble < MaxTrouble
       /\ Trouble
       /\ trouble' = trouble + 1

Spec == Init /\ [][Next]_vars

Step(action) == action /\ UNCHANGED trouble

ServiceDue == up /\ service.timer <= 0
Quiet == ~due /\ toServer \o toClient = <<>> /\ ~ServiceDue
SyncAsked == toServer # <<>> /\ "SYNC" \in Head(toServer).types
SyncAnswered == toClient # <<>> /\ Head(toClient).type = "SYNC"

\* Timers that are due run, time goes on, faults are cleared, messages arrive
\* or are lost; what is asked or granted again and again arrives sometimes, and
\* memory is found sometimes.  The conditions under which the larger actions
\* are enabled are written out, since TLC is slow to evaluate their ENABLED.
FairSpec ==
    /\ Spec
    /\ WF_vars(Step(ClearFault)) /\ WF_vars(Step(LoseReply \/ ClientReceives))
    /\ <>[]due => []<><<Step(RequestTimer)>>_vars
    /\ <>[]ServiceDue => []<><<Step(ServiceTimer)>>_vars
    /\ <>[]Quiet => []<><<Step(Tick)>>_vars
    /\ <>[](toServer # <<>>) => []<><<Step(ServerReceives(TRUE) \/ LoseRequest)>>_vars
    /\ []<>SyncAsked => []<><<Step(ServerReceives(TRUE)) /\ SyncAsked>>_vars
    /\ []<>SyncAnswered => []<><<Step(ClientReceives) /\ SyncAnswered>>_vars

-----------------------------------------------------------------------------
\* A client's messages of one type are sent at one interval only, however
\* its requests changed: unicast_service_add() clears stale contracts.
OneContract ==
    \A c \in {Me} \cup Others, t \in S!Served :
        Cardinality({i \in Intervals : t \in service.interval[i].clients[c].types}) <= 1

\* No interval is forgotten: the timer fires before or when any interval is
\* due, which takes a heap whose root really is the first of them.  A fault
\* that closes the timer of a queue in use breaks it until the timer is armed
\* again, which only a new interval does.
OnTime ==
    up /\ ~orphaned =>
        \A i \in Intervals :
            service.interval[i].exists => service.timer <= service.interval[i].tmo

\* A client that has its contracts and no renewal to make is served.
SubscribedIsServed ==
    /\ client.state = "UC_HAVE_SYDY" /\ client.renewal_tmo # None
    /\ ~disturbed /\ toServer = <<>> /\ toClient = <<>>
    => S!Contract(service, Me, "SYNC") >= 0

L == INSTANCE Lease WITH
         Clients <- {Me} \cup Others, Types <- S!Served, Nothing <- None,
         lease <- [c \in {Me} \cup Others |->
                      [t \in S!Served |-> S!Contract(service, c, t)]]

\* The grantor keeps the promises of Lease: no contract ends before its time
\* unless it was canceled, and nothing is sent without one
\* (unicast_service_clients(), unicast_service_add(), unicast_service_remove()).
KeepsPromises == L!Spec

\* A client that needs or believes to have the synchronization contracts gets
\* them (again), unless it is deselected or refused.
ServiceResumes ==
    client.state \in {"UC_NEED_SYDY", "UC_HAVE_SYDY"}
        ~> \/ S!Contract(service, Me, "SYNC") >= 0
           \/ client.state \in {"UC_WAIT", "UC_HAVE_ANN"}

\* The grantor serves as it agreed, once and in time, those who think so:
\* OneContract, OnTime and SubscribedIsServed, in a state of the right type.
ServesAsAgreed == TypeOK /\ OneContract /\ OnTime /\ SubscribedIsServed
=============================================================================
