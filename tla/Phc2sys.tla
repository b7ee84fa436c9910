------------------------------- MODULE Phc2sys -------------------------------
(****************************************************************************)
(* phc2sys -a: the clocks of the ports of running ptp4l instances, one      *)
(* domain each, and the system clock, synchronized in the direction that    *)
(* the port states ask for.  With the agent of pmc_agent.c, whose requests, *)
(* answers and notifications pass through a local socket in order, and as   *)
(* much of ptp4l as answers them.                                           *)
(*                                                                          *)
(* The program is one process that reads its messages one at a time; pc     *)
(* names the place where it waits in run_pmc(), or the part of do_loop()    *)
(* that comes next.  A tick is one turn of do_loop().                       *)
(****************************************************************************)
EXTENDS Integers, Sequences, FiniteSets, FiniteSetsExt

CONSTANTS
    NDomains,     \* ptp4l instances
    Confs,        \* the configurations considered
    Interval,     \* update_interval of the agents, in ticks
    UPDATES_PER_SUBSCRIPTION,  \* 3 in the code
    MaxChanges,   \* bound: events of ptp4l in a behaviour
    MaxInbox,     \* bound: messages in a socket; ptp4l drops what exceeds it
    None

Instances == 1..NDomains
RT == NDomains + 1                  \* the domain of the system clock
Ports == 1..2
Clocks == Ports \cup {0}            \* named by a port; 0: the system clock
AboveAll == 3                       \* before the first of the clocks
Reported == {"LISTENING", "MASTER", "UNCALIBRATED", "SLAVE"}
States == {"DISABLED", "MASTER", "UNCALIBRATED", "SLAVE"}
Phcs == 0..1
SysPhc == -1

\* rt: -r is not given, once (the system clock is only a destination) or twice;
\* clockOf: the clock of a port; phc: where the clocks are at the beginning.
ConfType == [rt : {"none", "dest_only", "source"}, clockOf : [Ports -> Ports],
             phc : [Ports -> Phcs]]

ASSUME Phc2sysAssumption ==
    /\ NDomains \in Nat \ {0} /\ {Interval, UPDATES_PER_SUBSCRIPTION} \subseteq Nat \ {0}
    /\ MaxChanges \in Nat /\ MaxInbox \in Nat \ {0}
    /\ Confs \subseteq ConfType

VARIABLES
    conf,
    ptp,      \* ptp4l, for each instance
    dom,      \* struct domain, for each instance and RT
    pc,
    at,       \* the domain in question
    clk,      \* the clock in question
    changed,  \* do_loop()'s state_changed
    changes,  \* counter for the bound
    synced,   \* history: what the last turn synchronized
    unheard,  \* history: instances of which a change of state was not notified
    found,    \* history: instances whose connection was lost and found, with no
              \* change of a state since
    missed,   \* history: instances whose last forced query failed
    postponed \* history: the last reconfigure() gave up

vars == <<conf, ptp, dom, pc, at, clk, changed, changes, synced, unheard, found,
          missed, postponed>>
hist == <<changes, synced, unheard, found, missed, postponed>>

Doms == Instances \cup (IF conf.rt = "none" THEN {} ELSE {RT})
Lifetime == UPDATES_PER_SUBSCRIPTION * Interval
Never == Lifetime + 1

DomainType ==
    [port : [Ports -> States],
     clock : [Clocks -> [state : States, new_state : States \cup {None},
                         phc : Phcs \cup {SysPhc}]],
     state_changed : BOOLEAN, agent_subscribed : BOOLEAN, requested : BOOLEAN,
     age : 0..Never,                  \* ticks since pmc_last_update
     offset : 0..MaxChanges,          \* sync_offset: the version that was read
     want : 0..MaxChanges,            \* history: the version of the last change
     dst : SUBSET Clocks,
     src : {None} \cup ((1..RT) \X Clocks)]

PtpType ==
    [alive : BOOLEAN, state : [Ports -> Reported], phc : [Ports -> Phcs],
     props : 0..MaxChanges, subscribed : 0..Lifetime]

\* A management id and the port it is about, 0 if none.
Requests == ({"SUBSCRIBE", "UTC"} \X {0}) \cup ({"PROPERTIES", "HWCLOCK"} \X Ports)

\* Notifications of PORT_DATA_SET, and the answers to the requests.
Notes == [kind : {"NOTIFY"}, port : Ports, state : Reported, props : 0..MaxChanges]

Answers ==
    UNION {[kind : {"ANSWER"}, to : {"SUBSCRIBE"} \X {0}],
           [kind : {"ANSWER"}, to : {"UTC"} \X {0}, props : 0..MaxChanges],
           [kind : {"ANSWER"}, to : {"PROPERTIES"} \X Ports, state : Reported],
           [kind : {"ANSWER"}, to : {"HWCLOCK"} \X Ports, phc : Phcs]}

ASSUME NoneAssumption ==
    /\ None \notin States /\ None \notin Requests /\ None \notin Notes /\ None \notin Answers
    /\ None \notin (1..RT) \X Clocks

\* The types; clocks are only given the states port_state_normalize() returns.
TypeOK ==
    /\ \A d \in Doms : dom[d] \in DomainType
    /\ \A d \in Instances :
           /\ [f \in DOMAIN ptp[d] \ {"inbox", "pending"} |-> ptp[d][f]] \in PtpType
           /\ ptp[d].pending \in Seq(Requests)
           /\ ptp[d].inbox \in Seq(Notes \cup Answers) /\ Len(ptp[d].inbox) <= MaxInbox
    /\ at \in 1..RT /\ clk \in Clocks \cup {AboveAll} /\ changed \in BOOLEAN
    /\ UNION {unheard, found, missed} \subseteq Instances

-----------------------------------------------------------------------------
\* Mutant: the states are kept as they are reported.
NormalizeNothing(s) == s

port_state_normalize(s) == IF s = "LISTENING" THEN "DISABLED" ELSE s

\* The numerical values of the states give the precedence.
Rank(s) == CASE s = "DISABLED" -> 3 [] s = "LISTENING" -> 4 [] s = "MASTER" -> 6
             [] s = "UNCALIBRATED" -> 8 [] s = "SLAVE" -> 9

clock_compute_state(port, c) ==
    LET mine == {"DISABLED"} \cup {port[p] : p \in {q \in Ports : conf.clockOf[q] = c}}
    IN  CHOOSE s \in mine : \A t \in mine : Rank(s) >= Rank(t)

\* Mutant: a second change before the first was applied is overlooked.
RecvKeepsFirst(D, m) ==
    LET s == port_state_normalize(m.state)
        c == conf.clockOf[m.port]
        port == [D.port EXCEPT ![m.port] = s]
        new == clock_compute_state(port, c)
    IN  IF D.port[m.port] = s THEN D
        ELSE IF D.clock[c].state = new \/ D.clock[c].new_state # None
        THEN [D EXCEPT !.port = port]
        ELSE [D EXCEPT !.port = port, !.clock[c].new_state = new, !.state_changed = TRUE,
                       !.want = m.props]

\* phc2sys_recv_subscribed() for a PORT_DATA_SET.
recv_subscribed(D, m) ==
    LET s    == port_state_normalize(m.state)
        c    == conf.clockOf[m.port]
        port == [D.port EXCEPT ![m.port] = s]
        new  == clock_compute_state(port, c)
    IN  IF D.port[m.port] = s THEN D
        ELSE IF D.clock[c].state = new /\ D.clock[c].new_state = None
        THEN [D EXCEPT !.port = port]
        ELSE [D EXCEPT !.port = port, !.clock[c].new_state = new, !.state_changed = TRUE,
                       !.want = m.props]

-----------------------------------------------------------------------------
\* The port that speaks for a clock: the last one added.
PortOf(c) == Max({p \in Ports : conf.clockOf[p] = c})

\* run_pmc(): the request that is made at each place, None if none is.
Asks == CASE pc = "renew" -> <<"SUBSCRIBE", 0>>
          [] pc \in {"utc", "force"} -> <<"UTC", 0>>
          [] pc = "properties" -> <<"PROPERTIES", PortOf(clk)>>
          [] pc = "hwclock" -> <<"HWCLOCK", PortOf(clk)>>
          [] OTHER -> None

Waiting == pc \in {"renew", "utc", "drain", "force", "properties", "hwclock"}

\* pmc_agent_query_utc_offset()
SetOffset(D, m) == [D EXCEPT !.offset = m.props]

\* pmc_agent_update() and what do_loop() does with a domain up to its next
\* wait; D is the domain after the call at pc returned.
Goto(place, d) == pc' = place /\ at' = d

NextDomain(flag) ==
    /\ changed' = flag
    /\ IF at + 1 \in Instances
       THEN Goto(IF dom[at + 1].age >= Interval THEN "renew" ELSE "drain", at + 1)
       ELSE Goto(IF flag THEN "reconfigure" ELSE "update", 1)

is_subscribed(D) == D.age <= Lifetime

\* Mutant: the offset is not read again.
AfterStateOnly(D, now) ==
    NextDomain(changed \/ (now /\ D.state_changed) \/ (~now /\ D.agent_subscribed))

\* A change of the states is to be applied, so the offset is read again.
AfterState(D, now) ==
    IF now /\ D.state_changed
    THEN Goto("force", at) /\ changed' = TRUE
    ELSE NextDomain(changed \/ (~now /\ D.agent_subscribed))

AfterDrain(D) ==
    LET now == is_subscribed(D)
    IN  /\ dom' = [dom EXCEPT ![at] = [D EXCEPT !.agent_subscribed = now]]
        /\ found' = CASE D.state_changed -> found \ {at}
                      [] now /\ ~D.agent_subscribed /\ ~D.state_changed -> found \cup {at}
                      [] OTHER -> found
        /\ AfterState(D, now)
        /\ UNCHANGED <<clk, missed>>

\* clock_reinit() found the device phc; the new state is taken, which
\* notifications may have changed since the ports were asked.
clock_reinit(D, c, phc) == [D EXCEPT !.clock[c].phc = phc]

TakeState(D, c) ==
    [D EXCEPT !.clock[c] = [@ EXCEPT !.state = D.clock[c].new_state, !.new_state = None]]

Reinited(D, phc) == TakeState(clock_reinit(D, clk, phc), clk)

\* The call at pc returns with answer m, or None when it timed out.
Return(D, m) ==
    CASE pc = "renew" ->
           /\ dom' = [dom EXCEPT ![at] = D]
           /\ Goto("utc", at) /\ UNCHANGED <<clk, changed, found, missed>>
      [] pc = "utc" ->
           /\ dom' = [dom EXCEPT ![at] =
                        IF m = None THEN D ELSE [SetOffset(D, m) EXCEPT !.age = 0]]
           /\ Goto("drain", at) /\ UNCHANGED <<clk, changed, found, missed>>
      [] pc = "drain" -> AfterDrain(D)
      [] pc = "force" ->
           /\ dom' = [dom EXCEPT ![at] = IF m = None THEN D ELSE SetOffset(D, m)]
           /\ missed' = IF m = None THEN missed \cup {at} ELSE missed \ {at}
           /\ NextDomain(TRUE) /\ UNCHANGED <<clk, found>>
      [] pc = "properties" /\ m # None ->
           /\ dom' = [dom EXCEPT ![at] =
                        [D EXCEPT !.port[PortOf(clk)] = port_state_normalize(m.state)]]
           /\ Goto("hwclock", at) /\ UNCHANGED <<clk, changed, found, missed>>
      [] OTHER ->
           /\ LET phc == IF m = None THEN D.clock[clk].phc ELSE m.phc
              IN  dom' = [dom EXCEPT ![at] = Reinited(D, phc)]
           /\ Goto("reconfigure_domain", at) /\ UNCHANGED <<clk, changed, found, missed>>

\* A message is there: a notification, or the answer to this or another call.
Read ==
    /\ Waiting /\ ptp[at].inbox # <<>>
    /\ LET m == Head(ptp[at].inbox)
           D == dom[at]
           N == IF m.kind = "NOTIFY" THEN recv_subscribed(D, m) ELSE D
       IN  IF m.kind = "ANSWER" /\ m.to = Asks
           THEN Return([N EXCEPT !.requested = FALSE], m)
           ELSE /\ dom' = [dom EXCEPT ![at] = N]
                /\ UNCHANGED <<pc, at, clk, changed, found, missed>>
    /\ ptp' = [ptp EXCEPT ![at].inbox = Tail(@)]
    /\ UNCHANGED <<conf, changes, synced, unheard, postponed>>

\* No message is there, and the request was not made yet.
Request ==
    /\ Waiting /\ Asks # None
    /\ ptp[at].inbox = <<>> /\ ~dom[at].requested
    /\ ptp' = [ptp EXCEPT ![at].pending = IF Len(@) < MaxInbox THEN Append(@, Asks) ELSE @]
    /\ dom' = [dom EXCEPT ![at].requested = TRUE]
    /\ UNCHANGED <<conf, pc, at, clk, changed, hist>>

\* ptp4l answers within a second, unless it is stopped.
Slow(d) == ~ptp[d].alive \/ ptp[d].pending = <<>>

\* poll() times out, at once or after a second.
TimeOut ==
    /\ Waiting /\ ptp[at].inbox = <<>>
    /\ pc \in {"force", "properties", "hwclock"} => Slow(at)
    /\ Asks # None => dom[at].requested
    /\ Return([dom[at] EXCEPT !.requested = FALSE], None)
    /\ UNCHANGED <<conf, ptp, changes, synced, unheard, postponed>>

-----------------------------------------------------------------------------
\* reconfigure(): the domains one after another.
BeginReconfigure ==
    /\ pc = "reconfigure"
    /\ LET cleared == [dom[at] EXCEPT !.dst = {}, !.state_changed = FALSE]
       IN  IF dom[at].agent_subscribed
           THEN /\ dom' = [dom EXCEPT ![at] = cleared]
                /\ Goto("reconfigure_domain", at) /\ clk' = AboveAll
           ELSE /\ UNCHANGED clk
                /\ dom' = [dom EXCEPT ![at] = [cleared EXCEPT !.src = None]]
                /\ Goto(IF at + 1 \in Instances THEN "reconfigure" ELSE "select", at + 1)
    /\ UNCHANGED <<conf, ptp, changed, hist>>

Devices == {conf.clockOf[p] : p \in Ports}

\* reconfigure_domain() visits the clocks in the reverse of the order in which
\* they were added, once; those with a new state still to come are these.
ToReinit == {c \in Devices : c < clk /\ dom[at].clock[c].new_state # None}

NextReinit ==
    /\ pc = "reconfigure_domain"
    /\ ToReinit # {} /\ clk' = Max(ToReinit)
    /\ Goto("properties", at)
    /\ UNCHANGED <<conf, ptp, dom, changed, hist>>

\* The first clock visited of those that share a device is synchronized.
Destinations(D) ==
    LET idle == {c \in Devices : D.clock[c].state \in {"DISABLED", "MASTER"}}
    IN  {c \in idle : \A b \in idle : b > c => D.clock[b].phc # D.clock[c].phc}

Sources(D) == {c \in Devices : D.clock[c].state \in {"UNCALIBRATED", "SLAVE"}}

\* Mutant: a port that is not calibrated yet will do.
SlavesOrSoon(D) == Sources(D)

Slaves(D) == {c \in Devices : D.clock[c].state = "SLAVE"}

\* No choice is possible now: reconfigure() gives up, with the domains that
\* follow as they were.
Postpone(D) == Cardinality(Sources(D)) > 1 \/ (Sources(D) # {} /\ Slaves(D) = {})

EndDomain ==
    /\ pc = "reconfigure_domain"
    /\ ToReinit = {}
    /\ LET D == dom[at]
           set(s) == dom' = [dom EXCEPT ![at] = [D EXCEPT !.dst = Destinations(D), !.src = s]]
       IN  IF Postpone(D) THEN set(None) /\ Goto("update", 1)
           ELSE /\ set(IF Slaves(D) = {} THEN None ELSE <<at, CHOOSE c \in Slaves(D) : TRUE>>)
                /\ Goto(IF at + 1 \in Instances THEN "reconfigure" ELSE "select", at + 1)
    /\ postponed' = Postpone(dom[at])
    /\ UNCHANGED <<conf, ptp, clk, changed, changes, synced, unheard, found, missed>>

\* Mutant: the system clock keeps the source it follows.
SelectKeeps(doms, best) ==
    LET idle == {None, <<RT, 0>>}
    IN  [d \in Doms |->
            CASE d = RT /\ dom[d].src \notin idle -> [doms[d] EXCEPT !.src = dom[d].src]
              [] d # RT /\ doms[d].src # None -> doms[d]
              [] OTHER -> [doms[d] EXCEPT !.src = best]]

\* Domains without a source of their own, and the system clock, take the best.
Select(doms, best) ==
    [d \in Doms |-> IF doms[d].src # None /\ d # RT THEN doms[d]
                    ELSE [doms[d] EXCEPT !.src = best]]

SelectSource ==
    /\ pc = "select"
    /\ LET own == IF RT \in Doms
                  THEN [dom EXCEPT ![RT].dst = {0},
                            ![RT].src = IF conf.rt = "source" THEN <<RT, 0>> ELSE None]
                  ELSE dom
           able == {d \in Doms : own[d].src # None}
       IN  dom' = IF Cardinality(Doms) <= 1 \/ able = {} THEN own
                  ELSE Select(own, own[Min(able)].src)
    /\ Goto("update", 1)
    /\ UNCHANGED <<conf, ptp, clk, changed, hist>>

-----------------------------------------------------------------------------
\* update_domain_clocks(): all but the source itself, read or driven as another
\* clock of the same device too.
PhcOf(d, c) == IF c = 0 THEN SysPhc ELSE dom[d].clock[c].phc

Targets(d) ==
    IF dom[d].src = None THEN {}
    ELSE LET s == dom[d].src
         IN  {c \in dom[d].dst : <<d, c>> # s /\ PhcOf(d, c) # PhcOf(s[1], s[2])}

UpdateClocks ==
    /\ pc = "update"
    /\ synced' = UNION {{[dst |-> <<d, c>>, src |-> dom[d].src] : c \in Targets(d)} : d \in Doms}
    /\ Goto("sleep", 1)
    /\ UNCHANGED <<conf, ptp, dom, clk, changed, changes, unheard, found, missed, postponed>>

\* clock_nanosleep() returns: the next turn.
Wake ==
    /\ pc = "sleep" /\ \A d \in Instances : Slow(d)
    /\ dom' = [d \in Doms |-> IF d \in Instances /\ dom[d].age < Never
                              THEN [dom[d] EXCEPT !.age = @ + 1] ELSE dom[d]]
    /\ ptp' = [d \in Instances |-> IF ptp[d].subscribed > 0
                                   THEN [ptp[d] EXCEPT !.subscribed = @ - 1] ELSE ptp[d]]
    /\ changed' = FALSE /\ synced' = {}
    /\ Goto(IF dom'[1].age >= Interval THEN "renew" ELSE "drain", 1)
    /\ UNCHANGED <<conf, clk, changes, unheard, found, missed, postponed>>

-----------------------------------------------------------------------------
Event == changes < MaxChanges /\ changes' = changes + 1

\* What ptp4l does while phc2sys computes could as well be later.
Interleaves == pc = "sleep" \/ Waiting

\* ptp4l answers what it was asked so far.
AnswerOne(d, r) ==
    CASE r[1] = "SUBSCRIBE" -> [kind |-> "ANSWER", to |-> r]
      [] r[1] = "UTC" -> [kind |-> "ANSWER", to |-> r, props |-> ptp[d].props]
      [] r[1] = "PROPERTIES" ->
             [kind |-> "ANSWER", to |-> r, state |-> ptp[d].state[r[2]]]
      [] OTHER -> [kind |-> "ANSWER", to |-> r, phc |-> ptp[d].phc[r[2]]]

Fit(inbox) == SubSeq(inbox, 1, Min({MaxInbox, Len(inbox)}))

Answer(d) ==
    /\ ptp[d].alive /\ ptp[d].pending # <<>> /\ Interleaves
    /\ LET asked == {ptp[d].pending[k] : k \in DOMAIN ptp[d].pending}
           answers == [k \in DOMAIN ptp[d].pending |-> AnswerOne(d, ptp[d].pending[k])]
       IN  ptp' = [ptp EXCEPT ![d].inbox = Fit(@ \o answers), ![d].pending = <<>>,
                              ![d].subscribed = IF <<"SUBSCRIBE", 0>> \in asked THEN Lifetime ELSE @]
    /\ UNCHANGED <<conf, dom, pc, at, clk, changed, hist>>

\* A port changes its state, with or without other time properties or another
\* device, and ptp4l notifies its subscribers.
PortChange(d, p, s, props, phc) ==
    /\ ptp[d].alive /\ s # ptp[d].state[p] /\ Interleaves /\ Event
    /\ phc # ptp[d].phc[p] => s = "LISTENING"
    /\ props => s \in {"MASTER", "SLAVE"}
    /\ LET note == <<[kind |-> "NOTIFY", port |-> p, state |-> s,
                     props |-> ptp[d].props + (IF props THEN 1 ELSE 0)]>>
           heard == ptp[d].subscribed > 0 /\ Len(ptp[d].inbox) < MaxInbox
       IN  /\ ptp' = [ptp EXCEPT ![d].state[p] = s,
                                 ![d].props = IF props THEN @ + 1 ELSE @,
                                 ![d].phc[p] = phc,
                                 ![d].inbox = IF heard THEN @ \o note ELSE @]
           /\ unheard' = IF heard THEN unheard ELSE unheard \cup {d}
    /\ UNCHANGED <<conf, dom, pc, at, clk, changed, synced, found, missed, postponed>>

\* ptp4l stops, and goes on as it was.
Stall(d) ==
    /\ ptp[d].alive /\ Interleaves /\ Event
    /\ ptp' = [ptp EXCEPT ![d].alive = FALSE]
    /\ UNCHANGED <<conf, dom, pc, at, clk, changed, synced, unheard, found, missed, postponed>>

Resume(d) ==
    /\ ~ptp[d].alive /\ Interleaves
    /\ ptp' = [ptp EXCEPT ![d].alive = TRUE]
    /\ UNCHANGED <<conf, dom, pc, at, clk, changed, hist>>

-----------------------------------------------------------------------------
\* auto_init_ports() and auto_init_rt() have run: the subscription is there,
\* and every clock has its state to be applied.
auto_init_ports(state, phc) ==
    LET port == [p \in Ports |-> port_state_normalize(state[p])]
    IN  [port |-> port,
         clock |-> [c \in Clocks |->
                      [state |-> "DISABLED",
                       new_state |-> IF c \in Devices THEN clock_compute_state(port, c) ELSE None,
                       phc |-> IF c = 0 THEN SysPhc ELSE phc[c]]],
         state_changed |-> TRUE, agent_subscribed |-> FALSE, requested |-> FALSE,
         age |-> Never, offset |-> 0, want |-> 0, dst |-> {}, src |-> None]

auto_init_rt ==
    [auto_init_ports([p \in Ports |-> "LISTENING"], [p \in Ports |-> 0])
        EXCEPT !.state_changed = FALSE,
               !.clock = [c \in Clocks |-> [@[c] EXCEPT !.new_state = None]]]

Init ==
    /\ conf \in Confs
    /\ ptp = [d \in Instances |->
                [alive |-> TRUE, state |-> [p \in Ports |-> "LISTENING"],
                 phc |-> conf.phc, props |-> 0, pending |-> <<>>, inbox |-> <<>>,
                 subscribed |-> Lifetime]]
    /\ dom = [d \in Doms |-> IF d = RT THEN auto_init_rt
                             ELSE auto_init_ports(ptp[d].state, conf.phc)]
    /\ pc = "sleep" /\ at = 1 /\ clk = 0 /\ changed = FALSE
    /\ changes = 0 /\ synced = {} /\ unheard = {} /\ found = {} /\ missed = {}
    /\ postponed = FALSE

Program ==
    \/ Read \/ Request \/ TimeOut
    \/ BeginReconfigure \/ NextReinit \/ EndDomain \/ SelectSource
    \/ UpdateClocks \/ Wake

Next ==
    \/ Program
    \/ \E d \in Instances :
           \/ Answer(d) \/ Stall(d) \/ Resume(d)
           \/ \E p \in Ports, s \in Reported, props \in BOOLEAN, phc \in Phcs :
                  PortChange(d, p, s, props, phc)

Spec == Init /\ [][Next]_vars

-----------------------------------------------------------------------------
\* As long as every change was notified, the program knows the states of the
\* ports once it has read its messages, and of every clock the state that
\* follows from them, or that it is to be applied: an answer to clock_reinit()
\* overtakes no notification.  What was to be applied when the connection was
\* lost stays so until another state changes.
InStep ==
    \A d \in Instances :
        d \notin unheard /\ ptp[d].inbox = <<>> =>
            /\ dom[d].port = [p \in Ports |-> port_state_normalize(ptp[d].state[p])]
            /\ \A c \in Devices :
                   LET k == dom[d].clock[c]
                   IN  /\ clock_compute_state(dom[d].port, c)
                              = IF k.new_state # None THEN k.new_state ELSE k.state
                       /\ k.new_state # None =>
                              \/ dom[d].state_changed \/ pc \notin {"sleep", "update"}
                              \/ ~dom[d].agent_subscribed \/ d \in found

Drives(e) == [dst |-> PhcOf(e.dst[1], e.dst[2]), src |-> PhcOf(e.src[1], e.src[2])]

\* Clocks never discipline each other, nor a clock itself: following the
\* sources that reconfigure() chose from any clock ends.  This is for one
\* instance; reconfigure() does not ask whether two share their devices.
NoCycle ==
    LET edges == {Drives(e) : e \in synced}
    IN  \A e \in edges : ~ \E f \in edges : e.dst = f.src /\ f.dst = e.src

\* The direction follows the states (phc2sys.8): what is synchronized, the
\* system clock included, has a slave as its source, or the system clock.
\* After reconfigure() gave up, domains it did not reach keep their source.
DirectionFollows ==
    \A e \in synced :
        \/ e.src = <<RT, 0>>
        \/ dom[e.src[1]].clock[e.src[2]].state = "SLAVE"
        \/ postponed

\* A change of the states is not applied with the UTC offset from before it,
\* unless ptp4l did not answer in time: then the old one is used.
OffsetIsFresh ==
    pc = "update" => \A d \in Instances :
        \/ dom[d].offset >= dom[d].want
        \/ dom[d].state_changed \/ ~dom[d].agent_subscribed \/ d \in missed

\* The choice of the sources is sound: DirectionFollows and NoCycle, in a state
\* of the right type (reconfigure_domain(), reconfigure()).
SourcesSound == TypeOK /\ DirectionFollows /\ NoCycle
=============================================================================
