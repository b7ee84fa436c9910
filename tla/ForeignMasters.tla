--------------------------- MODULE ForeignMasters ---------------------------
(****************************************************************************)
(* A port that hears Announce messages: the foreign masters it keeps, which *)
(* of them qualifies as the best, the receipt timeout, and the delay timer  *)
(* of a hybrid port, which looks at the best master's messages for an       *)
(* address.  The state decision is clock.c's (external), the state machines *)
(* are PortFsm's.                                                           *)
(*                                                                          *)
(* poll() returns a set of ready descriptors which the loop serves in the   *)
(* order of their numbers; a state decision follows when one was asked for. *)
(* A tick is an announce interval.                                          *)
(****************************************************************************)
EXTENDS Integers, Sequences, SequencesExt, PortFsm

CONSTANTS
    Sources,          \* the other ports that announce themselves
    Window,           \* intervals for which an announcement is current; 4
    ReceiptTimeout,   \* announceReceiptTimeout
    MaxEvents,        \* bound: losses, and changes of a source
    Nobody

ASSUME ForeignMastersAssumption ==
    /\ {Window, ReceiptTimeout, MaxEvents} \subseteq Nat /\ Nobody \notin Sources

FOREIGN_MASTER_THRESHOLD == 2
Armed == ReceiptTimeout + 1
Qualities == 1..2     \* of a grandmaster; a source is better by the larger
OwnQuality == 0       \* of this clock

VARIABLES
    machine,   \* p->state_machine
    state, best,
    fc,        \* p->foreign_masters: the list of sources that are known
    messages,  \* of each foreign master, newest first: quality and age
    timer,     \* of the receipt of announcements; 1: expired, 0: not armed
    ready,     \* what poll() returned and the loop has still to serve
    sde,       \* a state decision is due
    said,      \* sources that have announced in this tick
    quality,   \* of the sources; 0: silent
    events,    \* counter for the bound
    parent     \* the master of the last decision

fmvars == <<machine, state, best, fc, messages, timer, ready, sde, said, quality, events, parent>>

Running == {"LISTENING", "MASTER", "GRAND_MASTER", "UNCALIBRATED", "SLAVE"}
Following == {"UNCALIBRATED", "SLAVE"}

\* The types; no foreign master is listed twice, and each keeps few messages,
\* since those beyond the threshold are dropped (fc_prune()).
FMTypeOK ==
    /\ machine \in {"ptp_fsm", "ptp_slave_fsm"}
    /\ state \in Running /\ best \in Sources \cup {Nobody} /\ parent \in Sources \cup {Nobody}
    /\ fc \in Seq(Sources) /\ IsInjective(fc)
    /\ \A s \in Sources : Len(messages[s]) <= FOREIGN_MASTER_THRESHOLD + 1
    /\ timer \in 0..Armed /\ ready \subseteq {"ANNOUNCE", "DELAY"}

FMInit ==
    /\ machine \in {"ptp_fsm", "ptp_slave_fsm"}
    /\ state = "LISTENING" /\ best = Nobody /\ parent = Nobody /\ fc = <<>>
    /\ messages = [s \in Sources |-> <<>>]
    /\ timer = Armed /\ ready = {} /\ sde = FALSE /\ said = {}
    /\ quality \in [Sources -> Qualities \cup {0}] /\ events = 0

-----------------------------------------------------------------------------
\* port_e2e_transition(), for the timer that matters here.
TimerOf(next, t) ==
    IF next = state THEN t
    ELSE IF next \in {"LISTENING", "PASSIVE", "UNCALIBRATED", "SLAVE"} THEN Armed
    ELSE 0

Dispatch(event, mdiff) == state_machine(machine, state, event, mdiff)

msg_current(m) == m.age < Window

fc_clear(q) == <<>>

\* What exceeds the threshold goes, and then the last as long as it is too old.
fc_prune(q) ==
    LET current == {i \in DOMAIN q : i <= FOREIGN_MASTER_THRESHOLD /\ msg_current(q[i])}
    IN  SubSeq(q, 1, Max(current \cup {0}))

announce_compare(q) == Len(q) > 1 /\ q[1].quality # q[2].quality

\* The new list, the new messages of s and whether a decision is needed.
Added(s, m) ==
    IF ~Contains(fc, s) THEN [fc |-> <<s>> \o fc, q |-> <<>>, news |-> FALSE]
    ELSE LET old == fc_prune(messages[s])
             q == <<m>> \o old
         IN  [fc |-> fc, q |-> q,
              news |-> Len(old) = FOREIGN_MASTER_THRESHOLD - 1 \/ announce_compare(q)]

add_foreign_master(s, m) ==
    LET a == Added(s, m)
    IN  /\ fc' = a.fc /\ messages' = [messages EXCEPT ![s] = a.q]
        /\ sde' = (sde \/ a.news) /\ UNCHANGED timer

\* Mutant: the messages of the best master are not pruned.
UpdateUnpruned(s, m) ==
    /\ messages' = [messages EXCEPT ![s] = <<m>> \o @]
    /\ timer' = Armed /\ UNCHANGED <<fc, sde>>

update_current_master(s, m) ==
    LET q == <<m>> \o fc_prune(messages[s])
    IN  /\ messages' = [messages EXCEPT ![s] = q]
        /\ sde' = (sde \/ announce_compare(q))
        /\ timer' = Armed /\ UNCHANGED fc

process_announce(s) ==
    LET m == [quality |-> quality[s], age |-> 0]
    IN  /\ ready = {} /\ ~sde /\ quality[s] > 0 /\ s \notin said
        /\ said' = said \cup {s}
        /\ IF state \in Following /\ s = best THEN update_current_master(s, m)
           ELSE add_foreign_master(s, m)
        /\ UNCHANGED <<machine, state, best, ready, quality, events, parent>>

-----------------------------------------------------------------------------
\* Mutant: messages that are too old count.
QualifiedStale(s) == Len(messages[s]) >= FOREIGN_MASTER_THRESHOLD

Qualified(s) == Len(fc_prune(messages[s])) >= FOREIGN_MASTER_THRESHOLD

\* Mutant: the comparison is the wrong way around.
Worse(s, t) ==
    messages[t] = <<>> \/ messages[s][1].quality < messages[t][1].quality

\* The newest message of a master, as announce_to_dataset() copied it, by which
\* it is compared with the best so far; the identity breaks a tie.
Better(s, t) ==
    messages[t] = <<>> \/ messages[s][1].quality > messages[t][1].quality

\* The result of the loop of port_compute_best(): the best of those that qualify,
\* and of several that are as good the first.
Choose(from) ==
    LET q == {i \in DOMAIN from : Qualified(from[i])}
    IN  IF q = {} THEN Nobody
        ELSE from[CHOOSE i \in q :
                    \A j \in q \ {i} : IF j < i THEN Better(from[i], from[j])
                                                ELSE ~Better(from[j], from[i])]

\* A master that qualifies and loses against one before it in the list is
\* cleared; the others that have a message are pruned.
AfterChoice(s) ==
    LET before == SubSeq(fc, 1, (CHOOSE i \in DOMAIN fc : fc[i] = s) - 1)
        leader == Choose(before)
    IN  IF ~Contains(fc, s) THEN messages[s]
        ELSE IF Qualified(s) /\ leader # Nobody /\ ~Better(s, leader) THEN fc_clear(messages[s])
        ELSE fc_prune(messages[s])

\* clock.c's decision: the best master is followed if it is better than the own
\* clock, and no decision is made while listening without one.
handle_state_decision_event ==
    LET b == Choose(fc)
        event == IF b # Nobody /\ messages[b][1].quality > OwnQuality THEN "RS_SLAVE"
                 ELSE IF b = Nobody /\ state = "LISTENING" THEN "NONE"
                 ELSE "RS_GRAND_MASTER"
        next == Dispatch(event, b # parent)
    IN  /\ ready = {} /\ sde /\ sde' = FALSE
        /\ best' = b /\ parent' = b
        /\ messages' = [s \in Sources |-> AfterChoice(s)]
        /\ state' = next /\ timer' = TimerOf(next, timer)
        /\ UNCHANGED <<machine, fc, ready, said, quality, events>>

-----------------------------------------------------------------------------
\* poll() returns; the delay timer runs in the states that measure the delay.
Poll ==
    /\ ready = {} /\ ~sde
    /\ \E r \in SUBSET {"ANNOUNCE", "DELAY"} :
           /\ r # {}
           /\ "ANNOUNCE" \in r => timer = 1
           /\ "DELAY" \in r => state \in Following
           /\ ready' = r
    /\ UNCHANGED <<machine, state, best, fc, messages, timer, sde, said, quality, events, parent>>

\* FD_ANNOUNCE_TIMER of bc_event(), and the dispatch of its event.
AnnounceTimeout ==
    LET next == Dispatch("ANNOUNCE_RECEIPT_TIMEOUT_EXPIRES", FALSE)
    IN  /\ "ANNOUNCE" \in ready /\ ready' = ready \ {"ANNOUNCE"}
        /\ messages' = IF best = Nobody THEN messages
                       ELSE [messages EXCEPT ![best] = fc_clear(@)]
        /\ state' = next /\ timer' = TimerOf(next, Armed)
        /\ sde' = TRUE
        /\ UNCHANGED <<machine, best, fc, said, quality, events, parent>>

HasAddress == best # Nobody /\ messages[best] # <<>>

\* FD_DELAY_TIMER: a hybrid port sends to the address of the best master.
DelayTimeout ==
    /\ "DELAY" \in ready /\ "ANNOUNCE" \notin ready /\ ready' = ready \ {"DELAY"}
    /\ UNCHANGED <<machine, state, best, fc, messages, timer, sde, said, quality, events, parent>>

\* The servo locks, or asks for calibration, when a Sync comes from the master.
Synchronize(event) ==
    /\ ready = {} /\ ~sde /\ state \in Following /\ best # Nobody /\ quality[best] > 0
    /\ state' = Dispatch(event, FALSE) /\ timer' = TimerOf(state', timer)
    /\ state' # state
    /\ UNCHANGED <<machine, best, fc, messages, ready, sde, said, quality, events, parent>>

-----------------------------------------------------------------------------
Older(q) == [i \in DOMAIN q |-> [q[i] EXCEPT !.age = IF @ < Window THEN @ + 1 ELSE @]]

\* An interval passes.  A source announces itself in each one; the receipt
\* timeout is served before it is missed.
FMTick ==
    /\ ready = {} /\ ~sde /\ timer # 1
    /\ \A s \in Sources : quality[s] > 0 => s \in said
    /\ said' = {} /\ timer' = IF timer > 0 THEN timer - 1 ELSE 0
    /\ messages' = [s \in Sources |-> Older(messages[s])]
    /\ UNCHANGED <<machine, state, best, fc, ready, sde, quality, events, parent>>

\* An announcement is lost; a source changes its grandmaster, falls silent or
\* comes back.
Lose(s) ==
    /\ ready = {} /\ ~sde /\ events < MaxEvents /\ events' = events + 1
    /\ quality[s] > 0 /\ s \notin said /\ said' = said \cup {s}
    /\ UNCHANGED <<machine, state, best, fc, messages, timer, ready, sde, quality, parent>>

Change(s) ==
    /\ ready = {} /\ ~sde /\ events < MaxEvents /\ events' = events + 1
    /\ \E q \in Qualities \cup {0} : q # quality[s] /\ quality' = [quality EXCEPT ![s] = q]
    /\ UNCHANGED <<machine, state, best, fc, messages, timer, ready, sde, said, parent>>

FMNext ==
    \/ \E s \in Sources : process_announce(s) \/ Lose(s) \/ Change(s)
    \/ handle_state_decision_event \/ Poll \/ AnnounceTimeout \/ DelayTimeout
    \/ FMTick
    \/ \E e \in {"MASTER_CLOCK_SELECTED", "SYNCHRONIZATION_FAULT"} : Synchronize(e)

FMSpec == FMInit /\ [][FMNext]_fmvars

\* The loop serves what is ready, an expired timer included; the sources announce
\* themselves in every interval, and time passes.
FMFairness ==
    /\ []<>(ready = {} /\ ~sde /\ timer # 1)
    /\ []<>(\A s \in Sources : quality[s] > 0 => s \in said)
    /\ SF_fmvars(FMTick)

-----------------------------------------------------------------------------
\* port_delay_request(), net_sync_resp_append(): the messages of the best master
\* are there when its address is needed: at a delay timeout of a hybrid port, unless
\* the same round of the loop served the receipt timeout before, and whenever a
\* request of a network monitor may be answered.
AddressKnown ==
    ~sde => /\ "DELAY" \in ready => HasAddress
            /\ ready = {} /\ best # Nobody => HasAddress
            /\ ready = {} /\ state \in Following => HasAddress

\* When the sources change no more, the port settles on the best of those that
\* announce themselves and follows it, or follows nobody if none does.
BestWins ==
    <>[](LET heard == {s \in Sources : quality[s] > 0}
             top == {s \in heard : \A t \in heard : quality[s] >= quality[t]}
         IN  IF heard = {} THEN state \notin Following
             ELSE best \in top /\ state \in Following)

\* The list of foreign masters serves its readers: AddressKnown, in a state of the
\* right type.
MastersInOrder == FMTypeOK /\ AddressKnown
=============================================================================
