------------------------------- MODULE SyncFup -------------------------------
(****************************************************************************)
(* How a port of port.c puts Sync and Follow_Up together: process_sync(),   *)
(* process_follow_up() and port_syfufsm(), with the message buffers of      *)
(* msg.c that the port keeps between two receptions, and the dispatches     *)
(* that a completed pair causes in port_synchronize().  The fork's check of *)
(* the sync receive interval, which these steps do not read, is left out.   *)
(*                                                                          *)
(* The network loses, duplicates and reorders; a message stays deliverable  *)
(* while its master has sent fewer than Window newer ones.                  *)
(****************************************************************************)
EXTENDS Integers, FiniteSets

CONSTANTS
    Masters, OneStep,  \* the masters, and those that send one-step Syncs
    IgnoreSourceId,    \* the ignore_source_id option
    Buffers,           \* message buffers; three are enough, see PoolServes
    SeqMod,            \* sequence numbers are taken modulo SeqMod (2^16)
    Window,            \* bound: how far a message can be overtaken
    MaxGap,            \* bound: Syncs of a master between two the port accepts
    MaxSent            \* bound: Syncs a master sends

ASSUME OneStepAssumption == OneStep \subseteq Masters
ASSUME IgnoreAssumption == IgnoreSourceId \in BOOLEAN
ASSUME BoundsAssumption ==
    /\ SeqMod \in Nat /\ Window \in Nat /\ MaxGap \in Nat /\ MaxSent \in Nat
    /\ Window >= 1 /\ MaxGap >= 1 /\ Window + MaxGap <= SeqMod

\* A message is the n-th Sync of a master, or the Follow_Up of that Sync.
Kinds == {"SYNC", "ONE_STEP_SYNC", "FOLLOW_UP"}
Messages == [src : Masters, kind : Kinds, n : 1..MaxSent]

\* Mutant: sequence numbers are not compared.
AnySequenceId(m) == 0

SequenceId(m) == m.n % SeqMod

NoMessage == [src |-> "none", kind |-> "none", n |-> 0]

Synced == {"UNCALIBRATED", "SLAVE"}

VARIABLES
    sent,     \* master -> Syncs sent
    heard,    \* master -> newest message of it that the port accepted
    parent,   \* clock_parent_identity()
    port,     \* struct port, see PortType
    pair,     \* history: the messages of the newest synchronization
    prev      \* history: the message received just before, if nothing happened since

vars == <<sent, heard, parent, port, pair, prev>>

PortType ==
    [state : {"LISTENING"} \cup Synced,
     syfu : {"SF_EMPTY", "SF_HAVE_SYNC", "SF_HAVE_FUP"},
     last : Buffers,                           \* p->last_syncfup
     content : [Buffers -> Messages \cup {NoMessage}],
     refcnt : [Buffers -> -1..2],
     pool : SUBSET Buffers]                    \* msg_pool

-----------------------------------------------------------------------------
\* msg.c
msg_get(p, b) == [p EXCEPT !.refcnt[b] = @ + 1]

msg_put(p, b) ==
    LET left == p.refcnt[b] - 1
    IN  [p EXCEPT !.refcnt[b] = left,
                  !.pool = IF left = 0 THEN @ \cup {b} ELSE @,
                  !.content[b] = IF left = 0 THEN NoMessage ELSE @]

msg_allocate(p, b, m) ==
    [p EXCEPT !.refcnt[b] = 1, !.pool = @ \ {b}, !.content[b] = m]

\* Mutant: the flushed message is still taken for a stored one.
flush_last_sync_again(p) ==
    IF p.syfu = "SF_EMPTY" THEN p ELSE msg_put(p, p.last)

flush_last_sync(p) ==
    IF p.syfu = "SF_EMPTY" THEN p
    ELSE [msg_put(p, p.last) EXCEPT !.syfu = "SF_EMPTY"]

\* bc_dispatch() of the two events a synchronization causes; entering
\* UNCALIBRATED flushes the stored message.
SynchronizationFault(p) ==
    IF p.state = "SLAVE"
    THEN flush_last_sync([p EXCEPT !.state = "UNCALIBRATED"]) ELSE p

MasterClockSelected(p) ==
    IF p.state = "UNCALIBRATED" THEN [p EXCEPT !.state = "SLAVE"] ELSE p

\* A message is built, sent and released while a reception is being handled
\* (port_tx_interval_request()).
Transmit(p, b) == msg_put(msg_allocate(p, b, NoMessage), b)

\* port_synchronize(): the servo's verdict and what it sends.
Verdicts == {"unlocked", "unlocked_request", "jump", "locked", "stable",
             "stable_request", "stable_restart"}

port_synchronize(p, verdict, b) ==
    CASE verdict \in {"unlocked", "jump"} -> SynchronizationFault(p)
      [] verdict = "unlocked_request" -> Transmit(SynchronizationFault(p), b)
      [] verdict \in {"locked", "stable"} -> MasterClockSelected(p)
      [] verdict = "stable_request" -> MasterClockSelected(Transmit(p, b))
      [] verdict = "stable_restart" -> MasterClockSelected(SynchronizationFault(p))

Store(p, b, syfu) == [msg_get(p, b) EXCEPT !.last = b, !.syfu = syfu]

\* Mutants: the replaced message is not released; syfu is not updated; the
\* stored message is kept and the new one dropped.
MismatchLeaks(p, b, syfu) == Store(p, b, syfu)

MismatchForgets(p, b, syfu) ==
    IF p.syfu = "SF_EMPTY" THEN Store(p, b, syfu)
    ELSE Store(msg_put(p, p.last), b, p.syfu)

MismatchKeeps(p, b, syfu) == IF p.syfu = "SF_EMPTY" THEN Store(p, b, syfu) ELSE p

\* port_syfufsm() for an event without a match: the received message b takes
\* the place of the stored one.
Mismatch(p, b, syfu) ==
    Store(IF p.syfu = "SF_EMPTY" THEN p ELSE msg_put(p, p.last), b, syfu)

\* port_syfufsm() for a match: synchronize, then release the stored message.
Match(p, verdict, tx) ==
    [msg_put(port_synchronize(p, verdict, tx), p.last) EXCEPT !.syfu = "SF_EMPTY"]

check_source_identity(m) == IgnoreSourceId \/ m.src = parent

-----------------------------------------------------------------------------
Init ==
    /\ sent = [a \in Masters |-> 0]
    /\ heard = [a \in Masters |-> 0]
    /\ parent \in Masters
    /\ \E b \in Buffers :
         port = [state |-> "LISTENING", syfu |-> "SF_EMPTY", last |-> b,
                 content |-> [x \in Buffers |-> NoMessage],
                 refcnt |-> [x \in Buffers |-> 0], pool |-> Buffers]
    /\ pair = <<NoMessage, NoMessage>>
    /\ prev = NoMessage

\* A master sends its next Sync and, in two-step mode, its Follow_Up.
Send(a) ==
    /\ sent[a] < MaxSent
    /\ sent[a] - heard[a] < MaxGap
    /\ sent' = [sent EXCEPT ![a] = @ + 1]
    /\ UNCHANGED <<heard, parent, port, pair, prev>>

Deliverable(m) ==
    /\ m.n <= sent[m.src] /\ sent[m.src] - m.n < Window
    /\ (m.kind = "ONE_STEP_SYNC") <=> (m.src \in OneStep)

Accepts(m) == port.state \in Synced /\ check_source_identity(m)

\* bc_event(): the message is received into a fresh buffer b, handled, and
\* released; p is the port after the handler.
Received(m, b, p) ==
    /\ port' = msg_put(p, b)
    /\ heard' = [heard EXCEPT ![m.src] = IF Accepts(m) /\ m.n > @ THEN m.n ELSE @]
    /\ UNCHANGED <<sent, parent>>

\* A message that process_sync() or process_follow_up() ignores.
Ignored(m, b) ==
    /\ ~Accepts(m)
    /\ Received(m, b, msg_allocate(port, b, m))
    /\ UNCHANGED <<pair, prev>>

\* process_sync()
process_sync(m, b) ==
    /\ m.kind # "FOLLOW_UP" /\ Accepts(m)
    /\ LET p == msg_allocate(port, b, m)
           match == /\ p.syfu = "SF_HAVE_FUP"
                    /\ SequenceId(p.content[p.last]) = SequenceId(m)
       IN  \/ /\ m.kind = "ONE_STEP_SYNC"
              /\ \E verdict \in Verdicts, tx \in p.pool :
                   Received(m, b, flush_last_sync(port_synchronize(p, verdict, tx)))
              /\ pair' = <<m, m>>
              /\ prev' = NoMessage
           \/ /\ m.kind = "SYNC" /\ match
              /\ \E verdict \in Verdicts, tx \in p.pool :
                   Received(m, b, Match(p, verdict, tx))
              /\ pair' = <<m, p.content[p.last]>>
              /\ prev' = NoMessage
           \/ /\ m.kind = "SYNC" /\ ~match
              /\ Received(m, b, Mismatch(p, b, "SF_HAVE_SYNC"))
              /\ prev' = m
              /\ UNCHANGED pair

\* process_follow_up()
process_follow_up(m, b) ==
    /\ m.kind = "FOLLOW_UP" /\ Accepts(m)
    /\ LET p == msg_allocate(port, b, m)
           match == /\ p.syfu = "SF_HAVE_SYNC"
                    /\ SequenceId(p.content[p.last]) = SequenceId(m)
       IN  \/ /\ match
              /\ \E verdict \in Verdicts, tx \in p.pool :
                   Received(m, b, Match(p, verdict, tx))
              /\ pair' = <<p.content[p.last], m>>
              /\ prev' = NoMessage
           \/ /\ ~match
              /\ Received(m, b, Mismatch(p, b, "SF_HAVE_FUP"))
              /\ prev' = m
              /\ UNCHANGED pair

Receive ==
    \E m \in Messages, b \in port.pool :
       /\ Deliverable(m)
       /\ Ignored(m, b) \/ process_sync(m, b) \/ process_follow_up(m, b)

\* The clock recommends the slave state and may have selected a new parent
\* (ptp_fsm and the transition to UNCALIBRATED).
RsSlave ==
    /\ \E a \in Masters :
         /\ parent' = a
         /\ port' = IF port.state = "LISTENING" \/ (port.state = "SLAVE" /\ a # parent)
                    THEN flush_last_sync([port EXCEPT !.state = "UNCALIBRATED"])
                    ELSE port
    /\ prev' = NoMessage
    /\ UNCHANGED <<sent, heard, pair>>

\* A timeout or another recommendation ends the slave states; the stored
\* message stays.
Leave ==
    /\ port.state \in Synced
    /\ port' = [port EXCEPT !.state = "LISTENING"]
    /\ prev' = NoMessage
    /\ UNCHANGED <<sent, heard, parent, pair>>

\* port_disable() and port_initialize() after a fault
Reinitialize ==
    /\ port' = [flush_last_sync(port) EXCEPT !.state = "LISTENING"]
    /\ prev' = NoMessage
    /\ UNCHANGED <<sent, heard, parent, pair>>

Next == (\E a \in Masters : Send(a)) \/ Receive \/ RsSlave \/ Leave \/ Reinitialize

Spec == Init /\ [][Next]_vars

-----------------------------------------------------------------------------
\* The types; no reference count becomes negative (msg_put()).
TypeOK ==
    /\ sent \in [Masters -> 0..MaxSent]
    /\ heard \in [Masters -> 0..MaxSent]
    /\ parent \in Masters
    /\ port \in PortType
    /\ pair \in (Messages \cup {NoMessage}) \X (Messages \cup {NoMessage})
    /\ prev \in Messages \cup {NoMessage}

Stored == IF port.syfu = "SF_EMPTY" THEN {} ELSE {port.last}

\* The buffers outside the pool are exactly the stored message, whatever a
\* dispatch inside port_synchronize() released before port_syfufsm() did: no
\* buffer leaks, and the stored one is never handed out again while stored.
PoolServes ==
    /\ Buffers \ port.pool = Stored
    /\ \A b \in Stored : port.refcnt[b] = 1

\* The stored message is what syfu says it is, so that a match reads a Sync's
\* receive time and a Follow_Up's origin time.
StoredIsTyped ==
    /\ port.syfu = "SF_HAVE_SYNC" => port.content[port.last].kind = "SYNC"
    /\ port.syfu = "SF_HAVE_FUP" => port.content[port.last].kind = "FOLLOW_UP"

\* A synchronization uses a Sync and the Follow_Up of that very Sync, although
\* only the sequence number is compared, under loss, duplication and
\* reordering (port_syfufsm(), process_sync(), process_follow_up()).
PairsMatch == pair[1].src = pair[2].src /\ pair[1].n = pair[2].n

\* A Sync and its Follow_Up that arrive next to each other, in either order,
\* are never missed: whatever was stored before, the second one synchronizes.
AdjacentSynchronize ==
    [][~ /\ prev' # NoMessage /\ prev'.src = prev.src
         /\ prev'.n = prev.n /\ prev'.kind # prev.kind]_vars

\* The message buffers are in order: PoolServes and StoredIsTyped, in a state of
\* the right type.
BuffersInOrder == TypeOK /\ PoolServes /\ StoredIsTyped
=============================================================================
