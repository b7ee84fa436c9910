------------------------------ MODULE PathDelay ------------------------------
(****************************************************************************)
(* The path delay of a client port: Delay_Req and Delay_Resp, the queue of  *)
(* requests that wait for an answer, the time stamp processor of tsproc.c   *)
(* with its filter, and the steps of the clock and changes of the master    *)
(* between a request and its answer.  With delay_mechanism COMMON_P2P the   *)
(* same timer keeps the subscription to the common service (CMLDS) alive.   *)
(*                                                                          *)
(* The masters show the right time.  bias is what the clock of this port    *)
(* shows beyond it; a tick is the interval of the delay timer.  Request n   *)
(* is sent at the time n * Apart.  The network and clock.c are external.    *)
(****************************************************************************)
EXTENDS DelayFilter

CONSTANTS
    Masters,          \* ports that answer
    Distance,         \* the path delay to each of them
    Setups,           \* the configurations considered
    SequenceIds,      \* 2^16 in the code
    StaleAfter,       \* 5 seconds in delay_req_current()
    Update, Subscription,   \* CMLDS_UPDATE_INTERVAL, CMLDS_SUBSCRIPTION_INTERVAL
    AllowedLost,      \* allowedLostResponses
    MaxRequests,      \* bound: requests in a behaviour
    MaxTrouble,       \* bound: failing calls, steps, and changes of the master
    NoStamp

Apart == 100
Jitter == {0, 2}      \* what a request may be late by

\* dm: delay_mechanism; filter: delay_filter; mode: tsproc_mode without the
\* weights; timeout: delay_response_timeout.
SetupType == [dm : {"E2E", "COMMON_P2P"}, filter : {"MOVING_AVERAGE", "MOVING_MEDIAN"},
              mode : {"FILTER", "RAW"}, timeout : 0..255]

ASSUME PathDelayAssumption ==
    /\ {FilterLength, SequenceIds, StaleAfter, Update, Subscription} \subseteq Nat \ {0}
    /\ {AllowedLost, MaxRequests, MaxTrouble} \subseteq Nat /\ Update < Subscription
    /\ Distance \in [Masters -> Nat] /\ Setups \subseteq SetupType

\* A request is dropped long before its sequence number is used again.
ASSUME SequenceAssumption == StaleAfter <= SequenceIds

VARIABLES
    setup, role, master, bias, trouble,
    queue,     \* p->delay_req, newest first
    asked,     \* requests sent; p->seqnum.delayreq is asked % SequenceIds
    answers,   \* Delay_Resp messages in the network
    counter,   \* delay_response_counter
    ts,        \* struct tsproc: t2 - t1 and t3 - t4, and the filtered delay
    filter,
    window,    \* history: the last delays that were measured
    silent,    \* history: requests in SLAVE since a valid response
    cmlds,     \* the client of the service
    service    \* the service: whether it runs, and the life of the subscription

e2e == <<queue, asked, answers, counter, ts, filter, window, silent>>
pdvars == <<setup, role, master, bias, trouble, e2e, cmlds, service>>

Roles == {"LISTENING", "UNCALIBRATED", "SLAVE", "FAULTY"}
Never == Subscription + 1

\* The types; the queue of requests is pruned (delay_req_prune()).
PDTypeOK ==
    /\ setup \in Setups /\ role \in Roles /\ master \in Masters /\ bias \in Int
    /\ \A i \in DOMAIN queue : queue[i].age \in 0..StaleAfter
    /\ Len(queue) <= StaleAfter
    /\ filter.cnt \in 0..FilterLength /\ filter.index \in 0..(FilterLength - 1)
    /\ Len(filter.order) \in {0, filter.cnt}
    /\ cmlds.count \in 0..(AllowedLost + 1)

NoTsproc == [down |-> NoStamp, up |-> NoStamp, delay |-> 0, valid |-> FALSE]

PDInit ==
    /\ setup \in Setups /\ role = "LISTENING" /\ master \in Masters /\ bias = 4 /\ trouble = 0
    /\ queue = <<>> /\ asked = 0 /\ answers = {} /\ counter = 0
    /\ ts = NoTsproc /\ filter = filter_reset /\ window = <<>> /\ silent = 0
    /\ cmlds = [age |-> 0, count |-> 0, capable |-> FALSE]
    /\ service = [up |-> setup.dm = "COMMON_P2P", left |-> 0, kept |-> FALSE]

Trouble == trouble < MaxTrouble /\ trouble' = trouble + 1
Measuring == role \in {"UNCALIBRATED", "SLAVE"}

-----------------------------------------------------------------------------
\* tsproc.c.  Time zero, the mark of a missing time stamp, is NoStamp.
tsproc_down_ts(t, down) == [t EXCEPT !.down = down]

tsproc_up_ts(t, up) == [t EXCEPT !.up = up]

get_raw_delay(t) == tmv_div(t.down - t.up, 2)

tsproc_reset(t, full) == IF full THEN NoTsproc ELSE [t EXCEPT !.down = NoStamp, !.up = NoStamp]

\* tsproc_update_delay(), called by clock_path_delay() with the new up stamps.
tsproc_update_delay(t) ==
    IF t.down = NoStamp \/ t.up = NoStamp
    THEN ts' = t /\ UNCHANGED <<filter, window>>
    ELSE LET raw == get_raw_delay(t)
             f == filter_sample(setup.filter, filter, raw)
             all == Append(window, raw)
         IN  /\ ts' = [t EXCEPT !.delay = f.result, !.valid = TRUE]
             /\ filter' = f.f
             /\ window' = IF Len(all) > FilterLength THEN Tail(all) ELSE all

\* The delay that tsproc_update_offset() uses, and whether it has one.
HasDelay(t) == IF setup.mode = "FILTER" THEN t.valid ELSE t.up # NoStamp
DelayUsed(t) == IF setup.mode = "FILTER" THEN t.delay ELSE get_raw_delay(t)

-----------------------------------------------------------------------------
delay_req_current(r) == r.age < StaleAfter

\* Mutant: old requests are never dropped.
PruneNothing(q) == q

\* The last goes as long as it is too old.
delay_req_prune(q) == SubSeq(q, 1, Max({i \in DOMAIN q : delay_req_current(q[i])} \cup {0}))

Aged(q) == [i \in DOMAIN q |-> [q[i] EXCEPT !.age = IF @ < StaleAfter THEN @ + 1 ELSE @]]

\* process_delay_req() of a master: the answer repeats the sequence number, and
\* tells when the request arrived.
process_delay_req(m, n, late) ==
    [from |-> m, seq |-> n % SequenceIds, t4 |-> n * Apart + Distance[m] + late]

\* The request reaches some masters.  An answer does not survive in the network
\* until its sequence number is used again.
Answered(n) ==
    \E M \in SUBSET Masters, late \in Jitter :
        answers' = {a \in answers : a.seq # (n + 1) % SequenceIds /\ a.seq # n % SequenceIds}
                   \cup {process_delay_req(m, n, late) : m \in M}

\* port_delay_request(): the request is queued with its time of departure.
port_delay_request(q) ==
    /\ queue' = <<[seq |-> asked % SequenceIds, t3 |-> asked * Apart + bias, age |-> 0]>> \o q
    /\ asked' = asked + 1
    /\ Answered(asked)

\* The end of the handler of FD_DELAY_TIMER.
CountRequest ==
    LET counts == setup.timeout > 0 /\ role = "SLAVE"
        expires == counts /\ counter + 1 >= setup.timeout
    IN  /\ counter' = IF expires THEN 0 ELSE IF counts THEN counter + 1 ELSE counter
        /\ silent' = IF expires THEN 0 ELSE IF counts THEN silent + 1 ELSE silent
        /\ ts' = IF expires THEN tsproc_reset(ts, TRUE) ELSE ts
        /\ filter' = IF expires THEN filter_reset ELSE filter
        /\ window' = IF expires THEN <<>> ELSE window
        /\ role' = IF expires THEN "UNCALIBRATED" ELSE role

DelayTimer ==
    /\ setup.dm = "E2E" /\ Measuring /\ asked < MaxRequests
    /\ LET q == delay_req_prune(Aged(queue))
       IN  IF setup.timeout > 0 /\ role = "SLAVE" /\ counter + 1 >= setup.timeout
           THEN \* SYNCHRONIZATION_FAULT leads to UNCALIBRATED, which flushes the queue.
                queue' = <<>> /\ asked' = asked + 1 /\ Answered(asked)
           ELSE port_delay_request(q)
    /\ CountRequest
    /\ UNCHANGED <<setup, master, bias, trouble, cmlds, service>>

\* The request cannot be sent: the port becomes faulty, and port_disable()
\* flushes the queue.  The fault is cleared later.
SendFails ==
    /\ setup.dm = "E2E" /\ Measuring /\ Trouble
    /\ role' = "FAULTY" /\ queue' = <<>>
    /\ UNCHANGED <<setup, master, bias, asked, answers, counter, ts, filter, window, silent, cmlds, service>>

Recover ==
    /\ role = "FAULTY" /\ role' = "LISTENING"
    /\ UNCHANGED <<setup, master, bias, trouble, e2e, cmlds, service>>

-----------------------------------------------------------------------------
\* Mutant: any answer is taken for a sign of life.
CounterReset(a, found) == 0

\* delay_response_counter after an answer from the master.
Alive(a, found) == IF found THEN 0 ELSE counter

process_delay_resp(a) ==
    LET hits == {i \in DOMAIN queue : queue[i].seq = a.seq}
        found == hits # {}
        i == CHOOSE j \in hits : \A k \in hits : j <= k
    IN  /\ a \in answers
        /\ \E again \in BOOLEAN : answers' = IF again THEN answers ELSE answers \ {a}
        /\ IF Measuring /\ a.from = master
           THEN /\ counter' = Alive(a, found)
                /\ IF found
                   THEN /\ tsproc_update_delay(tsproc_up_ts(ts, queue[i].t3 - a.t4))
                        /\ queue' = RemoveAt(queue, i)
                        /\ silent' = 0
                   ELSE UNCHANGED <<ts, filter, window, queue, silent>>
           ELSE UNCHANGED <<counter, ts, filter, window, queue, silent>>
        /\ UNCHANGED <<setup, role, master, bias, trouble, asked, cmlds, service>>

\* Mutant: requests from before a step of the clock stay in the queue.
JumpKeeps(q) == q

flush_delay_req(q) == <<>>

\* port_synchronize() with a Sync of the master, sent by port_tx_sync(), and
\* clock_synchronize() (external), which steps the clock by the measured offset.
port_synchronize ==
    LET t == tsproc_down_ts(ts, Distance[master] + bias)
        offset == t.down - DelayUsed(t)
    IN  /\ setup.dm = "E2E" /\ Measuring
        /\ \E servo \in (IF HasDelay(t) THEN {"UNLOCKED", "JUMP", "LOCKED"} ELSE {"UNLOCKED"}) :
               /\ role' = IF servo = "LOCKED" THEN "SLAVE" ELSE "UNCALIBRATED"
               /\ IF servo = "JUMP"
                  THEN /\ offset # 0 /\ Trouble
                       /\ bias' = bias - offset /\ ts' = tsproc_reset(t, FALSE)
                       /\ queue' = flush_delay_req(queue)
                  ELSE /\ ts' = t /\ UNCHANGED <<bias, trouble>>
                       /\ queue' = IF role = "SLAVE" /\ role' = "UNCALIBRATED" THEN <<>> ELSE queue
        /\ UNCHANGED <<setup, master, asked, answers, counter, filter, window, silent, cmlds, service>>

\* A state decision: the port begins to follow a master, or another one, for
\* which clock.c resets the time stamp processor.  A port that already is
\* UNCALIBRATED makes no transition and keeps its queue.
Select(m) ==
    /\ setup.dm = "E2E" /\ role # "FAULTY" /\ (role = "LISTENING" \/ (m # master /\ Trouble))
    /\ role = "LISTENING" => trouble' = trouble
    /\ master' = m /\ role' = "UNCALIBRATED"
    /\ queue' = IF role = "UNCALIBRATED" THEN queue ELSE <<>>
    /\ IF m = master THEN UNCHANGED <<ts, filter, window>>
       ELSE ts' = tsproc_reset(ts, TRUE) /\ filter' = filter_reset /\ window' = <<>>
    /\ UNCHANGED <<setup, bias, asked, answers, counter, silent, cmlds, service>>

\* No announcement for a while.
Deselect ==
    /\ setup.dm = "E2E" /\ Measuring /\ Trouble /\ role' = "LISTENING"
    /\ queue' = delay_req_prune(queue)
    /\ UNCHANGED <<setup, master, bias, asked, answers, counter, ts, filter, window, silent, cmlds, service>>

-----------------------------------------------------------------------------
\* port_cmlds_renew(): the request reaches the service if that is there.
Renew(c, s) ==
    [c |-> [c EXCEPT !.age = 0],
     s |-> IF s.up THEN [s EXCEPT !.left = Subscription, !.kept = TRUE] ELSE s]

\* Mutant: the subscription is renewed when it has run out.
RenewTooLate(c) == c.age > Subscription

RenewDue(c) == c.age > Update

\* port_cmlds_timeout(), which the delay timer calls; time passes for both sides.
port_cmlds_timeout ==
    LET aged == [cmlds EXCEPT !.age = IF @ < Never THEN @ + 1 ELSE @]
        older == [service EXCEPT !.left = IF @ > 0 THEN @ - 1 ELSE 0]
        first == IF RenewDue(aged) THEN Renew(aged, older) ELSE [c |-> aged, s |-> older]
        count == first.c.count + 1
        lost == count > AllowedLost
        second == IF lost THEN Renew(first.c, first.s) ELSE first
    IN  /\ setup.dm = "COMMON_P2P" /\ role # "FAULTY"
        /\ cmlds' = [second.c EXCEPT !.count = IF lost THEN AllowedLost + 1 ELSE count,
                                     !.capable = IF lost THEN FALSE ELSE @]
        /\ service' = second.s
        /\ UNCHANGED <<setup, role, master, bias, trouble, e2e>>

\* Mutant: what comes after the service was given up is ignored.
ProcessInTime ==
    /\ setup.dm = "COMMON_P2P" /\ service.up /\ service.left > 0 /\ ~cmlds.capable
    /\ cmlds.count <= AllowedLost
    /\ cmlds' = [cmlds EXCEPT !.capable = TRUE, !.count = 0]
    /\ UNCHANGED <<setup, role, master, bias, trouble, e2e, service>>

\* process_cmlds(): a notification, of which some may be lost.
process_cmlds ==
    /\ setup.dm = "COMMON_P2P" /\ service.up /\ service.left > 0 /\ ~cmlds.capable
    /\ cmlds' = [cmlds EXCEPT !.capable = TRUE, !.count = 0]
    /\ UNCHANGED <<setup, role, master, bias, trouble, e2e, service>>

\* The same for a port that already is capable.
CmldsAgain ==
    /\ setup.dm = "COMMON_P2P" /\ service.up /\ service.left > 0
    /\ cmlds.capable /\ cmlds.count > 0
    /\ cmlds' = [cmlds EXCEPT !.count = 0]
    /\ UNCHANGED <<setup, role, master, bias, trouble, e2e, service>>

\* The service ends, and starts without subscriptions.
ServiceRestarts ==
    /\ setup.dm = "COMMON_P2P" /\ Trouble
    /\ service' = [up |-> ~service.up, left |-> 0, kept |-> FALSE]
    /\ UNCHANGED <<setup, role, master, bias, e2e, cmlds>>

PDNext ==
    \/ DelayTimer \/ SendFails \/ Recover \/ Deselect
    \/ \E a \in answers : process_delay_resp(a)
    \/ port_synchronize
    \/ \E m \in Masters : Select(m)
    \/ port_cmlds_timeout \/ process_cmlds \/ CmldsAgain \/ ServiceRestarts

\* The delay timer and the service go on.
PDFairness == WF_pdvars(port_cmlds_timeout) /\ SF_pdvars(process_cmlds)

-----------------------------------------------------------------------------
\* process_delay_resp(), port_synchronize(): every delay that enters the filter is
\* the delay to the present master, although the clock was stepped, the master
\* changed and answers were late, doubled or lost in between.
DelayRight == \A i \in DOMAIN window : window[i] \in {Distance[master] + j \div 2 : j \in Jitter}

\* mave.c, mmedian.c: the filtered delay is the mean or the median of the last
\* FilterLength delays, however often the buffers have turned around.
FilterRight ==
    ts.valid => ts.delay = IF setup.filter = "MOVING_AVERAGE" THEN Mean(window) ELSE Median(window)

\* delay_response_timeout: a port in SLAVE notices in time that its requests are
\* not answered; answers that match no request do not keep it there.
SilenceNoticed == setup.timeout > 0 /\ role = "SLAVE" => silent < setup.timeout

\* port_cmlds_timeout(): while the service runs, the subscription that it was
\* asked for never lapses.
SubscriptionKept == service.kept => service.left > 0

\* A service that runs on makes the port capable again, whatever was lost.
CapableAgain == setup.dm = "COMMON_P2P" /\ <>[]service.up => []<>cmlds.capable

\* The path delay in use is right: DelayRight and FilterRight, in a state of the
\* right type.
PathDelayRight == PDTypeOK /\ DelayRight /\ FilterRight

\* The delay timer does its duties: SilenceNoticed and SubscriptionKept.
DelayTimerServes == SilenceNoticed /\ SubscriptionKept
=============================================================================
