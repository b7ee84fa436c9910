------------------------------- MODULE Ts2phc --------------------------------
(****************************************************************************)
(* ts2phc: clocks that time stamp the pulses of one PPS source are made to  *)
(* agree with the source, or, with -a, with the clock that ptp4l disciplines.*)
(* A pulse has no number: which second an edge belongs to is told from the  *)
(* time at which it is processed, and for a GPS receiver from the sentence   *)
(* that another thread received last.                                       *)
(*                                                                          *)
(* Time is true time (TAI) in quarters of a second; pulses rise on the      *)
(* second and fall half a second later.  A time stamp is the true time of   *)
(* its edge, so a sample is right when its offset is 0.                     *)
(****************************************************************************)
EXTENDS Lstab

CONSTANTS
    Confs,          \* the configurations considered
    MAX_RMC_AGE,    \* quarters after which a sentence is stale
    PollTimeout,    \* quarters without an event that end a poll (8 in the code)
    HoldoverLength, \* ts2phc.holdover, in seconds; 0 is off
    Leap,           \* the second (TAI) that UTC inserts
    MaxTime,        \* bound: quarters
    MaxFaults,      \* bound: edges and sentences lost, changes of ports
    None

Q == 4
Sinks == 1..2
Source == 0                         \* the clock of a PHC that is the PPS source
Clocks == Sinks \cup {Source}
PortStates == {"DISABLED", "MASTER", "UNCALIBRATED", "SLAVE"}
Idle == {"DISABLED", "MASTER"}

\* listed: the clocks that have a port of ptp4l; first: that of the first port.
ConfType == [src : {"phc", "nmea", "generic"}, auto : BOOLEAN, both : BOOLEAN,
             delay : 1..3, listed : SUBSET Clocks, first : Clocks]

\* Both edges can be told apart if sentences come before a pulse ends; there is
\* a clock of the source only where the source is a PHC.
ASSUME Ts2phcAssumption ==
    /\ Confs \subseteq ConfType
    /\ \A k \in Confs : k.auto => k.first \in k.listed
    /\ \A k \in Confs : k.src # "phc" => k.listed \subseteq Sinks
    /\ \A k \in Confs : k.both /\ k.src = "nmea" => k.delay = 1
    /\ None \notin Int \cup PortStates
    /\ {MAX_RMC_AGE, PollTimeout, MaxTime} \subseteq Nat \ {0}
    /\ {HoldoverLength, Leap, MaxFaults} \subseteq Nat

VARIABLES
    conf,
    now,
    due,       \* sinks that the last edge has not reached yet
    fifo,      \* the events of each sink's device
    clock,     \* struct ts2phc_clock
    port,      \* the known state of the port of each listed clock
    changed,   \* state_changed
    ref,       \* ref_clock
    pc,        \* "top" of the loop, "poll", "sync" or "exit"
    collected, \* sinks with an event since the poll began
    ignore,    \* ignore_any
    idle,      \* quarters since the last event of the poll
    holdover,  \* holdover_start, -1 if 0
    rmc,       \* what the worker thread stored
    link,      \* the connection to the receiver: open, or waiting to open it
    tab, file, \* the leap second table, and the file
    faults,    \* counter for the bound
    missed,    \* history: an edge did not reach some sink
    samples    \* history: what the last synchronization sampled

vars == <<conf, now, due, fifo, clock, port, changed, ref, pc, collected, ignore, idle,
          holdover, rmc, link, tab, file, faults, missed, samples>>
nmeaVars == <<rmc, link, file>>
world == <<now, due, fifo, faults, missed>>

Present == IF conf.src = "phc" THEN Clocks ELSE Sinks

ClockType ==
    [state : PortStates \cup {None}, new_state : PortStates \cup {None}, is_target : BOOLEAN,
     avail : BOOLEAN, ts : 0..MaxTime, servo : {"UNLOCKED", "LOCKED", "STABLE"}]

\* The types; edges are given seconds of the run (ts2phc_pps_source_get_rmc()).
TypeOK ==
    /\ conf \in Confs /\ now \in 0..MaxTime /\ due \subseteq Sinks
    /\ \A s \in Sinks : Len(fifo[s]) <= MaxTime
    /\ clock \in [Present -> ClockType]
    /\ port \in [conf.listed -> PortStates] /\ changed \in BOOLEAN
    /\ ref \in Present \cup {None} /\ pc \in {"top", "poll", "sync", "exit"}
    /\ collected \subseteq Sinks /\ ignore \in BOOLEAN /\ idle \in 0..PollTimeout
    /\ holdover \in -1..MaxTime /\ link \in {"open", "closed"}
    /\ rmc \in [utc : -Q..MaxTime, at : 0..MaxTime, valid : BOOLEAN]

-----------------------------------------------------------------------------
\* The state of a clock is that of its port.
ts2phc_clock_compute_state(p) == port[p]

\* ts2phc_recv_subscribed(), called by pmc_agent_update() at the top.
ts2phc_recv_subscribed(p, s) ==
    /\ pc = "top" /\ conf.auto /\ p \in conf.listed
    /\ faults < MaxFaults /\ faults' = faults + 1
    /\ port[p] # s /\ port' = [port EXCEPT ![p] = s]
    /\ IF clock[p].state # s \/ clock[p].new_state # None
       THEN changed' = TRUE /\ clock' = [clock EXCEPT ![p].new_state = s]
       ELSE UNCHANGED <<changed, clock>>
    /\ samples' = {}
    /\ UNCHANGED <<conf, now, due, fifo, ref, pc, collected, ignore, idle, holdover, tab,
                   missed, nmeaVars>>

\* ts2phc_reconfigure(): the states that are new are taken; a clock that is
\* idle becomes a target, and no other ceases to be one but the reference.
Applied ==
    [c \in Present |->
        LET s == IF clock[c].new_state # None THEN clock[c].new_state ELSE clock[c].state
        IN  [clock[c] EXCEPT !.state = s, !.new_state = None,
                             !.is_target = @ \/ s \in Idle]]

References(K) == {c \in Present : K[c].state \in {"UNCALIBRATED", "SLAVE"}}
SlaveClocks(K) == {c \in Present : K[c].state = "SLAVE"}
Targets(K) == {c \in Present : K[c].state \in Idle}

\* The clock that was added first is visited last, and taken by default.
ByDefault(K) ==
    /\ ref' = conf.first
    /\ clock' = [K EXCEPT ![conf.first].is_target = FALSE,
                          ![conf.first].new_state = K[conf.first].state,
                          ![conf.first].state = "SLAVE"]

\* Mutant: one of several references is taken.
AnyReference(K) ==
    IF Targets(K) # {} /\ SlaveClocks(K) = {} THEN ByDefault(K)
    ELSE IF SlaveClocks(K) = {} THEN ref' = None /\ clock' = K
    ELSE LET r == CHOOSE s \in SlaveClocks(K) : TRUE
         IN  ref' = r /\ clock' = [K EXCEPT ![r].is_target = FALSE]

ts2phc_reconfigure(K) ==
    IF Targets(K) # {} /\ SlaveClocks(K) = {} THEN ByDefault(K)
    ELSE IF Cardinality(References(K)) # 1 \/ SlaveClocks(K) = {}
    THEN ref' = None /\ clock' = K
    ELSE LET r == CHOOSE s \in SlaveClocks(K) : TRUE
         IN  ref' = r /\ clock' = [K EXCEPT ![r].is_target = FALSE]

Flushed(K) == [c \in Present |-> [K[c] EXCEPT !.avail = FALSE]]

\* The top of main()'s loop, to the poll of the sinks.
Turn ==
    /\ pc = "top"
    /\ IF conf.auto /\ changed THEN ts2phc_reconfigure(Flushed(Applied))
       ELSE ref' = ref /\ clock' = Flushed(clock)
    /\ changed' = FALSE /\ samples' = {}
    /\ pc' = "poll" /\ collected' = {} /\ ignore' = FALSE /\ idle' = 0
    /\ UNCHANGED <<conf, port, holdover, tab, nmeaVars, world>>

-----------------------------------------------------------------------------
\* Coordinated universal time, in quarters, of a true time; the inserted second
\* is shown as the second before it (nmea_scan_rmc(), and the kernel).
Utc(t) == IF t \div Q >= Leap THEN t - Q ELSE t

\* ts2phc_nmea_pps_source_getppstime(): the second of the last sentence, as old
\* as it is now; None if it fails.  The table is updated in passing.
ts2phc_nmea_pps_source_getppstime(t) ==
    LET found == lstab_utc2tai(t, rmc.utc \div Q)
    IN  IF ~rmc.valid \/ now - rmc.at > MAX_RMC_AGE \/ found.result # "OK" THEN None
        ELSE rmc.utc + (now - rmc.at) + Q * found.offset

\* ts2phc_generic_pps_source_getppstime(), for a system without a TAI offset.
ts2phc_generic_pps_source_getppstime(t) ==
    LET found == lstab_utc2tai(t, Utc(now) \div Q)
    IN  IF found.result # "OK" THEN None ELSE Utc(now) + Q * found.offset

ts2phc_phc_pps_source_getppstime == now

\* The table is looked at only past the checks of the sentence.
Looked ==
    IF conf.src = "phc" \/ (conf.src = "nmea" /\ (~rmc.valid \/ now - rmc.at > MAX_RMC_AGE))
    THEN tab ELSE update_leapsecond_table(tab, file)

ts2phc_pps_source_getppstime ==
    CASE conf.src = "phc" -> ts2phc_phc_pps_source_getppstime
      [] conf.src = "nmea" -> ts2phc_nmea_pps_source_getppstime(Looked)
      [] conf.src = "generic" -> ts2phc_generic_pps_source_getppstime(Looked)

\* ts2phc_pps_sink_ignore(): a pulse is half a second wide.
ts2phc_pps_sink_ignore(t) ==
    LET part == t % Q
    IN  IF conf.src = "nmea" THEN part > 0 /\ part < 2 ELSE part > 1 /\ part < 3

\* ts2phc_pps_source_implicit_tstamp(): sentences follow the pulse they are
\* about, other sources are asked within half a second of it.
ts2phc_pps_source_implicit_tstamp(t) ==
    IF conf.src = "nmea" \/ t % Q > 2 THEN (t \div Q + 1) * Q ELSE (t \div Q) * Q

-----------------------------------------------------------------------------
\* ts2phc_pps_sink_event() of every sink that has one; without the time of the
\* source an edge of unknown direction is dropped, and counts.
Ready == {s \in Sinks : fifo[s] # <<>>}

Kept == LET t == ts2phc_pps_source_getppstime
        IN  IF ~conf.both THEN "kept"
            ELSE IF t = None THEN "dropped"
            ELSE IF ts2phc_pps_sink_ignore(t) THEN "ignored" ELSE "kept"

\* poll() returns in ts2phc_pps_sink_poll().
ts2phc_pps_sink_poll ==
    /\ pc = "poll" /\ Ready # {}
    /\ fifo' = [s \in Sinks |-> IF s \in Ready THEN Tail(fifo[s]) ELSE fifo[s]]
    /\ clock' = [c \in Present |->
                   IF c \in Ready /\ Kept = "kept"
                   THEN [clock[c] EXCEPT !.avail = TRUE, !.ts = Head(fifo[c])] ELSE clock[c]]
    /\ tab' = IF conf.both THEN Looked ELSE tab
    /\ ignore' = (ignore \/ Kept = "ignored")
    /\ collected' = collected \cup Ready /\ idle' = 0
    /\ pc' = IF collected' # Sinks THEN "poll" ELSE IF ignore' THEN "top" ELSE "sync"
    /\ UNCHANGED <<conf, now, due, port, changed, ref, holdover, faults, missed, samples,
                   nmeaVars>>

\* Nothing happens for two seconds.
PollTimesOut ==
    /\ pc = "poll" /\ Ready = {} /\ idle = PollTimeout
    /\ pc' = "top"
    /\ UNCHANGED <<conf, clock, port, changed, ref, collected, ignore, idle, holdover, tab,
                   samples, nmeaVars, world>>

-----------------------------------------------------------------------------
\* What the servo makes of a sample; UNLOCKED also when the clock could not be
\* adjusted.
ServoStates == {"UNLOCKED", "LOCKED", "STABLE"}

\* Mutant: in holdover every clock is steered.
AllSampled(K, held) == {c \in Present : K[c].is_target /\ K[c].avail}

\* The clocks that the loop of ts2phc_synchronize_clocks() comes to sample.
Sampled(K, held) ==
    {c \in Present : K[c].is_target /\ K[c].avail /\ (held => K[c].servo = "STABLE")}

\* In holdover a clock is held to its own nearest second.
Nearest(t) == IF t % Q > 2 THEN (t \div Q + 1) * Q ELSE (t \div Q) * Q

\* The loop, for time t of the source; what is sampled, and whether the clock
\* was adjusted.
SampleAll(K, t, held) ==
    \E servo \in [Sampled(K, held) -> ServoStates] :
        /\ clock' = [c \in Present |->
                       IF c \in Sampled(K, held)
                       THEN [K[c] EXCEPT !.servo = servo[c], !.avail = FALSE]
                       ELSE [K[c] EXCEPT !.avail = @ /\ ~K[c].is_target]]
        /\ samples' = {[clock |-> c, held |-> held,
                        offset |-> K[c].ts - (IF held THEN Nearest(K[c].ts) ELSE t),
                        adjusts |-> ~held \/ servo[c] = "STABLE"] : c \in Sampled(K, held)}

Skip == samples' = {} /\ UNCHANGED clock

\* ts2phc_collect_pps_source_tstamp() and ts2phc_synchronize_clocks(); a time of
\* the source that cannot be read starts the holdover.
Synchronize ==
    /\ pc = "sync"
    /\ tab' = IF conf.auto /\ conf.src # "phc" THEN tab ELSE Looked
    /\ LET read == ts2phc_pps_source_getppstime
           t == IF read = None THEN None ELSE ts2phc_pps_source_implicit_tstamp(read)
           K == IF conf.src = "phc"
                THEN [clock EXCEPT ![Source].avail = TRUE, ![Source].ts = t] ELSE clock
           start == IF holdover = -1 THEN now \div Q ELSE holdover
       IN  IF conf.auto
           THEN /\ IF ref = None \/ (ref # None /\ ~K[ref].avail)
                   THEN samples' = {} /\ clock' = K /\ UNCHANGED holdover
                   ELSE /\ SampleAll([K EXCEPT ![ref].avail = FALSE], K[ref].ts, FALSE)
                        /\ holdover' = -1
           ELSE IF t # None THEN SampleAll(K, t, FALSE) /\ holdover' = -1
           ELSE /\ holdover' = start
                /\ IF now \div Q >= start + HoldoverLength THEN Skip
                   ELSE SampleAll(K, 0, TRUE)
    /\ pc' = "top"
    /\ UNCHANGED <<conf, port, changed, ref, collected, ignore, idle, nmeaVars, world>>

-----------------------------------------------------------------------------
Fault == faults < MaxFaults /\ faults' = faults + 1
Program == <<conf, clock, port, changed, ref, pc, collected, ignore, holdover, tab, samples>>

\* The edge reaches a sink, or is lost on the way there.
EdgeArrives(s) ==
    /\ s \in due /\ due' = due \ {s}
    /\ fifo' = [fifo EXCEPT ![s] = Append(@, now)]
    /\ UNCHANGED <<now, faults, missed, idle, nmeaVars, Program>>

EdgeLost(s) ==
    /\ s \in due /\ due' = due \ {s} /\ Fault /\ missed' = TRUE
    /\ UNCHANGED <<now, fifo, idle, nmeaVars, Program>>

\* The source makes no pulse.
PulseMissing ==
    /\ due = Sinks /\ due' = {} /\ Fault
    /\ UNCHANGED <<now, fifo, missed, idle, nmeaVars, Program>>

\* Mutant: the second before.
SecondBefore == (Utc(now) \div Q - 1) * Q

\* The time of day of a sentence (nmea_scan_rmc()).
RmcSecond == (Utc(now) \div Q) * Q

\* monitor_nmea_status(): a sentence arrives, with or without a fix, and is
\* stored with the time; it tells the second that began with the last pulse.
monitor_nmea_status(valid) ==
    /\ conf.src = "nmea" /\ link = "open"
    /\ now % Q = conf.delay /\ rmc.at # now
    /\ IF valid THEN UNCHANGED faults ELSE Fault
    /\ rmc' = [utc |-> RmcSecond, at |-> now, valid |-> valid]
    /\ UNCHANGED <<now, due, fifo, missed, idle, link, file, Program>>

\* The connection fails or nothing comes for two seconds; it is opened again,
\* in two seconds if need be.
CloseNmea ==
    /\ conf.src = "nmea" /\ link = "open" /\ Fault /\ link' = "closed"
    /\ UNCHANGED <<now, due, fifo, missed, idle, rmc, file, Program>>

open_nmea_connection ==
    /\ link = "closed" /\ link' = "open"
    /\ UNCHANGED <<now, due, fifo, faults, missed, idle, rmc, file, Program>>

\* The file of leap seconds is replaced, or found in the middle of that.  A file
\* expires before a leap second that it does not have.
Old == [mtime |-> 1, readable |-> TRUE, rows |-> <<epoch_marker(0, 0)>>, expiration |-> Leap - 2]
New == [mtime |-> 3, readable |-> TRUE,
        rows |-> <<epoch_marker(0, 0), epoch_marker(Leap, 1)>>, expiration |-> MaxTime]

ReplaceFile ==
    /\ conf.src # "phc" /\ file.mtime < 3
    /\ file' \in {New, [Old EXCEPT !.mtime = 2, !.readable = FALSE]} \ {file}
    /\ UNCHANGED <<now, due, fifo, faults, missed, idle, rmc, link, Program>>

\* The program keeps up with the events.
Tick ==
    /\ now < MaxTime /\ due = {}
    /\ pc = "poll" /\ Ready = {} /\ idle < PollTimeout
    /\ now' = now + 1 /\ idle' = idle + 1
    /\ due' = IF now' % Q = 0 \/ (conf.both /\ now' % Q = 2) THEN Sinks ELSE {}
    /\ UNCHANGED <<fifo, faults, missed, nmeaVars, Program>>

-----------------------------------------------------------------------------
\* ts2phc_auto_init_ports(), then ts2phc_pps_sink_add() and the creation of
\* the source have run.
Init ==
    /\ conf \in Confs
    /\ now = 1 /\ due = {} /\ fifo = [s \in Sinks |-> <<>>]
    /\ clock = [c \in Present |->
                  [state |-> None,
                   new_state |-> IF conf.auto /\ c \in conf.listed THEN "DISABLED" ELSE None,
                   is_target |-> c \in Sinks, avail |-> FALSE, ts |-> 0, servo |-> "UNLOCKED"]]
    /\ port = [c \in conf.listed |-> "DISABLED"]
    /\ changed = conf.auto /\ ref = None
    /\ pc = "top" /\ collected = {} /\ ignore = FALSE /\ idle = 0 /\ holdover = -1
    /\ rmc = [utc |-> -1, at |-> 0, valid |-> FALSE] /\ link = "open"
    /\ file = Old /\ tab = lstab_create(Old)
    /\ faults = 0 /\ missed = FALSE /\ samples = {}

Next ==
    \/ Turn \/ ts2phc_pps_sink_poll \/ PollTimesOut \/ Synchronize
    \/ \E p \in Clocks, s \in PortStates : ts2phc_recv_subscribed(p, s)
    \/ \E s \in Sinks : EdgeArrives(s) \/ EdgeLost(s)
    \/ PulseMissing
    \/ \E valid \in BOOLEAN : monitor_nmea_status(valid)
    \/ CloseNmea \/ open_nmea_connection \/ ReplaceFile
    \/ Tick

Spec == Init /\ [][Next]_vars

-----------------------------------------------------------------------------
\* Every edge is given its own second: no clock is moved by whole seconds, not
\* even across a leap second or while the table is replaced, as long as every
\* sink saw the same edges.
EdgesMatch == ~missed => \A s \in samples : s.offset = 0

\* The clock that ptp4l disciplines is not steered by ts2phc as well.
SlaveNotSteered ==
    \A s \in samples : s.clock \notin conf.listed \/ port[s.clock] # "SLAVE"

\* In holdover a clock is steered only as long as its servo is stable: once it
\* was lost, not again before the source is back.
HoldoverEnds ==
    [][\A s \in samples' : s.held /\ s.adjusts => clock[s.clock].servo = "STABLE"]_vars

\* What is steered is steered rightly: EdgesMatch and SlaveNotSteered, in a state
\* of the right type.
SteersRightly == TypeOK /\ EdgesMatch /\ SlaveNotSteered
=============================================================================
