----------------------------- MODULE Ts2phc_proof ----------------------------
(****************************************************************************)
(* Theorems about ts2phc for every set of configurations, leap second, age  *)
(* of sentences, poll timeout, holdover and number of faults: what is       *)
(* steered is steered rightly, and holdover ends with the servo's lock.     *)
(****************************************************************************)
EXTENDS Ts2phc, FiniteSetTheorems, TLAPS

Files == {Old, New, [Old EXCEPT !.mtime = 2, !.readable = FALSE]}

\* A table has no rows, those of the file before or those of the file after;
\* rows without the leap second have expired before it.
RowsRight(t) ==
    /\ t \in [rows : {<<>>, Old.rows, New.rows}, mtime : {1, 3}, expiration : Int]
    /\ t.rows = Old.rows => t.expiration = Leap - 2

TableRight == RowsRight(tab) /\ file \in Files /\ (file = Old => tab.mtime = 1)
\* A sentence tells the second in which it came.
SentenceRight ==
    rmc.valid => /\ conf.src = "nmea" /\ rmc.at <= now /\ rmc.at % Q = conf.delay
                 /\ rmc.utc = (Utc(rmc.at) \div Q) * Q

\* The program keeps up: there is at most one edge on its way to it, and it is
\* that of this instant.
EdgeNow == now % Q = 0 \/ (conf.both /\ now % Q = 2)

KeepsUp ==
    /\ fifo \in [Sinks -> {<<>>, <<now>>}]
    /\ \A s \in due : fifo[s] = <<>>
    /\ due # {} \/ Ready # {} \/ pc = "sync" => EdgeNow

\* A time stamp that is available was collected by this poll, and is that of
\* the rise of a pulse.
Collects ==
    pc \in {"poll", "sync"} =>
        \A c \in Present : clock[c].avail => c \in collected /\ clock[c].ts % Q = 0

\* Without lost edges the sinks take each edge together.
Together ==
    ~missed =>
        /\ pc = "top" => due \cup Ready \in {{}, Sinks}
        /\ pc = "sync" => due \cup Ready = {}
        /\ pc = "poll" =>
             \/ collected = {} /\ due \cup Ready \in {{}, Sinks}
             \/ /\ collected # Sinks /\ idle = 0
                /\ collected = Sinks \ (due \cup Ready)
        /\ pc \in {"poll", "sync"} =>
             \A c \in Present : clock[c].avail => clock[c].ts = now

\* The state that a clock has, or is about to take, is that of its port; the
\* clock whose port is a slave is no target of a program that has a reference.
PortsFollowed ==
    /\ conf.auto => \A c \in conf.listed :
         port[c] = IF clock[c].new_state # None THEN clock[c].new_state ELSE clock[c].state
    /\ ~conf.auto => \A c \in conf.listed : port[c] # "SLAVE"
    /\ conf.auto /\ ~changed /\ ref # None =>
         \A c \in conf.listed : port[c] = "SLAVE" => ~clock[c].is_target
    /\ pc # "top" => ~changed /\ samples = {}

\* What was steered in holdover is stable.
HeldStable == \A s \in samples : s.held /\ s.adjusts => clock[s.clock].servo = "STABLE"

IInv == /\ TypeOK /\ TableRight /\ SentenceRight /\ KeepsUp /\ Collects /\ Together
        /\ PortsFollowed /\ EdgesMatch /\ SlaveNotSteered /\ HeldStable

-----------------------------------------------------------------------------
\* The larger of at most two rows (Max of FiniteSetsExt).
LEMMA MaxOfRows ==
    /\ Max({1}) = 1
    /\ Max({1, 2}) = 2
<1>1. Max({1}) = 1 BY DEF Max
<1>2. \E x \in {1, 2} : \A y \in {1, 2} : x >= y OBVIOUS
<1>3. Max({1, 2}) = 2 BY <1>2 DEF Max
<1> QED BY <1>1, <1>3

\* lstab_utc2tai() is sure of an offset only where it is right, whatever the
\* state of the table: never in the second before the one that is inserted.
LEMMA SureIsRight ==
    ASSUME NEW t, RowsRight(t), NEW u \in Int, lstab_utc2tai(t, u).result = "OK"
    PROVE  \/ u < Leap - 1 /\ lstab_utc2tai(t, u).offset = 0
           \/ u >= Leap /\ lstab_utc2tai(t, u).offset = 1
<1> DEFINE begun == {k \in DOMAIN t.rows : u >= t.rows[k].utc}
<1>0. Leap \in Nat BY Ts2phcAssumption
<1>1. CASE t.rows = <<>>
  <2>1. begun = {} BY <1>1
  <2>2. Epoch(t, u) = 0 BY <2>1 DEF Epoch
  <2> QED BY <2>2 DEF lstab_utc2tai
<1>2. CASE t.rows = Old.rows
  <2>1. t.rows = <<[utc |-> 0, offset |-> 0]>> BY <1>2 DEF Old, epoch_marker
  <2>2. t.expiration = Leap - 2 BY <1>2 DEF RowsRight
  <2>3. CASE u < 0
    <3>1. begun = {} BY <2>1, <2>3
    <3>2. Epoch(t, u) = 0 BY <3>1 DEF Epoch
    <3> QED BY <3>2 DEF lstab_utc2tai
  <2>4. CASE u >= 0
    <3>1. begun = {1} BY <2>1, <2>4
    <3>2. Epoch(t, u) = 1 BY <3>1, MaxOfRows DEF Epoch
    <3>3. Len(t.rows) = 1 BY <2>1
    <3>4. CASE u > t.expiration
      BY <3>2, <3>3, <3>4 DEF lstab_utc2tai
    <3>5. CASE ~(u > t.expiration)
      <4>1. lstab_utc2tai(t, u).offset = t.rows[1].offset
        BY <3>2, <3>3, <3>5 DEF lstab_utc2tai
      <4> QED BY <4>1, <1>0, <2>1, <2>2, <3>5
    <3> QED BY <3>4, <3>5
  <2> QED BY <2>3, <2>4
<1>3. CASE t.rows = New.rows
  <2>1. t.rows = <<[utc |-> 0, offset |-> 0], [utc |-> Leap, offset |-> 1]>>
    BY <1>3 DEF New, epoch_marker
  <2>2. Len(t.rows) = 2 /\ t.rows[2].utc = Leap /\ t.rows[1].offset = 0 /\ t.rows[2].offset = 1
    BY <2>1
  <2>3. CASE u < 0
    <3>1. begun = {} BY <2>1, <2>3, <1>0
    <3>2. Epoch(t, u) = 0 BY <3>1 DEF Epoch
    <3> QED BY <3>2 DEF lstab_utc2tai
  <2>4. CASE u >= 0 /\ u < Leap
    <3>1. begun = {1} BY <2>1, <2>4, <1>0
    <3>2. Epoch(t, u) = 1 BY <3>1, MaxOfRows DEF Epoch
    <3>3. CASE u = Leap - 1
      <4>1. lstab_utc2tai(t, u).result = "AMBIGUOUS"
        BY <3>2, <3>3, <2>2, <1>0 DEF lstab_utc2tai
      <4> QED BY <4>1
    <3>4. CASE u # Leap - 1
      <4>1. lstab_utc2tai(t, u).offset = 0
        BY <3>2, <3>4, <2>2, <1>0 DEF lstab_utc2tai
      <4> QED BY <4>1, <3>4, <2>4, <1>0
    <3> QED BY <3>3, <3>4
  <2>5. CASE u >= Leap
    <3>1. begun = {1, 2} BY <2>1, <2>5, <1>0
    <3>2. Epoch(t, u) = 2 BY <3>1, MaxOfRows DEF Epoch
    <3>3. lstab_utc2tai(t, u).offset = 1
      BY <3>2, <2>2, <1>0 DEF lstab_utc2tai
    <3> QED BY <3>3, <2>5
  <2> QED BY <2>3, <2>4, <2>5, <1>0
<1> QED BY <1>1, <1>2, <1>3 DEF RowsRight

\* update_leapsecond_table() leaves a table right.
LEMMA UpdatedRight ==
    ASSUME TableRight
    PROVE  /\ RowsRight(update_leapsecond_table(tab, file))
           /\ file = Old => update_leapsecond_table(tab, file).mtime = 1
<1>0. Leap \in Nat /\ MaxTime \in Nat \ {0} BY Ts2phcAssumption
<1>1. CASE tab.mtime = file.mtime
  BY <1>1 DEF TableRight, update_leapsecond_table
<1>2. CASE tab.mtime # file.mtime
  <2>1. file # Old BY <1>2 DEF TableRight, Old
  <2>2. CASE ~file.readable
    <3>1. update_leapsecond_table(tab, file) = [tab EXCEPT !.rows = <<>>]
      BY <1>2, <2>2 DEF update_leapsecond_table
    <3>2. <<>> # Old.rows BY DEF Old
    <3> QED BY <3>1, <3>2, <2>1 DEF TableRight, RowsRight
  <2>3. CASE file.readable
    <3>1. file = New BY <2>1, <2>3 DEF TableRight, Files, Old
    <3>2. update_leapsecond_table(tab, file)
            = [lstab_read(tab, file) EXCEPT !.mtime = file.mtime]
      BY <1>2, <2>3 DEF update_leapsecond_table
    <3>3. file.expiration = MaxTime /\ file.mtime = 3 /\ file.rows = New.rows
      BY <3>1 DEF New
    <3>4. update_leapsecond_table(tab, file)
            = [rows |-> New.rows, mtime |-> 3, expiration |-> MaxTime]
      BY <3>2, <3>3, <1>0 DEF lstab_read
    <3>5. New.rows # Old.rows BY DEF New, Old
    <3> QED BY <3>4, <3>5, <2>1, <1>0 DEF RowsRight
  <2> QED BY <2>2, <2>3
<1> QED BY <1>1, <1>2

\* Whatever is looked at, the table stays right.
LEMMA LookedRight ==
    ASSUME TableRight
    PROVE  RowsRight(Looked) /\ (file = Old => Looked.mtime = 1)
BY UpdatedRight DEF TableRight, Looked


-----------------------------------------------------------------------------
\* How much later than a pulse the time that a source tells appears.
Lag == IF conf.src = "nmea" THEN conf.delay ELSE 0

\* The facts about constants that the proofs use.
LEMMA Constants ==
    /\ Leap \in Nat /\ MaxTime \in Nat \ {0} /\ PollTimeout \in Nat \ {0}
    /\ HoldoverLength \in Nat /\ MaxFaults \in Nat
    /\ None \notin Int /\ None \notin PortStates
BY Ts2phcAssumption

\* A source that answers tells the true time of now, and a receiver that of its
\* sentences' delay before; also across the leap second.
LEMMA TimeRight ==
    ASSUME TypeOK, TableRight, SentenceRight, ts2phc_pps_source_getppstime # None
    PROVE  ts2phc_pps_source_getppstime = now - Lag
<1>1. conf \in ConfType BY Ts2phcAssumption DEF TypeOK
<1>2. now \in Nat /\ Leap \in Nat /\ None \notin Int BY Constants DEF TypeOK
<1>3. CASE conf.src = "phc"
  <2>1. ts2phc_pps_source_getppstime = now
    BY <1>3 DEF ts2phc_pps_source_getppstime, ts2phc_phc_pps_source_getppstime
  <2> QED BY <1>2, <1>3, <2>1 DEF Lag
<1>4. CASE conf.src = "generic"
  <2> DEFINE u == Utc(now) \div Q
             found == lstab_utc2tai(Looked, u)
  <2>1. ts2phc_pps_source_getppstime = ts2phc_generic_pps_source_getppstime(Looked)
    BY <1>4 DEF ts2phc_pps_source_getppstime
  <2>2. found.result = "OK" /\ ts2phc_pps_source_getppstime = Utc(now) + Q * found.offset
    BY <2>1 DEF ts2phc_generic_pps_source_getppstime
  <2>3. u \in Int BY <1>2 DEF Utc, Q
  <2>4. \/ u < Leap - 1 /\ found.offset = 0
        \/ u >= Leap /\ found.offset = 1
    BY <2>2, <2>3, LookedRight, SureIsRight
  <2> HIDE DEF found
  <2>5. Utc(now) + Q * found.offset = now BY <1>2, <2>4 DEF Utc, Q
  <2> QED BY <1>2, <1>4, <2>2, <2>5 DEF Lag
<1>5. CASE conf.src = "nmea"
  <2> DEFINE u == rmc.utc \div Q
             found == lstab_utc2tai(Looked, u)
  <2>1. ts2phc_pps_source_getppstime = ts2phc_nmea_pps_source_getppstime(Looked)
    BY <1>5 DEF ts2phc_pps_source_getppstime
  <2>2. /\ found.result = "OK" /\ rmc.valid
        /\ ts2phc_pps_source_getppstime = rmc.utc + (now - rmc.at) + Q * found.offset
    BY <2>1 DEF ts2phc_nmea_pps_source_getppstime
  <2>3. /\ rmc.at \in Nat /\ rmc.at % Q = conf.delay /\ conf.delay \in 1..3
        /\ rmc.utc = (Utc(rmc.at) \div Q) * Q
    BY <1>1, <2>2 DEF TypeOK, SentenceRight, ConfType
  <2>4. u = Utc(rmc.at) \div Q /\ u \in Int /\ rmc.utc = u * 4
    BY <1>2, <2>3 DEF Utc, Q
  <2>5. \/ u < Leap - 1 /\ found.offset = 0
        \/ u >= Leap /\ found.offset = 1
    BY <2>2, <2>4, LookedRight, SureIsRight
  <2> HIDE DEF found, u
  <2>6. u + found.offset = rmc.at \div 4 BY <1>2, <2>3, <2>4, <2>5 DEF Utc, Q
  <2>7. rmc.utc + Q * found.offset = rmc.at - conf.delay
    BY <2>3, <2>4, <2>5, <2>6 DEF Q
  <2> QED BY <1>2, <1>5, <2>2, <2>3, <2>4, <2>5, <2>7 DEF Lag, Q
<1> QED BY <1>1, <1>3, <1>4, <1>5 DEF ConfType

\* An edge that is kept is the rise of a pulse.
LEMMA KeptRises ==
    ASSUME TypeOK, TableRight, SentenceRight, EdgeNow, Kept = "kept"
    PROVE  now % Q = 0
<1>1. conf \in ConfType /\ (conf.both /\ conf.src = "nmea" => conf.delay = 1)
  BY Ts2phcAssumption DEF TypeOK
<1>2. now \in Nat BY Constants DEF TypeOK
<1>3. CASE ~conf.both BY <1>3 DEF EdgeNow
<1>4. CASE conf.both
  <2> DEFINE t == ts2phc_pps_source_getppstime
  <2>1. t # None /\ ~ts2phc_pps_sink_ignore(t) BY <1>4 DEF Kept
  <2>2. t = now - Lag BY <2>1, TimeRight
  <2> HIDE DEF t
  <2>3. CASE conf.src = "nmea"
    <3>1. t = now - 1 BY <1>1, <1>4, <2>2, <2>3 DEF Lag
    <3>2. ~(t % 4 > 0 /\ t % 4 < 2) BY <2>1, <2>3 DEF ts2phc_pps_sink_ignore, Q
    <3> QED BY <1>2, <3>1, <3>2 DEF EdgeNow, Q
  <2>4. CASE conf.src # "nmea"
    <3>1. t = now BY <1>2, <2>2, <2>4 DEF Lag
    <3>2. ~(t % 4 > 1 /\ t % 4 < 3) BY <2>1, <2>4 DEF ts2phc_pps_sink_ignore, Q
    <3> QED BY <1>2, <3>1, <3>2 DEF EdgeNow, Q
  <2> QED BY <2>3, <2>4
<1> QED BY <1>3, <1>4

\* The second that a pulse is given is the one that it began.
LEMMA ImplicitRight ==
    ASSUME TypeOK, now % Q = 0
    PROVE  ts2phc_pps_source_implicit_tstamp(now - Lag) = now
<1>1. conf \in ConfType /\ now \in Nat BY Ts2phcAssumption, Constants DEF TypeOK
<1>2. CASE conf.src = "nmea"
  <2>1. conf.delay \in 1..3 BY <1>1 DEF ConfType
  <2> QED BY <1>1, <1>2, <2>1 DEF ts2phc_pps_source_implicit_tstamp, Lag, Q
<1>3. CASE conf.src # "nmea"
  BY <1>1, <1>3 DEF ts2phc_pps_source_implicit_tstamp, Lag, Q
<1> QED BY <1>2, <1>3


\* A clock with a port is one of the program's.
LEMMA ListedPresent ==
    ASSUME TypeOK
    PROVE  conf.listed \subseteq Present /\ (conf.auto => conf.first \in conf.listed)
<1>1. conf \in ConfType /\ (conf.auto => conf.first \in conf.listed)
      /\ (conf.src # "phc" => conf.listed \subseteq Sinks)
  BY Ts2phcAssumption DEF TypeOK
<1>2. conf.listed \subseteq Clocks BY <1>1 DEF ConfType
<1> QED BY <1>1, <1>2 DEF Present

-----------------------------------------------------------------------------
\* A queue of one event.
LEMMA OneEvent ==
    ASSUME NEW e
    PROVE  /\ Append(<<>>, e) = <<e>> /\ Len(<<e>>) = 1 /\ Len(<<>>) = 0
           /\ Head(<<e>>) = e /\ Tail(<<e>>) = <<>> /\ <<e>> # <<>>
OBVIOUS

\* What the world does leaves the program's half of the invariant alone.
LEMMA ProgramRests ==
    ASSUME IInv, UNCHANGED Program, missed => missed'
    PROVE  PortsFollowed' /\ SlaveNotSteered' /\ HeldStable' /\ EdgesMatch' /\ Present' = Present
<1> USE DEF Program
<1>1. Present' = Present BY DEF Present
<1>2. PortsFollowed' BY DEF IInv, PortsFollowed
<1>3. SlaveNotSteered' BY DEF IInv, SlaveNotSteered
<1>4. HeldStable' BY DEF IInv, HeldStable
<1>5. EdgesMatch' BY DEF IInv, EdgesMatch
<1> QED BY <1>1, <1>2, <1>3, <1>4, <1>5

\* The edge of this instant reaches a sink.
LEMMA ArrivesStep ==
    ASSUME IInv, NEW s \in Sinks, EdgeArrives(s)
    PROVE  IInv'
<1>1. PortsFollowed' /\ SlaveNotSteered' /\ HeldStable' /\ EdgesMatch' /\ Present' = Present
  BY ProgramRests DEF EdgeArrives
<1> USE DEF EdgeArrives, Program, nmeaVars
<1>2. fifo[s] = <<>> /\ fifo' = [fifo EXCEPT ![s] = <<now>>]
  BY OneEvent DEF IInv, KeepsUp
<1>3. fifo \in [Sinks -> {<<>>, <<now>>}] /\ due \subseteq Sinks BY DEF IInv, KeepsUp, TypeOK
<1>4. \A x \in Sinks : fifo'[x] = IF x = s THEN <<now>> ELSE fifo[x] BY <1>2, <1>3
<1>5. fifo' \in [Sinks -> {<<>>, <<now>>}] BY <1>2, <1>3
<1>6. Ready' = Ready \cup {s} BY <1>4 DEF Ready
<1>7. TypeOK'
  <2>1. MaxTime \in Nat \ {0} BY Constants
  <2>2. \A x \in Sinks : Len(fifo'[x]) <= MaxTime
    <3>0. Len(<<>>) = 0 /\ Len(<<now>>) = 1 BY OneEvent
    <3>1. Len(<<>>) <= MaxTime /\ Len(<<now>>) <= MaxTime BY <2>1, <3>0
    <3> QED BY <3>1, <1>5
  <2> QED BY <1>1, <2>2 DEF IInv, TypeOK
<1>8. KeepsUp'
  <2>1. EdgeNow' BY DEF IInv, KeepsUp, EdgeNow
  <2>2. \A x \in due' : fifo'[x] = <<>> BY <1>3, <1>4 DEF IInv, KeepsUp
  <2> QED BY <1>5, <2>1, <2>2 DEF KeepsUp
<1>9. Together'
  <2>1. (due \cup Ready)' = due \cup Ready BY <1>6
  <2> QED BY <1>1, <2>1 DEF IInv, Together
<1>10. TableRight' /\ SentenceRight' /\ Collects'
  BY <1>1 DEF IInv, TableRight, SentenceRight, Collects, Utc
<1> QED BY <1>1, <1>7, <1>8, <1>9, <1>10 DEF IInv

\* An edge is lost on the way to one sink: no longer do the sinks go together.
LEMMA LostStep ==
    ASSUME IInv, NEW s \in Sinks, EdgeLost(s)
    PROVE  IInv'
<1>1. PortsFollowed' /\ SlaveNotSteered' /\ HeldStable' /\ EdgesMatch' /\ Present' = Present
  BY ProgramRests DEF EdgeLost
<1> USE DEF EdgeLost, Program, nmeaVars
<1>2. Ready' = Ready BY DEF Ready
<1>3. TypeOK' BY <1>1 DEF IInv, TypeOK
<1>4. KeepsUp' BY <1>2 DEF IInv, KeepsUp, EdgeNow
<1>5. Together' BY DEF Together
<1>6. TableRight' /\ SentenceRight' /\ Collects'
  BY <1>1 DEF IInv, TableRight, SentenceRight, Collects, Utc
<1> QED BY <1>1, <1>3, <1>4, <1>5, <1>6 DEF IInv

\* A pulse that is not made is missing for every sink.
LEMMA MissingStep ==
    ASSUME IInv, PulseMissing
    PROVE  IInv'
<1>1. PortsFollowed' /\ SlaveNotSteered' /\ HeldStable' /\ EdgesMatch' /\ Present' = Present
  BY ProgramRests DEF PulseMissing
<1> USE DEF PulseMissing, Program, nmeaVars
<1>2. Ready' = Ready /\ Ready = {} BY DEF Ready, IInv, KeepsUp
<1>3. TypeOK' BY <1>1 DEF IInv, TypeOK
<1>4. KeepsUp' BY <1>2 DEF IInv, KeepsUp, EdgeNow
<1>5. Together'
  <2>1. Sinks # {} BY DEF Sinks
  <2> QED BY <1>1, <1>2, <2>1 DEF IInv, Together
<1>6. TableRight' /\ SentenceRight' /\ Collects'
  BY <1>1 DEF IInv, TableRight, SentenceRight, Collects, Utc
<1> QED BY <1>1, <1>3, <1>4, <1>5, <1>6 DEF IInv

\* A sentence is stored.
LEMMA SentenceStep ==
    ASSUME IInv, NEW valid \in BOOLEAN, monitor_nmea_status(valid)
    PROVE  IInv'
<1>1. PortsFollowed' /\ SlaveNotSteered' /\ HeldStable' /\ EdgesMatch' /\ Present' = Present
  BY ProgramRests DEF monitor_nmea_status
<1> USE DEF monitor_nmea_status, Program
<1>2. Ready' = Ready BY DEF Ready
<1>3. now \in Nat /\ now <= MaxTime /\ Leap \in Nat /\ MaxTime \in Nat
  BY Constants DEF IInv, TypeOK
<1>4. RmcSecond \in -Q..MaxTime BY <1>3 DEF RmcSecond, Utc, Q
<1>5. TypeOK'
  <2>1. rmc' \in [utc : -Q..MaxTime, at : 0..MaxTime, valid : BOOLEAN] BY <1>3, <1>4
  <2> QED BY <1>1, <2>1 DEF IInv, TypeOK
<1>6. KeepsUp' BY <1>2 DEF IInv, KeepsUp, EdgeNow
<1>7. Together' BY <1>1, <1>2 DEF IInv, Together
<1>8. SentenceRight'
  <2>1. rmc'.at = now /\ rmc'.utc = RmcSecond OBVIOUS
  <2>2. RmcSecond = (Utc(now) \div Q) * Q BY DEF RmcSecond
  <2> QED BY <1>3, <2>1, <2>2 DEF SentenceRight, Utc
<1>9. TableRight' /\ Collects'
  BY <1>1 DEF IInv, TableRight, Collects
<1> QED BY <1>1, <1>5, <1>6, <1>7, <1>8, <1>9 DEF IInv

\* The connection to the receiver is closed or opened.
LEMMA LinkStep ==
    ASSUME IInv, CloseNmea \/ open_nmea_connection
    PROVE  IInv'
<1>1. PortsFollowed' /\ SlaveNotSteered' /\ HeldStable' /\ EdgesMatch' /\ Present' = Present
  BY ProgramRests DEF CloseNmea, open_nmea_connection
<1> USE DEF CloseNmea, open_nmea_connection, Program
<1>2. Ready' = Ready BY DEF Ready
<1>3. TypeOK' BY <1>1 DEF IInv, TypeOK
<1>4. KeepsUp' BY <1>2 DEF IInv, KeepsUp, EdgeNow
<1>5. Together' BY <1>1, <1>2 DEF IInv, Together
<1>6. TableRight' /\ SentenceRight' /\ Collects'
  BY <1>1 DEF IInv, TableRight, SentenceRight, Collects, Utc
<1> QED BY <1>1, <1>3, <1>4, <1>5, <1>6 DEF IInv

\* The file is replaced.
LEMMA ReplaceStep ==
    ASSUME IInv, ReplaceFile
    PROVE  IInv'
<1>1. PortsFollowed' /\ SlaveNotSteered' /\ HeldStable' /\ EdgesMatch' /\ Present' = Present
  BY ProgramRests DEF ReplaceFile
<1> USE DEF ReplaceFile, Program
<1>2. Ready' = Ready BY DEF Ready
<1>3. TypeOK' BY <1>1 DEF IInv, TypeOK
<1>4. KeepsUp' BY <1>2 DEF IInv, KeepsUp, EdgeNow
<1>5. Together' BY <1>1, <1>2 DEF IInv, Together
<1>6. SentenceRight' /\ Collects'
  BY <1>1 DEF IInv, SentenceRight, Collects, Utc
<1>7. TableRight'
  <2>1. file' \in Files BY DEF Files
  <2>2. file' # Old
    <3>1. Old.mtime = 1 /\ New.mtime = 3 BY DEF Old, New
    <3>2. [Old EXCEPT !.mtime = 2, !.readable = FALSE].mtime = 2 BY DEF Old
    <3> DEFINE torn == [Old EXCEPT !.mtime = 2, !.readable = FALSE]
    <3>3. file' = New \/ file' = torn OBVIOUS
    <3> HIDE DEF torn
    <3>4. CASE file' = New BY <3>1, <3>4
    <3>5. CASE file' = torn
      <4>1. torn.mtime = 2 BY <3>2 DEF torn
      <4> QED BY <3>1, <3>5, <4>1
    <3> QED BY <3>3, <3>4, <3>5
  <2>3. RowsRight(tab)' BY DEF IInv, TableRight, RowsRight, Old, New
  <2> QED BY <2>1, <2>2, <2>3 DEF TableRight
<1> QED BY <1>1, <1>3, <1>4, <1>5, <1>6, <1>7 DEF IInv


\* Time passes while the program waits for events.
LEMMA TickStep ==
    ASSUME IInv, Tick
    PROVE  IInv'
<1>1. PortsFollowed' /\ SlaveNotSteered' /\ HeldStable' /\ EdgesMatch' /\ Present' = Present
  BY ProgramRests DEF Tick
<1>2. now \in Nat /\ MaxTime \in Nat /\ PollTimeout \in Nat /\ idle \in Nat
  BY Constants DEF IInv, TypeOK
<1> USE DEF Tick, Program, nmeaVars
<1>3. Ready' = Ready BY DEF Ready
<1>4. \A s \in Sinks : fifo[s] = <<>> BY DEF Ready
<1>5. TypeOK'
  <2>1. now' \in 0..MaxTime /\ idle' \in 0..PollTimeout /\ due' \subseteq Sinks BY <1>2
  <2> QED BY <1>1, <2>1 DEF IInv, TypeOK
<1>6. KeepsUp'
  <2>1. fifo' \in [Sinks -> {<<>>, <<now'>>}] BY <1>4 DEF IInv, KeepsUp
  <2>2. due' # {} => EdgeNow' BY DEF EdgeNow
  <2>3. due' \subseteq Sinks BY <1>5 DEF TypeOK
  <2> QED BY <1>3, <1>4, <2>1, <2>2, <2>3 DEF KeepsUp
<1>7. ~missed => collected = {} BY DEF IInv, Together
<1>8. Together'
  <2>1. ~missed => \A c \in Present : ~clock[c].avail BY <1>7 DEF IInv, Collects
  <2> QED BY <1>1, <1>3, <1>7, <2>1 DEF Together
<1>9. SentenceRight'
  <2>1. rmc.at \in Nat BY DEF IInv, TypeOK
  <2> QED BY <1>2, <2>1 DEF IInv, SentenceRight, Utc
<1>10. TableRight' /\ Collects'
  BY <1>1 DEF IInv, TableRight, Collects
<1> QED BY <1>1, <1>5, <1>6, <1>8, <1>9, <1>10 DEF IInv

\* A poll without events ends.
LEMMA TimeoutStep ==
    ASSUME IInv, PollTimesOut
    PROVE  IInv'
<1> USE DEF PollTimesOut, world, nmeaVars
<1>1. Present' = Present /\ Ready' = Ready BY DEF Present, Ready
<1>2. PollTimeout # 0 BY Constants
<1>3. TypeOK' BY <1>1 DEF IInv, TypeOK
<1>4. KeepsUp' BY <1>1 DEF IInv, KeepsUp, EdgeNow
<1>5. Together' BY <1>1, <1>2 DEF IInv, Together
<1>6. TableRight' /\ SentenceRight' BY DEF IInv, TableRight, SentenceRight, Utc
<1>7. Collects' BY DEF Collects
<1>8. PortsFollowed' /\ SlaveNotSteered' BY DEF IInv, PortsFollowed, SlaveNotSteered
<1>9. HeldStable' /\ EdgesMatch' BY DEF IInv, HeldStable, EdgesMatch
<1> QED BY <1>3, <1>4, <1>5, <1>6, <1>7, <1>8, <1>9 DEF IInv

\* The events of the sinks are collected.
LEMMA PollStep ==
    ASSUME IInv, ts2phc_pps_sink_poll
    PROVE  IInv'
<1>0. TypeOK /\ TableRight /\ SentenceRight /\ KeepsUp /\ Collects /\ Together BY DEF IInv
<1>1. Present' = Present BY DEF Present, ts2phc_pps_sink_poll
<1>2. EdgeNow BY DEF IInv, KeepsUp, ts2phc_pps_sink_poll
<1>3. Kept = "kept" => now % Q = 0 BY <1>0, <1>2, KeptRises
<1>4. \A s \in Ready : s \in Sinks /\ fifo[s] = <<now>> /\ Head(fifo[s]) = now
  <2>1. Head(<<now>>) = now BY OneEvent
  <2> QED BY <1>0, <2>1 DEF Ready, KeepsUp
<1>5. fifo' = [s \in Sinks |-> <<>>]
  <2>1. Tail(<<now>>) = <<>> BY OneEvent
  <2> QED BY <1>4, <2>1 DEF Ready, ts2phc_pps_sink_poll
<1>6. Ready' = {} BY <1>5 DEF Ready
<1>7. now \in 0..MaxTime /\ clock \in [Present -> ClockType] BY <1>0 DEF TypeOK
<1>8. \A c \in Present :
         /\ clock'[c].state = clock[c].state /\ clock'[c].new_state = clock[c].new_state
         /\ clock'[c].is_target <=> clock[c].is_target
         /\ clock'[c].servo = clock[c].servo
         /\ clock'[c] \in ClockType
         /\ \/ clock'[c].avail = clock[c].avail /\ clock'[c].ts = clock[c].ts
            \/ c \in Ready /\ Kept = "kept" /\ clock'[c].avail /\ clock'[c].ts = now
  <2> SUFFICES ASSUME NEW c \in Present
               PROVE  /\ clock'[c].state = clock[c].state
                      /\ clock'[c].new_state = clock[c].new_state
                      /\ clock'[c].is_target <=> clock[c].is_target
                      /\ clock'[c].servo = clock[c].servo
                      /\ clock'[c] \in ClockType
                      /\ \/ clock'[c].avail = clock[c].avail /\ clock'[c].ts = clock[c].ts
                         \/ c \in Ready /\ Kept = "kept" /\ clock'[c].avail /\ clock'[c].ts = now
    OBVIOUS
  <2>1. clock[c] \in ClockType BY <1>7
  <2>2. CASE c \in Ready /\ Kept = "kept"
    <3>1. clock'[c] = [clock[c] EXCEPT !.avail = TRUE, !.ts = now]
      BY <1>4, <2>2 DEF ts2phc_pps_sink_poll
    <3> QED BY <1>7, <2>1, <2>2, <3>1 DEF ClockType
  <2>3. CASE ~(c \in Ready /\ Kept = "kept")
    <3>1. clock'[c] = clock[c] BY <2>3 DEF ts2phc_pps_sink_poll
    <3> QED BY <2>1, <3>1
  <2> QED BY <2>2, <2>3
<1>9. clock' \in [Present -> ClockType]
  <2>1. clock' = [c \in Present |-> clock'[c]] BY DEF ts2phc_pps_sink_poll
  <2> QED BY <1>8, <2>1
<1>f. /\ idle' = 0 /\ collected' = collected \cup Ready /\ Ready # {} /\ pc = "poll"
      /\ pc' = IF collected' # Sinks THEN "poll" ELSE IF ignore' THEN "top" ELSE "sync"
      /\ UNCHANGED <<conf, now, due, port, changed, ref, holdover, faults, missed, samples,
                     rmc, link, file>>
      /\ tab' = tab \/ tab' = Looked
  BY DEF ts2phc_pps_sink_poll, nmeaVars
<1>10. collected' \subseteq Sinks BY <1>0, <1>4, <1>f DEF TypeOK
<1>11. TypeOK'
  <2>1. \A s \in Sinks : Len(fifo'[s]) <= MaxTime
    <3>1. Len(<<>>) = 0 /\ MaxTime \in Nat BY OneEvent, Constants
    <3>2. \A s \in Sinks : fifo'[s] = <<>> BY <1>5
    <3>3. Len(<<>>) <= MaxTime BY <3>1
    <3> QED BY <3>2, <3>3
  <2>2. idle' \in 0..PollTimeout BY <1>f, Constants
  <2>3. ignore' \in BOOLEAN BY Zenon DEF ts2phc_pps_sink_poll
  <2>4. pc' \in {"top", "poll", "sync", "exit"} BY <1>f
  <2> QED BY <1>0, <1>1, <1>9, <1>10, <1>f, <2>1, <2>2, <2>3, <2>4 DEF TypeOK
<1>12. KeepsUp'
  <2>1. EdgeNow' BY <1>2, <1>f DEF EdgeNow
  <2>2. fifo' \in [Sinks -> {<<>>, <<now'>>}] BY <1>5
  <2> QED BY <1>0, <1>5, <1>f, <2>1, <2>2 DEF KeepsUp, TypeOK
<1>13. Collects' BY <1>0, <1>1, <1>3, <1>8, <1>f DEF Collects
<1>14. Together'
  <2> SUFFICES ASSUME ~missed PROVE Together' BY <1>f DEF Together
  <2>1. Ready \cap due = {}
    BY <1>0 DEF KeepsUp, Ready
  <2>2. collected \cap due = {} /\ collected \cup Ready \cup due = Sinks
    <3>1. \/ collected = {} /\ due \cup Ready \in {{}, Sinks}
          \/ collected = Sinks \ (due \cup Ready)
      BY <1>0, <1>f DEF Together
    <3>2. due \subseteq Sinks /\ Ready \subseteq Sinks /\ Ready # {} BY <1>0, <1>f DEF TypeOK, Ready
    <3> QED BY <3>1, <3>2
  <2>3. \A c \in Present : clock'[c].avail => clock'[c].ts = now
    BY <1>0, <1>8, <1>f DEF Together
  <2>4. (due \cup Ready)' = due BY <1>6, <1>f
  <2>5. collected' = Sinks \ due BY <1>f, <2>1, <2>2
  <2>6. pc' # "poll" => due = {} BY <1>0, <1>f, <2>5 DEF TypeOK
  <2> QED BY <1>1, <1>f, <2>3, <2>4, <2>5, <2>6 DEF Together
<1>15. TableRight'
  <2>1. RowsRight(tab') /\ (file = Old => tab'.mtime = 1)
    BY <1>0, <1>f, LookedRight DEF TableRight
  <2> QED BY <1>0, <1>f, <2>1 DEF TableRight, RowsRight, Files, Old, New
<1>16. SentenceRight' BY <1>0, <1>f DEF SentenceRight, Utc
<1>17. PortsFollowed'
  <2>1. conf.listed \subseteq Present
    BY ListedPresent, <1>0
  <2> QED BY <1>8, <1>f, <2>1 DEF IInv, PortsFollowed
<1>18. samples' = {} BY <1>f DEF IInv, PortsFollowed
<1>19. SlaveNotSteered' /\ HeldStable' /\ EdgesMatch'
  BY <1>18 DEF SlaveNotSteered, HeldStable, EdgesMatch
<1> QED BY <1>11, <1>12, <1>13, <1>14, <1>15, <1>16, <1>17, <1>19 DEF IInv


\* A port changes its state: the program has yet to act on it.
LEMMA SubscribedStep ==
    ASSUME IInv, NEW p \in Clocks, NEW s \in PortStates, ts2phc_recv_subscribed(p, s)
    PROVE  IInv'
<1>0. TypeOK /\ TableRight /\ SentenceRight /\ KeepsUp /\ Together BY DEF IInv
<1>1. /\ pc = "top" /\ conf.auto /\ p \in conf.listed /\ port[p] # s
      /\ port' = [port EXCEPT ![p] = s] /\ samples' = {}
      /\ UNCHANGED <<conf, now, due, fifo, ref, pc, collected, ignore, idle, holdover, tab,
                     missed, rmc, link, file>>
  BY DEF ts2phc_recv_subscribed, nmeaVars
<1>2. Present' = Present /\ p \in Present /\ Ready' = Ready
  BY <1>0, <1>1, ListedPresent DEF Present, Ready
<1>3. clock \in [Present -> ClockType] /\ port \in [conf.listed -> PortStates]
  BY <1>0 DEF TypeOK
<1>4. None \notin PortStates BY Constants
<1>5. clock[p].state # s \/ clock[p].new_state # None
  BY <1>1, <1>4 DEF IInv, PortsFollowed
<1>6. changed' = TRUE /\ clock' = [clock EXCEPT ![p].new_state = s]
  BY <1>5 DEF ts2phc_recv_subscribed
<1>7. clock' \in [Present -> ClockType] BY <1>2, <1>3, <1>6 DEF ClockType
<1>8. \A c \in Present :
         /\ clock'[c].state = clock[c].state
         /\ clock'[c].new_state = IF c = p THEN s ELSE clock[c].new_state
  BY <1>2, <1>3, <1>6 DEF ClockType
<1>9. TypeOK'
  <2>1. port' \in [conf.listed -> PortStates] BY <1>1, <1>3
  <2> QED BY <1>0, <1>1, <1>2, <1>6, <1>7, <2>1 DEF TypeOK
<1>10. PortsFollowed'
  <2>1. \A c \in conf.listed : c \in Present /\ port'[c] = IF c = p THEN s ELSE port[c]
    BY <1>0, <1>1, <1>3, ListedPresent
  <2> QED BY <1>1, <1>4, <1>6, <1>8, <2>1 DEF IInv, PortsFollowed
<1>11. KeepsUp' BY <1>0, <1>1, <1>2 DEF KeepsUp, EdgeNow
<1>12. Together' BY <1>0, <1>1, <1>2 DEF Together
<1>13. TableRight' /\ SentenceRight' BY <1>0, <1>1 DEF TableRight, SentenceRight, Utc
<1>14. Collects' BY <1>1 DEF Collects
<1>15. SlaveNotSteered' /\ HeldStable' /\ EdgesMatch'
  BY <1>1 DEF SlaveNotSteered, HeldStable, EdgesMatch
<1> QED BY <1>9, <1>10, <1>11, <1>12, <1>13, <1>14, <1>15 DEF IInv

\* What the program begins to reconfigure from.
LEMMA AppliedRight ==
    ASSUME TypeOK, PortsFollowed
    PROVE  /\ Flushed(Applied) \in [Present -> ClockType]
           /\ \A c \in Present :
                /\ ~Flushed(Applied)[c].avail /\ Flushed(Applied)[c].new_state = None
                /\ conf.auto /\ c \in conf.listed => Flushed(Applied)[c].state = port[c]
<1>1. clock \in [Present -> ClockType] BY DEF TypeOK
<1>2. ASSUME NEW c \in Present
      PROVE  /\ Flushed(Applied)[c] \in ClockType
             /\ ~Flushed(Applied)[c].avail /\ Flushed(Applied)[c].new_state = None
             /\ conf.auto /\ c \in conf.listed => Flushed(Applied)[c].state = port[c]
  <2> DEFINE s == IF clock[c].new_state # None THEN clock[c].new_state ELSE clock[c].state
             k == [clock[c] EXCEPT !.state = s, !.new_state = None,
                                   !.is_target = @ \/ s \in Idle]
  <2>1. clock[c] \in ClockType BY <1>1
  <2>2. s \in PortStates \cup {None} BY <2>1 DEF ClockType
  <2>3. Applied[c] = k BY DEF Applied
  <2>4. conf.auto /\ c \in conf.listed => s = port[c] BY DEF PortsFollowed
  <2>5. Flushed(Applied)[c] = [k EXCEPT !.avail = FALSE] BY <2>3 DEF Flushed
  <2> HIDE DEF s
  <2>6. (clock[c].is_target \/ s \in Idle) \in BOOLEAN BY Zenon
  <2>7. k \in ClockType /\ k.state = s /\ k.new_state = None
    BY <2>1, <2>2, <2>6 DEF ClockType
  <2> HIDE DEF k
  <2> QED BY <2>4, <2>5, <2>7 DEF ClockType
<1>3. Flushed(Applied) = [c \in Present |-> Flushed(Applied)[c]] BY DEF Flushed
<1> QED BY <1>2, <1>3

\* ts2phc_reconfigure() leaves no clock whose port is a slave as a target, unless
\* it leaves no reference.
LEMMA ReconfiguredRight ==
    ASSUME TypeOK, conf.auto, NEW K \in [Present -> ClockType],
           \A c \in Present : ~K[c].avail /\ K[c].new_state = None,
           \A c \in conf.listed : K[c].state = port[c],
           ts2phc_reconfigure(K)
    PROVE  /\ clock' \in [Present -> ClockType] /\ ref' \in Present \cup {None}
           /\ \A c \in Present : ~clock'[c].avail
           /\ \A c \in conf.listed :
                port[c] = IF clock'[c].new_state # None THEN clock'[c].new_state
                          ELSE clock'[c].state
           /\ ref' # None =>
                \A c \in conf.listed : port[c] = "SLAVE" => ~clock'[c].is_target
<1>0. None \notin PortStates /\ port \in [conf.listed -> PortStates]
  BY Constants DEF TypeOK
<1>1. conf.listed \subseteq Present /\ conf.first \in conf.listed BY ListedPresent
<1>2. CASE Targets(K) # {} /\ SlaveClocks(K) = {}
  <2> DEFINE f == conf.first
  <2>1. f \in Present BY <1>1
  <2>2. /\ ref' = f
        /\ clock' = [K EXCEPT ![f].is_target = FALSE, ![f].new_state = K[f].state,
                              ![f].state = "SLAVE"]
    BY <1>2 DEF ts2phc_reconfigure, ByDefault
  <2>3. K[f] \in ClockType BY <2>1
  <2>4. \A c \in Present : clock'[c] = IF c = f
             THEN [K[f] EXCEPT !.is_target = FALSE, !.new_state = K[f].state, !.state = "SLAVE"]
             ELSE K[c]
    BY <2>1, <2>2
  <2>5. [K[f] EXCEPT !.is_target = FALSE, !.new_state = K[f].state, !.state = "SLAVE"]
           \in ClockType
    BY <2>3 DEF ClockType, PortStates
  <2>6. DOMAIN clock' = Present /\ clock' = [c \in Present |-> clock'[c]] BY <2>2
  <2>7. clock' \in [Present -> ClockType] BY <2>4, <2>5, <2>6
  <2>8. \A c \in Present : ~clock'[c].avail BY <2>1, <2>3, <2>4 DEF ClockType
  <2>9. \A c \in conf.listed : port[c] # "SLAVE"
    BY <1>1, <1>2 DEF SlaveClocks
  <2>10. ASSUME NEW c \in conf.listed
         PROVE  port[c] = IF clock'[c].new_state # None THEN clock'[c].new_state
                          ELSE clock'[c].state
    <3>1. CASE c = f
      <4>1. clock'[c].new_state = K[f].state BY <2>1, <2>3, <2>4, <3>1 DEF ClockType
      <4>2. K[f].state = port[c] /\ port[c] \in PortStates BY <1>0, <3>1
      <4> QED BY <1>0, <4>1, <4>2
    <3>2. CASE c # f
      <4>1. clock'[c] = K[c] BY <1>1, <2>4, <3>2
      <4> QED BY <1>1, <4>1
    <3> QED BY <3>1, <3>2
  <2> QED BY <2>1, <2>2, <2>7, <2>8, <2>9, <2>10
<1>3. CASE /\ ~(Targets(K) # {} /\ SlaveClocks(K) = {})
           /\ Cardinality(References(K)) # 1 \/ SlaveClocks(K) = {}
  <2>1. ref' = None /\ clock' = K BY <1>3 DEF ts2phc_reconfigure
  <2> QED BY <1>1, <2>1
<1>4. CASE SlaveClocks(K) # {} /\ Cardinality(References(K)) = 1
  <2> DEFINE r == CHOOSE s \in SlaveClocks(K) : TRUE
  <2>1. ref' = r /\ clock' = [K EXCEPT ![r].is_target = FALSE]
    BY <1>4 DEF ts2phc_reconfigure
  <2>2. r \in SlaveClocks(K) BY <1>4
  <2> HIDE DEF r
  <2>3. r \in Present BY <2>2 DEF SlaveClocks
  <2>4. SlaveClocks(K) = {r}
    <3>1. SlaveClocks(K) \subseteq References(K) BY DEF SlaveClocks, References
    <3>2. IsFiniteSet(References(K))
      <4>1. PICK a \in Int, b \in Int : a = 0 /\ b = 2 OBVIOUS
      <4>2. References(K) \subseteq a..b
        BY <4>1 DEF References, Present, Clocks, Sinks, Source
      <4>3. IsFiniteSet(a..b) BY FS_Interval
      <4> QED BY <4>2, <4>3, FS_Subset
    <3>3. PICK x : References(K) = {x} BY <1>4, <3>2, FS_Singleton
    <3> QED BY <2>2, <3>1, <3>3
  <2>5. \A c \in Present :
           /\ clock'[c].state = K[c].state /\ clock'[c].new_state = K[c].new_state
           /\ clock'[c].avail = K[c].avail
    BY <2>1, <2>3 DEF ClockType
  <2>6. ~clock'[r].is_target BY <2>1, <2>3 DEF ClockType
  <2>7. clock' \in [Present -> ClockType] BY <2>1, <2>3 DEF ClockType
  <2>8. \A c \in conf.listed : port[c] = "SLAVE" => c = r
    BY <1>1, <2>4 DEF SlaveClocks
  <2> QED BY <1>1, <2>1, <2>3, <2>5, <2>6, <2>7, <2>8
<1> QED BY <1>2, <1>3, <1>4


\* The top of the loop.
LEMMA TurnStep ==
    ASSUME IInv, Turn
    PROVE  IInv'
<1>0. TypeOK /\ TableRight /\ SentenceRight /\ KeepsUp /\ Together /\ PortsFollowed BY DEF IInv
<1>1. /\ pc = "top" /\ changed' = FALSE /\ samples' = {} /\ pc' = "poll" /\ collected' = {}
      /\ ignore' = FALSE /\ idle' = 0
      /\ UNCHANGED <<conf, port, holdover, tab, rmc, link, file, now, due, fifo, faults, missed>>
  BY DEF Turn, nmeaVars, world
<1>2. Present' = Present /\ Ready' = Ready BY <1>1 DEF Present, Ready
<1>3. clock \in [Present -> ClockType] /\ conf.listed \subseteq Present
  BY <1>0, ListedPresent DEF TypeOK
<1>4. /\ clock' \in [Present -> ClockType] /\ ref' \in Present \cup {None}
      /\ \A c \in Present : ~clock'[c].avail
      /\ conf.auto => \A c \in conf.listed :
           port[c] = IF clock'[c].new_state # None THEN clock'[c].new_state
                     ELSE clock'[c].state
      /\ conf.auto /\ ref' # None =>
           \A c \in conf.listed : port[c] = "SLAVE" => ~clock'[c].is_target
  <2>1. CASE conf.auto /\ changed
    <3> DEFINE K == Flushed(Applied)
    <3>1. ts2phc_reconfigure(K) BY <2>1 DEF Turn
    <3>2. /\ K \in [Present -> ClockType]
          /\ \A c \in Present : ~K[c].avail /\ K[c].new_state = None
          /\ \A c \in conf.listed : K[c].state = port[c]
      BY <1>0, <1>3, <2>1, AppliedRight
    <3> HIDE DEF K
    <3> QED BY <1>0, <2>1, <3>1, <3>2, ReconfiguredRight
  <2>2. CASE ~(conf.auto /\ changed)
    <3>1. ref' = ref /\ clock' = Flushed(clock) BY <2>2 DEF Turn
    <3>2. \A c \in Present :
             /\ clock'[c] \in ClockType /\ ~clock'[c].avail
             /\ clock'[c].state = clock[c].state /\ clock'[c].new_state = clock[c].new_state
             /\ clock'[c].is_target = clock[c].is_target
      BY <1>3, <3>1 DEF Flushed, ClockType
    <3>3. clock' = [c \in Present |-> clock'[c]] BY <3>1 DEF Flushed
    <3>4. ref \in Present \cup {None} BY <1>0 DEF TypeOK
    <3> QED BY <1>0, <1>3, <2>2, <3>1, <3>2, <3>3, <3>4 DEF PortsFollowed
  <2> QED BY <2>1, <2>2
<1>5. TypeOK'
  <2>1. idle' \in 0..PollTimeout BY <1>1, Constants
  <2> QED BY <1>0, <1>1, <1>2, <1>4, <2>1 DEF TypeOK
<1>6. PortsFollowed' BY <1>0, <1>1, <1>4 DEF PortsFollowed
<1>7. KeepsUp' BY <1>0, <1>1, <1>2 DEF KeepsUp, EdgeNow
<1>8. Together' BY <1>0, <1>1, <1>2, <1>4 DEF Together
<1>9. TableRight' /\ SentenceRight' BY <1>0, <1>1 DEF TableRight, SentenceRight, Utc
<1>10. Collects' BY <1>1, <1>2, <1>4 DEF Collects
<1>11. SlaveNotSteered' /\ HeldStable' /\ EdgesMatch'
  BY <1>1 DEF SlaveNotSteered, HeldStable, EdgesMatch
<1> QED BY <1>5, <1>6, <1>7, <1>8, <1>9, <1>10, <1>11 DEF IInv

-----------------------------------------------------------------------------
\* The program has started.
LEMMA Initially == Init => IInv
<1> SUFFICES ASSUME Init PROVE IInv OBVIOUS
<1>0. conf \in ConfType /\ None \notin PortStates BY Ts2phcAssumption DEF Init
<1>1. TypeOK
  <2>1. Len(<<>>) = 0 /\ MaxTime \in Nat \ {0} /\ PollTimeout \in Nat BY OneEvent, Constants
  <2>2. \A s \in Sinks : fifo[s] = <<>> BY DEF Init
  <2>3. Len(<<>>) <= MaxTime BY <2>1
  <2>4. \A s \in Sinks : Len(fifo[s]) <= MaxTime BY <2>2, <2>3
  <2>5. clock \in [Present -> ClockType]
    BY <2>1 DEF Init, ClockType, PortStates
  <2>6. port \in [conf.listed -> PortStates] BY DEF Init, PortStates
  <2>7. rmc \in [utc : -Q..MaxTime, at : 0..MaxTime, valid : BOOLEAN] BY <2>1 DEF Init, Q
  <2>8. changed \in BOOLEAN BY <1>0 DEF Init, ConfType
  <2>9. now \in 0..MaxTime /\ idle \in 0..PollTimeout /\ holdover \in -1..MaxTime
    BY <2>1 DEF Init
  <2> QED BY <2>4, <2>5, <2>6, <2>7, <2>8, <2>9 DEF TypeOK, Init
<1>2. TableRight
  <2>1. Leap \in Nat BY Constants
  <2>2. tab = [rows |-> Old.rows, mtime |-> 1, expiration |-> Leap - 2]
    BY <2>1 DEF Init, lstab_create, lstab_read, Old
  <2> QED BY <2>1, <2>2 DEF TableRight, RowsRight, Files, Init
<1>3. SentenceRight BY DEF Init, SentenceRight
<1>4. Ready = {} BY DEF Init, Ready
<1>5. KeepsUp BY <1>4 DEF Init, KeepsUp
<1>6. Collects /\ Together BY <1>4 DEF Init, Collects, Together
<1>7. PortsFollowed
  <2>1. conf.listed \subseteq Present BY <1>1, ListedPresent
  <2>2. conf.auto => \A c \in conf.listed :
          clock[c].new_state = "DISABLED" /\ port[c] = "DISABLED"
    BY <2>1 DEF Init
  <2>3. "DISABLED" # None BY <1>0 DEF PortStates
  <2>4. \A c \in conf.listed : port[c] # "SLAVE" BY DEF Init
  <2> QED BY <2>2, <2>3, <2>4 DEF PortsFollowed, Init
<1>8. EdgesMatch /\ SlaveNotSteered /\ HeldStable
  BY DEF Init, EdgesMatch, SlaveNotSteered, HeldStable
<1> QED BY <1>1, <1>2, <1>3, <1>5, <1>6, <1>7, <1>8 DEF IInv


-----------------------------------------------------------------------------
\* What the loop of ts2phc_synchronize_clocks() does to the clocks, and what it
\* samples.
LEMMA SampleRight ==
    ASSUME NEW K \in [Present -> ClockType], NEW t, NEW held \in BOOLEAN, SampleAll(K, t, held)
    PROVE  /\ clock' \in [Present -> ClockType]
           /\ \A c \in Present :
                /\ clock'[c].state = K[c].state /\ clock'[c].new_state = K[c].new_state
                /\ clock'[c].is_target = K[c].is_target
           /\ \A x \in samples' :
                /\ x.clock \in Sampled(K, held) /\ x.held = held
                /\ x.offset = K[x.clock].ts - (IF held THEN Nearest(K[x.clock].ts) ELSE t)
                /\ x.held /\ x.adjusts => clock'[x.clock].servo = "STABLE"
<1>1. PICK servo \in [Sampled(K, held) -> ServoStates] :
        /\ clock' = [c \in Present |->
                       IF c \in Sampled(K, held)
                       THEN [K[c] EXCEPT !.servo = servo[c], !.avail = FALSE]
                       ELSE [K[c] EXCEPT !.avail = @ /\ ~K[c].is_target]]
        /\ samples' = {[clock |-> c, held |-> held,
                        offset |-> K[c].ts - (IF held THEN Nearest(K[c].ts) ELSE t),
                        adjusts |-> ~held \/ servo[c] = "STABLE"] : c \in Sampled(K, held)}
  BY DEF SampleAll
<1>2. ASSUME NEW c \in Present
      PROVE  /\ clock'[c] \in ClockType
             /\ clock'[c].state = K[c].state /\ clock'[c].new_state = K[c].new_state
             /\ clock'[c].is_target = K[c].is_target
             /\ c \in Sampled(K, held) => clock'[c].servo = servo[c]
  <2>1. K[c] \in ClockType OBVIOUS
  <2>2. CASE c \in Sampled(K, held)
    <3>1. clock'[c] = [K[c] EXCEPT !.servo = servo[c], !.avail = FALSE] BY <1>1, <2>2
    <3>2. servo[c] \in {"UNLOCKED", "LOCKED", "STABLE"} BY <1>1, <2>2 DEF ServoStates
    <3> QED BY <2>1, <3>1, <3>2 DEF ClockType
  <2>3. CASE c \notin Sampled(K, held)
    <3>1. clock'[c] = [K[c] EXCEPT !.avail = K[c].avail /\ ~K[c].is_target] BY <1>1, <2>3
    <3>2. (K[c].avail /\ ~K[c].is_target) \in BOOLEAN BY Zenon
    <3> QED BY <2>1, <2>3, <3>1, <3>2 DEF ClockType
  <2> QED BY <2>2, <2>3
<1>3. clock' = [c \in Present |-> clock'[c]] BY <1>1
<1>4. clock' \in [Present -> ClockType] BY <1>2, <1>3
<1>5. ASSUME NEW x \in samples'
      PROVE  /\ x.clock \in Sampled(K, held) /\ x.held = held
             /\ x.offset = K[x.clock].ts - (IF held THEN Nearest(K[x.clock].ts) ELSE t)
             /\ x.held /\ x.adjusts => clock'[x.clock].servo = "STABLE"
  <2>1. PICK c \in Sampled(K, held) :
          x = [clock |-> c, held |-> held,
               offset |-> K[c].ts - (IF held THEN Nearest(K[c].ts) ELSE t),
               adjusts |-> ~held \/ servo[c] = "STABLE"]
    BY <1>1
  <2>2. /\ x.clock = c /\ x.held = held
        /\ x.offset = K[c].ts - (IF held THEN Nearest(K[c].ts) ELSE t)
        /\ x.adjusts <=> ~held \/ servo[c] = "STABLE"
    BY <2>1
  <2>3. clock'[c].servo = servo[c] BY <1>2 DEF Sampled
  <2> QED BY <2>2, <2>3
<1> QED BY <1>2, <1>4, <1>5

\* ts2phc_collect_pps_source_tstamp(): the clocks with the time stamp of a
\* source that is one.
WithSource ==
    IF conf.src = "phc"
    THEN [clock EXCEPT ![Source].avail = TRUE, ![Source].ts = ts2phc_pps_source_implicit_tstamp(now)]
    ELSE clock

LEMMA WithSourceRight ==
    ASSUME IInv, pc = "sync"
    PROVE  /\ WithSource \in [Present -> ClockType]
           /\ \A c \in Present :
                /\ WithSource[c].state = clock[c].state
                /\ WithSource[c].new_state = clock[c].new_state
                /\ WithSource[c].is_target = clock[c].is_target
                /\ WithSource[c].servo = clock[c].servo
                /\ WithSource[c].avail =>
                     \/ /\ c \in Sinks /\ WithSource[c].ts % Q = 0
                        /\ ~missed => WithSource[c].ts = now
                     \/ /\ c = Source /\ conf.src = "phc"
                        /\ WithSource[c].ts = ts2phc_pps_source_implicit_tstamp(now)
<1>0. TypeOK /\ KeepsUp /\ Collects /\ Together BY DEF IInv
<1>1. clock \in [Present -> ClockType] /\ collected \subseteq Sinks BY <1>0 DEF TypeOK
<1>2. now \in Nat /\ now <= MaxTime BY <1>0, Constants DEF TypeOK
<1>3. EdgeNow BY <1>0 DEF KeepsUp
<1>4. \A c \in Present : clock[c].avail =>
         c \in Sinks /\ clock[c].ts % Q = 0 /\ (~missed => clock[c].ts = now)
  BY <1>0, <1>1 DEF Collects, Together
<1>5. CASE conf.src = "phc"
  <2> DEFINE t == ts2phc_pps_source_implicit_tstamp(now)
  <2>1. t \in 0..MaxTime
    BY <1>2, <1>3, <1>5, Constants DEF ts2phc_pps_source_implicit_tstamp, EdgeNow, Q
  <2>2. Source \in Present BY <1>5 DEF Present, Clocks
  <2> HIDE DEF t
  <2>3. \A c \in Present : WithSource[c] =
           IF c = Source THEN [clock[c] EXCEPT !.avail = TRUE, !.ts = t] ELSE clock[c]
    BY <1>1, <1>5, <2>2 DEF WithSource, t
  <2>4. WithSource = [c \in Present |-> WithSource[c]] BY <1>1, <1>5 DEF WithSource
  <2>5. clock[Source] \in ClockType BY <1>1, <2>2
  <2>6. /\ WithSource[Source] \in ClockType /\ WithSource[Source].ts = t
        /\ WithSource[Source].state = clock[Source].state
        /\ WithSource[Source].new_state = clock[Source].new_state
        /\ WithSource[Source].is_target = clock[Source].is_target
        /\ WithSource[Source].servo = clock[Source].servo
    BY <2>1, <2>2, <2>3, <2>5 DEF ClockType
  <2>7. WithSource \in [Present -> ClockType] BY <1>1, <2>3, <2>4, <2>6
  <2> QED BY <1>4, <1>5, <2>3, <2>6, <2>7 DEF t
<1>6. CASE conf.src # "phc"
  BY <1>1, <1>4, <1>6 DEF WithSource
<1> QED BY <1>5, <1>6

\* A clock that is sampled with the time of the source has an offset of zero,
\* one that is held has an offset of zero to its own second.
LEMMA OffsetZero ==
    ASSUME IInv, pc = "sync", ~missed, NEW c \in Present, WithSource[c].avail
    PROVE  /\ ts2phc_pps_source_getppstime # None =>
                WithSource[c].ts
                  = ts2phc_pps_source_implicit_tstamp(ts2phc_pps_source_getppstime)
           /\ c \in Sinks => WithSource[c].ts = now /\ now % Q = 0 /\ Nearest(now) = now
           /\ now % Q = 0 => WithSource[c].ts = now
<1>0. TypeOK /\ TableRight /\ SentenceRight BY DEF IInv
<1>1. now \in Nat BY <1>0, Constants DEF TypeOK
<1>2. CASE c \in Sinks
  <2>1. WithSource[c].ts = now /\ now % Q = 0
    <3>1. c # Source BY <1>2 DEF Sinks, Source
    <3> QED BY <3>1, WithSourceRight
  <2>2. ts2phc_pps_source_implicit_tstamp(now - Lag) = now BY <1>0, <2>1, ImplicitRight
  <2>3. Nearest(now) = now BY <1>1, <2>1 DEF Nearest, Q
  <2> QED BY <1>0, <2>1, <2>2, <2>3, TimeRight
<1>3. CASE c \notin Sinks
  <2>1. conf.src = "phc" /\ WithSource[c].ts = ts2phc_pps_source_implicit_tstamp(now)
    BY <1>3, WithSourceRight
  <2>2. ts2phc_pps_source_getppstime = now
    BY <2>1 DEF ts2phc_pps_source_getppstime, ts2phc_phc_pps_source_getppstime
  <2>3. now - Lag = now BY <1>1, <2>1 DEF Lag
  <2> QED BY <1>0, <1>3, <2>1, <2>2, <2>3, ImplicitRight
<1> QED BY <1>2, <1>3


\* The ways through ts2phc_synchronize_clocks(): no reference or none with a
\* time stamp; the reference's time; the source's time; holdover.
LEMMA SynchronizeCases ==
    ASSUME IInv, Synchronize
    PROVE  LET read == ts2phc_pps_source_getppstime IN
           \/ samples' = {} /\ clock' = WithSource /\ holdover' = holdover
           \/ /\ conf.auto /\ ref \in Present /\ WithSource[ref].avail /\ holdover' = -1
              /\ SampleAll([WithSource EXCEPT ![ref].avail = FALSE], WithSource[ref].ts, FALSE)
           \/ /\ ~conf.auto /\ read # None /\ holdover' = -1
              /\ SampleAll(WithSource, ts2phc_pps_source_implicit_tstamp(read), FALSE)
           \/ /\ ~conf.auto /\ read = None
              /\ holdover' = IF holdover = -1 THEN now \div Q ELSE holdover
              /\ \/ samples' = {} /\ clock' = WithSource
                 \/ SampleAll(WithSource, 0, TRUE)
<1> DEFINE read == ts2phc_pps_source_getppstime
           t == IF read = None THEN None ELSE ts2phc_pps_source_implicit_tstamp(read)
           K == IF conf.src = "phc"
                THEN [clock EXCEPT ![Source].avail = TRUE, ![Source].ts = t] ELSE clock
           start == IF holdover = -1 THEN now \div Q ELSE holdover
<1>0. TypeOK /\ TableRight /\ SentenceRight BY DEF IInv
<1>1. conf \in ConfType /\ now \in Nat /\ None \notin Int
  BY <1>0, Ts2phcAssumption, Constants DEF TypeOK
<1>2. conf.src = "phc" => read = now /\ read # None
  BY <1>1 DEF ts2phc_pps_source_getppstime, ts2phc_phc_pps_source_getppstime
<1>3. K = WithSource BY <1>2 DEF WithSource
<1>4. read # None => t = ts2phc_pps_source_implicit_tstamp(read) /\ t # None
  <2> SUFFICES ASSUME read # None PROVE t = ts2phc_pps_source_implicit_tstamp(read) /\ t # None
    OBVIOUS
  <2>1. t = ts2phc_pps_source_implicit_tstamp(read) OBVIOUS
  <2>2. read = now - Lag /\ Lag \in Int BY <1>0, <1>1, TimeRight DEF Lag, ConfType
  <2>3. read \in Int BY <1>1, <2>2
  <2> HIDE DEF read
  <2>4. ts2phc_pps_source_implicit_tstamp(read) \in Int
    BY <2>3 DEF ts2phc_pps_source_implicit_tstamp, Q
  <2> QED BY <1>1, <2>1, <2>4
<1>5. read = None => t = None OBVIOUS
<1>6. IF conf.auto
      THEN /\ IF ref = None \/ (ref # None /\ ~K[ref].avail)
              THEN samples' = {} /\ clock' = K /\ UNCHANGED holdover
              ELSE /\ SampleAll([K EXCEPT ![ref].avail = FALSE], K[ref].ts, FALSE)
                   /\ holdover' = -1
      ELSE IF t # None THEN SampleAll(K, t, FALSE) /\ holdover' = -1
      ELSE /\ holdover' = start
           /\ IF now \div Q >= start + HoldoverLength THEN Skip
              ELSE SampleAll(K, 0, TRUE)
  BY DEF Synchronize
<1>7. Skip => samples' = {} /\ clock' = clock BY DEF Skip
<1>8. read = None => WithSource = clock BY <1>2 DEF WithSource
<1>9. ref # None => ref \in Present BY <1>0 DEF TypeOK
<1> HIDE DEF K, t, read
<1>10. CASE conf.auto BY <1>3, <1>6, <1>9, <1>10
<1>11. CASE ~conf.auto /\ read # None BY <1>3, <1>4, <1>6, <1>11 DEF read
<1>12. CASE ~conf.auto /\ read = None
  <2>1. t = None BY <1>5, <1>12
  <2>2. /\ holdover' = start
        /\ Skip \/ SampleAll(K, 0, TRUE)
    BY <1>6, <1>12, <2>1
  <2> QED BY <1>3, <1>7, <1>8, <1>12, <2>2 DEF read
<1> QED BY <1>10, <1>11, <1>12

\* What synchronizing does, to the clocks and as samples.
LEMMA SynchronizeEffect ==
    ASSUME IInv, Synchronize
    PROVE  /\ clock' \in [Present -> ClockType] /\ holdover' \in -1..MaxTime
           /\ \A c \in Present :
                /\ clock'[c].state = clock[c].state /\ clock'[c].new_state = clock[c].new_state
                /\ clock'[c].is_target = clock[c].is_target
           /\ \A x \in samples' :
                /\ x.held /\ x.adjusts =>
                     clock'[x.clock].servo = "STABLE" /\ clock[x.clock].servo = "STABLE"
                /\ ~missed => x.offset = 0
                /\ x.clock \notin conf.listed \/ port[x.clock] # "SLAVE"
<1> DEFINE W == WithSource
           read == ts2phc_pps_source_getppstime
<1>0. TypeOK /\ PortsFollowed BY DEF IInv
<1>1. pc = "sync" /\ ~changed BY <1>0 DEF PortsFollowed, Synchronize
<1>2. now \in Nat /\ now <= MaxTime /\ MaxTime \in Nat /\ holdover \in -1..MaxTime
  BY <1>0, Constants DEF TypeOK
<1>3. now \div Q \in 0..MaxTime BY <1>2 DEF Q
<1>4. /\ W \in [Present -> ClockType]
      /\ \A c \in Present :
           /\ W[c].state = clock[c].state /\ W[c].new_state = clock[c].new_state
           /\ W[c].is_target = clock[c].is_target /\ W[c].servo = clock[c].servo
  BY <1>1, WithSourceRight
<1>5. \A c \in Present : W[c].ts \in Int BY <1>4, Constants DEF ClockType
<1>6. ASSUME ~missed, NEW c \in Present, W[c].avail
      PROVE  /\ read # None => W[c].ts = ts2phc_pps_source_implicit_tstamp(read)
             /\ c \in Sinks => W[c].ts = now /\ now % Q = 0 /\ Nearest(now) = now
             /\ now % Q = 0 => W[c].ts = now
  BY <1>1, <1>6, OffsetZero
<1>p. ~conf.auto => \A c \in conf.listed : port[c] # "SLAVE" BY <1>0 DEF PortsFollowed
<1> HIDE DEF W, read
<1>7. CASE samples' = {} /\ clock' = W /\ holdover' = holdover
  BY <1>2, <1>4, <1>7
<1>8. CASE /\ conf.auto /\ ref \in Present /\ W[ref].avail /\ holdover' = -1
           /\ SampleAll([W EXCEPT ![ref].avail = FALSE], W[ref].ts, FALSE)
  <2> DEFINE K == [W EXCEPT ![ref].avail = FALSE]
             T == W[ref].ts
  <2>1. K \in [Present -> ClockType] BY <1>4, <1>8 DEF ClockType
  <2>2. \A c \in Present :
           /\ K[c].state = W[c].state /\ K[c].new_state = W[c].new_state
           /\ K[c].is_target = W[c].is_target /\ K[c].ts = W[c].ts
           /\ K[c].avail => c # ref /\ W[c].avail
    BY <1>4, <1>8 DEF ClockType
  <2>3. SampleAll(K, T, FALSE) BY <1>8
  <2> HIDE DEF K, T
  <2>4. /\ clock' \in [Present -> ClockType]
        /\ \A c \in Present :
             /\ clock'[c].state = K[c].state /\ clock'[c].new_state = K[c].new_state
             /\ clock'[c].is_target = K[c].is_target
        /\ \A x \in samples' :
             /\ x.clock \in Sampled(K, FALSE) /\ x.held = FALSE
             /\ x.offset = K[x.clock].ts - T
    BY <2>1, <2>3, SampleRight
  <2>5. ASSUME NEW x \in samples'
        PROVE  /\ ~x.held
               /\ ~missed => x.offset = 0
               /\ x.clock \notin conf.listed \/ port[x.clock] # "SLAVE"
    <3> DEFINE c == x.clock
    <3>1. c \in Present /\ K[c].is_target /\ K[c].avail /\ ~x.held /\ x.offset = K[c].ts - T
      BY <2>4 DEF Sampled
    <3> HIDE DEF c
    <3>2. W[c].avail /\ c # ref /\ clock[c].is_target /\ K[c].ts = W[c].ts
      BY <1>4, <2>2, <3>1
    <3>3. ref # None
      <4>1. None \notin Int BY Constants
      <4> QED BY <1>8, <4>1 DEF Present, Clocks, Sinks, Source
    <3>4. c \in conf.listed => port[c] # "SLAVE"
      BY <1>0, <1>1, <1>8, <3>2, <3>3 DEF PortsFollowed
    <3>5. ASSUME ~missed PROVE W[c].ts = W[ref].ts
      <4>1. c \in Sinks \/ ref \in Sinks
        BY <1>8, <3>1, <3>2 DEF Present, Clocks
      <4>2. now % Q = 0 BY <1>6, <1>8, <3>1, <3>2, <3>5, <4>1
      <4> QED BY <1>6, <1>8, <3>1, <3>2, <3>5, <4>2
    <3>6. ~missed => x.offset = 0
      BY <1>5, <1>8, <3>1, <3>2, <3>5 DEF T
    <3> QED BY <3>1, <3>4, <3>6 DEF c
  <2> QED BY <1>2, <1>4, <1>8, <2>2, <2>4, <2>5
<1>9. CASE /\ ~conf.auto /\ read # None /\ holdover' = -1
           /\ SampleAll(W, ts2phc_pps_source_implicit_tstamp(read), FALSE)
  <2> DEFINE T == ts2phc_pps_source_implicit_tstamp(read)
  <2>1. /\ clock' \in [Present -> ClockType]
        /\ \A c \in Present :
             /\ clock'[c].state = W[c].state /\ clock'[c].new_state = W[c].new_state
             /\ clock'[c].is_target = W[c].is_target
        /\ \A x \in samples' :
             /\ x.clock \in Sampled(W, FALSE) /\ x.held = FALSE
             /\ x.offset = W[x.clock].ts - T
    BY <1>4, <1>9, SampleRight
  <2> HIDE DEF T
  <2>2. ASSUME NEW x \in samples' PROVE ~x.held /\ (~missed => x.offset = 0)
    <3>1. x.clock \in Present /\ W[x.clock].avail /\ ~x.held /\ x.offset = W[x.clock].ts - T
      BY <2>1 DEF Sampled
    <3>2. ~missed => W[x.clock].ts = T BY <1>6, <1>9, <3>1 DEF T
    <3> QED BY <1>5, <3>1, <3>2
  <2> QED BY <1>2, <1>4, <1>9, <1>p, <2>1, <2>2
<1>10. CASE /\ ~conf.auto /\ read = None
            /\ holdover' = IF holdover = -1 THEN now \div Q ELSE holdover
            /\ SampleAll(W, 0, TRUE)
  <2>1. /\ clock' \in [Present -> ClockType]
        /\ \A c \in Present :
             /\ clock'[c].state = W[c].state /\ clock'[c].new_state = W[c].new_state
             /\ clock'[c].is_target = W[c].is_target
        /\ \A x \in samples' :
             /\ x.clock \in Sampled(W, TRUE) /\ x.held = TRUE
             /\ x.offset = W[x.clock].ts - Nearest(W[x.clock].ts)
             /\ x.held /\ x.adjusts => clock'[x.clock].servo = "STABLE"
    BY <1>4, <1>10, SampleRight
  <2>2. Present = Sinks
    <3>1. conf.src # "phc"
      <4>1. None # now BY <1>2, Constants
      <4> QED BY <1>10, <4>1
           DEF read, ts2phc_pps_source_getppstime, ts2phc_phc_pps_source_getppstime
    <3> QED BY <3>1 DEF Present
  <2>3. ASSUME NEW x \in samples'
        PROVE  clock[x.clock].servo = "STABLE" /\ (~missed => x.offset = 0)
    <3>1. /\ x.clock \in Present /\ W[x.clock].avail /\ W[x.clock].servo = "STABLE"
          /\ x.offset = W[x.clock].ts - Nearest(W[x.clock].ts)
      BY <2>1 DEF Sampled
    <3>2. ~missed => W[x.clock].ts = now /\ Nearest(now) = now BY <1>6, <2>2, <3>1
    <3> QED BY <1>2, <1>4, <3>1, <3>2
  <2>4. holdover' \in -1..MaxTime BY <1>2, <1>3, <1>10
  <2>5. \A c \in Present :
           /\ clock'[c].state = clock[c].state /\ clock'[c].new_state = clock[c].new_state
           /\ clock'[c].is_target = clock[c].is_target
    BY <1>4, <2>1
  <2>6. \A x \in samples' : x.clock \notin conf.listed \/ port[x.clock] # "SLAVE"
    BY <1>10, <1>p
  <2> QED BY <2>1, <2>3, <2>4, <2>5, <2>6
<1>11. CASE /\ holdover' = IF holdover = -1 THEN now \div Q ELSE holdover
            /\ samples' = {} /\ clock' = W
  BY <1>2, <1>3, <1>4, <1>11
<1> QED BY <1>7, <1>8, <1>9, <1>10, <1>11, SynchronizeCases DEF W, read


\* The clocks are synchronized.
LEMMA SynchronizeStep ==
    ASSUME IInv, Synchronize
    PROVE  IInv'
<1>0. TypeOK /\ TableRight /\ SentenceRight /\ KeepsUp /\ Together /\ PortsFollowed BY DEF IInv
<1>1. /\ pc = "sync" /\ pc' = "top" /\ (tab' = tab \/ tab' = Looked)
      /\ UNCHANGED <<conf, port, changed, ref, collected, ignore, idle, rmc, link, file,
                     now, due, fifo, faults, missed>>
  BY DEF Synchronize, nmeaVars, world
<1>2. Present' = Present /\ Ready' = Ready BY <1>1 DEF Present, Ready
<1>3. /\ clock' \in [Present -> ClockType] /\ holdover' \in -1..MaxTime
      /\ \A c \in Present :
           /\ clock'[c].state = clock[c].state /\ clock'[c].new_state = clock[c].new_state
           /\ clock'[c].is_target = clock[c].is_target
      /\ \A x \in samples' :
           /\ x.held /\ x.adjusts =>
                clock'[x.clock].servo = "STABLE" /\ clock[x.clock].servo = "STABLE"
           /\ ~missed => x.offset = 0
           /\ x.clock \notin conf.listed \/ port[x.clock] # "SLAVE"
  BY SynchronizeEffect
<1>4. TypeOK' BY <1>0, <1>1, <1>2, <1>3 DEF TypeOK
<1>5. TableRight'
  <2>1. RowsRight(tab') /\ (file = Old => tab'.mtime = 1)
    BY <1>0, <1>1, LookedRight DEF TableRight
  <2> QED BY <1>0, <1>1, <2>1 DEF TableRight, RowsRight, Files, Old, New
<1>6. SentenceRight' BY <1>0, <1>1 DEF SentenceRight, Utc
<1>7. KeepsUp' BY <1>0, <1>1, <1>2 DEF KeepsUp, EdgeNow
<1>8. Collects' BY <1>1 DEF Collects
<1>9. Together' BY <1>0, <1>1, <1>2 DEF Together
<1>10. PortsFollowed'
  <2>1. conf.listed \subseteq Present BY <1>0, ListedPresent
  <2> QED BY <1>0, <1>1, <1>3, <2>1 DEF PortsFollowed
<1>11. SlaveNotSteered' BY <1>1, <1>3 DEF SlaveNotSteered
<1>12. HeldStable' BY <1>3 DEF HeldStable
<1>13. EdgesMatch' BY <1>1, <1>3 DEF EdgesMatch
<1> QED BY <1>4, <1>5, <1>6, <1>7, <1>8, <1>9, <1>10, <1>11, <1>12, <1>13 DEF IInv

\* No step breaks the invariant.
LEMMA NextStep ==
    ASSUME IInv, [Next]_vars
    PROVE  IInv'
<1>1. CASE Turn BY <1>1, TurnStep
<1>2. CASE ts2phc_pps_sink_poll BY <1>2, PollStep
<1>3. CASE PollTimesOut BY <1>3, TimeoutStep
<1>4. CASE Synchronize BY <1>4, SynchronizeStep
<1>5. ASSUME NEW p \in Clocks, NEW s \in PortStates, ts2phc_recv_subscribed(p, s) PROVE IInv'
  BY <1>5, SubscribedStep
<1>6. ASSUME NEW s \in Sinks, EdgeArrives(s) PROVE IInv' BY <1>6, ArrivesStep
<1>7. ASSUME NEW s \in Sinks, EdgeLost(s) PROVE IInv' BY <1>7, LostStep
<1>8. CASE PulseMissing BY <1>8, MissingStep
<1>9. ASSUME NEW valid \in BOOLEAN, monitor_nmea_status(valid) PROVE IInv'
  BY <1>9, SentenceStep
<1>10. CASE CloseNmea \/ open_nmea_connection BY <1>10, LinkStep
<1>11. CASE ReplaceFile BY <1>11, ReplaceStep
<1>12. CASE Tick BY <1>12, TickStep
<1>13. CASE UNCHANGED vars
  <2>1. Present' = Present /\ Ready' = Ready BY <1>13 DEF Present, Ready, vars
  <2>2. TypeOK' /\ PortsFollowed' BY <1>13, <2>1 DEF IInv, TypeOK, PortsFollowed, vars
  <2>3. TableRight' /\ SentenceRight' BY <1>13 DEF IInv, TableRight, SentenceRight, Utc, vars
  <2>4. KeepsUp' /\ Collects' /\ Together'
    BY <1>13, <2>1 DEF IInv, KeepsUp, EdgeNow, Collects, Together, vars
  <2>5. EdgesMatch' /\ SlaveNotSteered' /\ HeldStable'
    BY <1>13 DEF IInv, EdgesMatch, SlaveNotSteered, HeldStable, vars
  <2> QED BY <2>2, <2>3, <2>4, <2>5 DEF IInv
<1> QED
  BY <1>1, <1>2, <1>3, <1>4, <1>5, <1>6, <1>7, <1>8, <1>9, <1>10, <1>11, <1>12, <1>13 DEF Next

\* The invariant holds always.
LEMMA Invariance == Spec => []IInv
<1>1. IInv /\ [Next]_vars => IInv' BY NextStep
<1> QED BY <1>1, Initially, PTL DEF Spec

\* What ts2phc steers it steers rightly: as long as no sink missed an edge, no
\* clock is moved by whole seconds, whatever the leap second, the age and the
\* loss of sentences and the moment in which the table is replaced
\* (ts2phc_pps_source_implicit_tstamp(), lstab_utc2tai()); and the clock that
\* ptp4l disciplines is never steered as well (ts2phc_reconfigure()).
THEOREM AlwaysSteersRightly == Spec => []SteersRightly
<1>1. IInv => SteersRightly BY DEF IInv, SteersRightly
<1> QED BY <1>1, Invariance, PTL

\* In holdover only a clock whose servo was stable is adjusted
\* (ts2phc_synchronize_clocks()).
THEOREM HoldoverAlwaysEnds == Spec => HoldoverEnds
<1> DEFINE A == \A s \in samples' : s.held /\ s.adjusts => clock[s.clock].servo = "STABLE"
<1>1. ASSUME IInv, [Next]_vars PROVE [A]_vars
  <2>1. CASE Synchronize BY <1>1, <2>1, SynchronizeEffect
  <2>2. CASE samples' = {} BY <2>2
  <2>3. CASE samples' = samples BY <1>1, <2>3 DEF IInv, HeldStable
  <2>4. Synchronize \/ samples' = {} \/ samples' = samples
    BY <1>1 DEF Next, Turn, ts2phc_pps_sink_poll, PollTimesOut, ts2phc_recv_subscribed,
                EdgeArrives, EdgeLost, PulseMissing, monitor_nmea_status, CloseNmea,
                open_nmea_connection, ReplaceFile, Tick, Program, vars
  <2> QED BY <2>1, <2>2, <2>3, <2>4
<1>2. IInv /\ [Next]_vars => [A]_vars BY <1>1
<1> QED BY <1>2, Invariance, PTL DEF Spec, HoldoverEnds
=============================================================================
