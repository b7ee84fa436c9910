----------------------------- MODULE EventMonitor ----------------------------
(****************************************************************************)
(* The slave event monitor (monitor.c): the port reports every Sync and     *)
(* every Delay_Resp it uses; when a message is full of records, it is       *)
(* forwarded to the monitoring program.  The message is reused: it holds    *)
(* the records of the message before until they are overwritten.            *)
(****************************************************************************)
EXTENDS Naturals

CONSTANTS
    Parents,            \* masters
    RecordsPerMessage,  \* RECORDS_PER_MESSAGE
    MaxRecords          \* bound: events reported

ASSUME MonitorAssumption ==
    RecordsPerMessage \in Nat \ {0} /\ MaxRecords \in Nat

VARIABLES
    mon,       \* of each kind of event: the source named, count, the records
    events,    \* events so far
    forwarded  \* history: the message forwarded last, and its kind

mvars == <<mon, events, forwarded>>

Blank == [src |-> "wildcard", n |-> 0]

\* monitor_init_message()
monitor_init_message ==
    [source |-> "wildcard", count |-> 0,
     record |-> [i \in 0..(RecordsPerMessage - 1) |-> Blank], sequenceId |-> 0]

\* monitor_create(); an inactive monitor does nothing.
MonInit ==
    /\ mon = [k \in {"sync", "delay"} |-> monitor_init_message]
    /\ events = 0 /\ forwarded = <<>>

\* Mutant: the records of the former master are kept.
NameOnly(mm, src) == [mm EXCEPT !.source = src]

\* A change of the master drops the records that are there.
NameSource(mm, src) ==
    IF mm.source = src THEN mm ELSE [mm EXCEPT !.source = src, !.count = 0]

\* Mutant: full one record late.
FullLate(mm) == mm.count > RecordsPerMessage

Full(mm) == mm.count = RecordsPerMessage

\* monitor_forward(): a conversion that fails keeps it from sending, or only
\* from counting; a failure to send is only logged.
monitor_forward(mm, counted) ==
    [mm EXCEPT !.sequenceId = IF counted THEN (@ + 1) % 2 ELSE @]

Record(kind, src, sent, counted) ==
    /\ events < MaxRecords /\ events' = events + 1
    /\ LET named == NameSource(mon[kind], src)
           more == [named EXCEPT !.record[named.count] = [src |-> src, n |-> events + 1],
                                 !.count = @ + 1]
       IN  IF Full(more)
           THEN /\ mon' = [mon EXCEPT ![kind] = monitor_forward([more EXCEPT !.count = 0], counted)]
                /\ forwarded' = IF sent THEN <<more>> ELSE <<>>
           ELSE mon' = [mon EXCEPT ![kind] = more] /\ forwarded' = <<>>

monitor_sync(src, sent, counted) == Record("sync", src, sent, counted)
monitor_delay(src, sent, counted) == Record("delay", src, sent, counted)

MonNext ==
    \E src \in Parents, sent, counted \in BOOLEAN :
        monitor_sync(src, sent, counted) \/ monitor_delay(src, sent, counted)

-----------------------------------------------------------------------------
\* No record is written behind the end of the message.
RecordFits == \A k \in DOMAIN mon : mon[k].count \in DOMAIN mon[k].record

\* A message that is forwarded holds records of the master it names only, in the
\* order of the events, and none that was forwarded before (monitor_sync(),
\* monitor_delay()).
ForwardsFresh ==
    forwarded # <<>> =>
        LET mm == forwarded[1]
        IN  /\ \A i \in DOMAIN mm.record : mm.record[i].src = mm.source
            /\ \A i, j \in DOMAIN mm.record : i < j => mm.record[i].n < mm.record[j].n
            /\ mm.record[RecordsPerMessage - 1].n = events
=============================================================================
