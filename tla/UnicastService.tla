--------------------------- MODULE UnicastService ---------------------------
(****************************************************************************)
(* The grantor's side, unicast_service.c: contracts are kept per message    *)
(* interval, the intervals wait in a priority queue for their next          *)
(* transmission, and one timer is armed for the first of them.              *)
(*                                                                          *)
(* Times are seconds from now.  A client record with no message types does  *)
(* not exist (the code frees it); a record expired once its grant_tmo is    *)
(* negative.  An interval is named by its length, since the code keeps at   *)
(* most one of each.                                                        *)
(****************************************************************************)
EXTENDS Integers, Sequences, SequencesExt, PQueue

CONSTANTS
    Clients,     \* addresses of the clients
    Intervals,   \* message intervals, in seconds
    Grant,       \* longest duration that is asked for
    MaxLag       \* bound: how far an interval's time stays behind

Served == {"ANNOUNCE", "SYNC"}  \* types that need a record
Stopped == Grant + 100          \* the timer is not armed

NoClient == [types |-> {}, grant_tmo |-> -1]
NoInterval == [exists |-> FALSE, tmo |-> 0, clients |-> [c \in Clients |-> NoClient]]

ServiceType ==
    [interval : [Intervals ->
        [exists : BOOLEAN, tmo : Int,
         clients : [Clients -> [types : SUBSET Served, grant_tmo : -1..Grant]]]],
     queue : Seq(Intervals),
     timer : Int]

unicast_service_initialize ==
    [interval |-> [i \in Intervals |-> NoInterval], queue |-> <<>>, timer |-> Stopped]

\* pqueue.c with compare_timeout() for the times tmo.
HeapInsert(tmo, q, i) == pqueue_insert(q, i, tmo)

HeapExtract(tmo, q) == pqueue_extract(q, tmo)

Times(s) == [i \in Intervals |-> s.interval[i].tmo]

Enqueue(s, i) == [s EXCEPT !.queue = HeapInsert(Times(s), @, i)]

\* The timer fires when the first interval of the queue is due.
unicast_service_rearm_timer(s) ==
    [s EXCEPT !.timer = IF s.queue = <<>> THEN Stopped
                        ELSE s.interval[Head(s.queue)].tmo]

\* Mutant: durations add up.
ExtendAdds(r, duration) == [r EXCEPT !.grant_tmo = @ + duration]

unicast_service_extend(r, duration) ==
    IF duration > r.grant_tmo THEN [r EXCEPT !.grant_tmo = duration] ELSE r

\* A new interval transmits 10 ms from now, that is in this second.
initialize_interval(s, i) ==
    unicast_service_rearm_timer(
        Enqueue([s EXCEPT !.interval[i].exists = TRUE, !.interval[i].tmo = 0], i))

\* Mutant: the contract of another interval is left alone.
KeepStale(s, c, type, i) == s

\* The contracts for the same messages at another interval end.
ClearStale(s, c, type, i) ==
    [s EXCEPT !.interval = [j \in Intervals |->
        LET left == @[j].clients[c].types \ {type}
        IN  IF j = i THEN @[j]
            ELSE [@[j] EXCEPT !.clients[c] =
                      IF left = {} THEN NoClient ELSE [@ EXCEPT !.types = left]]]]

\* Several records of one type are impossible (OneContract), so the order in
\* which the code walks through the intervals does not matter.  memory says
\* whether the allocations succeed.
unicast_service_add(s, c, type, i, duration, memory) ==
    LET mine   == s.interval[i].clients[c]
        clear  == ClearStale(s, c, type, i)
        ready  == IF s.interval[i].exists THEN clear ELSE initialize_interval(clear, i)
        record == unicast_service_extend([mine EXCEPT !.types = @ \cup {type}], duration)
        set(t) == [t EXCEPT !.interval[i].clients[c] = record]
    IN  CASE type \notin Served -> [granted |-> TRUE, service |-> s]
          [] type \in Served /\ type \in mine.types ->
                 [granted |-> TRUE, service |-> set(s)]
          [] type \in Served /\ type \notin mine.types /\ mine.types # {} ->
                 [granted |-> TRUE, service |-> set(clear)]
          [] OTHER -> IF memory THEN [granted |-> TRUE, service |-> set(ready)]
                      ELSE [granted |-> FALSE, service |-> clear]

\* Mutant: the client's whole record goes.
RemoveAll(s, c, type) ==
    [s EXCEPT !.interval = [j \in Intervals |->
        [@[j] EXCEPT !.clients[c] = IF type \in @.types THEN NoClient ELSE @]]]

unicast_service_remove(s, c, type) ==
    IF type \notin Served THEN s
    ELSE [s EXCEPT !.interval = [j \in Intervals |->
        LET left == @[j].clients[c].types \ {type}
        IN  [@[j] EXCEPT !.clients[c] =
                 IF left = {} THEN NoClient ELSE [@ EXCEPT !.types = left]]]]

Expired(r) == r.grant_tmo < 0

\* Expired clients are dropped, the others get their messages.
unicast_service_clients(s, i) ==
    [service |-> [s EXCEPT !.interval[i].clients =
                      [c \in Clients |-> IF Expired(@[c]) THEN NoClient ELSE @[c]]],
     sent |-> {<<c, t>> \in Clients \X Served :
                   /\ t \in s.interval[i].clients[c].types
                   /\ ~Expired(s.interval[i].clients[c])}]

Deserted(s, i) == \A c \in Clients : s.interval[i].clients[c].types = {}

\* One turn of the loop in unicast_service_timer(): the first interval is
\* served if the port is a master, and retired or queued again.
ServeFirst(a, master) ==
    LET i      == Head(a.service.queue)
        out    == [a.service EXCEPT !.queue = HeapExtract(Times(a.service), @)]
        served == IF master THEN unicast_service_clients(out, i)
                  ELSE [service |-> out, sent |-> {}]
        after(s) == IF Deserted(s, i)
                    THEN [s EXCEPT !.interval[i] = NoInterval]
                    ELSE Enqueue([s EXCEPT !.interval[i].tmo = @ + i], i)
    IN  [service |-> after(served.service), sent |-> a.sent \cup served.sent]

FirstDue(s) == s.queue # <<>> /\ s.interval[Head(s.queue)].tmo <= 0

\* Every interval is due at most MaxLag + 1 times.
unicast_service_timer(s, master) ==
    LET turn(a, n) == IF FirstDue(a.service) THEN ServeFirst(a, master) ELSE a
        end == FoldLeft(turn, [service |-> s, sent |-> {}],
                        [n \in 1..(Cardinality(Intervals) * (MaxLag + 1)) |-> n])
    IN  [end EXCEPT !.service = unicast_service_rearm_timer(@)]

\* One second passes.
ServiceTick(s) ==
    [s EXCEPT !.timer = IF @ = Stopped THEN @ ELSE @ - 1,
              !.interval = [i \in Intervals |->
        [@[i] EXCEPT !.tmo = IF s.interval[i].exists /\ @ > -MaxLag THEN @ - 1 ELSE @,
                     !.clients = [c \in Clients |->
             [@[c] EXCEPT !.grant_tmo = IF @ >= 0 THEN @ - 1 ELSE @]]]]]

\* The contract of a client for a type: the time left, or NoContract.
NoContract == -2

Contract(s, c, type) ==
    LET at == {i \in Intervals : type \in s.interval[i].clients[c].types}
    IN  IF at = {} THEN NoContract
        ELSE s.interval[CHOOSE i \in at : TRUE].clients[c].grant_tmo
=============================================================================
