---------------------------- MODULE Exchange_proof ---------------------------
(****************************************************************************)
(* Theorems about the places where a message is put together with what      *)
(* belongs to it, each for every value of its constants: the port that      *)
(* matches Sync and Follow_Up, whose message buffers stay in order, the     *)
(* exchange of the NetSync monitor, the time stamps of the event socket and *)
(* the records of the slave event monitor.                                  *)
(****************************************************************************)
EXTENDS MCSyncFup, FiniteSetTheorems, TLAPS

\* Two numbers with the same remainder that are less than M apart are equal:
\* what the comparison of sequence numbers of port_syfufsm() rests on.
LEMMA SameRemainder ==
    ASSUME NEW M \in Nat, NEW a \in Nat, NEW b \in Nat,
           a % M = b % M, a - b < M, b - a < M
    PROVE  a = b
<1> DEFINE qa == a \div M
           qb == b \div M
<1>1. M > 0 OBVIOUS
<1>2. /\ qa \in Nat /\ qb \in Nat
      /\ a = M * qa + (a % M) /\ b = M * qb + (b % M) /\ a % M \in 0..(M - 1)
  BY <1>1
<1> HIDE DEF qa, qb
<1>3. CASE qa < qb
  <2>1. M * (qb - qa) >= M BY <1>1, <1>2, <1>3
  <2> QED BY <1>2, <2>1
<1>4. CASE qb < qa
  <2>1. M * (qa - qb) >= M BY <1>1, <1>2, <1>4
  <2> QED BY <1>2, <2>1
<1> QED BY <1>2, <1>3, <1>4

-----------------------------------------------------------------------------
Storing(p) == p.syfu # "SF_EMPTY"

StoredTyped(p) ==
    /\ p.syfu = "SF_HAVE_SYNC" => p.content[p.last].kind = "SYNC"
    /\ p.syfu = "SF_HAVE_FUP" => p.content[p.last].kind = "FOLLOW_UP"

\* A port between two receptions.
Resting(p) ==
    /\ p \in PortType
    /\ Buffers \ p.pool = IF Storing(p) THEN {p.last} ELSE {}
    /\ Storing(p) => p.refcnt[p.last] = 1
    /\ StoredTyped(p)

\* A port that handles the message in buffer b.
Handling(p, b) ==
    /\ p \in PortType /\ b \in Buffers
    /\ Buffers \ p.pool = IF Storing(p) THEN {p.last, b} ELSE {b}
    /\ p.refcnt[b] = 1
    /\ Storing(p) => p.last # b /\ p.refcnt[p.last] = 1
    /\ StoredTyped(p)

Contents == [Buffers -> Messages \cup {NoMessage}]
Counts == [Buffers -> -1..2]

\* What msg_allocate() does to the fields of a port.
LEMMA AllocateFields ==
    ASSUME NEW p \in PortType, NEW b \in Buffers, NEW m \in Messages \cup {NoMessage}
    PROVE  LET q == msg_allocate(p, b, m)
           IN  /\ q \in PortType
               /\ q.state = p.state /\ q.syfu = p.syfu /\ q.last = p.last
               /\ q.pool = p.pool \ {b}
               /\ q.refcnt[b] = 1 /\ q.content[b] = m
               /\ \A x \in Buffers \ {b} : /\ q.refcnt[x] = p.refcnt[x]
                                           /\ q.content[x] = p.content[x]
<1> DEFINE q == msg_allocate(p, b, m)
           r == [p.refcnt EXCEPT ![b] = 1]
           c == [p.content EXCEPT ![b] = m]
           l == p.pool \ {b}
<1>1. q = [p EXCEPT !.refcnt = r, !.content = c, !.pool = l]
  BY Zenon DEF msg_allocate
<1>2. /\ r \in Counts /\ c \in Contents /\ l \in SUBSET Buffers
      /\ r[b] = 1 /\ c[b] = m
      /\ \A x \in Buffers \ {b} : r[x] = p.refcnt[x] /\ c[x] = p.content[x]
  BY DEF PortType, Counts, Contents
<1> HIDE DEF q, r, c, l
<1>3. /\ q \in PortType
      /\ q.state = p.state /\ q.syfu = p.syfu /\ q.last = p.last
      /\ q.refcnt = r /\ q.content = c /\ q.pool = l
  BY <1>1, <1>2 DEF PortType, Counts, Contents
<1> QED BY <1>2, <1>3 DEF q, l

\* msg_allocate() hands out a buffer of the pool.
LEMMA Allocate ==
    ASSUME NEW p, Resting(p), NEW b \in p.pool, NEW m \in Messages \cup {NoMessage}
    PROVE  LET q == msg_allocate(p, b, m)
           IN  /\ Handling(q, b) /\ q.content[b] = m
               /\ q.state = p.state /\ q.syfu = p.syfu /\ q.last = p.last
               /\ q.pool = p.pool \ {b}
               /\ Storing(p) => q.content[p.last] = p.content[p.last]
<1> DEFINE q == msg_allocate(p, b, m)
<1>1. b \in Buffers /\ (Storing(p) => b # p.last)
  BY DEF Resting, PortType
<1>2. /\ q \in PortType /\ q.state = p.state /\ q.syfu = p.syfu /\ q.last = p.last
      /\ q.pool = p.pool \ {b} /\ q.refcnt[b] = 1 /\ q.content[b] = m
      /\ \A x \in Buffers \ {b} : /\ q.refcnt[x] = p.refcnt[x]
                                  /\ q.content[x] = p.content[x]
  BY <1>1, AllocateFields DEF Resting
<1> HIDE DEF q
<1>3. q.content[b] = m /\ (Storing(p) => q.content[p.last] = p.content[p.last])
  BY <1>1, <1>2 DEF Resting, PortType
<1>4. Handling(q, b)
  BY <1>1, <1>2, <1>3 DEF Resting, Handling, PortType, Storing, StoredTyped
<1> QED BY <1>2, <1>3, <1>4 DEF q

\* What msg_put() does to the fields of a port.
LEMMA PutFields ==
    ASSUME NEW p \in PortType, NEW b \in Buffers, p.refcnt[b] \in {0, 1, 2}
    PROVE  LET q == msg_put(p, b)
           IN  /\ q \in PortType
               /\ q.state = p.state /\ q.syfu = p.syfu /\ q.last = p.last
               /\ q.pool = IF p.refcnt[b] = 1 THEN p.pool \cup {b} ELSE p.pool
               /\ q.refcnt[b] = p.refcnt[b] - 1
               /\ p.refcnt[b] # 1 => q.content[b] = p.content[b]
               /\ \A x \in Buffers \ {b} : /\ q.refcnt[x] = p.refcnt[x]
                                           /\ q.content[x] = p.content[x]
<1> DEFINE q == msg_put(p, b)
           n == p.refcnt[b] - 1
           r == [p.refcnt EXCEPT ![b] = n]
           c == [p.content EXCEPT ![b] = IF n = 0 THEN NoMessage ELSE @]
           l == IF n = 0 THEN p.pool \cup {b} ELSE p.pool
<1>1. q = [p EXCEPT !.refcnt = r, !.content = c, !.pool = l]
  BY Zenon DEF msg_put
<1>2. /\ r \in Counts /\ c \in Contents /\ l \in SUBSET Buffers
      /\ r[b] = n /\ (n # 0 => c[b] = p.content[b])
      /\ \A x \in Buffers \ {b} : r[x] = p.refcnt[x] /\ c[x] = p.content[x]
      /\ n = 0 <=> p.refcnt[b] = 1
  BY DEF PortType, Counts, Contents
<1>3. l = IF p.refcnt[b] = 1 THEN p.pool \cup {b} ELSE p.pool
  BY <1>2
<1> HIDE DEF q, r, c, l
<1>4. /\ q \in PortType
      /\ q.state = p.state /\ q.syfu = p.syfu /\ q.last = p.last
      /\ q.refcnt = r /\ q.content = c /\ q.pool = l
  BY <1>1, <1>2 DEF PortType, Counts, Contents
<1> QED BY <1>2, <1>3, <1>4 DEF q

\* bc_event() releases the message it received.
LEMMA Release ==
    ASSUME NEW p, NEW b, Handling(p, b)
    PROVE  LET q == msg_put(p, b)
           IN  /\ Resting(q) /\ q.state = p.state /\ q.syfu = p.syfu /\ q.last = p.last
               /\ Storing(p) => q.content[q.last] = p.content[p.last]
<1> DEFINE q == msg_put(p, b)
<1>1. /\ q \in PortType /\ q.state = p.state /\ q.syfu = p.syfu /\ q.last = p.last
      /\ q.pool = p.pool \cup {b}
      /\ \A x \in Buffers \ {b} : /\ q.refcnt[x] = p.refcnt[x]
                                  /\ q.content[x] = p.content[x]
  BY PutFields DEF Handling
<1> HIDE DEF q
<1>2. p.last \in Buffers BY DEF Handling, PortType
<1>3. Storing(p) => q.content[q.last] = p.content[p.last]
  BY <1>1, <1>2 DEF Handling
<1>4. Resting(q)
  BY <1>1, <1>2, <1>3 DEF Handling, Resting, Storing, StoredTyped, PortType
<1> QED BY <1>1, <1>3, <1>4 DEF q

\* Another state is another state only.
LEMMA SetState ==
    ASSUME NEW p \in PortType, NEW s \in {"LISTENING"} \cup Synced
    PROVE  LET q == [p EXCEPT !.state = s]
           IN  /\ q \in PortType /\ q.state = s /\ q.syfu = p.syfu /\ q.last = p.last
               /\ q.content = p.content /\ q.refcnt = p.refcnt /\ q.pool = p.pool
BY DEF PortType

\* Emptying the buffer leaves the other fields alone.
LEMMA SetEmpty ==
    ASSUME NEW p \in PortType
    PROVE  LET q == [p EXCEPT !.syfu = "SF_EMPTY"]
           IN  /\ q \in PortType /\ q.syfu = "SF_EMPTY" /\ q.state = p.state
               /\ q.last = p.last /\ q.content = p.content /\ q.refcnt = p.refcnt
               /\ q.pool = p.pool
BY DEF PortType

\* The stored message, if there is one, goes back to the pool.
Dropped(p, q) ==
    /\ q.last = p.last /\ q.syfu = "SF_EMPTY"
    /\ Storing(p) => p.last \in q.pool /\ q.refcnt[p.last] = 0
    /\ p.pool \subseteq q.pool

\* flush_last_sync() of a port at rest.
LEMMA FlushResting ==
    ASSUME NEW p, Resting(p)
    PROVE  /\ Resting(flush_last_sync(p)) /\ flush_last_sync(p).syfu = "SF_EMPTY"
           /\ flush_last_sync(p).state = p.state
<1>1. CASE p.syfu = "SF_EMPTY" BY <1>1 DEF flush_last_sync
<1>2. CASE p.syfu # "SF_EMPTY"
  <2> DEFINE put == msg_put(p, p.last)
             q == [put EXCEPT !.syfu = "SF_EMPTY"]
  <2>1. /\ put \in PortType /\ put.state = p.state /\ put.last = p.last
        /\ put.pool = p.pool \cup {p.last}
    <3>1. p \in PortType /\ p.last \in Buffers /\ p.refcnt[p.last] = 1
      BY <1>2 DEF Resting, PortType, Storing
    <3> QED BY <3>1, PutFields
  <2> HIDE DEF put
  <2>2. /\ q \in PortType /\ q.syfu = "SF_EMPTY" /\ q.state = p.state
        /\ q.pool = p.pool \cup {p.last}
    BY <2>1, SetEmpty
  <2>3. flush_last_sync(p) = q BY <1>2 DEF flush_last_sync, put
  <2> HIDE DEF q
  <2>4. Buffers \ q.pool = {} BY <1>2, <2>2 DEF Resting, Storing
  <2> QED BY <2>2, <2>3, <2>4 DEF Resting, Storing, StoredTyped
<1> QED BY <1>1, <1>2

\* flush_last_sync() while a message is handled.
LEMMA FlushHandling ==
    ASSUME NEW p, NEW b, Handling(p, b)
    PROVE  LET q == flush_last_sync(p)
           IN  Handling(q, b) /\ Dropped(p, q) /\ q.state = p.state
<1>1. CASE p.syfu = "SF_EMPTY" BY <1>1 DEF flush_last_sync, Dropped, Storing
<1>2. CASE p.syfu # "SF_EMPTY"
  <2> DEFINE put == msg_put(p, p.last)
             q == [put EXCEPT !.syfu = "SF_EMPTY"]
  <2>0. /\ p \in PortType /\ p.last \in Buffers /\ b \in Buffers /\ p.last # b
        /\ p.refcnt[p.last] = 1 /\ p.refcnt[b] = 1
        /\ Buffers \ p.pool = {p.last, b}
    BY <1>2 DEF Handling, PortType, Storing
  <2>1. /\ put \in PortType /\ put.state = p.state /\ put.last = p.last
        /\ put.pool = p.pool \cup {p.last} /\ put.refcnt[p.last] = 0
        /\ put.refcnt[b] = p.refcnt[b]
    <3>1. p.refcnt[p.last] \in {0, 1, 2} BY <2>0
    <3>2. /\ put \in PortType /\ put.state = p.state /\ put.last = p.last
          /\ put.pool = IF p.refcnt[p.last] = 1 THEN p.pool \cup {p.last} ELSE p.pool
          /\ put.refcnt[p.last] = p.refcnt[p.last] - 1
          /\ \A x \in Buffers \ {p.last} : put.refcnt[x] = p.refcnt[x]
      BY <2>0, <3>1, PutFields
    <3> HIDE DEF put
    <3> QED BY <2>0, <3>2
  <2> HIDE DEF put
  <2>2. /\ q \in PortType /\ q.syfu = "SF_EMPTY" /\ q.state = p.state
        /\ q.last = p.last /\ q.pool = put.pool /\ q.refcnt = put.refcnt
    BY <2>1, SetEmpty
  <2>3. flush_last_sync(p) = q BY <1>2 DEF flush_last_sync, put
  <2> HIDE DEF q
  <2>4. Handling(q, b) BY <2>0, <2>1, <2>2 DEF Handling, Storing, StoredTyped
  <2>5. Dropped(p, q) BY <2>0, <2>1, <2>2 DEF Dropped
  <2> QED BY <2>2, <2>3, <2>4, <2>5
<1> QED BY <1>1, <1>2

\* What a dispatch or a transmission inside port_synchronize() may do to a port:
\* the stored message stays, or is back in the pool.
Synchronized(p, q) ==
    /\ q.last = p.last
    /\ \/ q.syfu = p.syfu
       \/ q.syfu = "SF_EMPTY" /\ (Storing(p) => p.last \in q.pool /\ q.refcnt[p.last] = 0)
    /\ p.pool \subseteq q.pool

\* The servo reports a synchronization fault.
LEMMA FaultHandling ==
    ASSUME NEW p, NEW b, Handling(p, b)
    PROVE  Handling(SynchronizationFault(p), b) /\ Synchronized(p, SynchronizationFault(p))
<1>1. CASE p.state = "SLAVE"
  <2> DEFINE q == [p EXCEPT !.state = "UNCALIBRATED"]
  <2>1. /\ q \in PortType /\ q.syfu = p.syfu /\ q.last = p.last
        /\ q.content = p.content /\ q.refcnt = p.refcnt /\ q.pool = p.pool
    BY SetState DEF Handling, Synced
  <2>2. SynchronizationFault(p) = flush_last_sync(q) BY <1>1 DEF SynchronizationFault
  <2> HIDE DEF q
  <2>3. Handling(q, b) BY <2>1 DEF Handling, Storing, StoredTyped
  <2>4. Handling(flush_last_sync(q), b) /\ Dropped(q, flush_last_sync(q))
    BY <2>3, FlushHandling
  <2> QED BY <2>1, <2>2, <2>4 DEF Dropped, Synchronized, Storing
<1>2. CASE p.state # "SLAVE" BY <1>2 DEF SynchronizationFault, Synchronized
<1> QED BY <1>1, <1>2

\* The servo selects the master clock.
LEMMA SelectedHandling ==
    ASSUME NEW p, NEW b, Handling(p, b)
    PROVE  Handling(MasterClockSelected(p), b) /\ Synchronized(p, MasterClockSelected(p))
<1>1. CASE p.state = "UNCALIBRATED"
  <2> DEFINE q == [p EXCEPT !.state = "SLAVE"]
  <2>1. /\ q \in PortType /\ q.syfu = p.syfu /\ q.last = p.last
        /\ q.content = p.content /\ q.refcnt = p.refcnt /\ q.pool = p.pool
    BY SetState DEF Handling, Synced
  <2>2. MasterClockSelected(p) = q BY <1>1 DEF MasterClockSelected
  <2> HIDE DEF q
  <2> QED BY <2>1, <2>2 DEF Handling, Storing, StoredTyped, Synchronized
<1>2. CASE p.state # "UNCALIBRATED" BY <1>2 DEF MasterClockSelected, Synchronized
<1> QED BY <1>1, <1>2

\* The buffer of a message that is sent meanwhile comes from the pool and goes
\* back to it.
LEMMA TransmitHandling ==
    ASSUME NEW p, NEW b, Handling(p, b), NEW tx \in p.pool
    PROVE  Handling(Transmit(p, tx), b) /\ Synchronized(p, Transmit(p, tx))
           /\ Transmit(p, tx).pool = p.pool
           /\ \A x \in Buffers \ {tx} : Transmit(p, tx).refcnt[x] = p.refcnt[x]
<1> DEFINE a == msg_allocate(p, tx, NoMessage)
           q == msg_put(a, tx)
<1>0. /\ p \in PortType /\ tx \in Buffers /\ b \in Buffers /\ tx # b /\ p.last \in Buffers
      /\ Storing(p) => tx # p.last
  BY DEF Handling, PortType
<1>1. /\ a \in PortType /\ a.state = p.state /\ a.syfu = p.syfu /\ a.last = p.last
      /\ a.pool = p.pool \ {tx} /\ a.refcnt[tx] = 1
      /\ \A x \in Buffers \ {tx} : a.refcnt[x] = p.refcnt[x] /\ a.content[x] = p.content[x]
  BY <1>0, AllocateFields
<1> HIDE DEF a
<1>2. /\ q \in PortType /\ q.state = a.state /\ q.syfu = a.syfu /\ q.last = a.last
      /\ q.pool = a.pool \cup {tx}
      /\ \A x \in Buffers \ {tx} : q.refcnt[x] = a.refcnt[x] /\ q.content[x] = a.content[x]
  BY <1>0, <1>1, PutFields
<1>3. Transmit(p, tx) = q BY DEF Transmit, a
<1> HIDE DEF q
<1>4. q.pool = p.pool BY <1>1, <1>2
<1>5. Handling(q, b)
  BY <1>0, <1>1, <1>2, <1>4 DEF Handling, Storing, StoredTyped
<1> QED BY <1>1, <1>2, <1>3, <1>4, <1>5 DEF Synchronized

\* port_synchronize(), whatever the verdict of the servo.
LEMMA SynchronizeHandling ==
    ASSUME NEW p, NEW b, Handling(p, b), NEW verdict \in Verdicts, NEW tx \in p.pool
    PROVE  LET q == port_synchronize(p, verdict, tx)
           IN  Handling(q, b) /\ Synchronized(p, q)
<1>1. CASE verdict \in {"unlocked", "jump"}
  BY <1>1, FaultHandling DEF port_synchronize
<1>2. CASE verdict = "unlocked_request"
  <2> DEFINE f == SynchronizationFault(p)
  <2>1. Handling(f, b) /\ Synchronized(p, f) BY FaultHandling
  <2> HIDE DEF f
  <2>2. tx \in f.pool BY <2>1 DEF Synchronized
  <2>3. /\ Handling(Transmit(f, tx), b) /\ Synchronized(f, Transmit(f, tx))
        /\ Transmit(f, tx).pool = f.pool
        /\ \A x \in Buffers \ {tx} : Transmit(f, tx).refcnt[x] = f.refcnt[x]
    BY <2>1, <2>2, TransmitHandling
  <2>4. Storing(p) => p.last \in Buffers \ {tx} BY DEF Handling, PortType
  <2>5. Synchronized(p, Transmit(f, tx)) BY <2>1, <2>3, <2>4 DEF Synchronized, Storing
  <2> QED BY <1>2, <2>3, <2>5 DEF port_synchronize, f
<1>3. CASE verdict \in {"locked", "stable"}
  BY <1>3, SelectedHandling DEF port_synchronize
<1>4. CASE verdict = "stable_request"
  <2> DEFINE t == Transmit(p, tx)
             q == MasterClockSelected(t)
  <2>1. Handling(t, b) /\ Synchronized(p, t) /\ t.pool = p.pool BY TransmitHandling
  <2> HIDE DEF t
  <2>2. Handling(q, b) /\ Synchronized(t, q) BY <2>1, SelectedHandling
  <2>3. port_synchronize(p, verdict, tx) = q BY <1>4 DEF port_synchronize, t
  <2> HIDE DEF q
  <2>4. Storing(p) => p.last \notin p.pool BY DEF Handling, PortType
  <2> QED BY <2>1, <2>2, <2>3, <2>4 DEF Synchronized, Storing
<1>5. CASE verdict = "stable_restart"
  <2> DEFINE f == SynchronizationFault(p)
             q == MasterClockSelected(f)
  <2>1. Handling(f, b) /\ Synchronized(p, f) BY FaultHandling
  <2> HIDE DEF f
  <2>2. /\ Handling(q, b) /\ q.last = f.last /\ q.syfu = f.syfu /\ q.pool = f.pool
        /\ q.refcnt = f.refcnt
    <3>1. Handling(q, b) BY <2>1, SelectedHandling
    <3>2. f \in PortType BY <2>1 DEF Handling
    <3> QED BY <3>1, <3>2, SetState DEF MasterClockSelected, Synced
  <2>3. port_synchronize(p, verdict, tx) = q BY <1>5 DEF port_synchronize, f
  <2> HIDE DEF q
  <2> QED BY <2>1, <2>2, <2>3 DEF Synchronized, Storing
<1> QED BY <1>1, <1>2, <1>3, <1>4, <1>5 DEF Verdicts

\* port_syfufsm() for a match; a stored message that a dispatch released already
\* is released once more, which does not put it into the pool twice.
LEMMA MatchHandling ==
    ASSUME NEW p, NEW b, Handling(p, b), Storing(p), NEW verdict \in Verdicts,
           NEW tx \in p.pool
    PROVE  Handling(Match(p, verdict, tx), b) /\ Match(p, verdict, tx).syfu = "SF_EMPTY"
<1> DEFINE s == port_synchronize(p, verdict, tx)
           put == msg_put(s, p.last)
           q == [put EXCEPT !.syfu = "SF_EMPTY"]
<1>1. Handling(s, b) /\ Synchronized(p, s) BY SynchronizeHandling
<1>2. Match(p, verdict, tx) = q BY DEF Match
<1> HIDE DEF s
<1>3. /\ s \in PortType /\ p.last \in Buffers /\ b \in Buffers /\ p.last # b
      /\ s.refcnt[b] = 1 /\ s.refcnt[p.last] \in {0, 1}
      /\ s.refcnt[p.last] = 0 => p.last \in s.pool
      /\ Buffers \ (s.pool \cup {p.last}) = {b}
  BY <1>1 DEF Handling, Synchronized, Storing, PortType
<1>4. /\ put \in PortType /\ put.refcnt[b] = 1 /\ put.pool = s.pool \cup {p.last}
  <2>1. s \in PortType /\ p.last \in Buffers /\ s.refcnt[p.last] \in {0, 1, 2} BY <1>3
  <2>2. /\ put \in PortType
        /\ put.pool = IF s.refcnt[p.last] = 1 THEN s.pool \cup {p.last} ELSE s.pool
        /\ \A x \in Buffers \ {p.last} : put.refcnt[x] = s.refcnt[x]
    BY ONLY <2>1, PutFields
  <2> HIDE DEF put
  <2> QED BY <1>3, <2>2
<1> HIDE DEF put
<1>5. /\ q \in PortType /\ q.syfu = "SF_EMPTY" /\ q.pool = put.pool /\ q.refcnt = put.refcnt
  BY <1>4, SetEmpty
<1> HIDE DEF q
<1> QED BY <1>2, <1>3, <1>4, <1>5 DEF Handling, Storing, StoredTyped

\* What Store() does to the fields of a port.
LEMMA StoreFields ==
    ASSUME NEW p \in PortType, NEW b \in Buffers, p.refcnt[b] = 1,
           NEW sf \in {"SF_HAVE_SYNC", "SF_HAVE_FUP"}
    PROVE  LET q == Store(p, b, sf)
           IN  /\ q \in PortType /\ q.state = p.state /\ q.syfu = sf /\ q.last = b
               /\ q.content = p.content /\ q.pool = p.pool /\ q.refcnt[b] = 2
               /\ \A x \in Buffers \ {b} : q.refcnt[x] = p.refcnt[x]
<1> DEFINE q == Store(p, b, sf)
           r == [p.refcnt EXCEPT ![b] = 2]
<1>1. p.refcnt[b] + 1 = 2 OBVIOUS
<1>2. q = [p EXCEPT !.refcnt = r, !.last = b, !.syfu = sf]
  BY <1>1 DEF Store, msg_get, PortType
<1>3. r \in Counts /\ r[b] = 2 /\ \A x \in Buffers \ {b} : r[x] = p.refcnt[x]
  BY DEF PortType, Counts
<1> HIDE DEF q, r
<1>4. /\ q \in PortType /\ q.state = p.state /\ q.syfu = sf /\ q.last = b
      /\ q.content = p.content /\ q.pool = p.pool /\ q.refcnt = r
  BY <1>2, <1>3 DEF PortType, Counts, Contents
<1> QED BY <1>3, <1>4 DEF q

\* port_syfufsm() without a match: the new message is the stored one, and the
\* one it replaces is back in the pool.
LEMMA MismatchResting ==
    ASSUME NEW p, NEW b, Handling(p, b), NEW sf \in {"SF_HAVE_SYNC", "SF_HAVE_FUP"},
           sf = "SF_HAVE_SYNC" => p.content[b].kind = "SYNC",
           sf = "SF_HAVE_FUP" => p.content[b].kind = "FOLLOW_UP"
    PROVE  LET q == msg_put(Mismatch(p, b, sf), b)
           IN  /\ Resting(q) /\ q.state = p.state /\ q.syfu = sf /\ q.last = b
               /\ q.content[b] = p.content[b]
<1> DEFINE r == IF p.syfu = "SF_EMPTY" THEN p ELSE msg_put(p, p.last)
           s == Store(r, b, sf)
           q == msg_put(s, b)
<1>1. Mismatch(p, b, sf) = s BY DEF Mismatch
<1>2. b \in Buffers BY DEF Handling
<1>3. /\ r \in PortType /\ r.state = p.state /\ r.refcnt[b] = 1
      /\ r.content[b] = p.content[b] /\ Buffers \ r.pool = {b}
  <2>1. CASE p.syfu = "SF_EMPTY" BY <2>1 DEF Handling, Storing
  <2>2. CASE p.syfu # "SF_EMPTY"
    <3>1. /\ p \in PortType /\ p.last \in Buffers /\ p.refcnt[p.last] \in {0, 1, 2}
          /\ p.refcnt[p.last] = 1 /\ p.refcnt[b] = 1 /\ b \in Buffers \ {p.last}
          /\ Buffers \ p.pool = {p.last, b}
      BY <2>2 DEF Handling, PortType, Storing
    <3> DEFINE put == msg_put(p, p.last)
    <3>2. /\ put \in PortType /\ put.state = p.state
          /\ put.pool = IF p.refcnt[p.last] = 1 THEN p.pool \cup {p.last} ELSE p.pool
          /\ \A x \in Buffers \ {p.last} : /\ put.refcnt[x] = p.refcnt[x]
                                           /\ put.content[x] = p.content[x]
      BY ONLY <3>1, PutFields
    <3>3. r = put BY <2>2
    <3> HIDE DEF put, r
    <3> QED BY <3>1, <3>2, <3>3
  <2> QED BY <2>1, <2>2
<1> HIDE DEF r
<1>4. /\ s \in PortType /\ s.state = r.state /\ s.syfu = sf /\ s.last = b
      /\ s.content = r.content /\ s.pool = r.pool /\ s.refcnt[b] = 2
  BY ONLY <1>2, <1>3, StoreFields, sf \in {"SF_HAVE_SYNC", "SF_HAVE_FUP"}
<1> HIDE DEF s
<1>5. s.refcnt[b] \in {0, 1, 2} /\ s.refcnt[b] # 1 BY <1>4
<1>6. /\ q \in PortType /\ q.state = s.state /\ q.syfu = s.syfu /\ q.last = s.last
      /\ q.pool = s.pool /\ q.refcnt[b] = s.refcnt[b] - 1 /\ q.content[b] = s.content[b]
  BY ONLY <1>2, <1>4, <1>5, PutFields
<1>7. msg_put(Mismatch(p, b, sf), b) = q BY <1>1
<1> HIDE DEF q
<1>8. q.refcnt[b] = 1 /\ q.content[b] = p.content[b] /\ Buffers \ q.pool = {b}
  BY <1>3, <1>4, <1>6
<1>9. Resting(q) BY <1>4, <1>6, <1>8 DEF Resting, Storing, StoredTyped
<1> QED BY <1>3, <1>4, <1>6, <1>7, <1>8, <1>9

-----------------------------------------------------------------------------
\* A master is at most MaxGap ahead of what the port accepted from it.
Heard == \A a \in Masters : heard[a] <= sent[a] /\ sent[a] - heard[a] <= MaxGap

\* A message that fewer than Window newer ones have overtaken.
Recent(m) ==
    /\ m \in Messages /\ m.src \notin OneStep
    /\ m.n <= heard[m.src] /\ heard[m.src] - m.n < Window

StoredRecent == Storing(port) => Recent(port.content[port.last])

PrevStored == prev # NoMessage => Storing(port) /\ port.content[port.last] = prev

\* The inductive invariant of the specification.
IInv == TypeOK /\ Resting(port) /\ Heard /\ StoredRecent /\ PrevStored

\* The heard messages after a reception.
LEMMA HeardReceived ==
    ASSUME TypeOK, Heard, NEW m \in Messages, Deliverable(m), NEW b, NEW p, Received(m, b, p)
    PROVE  /\ heard' \in [Masters -> 0..MaxSent] /\ sent' \in [Masters -> 0..MaxSent]
           /\ parent' \in Masters /\ Heard'
           /\ ~Accepts(m) => heard' = heard
           /\ Accepts(m) => m.n <= heard'[m.src] /\ heard'[m.src] - m.n < Window
<1> DEFINE h == IF Accepts(m) /\ m.n > heard[m.src] THEN m.n ELSE heard[m.src]
           k == m.src
<1>1. /\ k \in Masters /\ m.n \in 1..MaxSent /\ heard[k] \in 0..MaxSent
      /\ sent[k] \in 0..MaxSent /\ m.n <= sent[k] /\ sent[k] - m.n < Window
      /\ heard[k] <= sent[k] /\ sent[k] - heard[k] <= MaxGap
  BY DEF TypeOK, Messages, Deliverable, Heard
<1>2. heard' = [heard EXCEPT ![k] = h] /\ sent' = sent /\ parent' = parent
  BY DEF Received
<1>3. /\ h \in 0..MaxSent /\ heard[k] <= h /\ h <= sent[k]
      /\ ~Accepts(m) => h = heard[k]
      /\ Accepts(m) => m.n <= h /\ h - m.n < Window
  BY <1>1, BoundsAssumption
<1> HIDE DEF h, k
<1>4. /\ heard' \in [Masters -> 0..MaxSent] /\ heard'[k] = h
      /\ \A a \in Masters \ {k} : heard'[a] = heard[a]
  BY <1>1, <1>2, <1>3 DEF TypeOK
<1>5. Heard'
  <2> SUFFICES ASSUME NEW a \in Masters
               PROVE  heard'[a] <= sent[a] /\ sent[a] - heard'[a] <= MaxGap
    BY <1>2 DEF Heard
  <2>1. CASE a = k BY <1>1, <1>3, <1>4, <2>1, BoundsAssumption
  <2>2. CASE a # k BY <1>4, <2>2 DEF Heard
  <2> QED BY <2>1, <2>2
<1>6. ~Accepts(m) => heard' = heard BY <1>2, <1>3 DEF TypeOK
<1> QED BY <1>2, <1>3, <1>4, <1>5, <1>6 DEF TypeOK, k

\* A message that a synced port ignores leaves the stored one alone.
LEMMA IgnoredInv ==
    ASSUME IInv, NEW m \in Messages, NEW b \in port.pool, Deliverable(m), Ignored(m, b)
    PROVE  IInv'
<1> DEFINE p == msg_allocate(port, b, m)
           q == msg_put(p, b)
<1>1. /\ Handling(p, b) /\ p.syfu = port.syfu /\ p.last = port.last
      /\ Storing(port) => p.content[port.last] = port.content[port.last]
  BY Allocate DEF IInv
<1>2. Received(m, b, p) /\ ~Accepts(m) /\ pair' = pair /\ prev' = prev /\ port' = q
  BY DEF Ignored, Received
<1> HIDE DEF p
<1>3. /\ Resting(q) /\ q.syfu = p.syfu /\ q.last = p.last
      /\ Storing(p) => q.content[q.last] = p.content[p.last]
  BY <1>1, Release
<1> HIDE DEF q
<1>4. /\ heard' \in [Masters -> 0..MaxSent] /\ sent' \in [Masters -> 0..MaxSent]
      /\ parent' \in Masters /\ Heard' /\ heard' = heard
  BY <1>2, HeardReceived DEF IInv
<1>5. Storing(port) <=> Storing(port') BY <1>1, <1>2, <1>3 DEF Storing
<1>6. Storing(port) => port'.content[port'.last] = port.content[port.last]
  BY <1>1, <1>2, <1>3 DEF Storing
<1>7. StoredRecent' BY <1>4, <1>5, <1>6 DEF IInv, StoredRecent, Recent
<1>8. PrevStored' BY <1>2, <1>5, <1>6 DEF IInv, PrevStored
<1>9. TypeOK' /\ Resting(port')
  BY <1>2, <1>3, <1>4 DEF IInv, TypeOK, Resting
<1> QED BY <1>4, <1>7, <1>8, <1>9 DEF IInv

\* A synchronization leaves no message stored.
LEMMA EmptiedInv ==
    ASSUME IInv, NEW m \in Messages, Deliverable(m), NEW b, NEW p,
           Handling(p, b), p.syfu = "SF_EMPTY", Received(m, b, p), prev' = NoMessage,
           pair' \in (Messages \cup {NoMessage}) \X (Messages \cup {NoMessage})
    PROVE  IInv'
<1> DEFINE q == msg_put(p, b)
<1>1. port' = q BY DEF Received
<1>2. Resting(q) /\ q.syfu = p.syfu BY Release
<1> HIDE DEF q
<1>3. /\ heard' \in [Masters -> 0..MaxSent] /\ sent' \in [Masters -> 0..MaxSent]
      /\ parent' \in Masters /\ Heard'
  BY HeardReceived DEF IInv
<1>4. TypeOK' /\ Resting(port') BY <1>1, <1>2, <1>3 DEF TypeOK, Resting
<1>5. StoredRecent' /\ PrevStored' BY <1>1, <1>2 DEF StoredRecent, PrevStored, Storing
<1> QED BY <1>3, <1>4, <1>5 DEF IInv

\* A message without a match is stored, and is a recent one.
LEMMA MismatchInv ==
    ASSUME IInv, NEW m \in Messages, Deliverable(m), Accepts(m), NEW b, NEW p,
           Handling(p, b), p.content[b] = m, NEW sf \in {"SF_HAVE_SYNC", "SF_HAVE_FUP"},
           sf = "SF_HAVE_SYNC" => m.kind = "SYNC",
           sf = "SF_HAVE_FUP" => m.kind = "FOLLOW_UP",
           Received(m, b, Mismatch(p, b, sf)), prev' = m, pair' = pair
    PROVE  IInv'
<1> DEFINE q == msg_put(Mismatch(p, b, sf), b)
<1>1. port' = q BY DEF Received
<1>2. Resting(q) /\ q.syfu = sf /\ q.last = b /\ q.content[b] = m BY MismatchResting
<1> HIDE DEF q
<1>3. /\ heard' \in [Masters -> 0..MaxSent] /\ sent' \in [Masters -> 0..MaxSent]
      /\ parent' \in Masters /\ Heard'
      /\ m.n <= heard'[m.src] /\ heard'[m.src] - m.n < Window
  BY HeardReceived DEF IInv
<1>4. TypeOK' /\ Resting(port') BY <1>1, <1>2, <1>3 DEF TypeOK, Resting, IInv
<1>5. m.src \notin OneStep BY DEF Deliverable
<1>6. StoredRecent' /\ PrevStored'
  BY <1>1, <1>2, <1>3, <1>5 DEF StoredRecent, PrevStored, Storing, Recent
<1> QED BY <1>3, <1>4, <1>6 DEF IInv

\* A Sync message
LEMMA SyncInv ==
    ASSUME IInv, NEW m \in Messages, NEW b \in port.pool, Deliverable(m), process_sync(m, b)
    PROVE  IInv'
<1> DEFINE p == msg_allocate(port, b, m)
           match == /\ p.syfu = "SF_HAVE_FUP"
                    /\ SequenceId(p.content[p.last]) = SequenceId(m)
<1>1. Handling(p, b) /\ p.content[b] = m BY Allocate DEF IInv
<1>2. /\ Accepts(m)
      /\ \/ /\ \E verdict \in Verdicts, tx \in p.pool :
                  Received(m, b, flush_last_sync(port_synchronize(p, verdict, tx)))
            /\ pair' = <<m, m>> /\ prev' = NoMessage
         \/ /\ match
            /\ \E verdict \in Verdicts, tx \in p.pool : Received(m, b, Match(p, verdict, tx))
            /\ pair' = <<m, p.content[p.last]>> /\ prev' = NoMessage
         \/ /\ m.kind = "SYNC" /\ Received(m, b, Mismatch(p, b, "SF_HAVE_SYNC"))
            /\ prev' = m /\ pair' = pair
  BY Zenon DEF process_sync
<1> HIDE DEF p
<1>3. p.content[p.last] \in Messages \cup {NoMessage} BY <1>1 DEF Handling, PortType
<1>4. CASE /\ \E verdict \in Verdicts, tx \in p.pool :
                  Received(m, b, flush_last_sync(port_synchronize(p, verdict, tx)))
           /\ pair' = <<m, m>> /\ prev' = NoMessage
  <2>1. PICK verdict \in Verdicts, tx \in p.pool :
            Received(m, b, flush_last_sync(port_synchronize(p, verdict, tx)))
    BY <1>4
  <2> DEFINE s == port_synchronize(p, verdict, tx)
             q == flush_last_sync(s)
  <2>2. Handling(s, b) BY <1>1, SynchronizeHandling
  <2> HIDE DEF s
  <2>3. Handling(q, b) /\ q.syfu = "SF_EMPTY" BY <2>2, FlushHandling DEF Dropped
  <2>4. Received(m, b, q) BY <2>1 DEF s
  <2> HIDE DEF q
  <2> QED BY <1>4, <2>3, <2>4, EmptiedInv
<1>5. CASE /\ match
           /\ \E verdict \in Verdicts, tx \in p.pool : Received(m, b, Match(p, verdict, tx))
           /\ pair' = <<m, p.content[p.last]>> /\ prev' = NoMessage
  <2>1. PICK verdict \in Verdicts, tx \in p.pool : Received(m, b, Match(p, verdict, tx))
    BY <1>5
  <2>2. Handling(Match(p, verdict, tx), b) /\ Match(p, verdict, tx).syfu = "SF_EMPTY"
    BY <1>1, <1>5, MatchHandling DEF Storing
  <2> QED BY <1>3, <1>5, <2>1, <2>2, EmptiedInv
<1>6. CASE /\ m.kind = "SYNC" /\ Received(m, b, Mismatch(p, b, "SF_HAVE_SYNC"))
           /\ prev' = m /\ pair' = pair
  BY <1>1, <1>2, <1>6, MismatchInv
<1> QED BY <1>2, <1>4, <1>5, <1>6

\* A Follow_Up message
LEMMA FollowUpInv ==
    ASSUME IInv, NEW m \in Messages, NEW b \in port.pool, Deliverable(m),
           process_follow_up(m, b)
    PROVE  IInv'
<1> DEFINE p == msg_allocate(port, b, m)
           match == /\ p.syfu = "SF_HAVE_SYNC"
                    /\ SequenceId(p.content[p.last]) = SequenceId(m)
<1>1. Handling(p, b) /\ p.content[b] = m BY Allocate DEF IInv
<1>2. /\ Accepts(m) /\ m.kind = "FOLLOW_UP"
      /\ \/ /\ match
            /\ \E verdict \in Verdicts, tx \in p.pool : Received(m, b, Match(p, verdict, tx))
            /\ pair' = <<p.content[p.last], m>> /\ prev' = NoMessage
         \/ /\ Received(m, b, Mismatch(p, b, "SF_HAVE_FUP"))
            /\ prev' = m /\ pair' = pair
  BY Zenon DEF process_follow_up
<1> HIDE DEF p
<1>3. p.content[p.last] \in Messages \cup {NoMessage} BY <1>1 DEF Handling, PortType
<1>4. CASE /\ match
           /\ \E verdict \in Verdicts, tx \in p.pool : Received(m, b, Match(p, verdict, tx))
           /\ pair' = <<p.content[p.last], m>> /\ prev' = NoMessage
  <2>1. PICK verdict \in Verdicts, tx \in p.pool : Received(m, b, Match(p, verdict, tx))
    BY <1>4
  <2>2. Handling(Match(p, verdict, tx), b) /\ Match(p, verdict, tx).syfu = "SF_EMPTY"
    BY <1>1, <1>4, MatchHandling DEF Storing
  <2> QED BY <1>3, <1>4, <2>1, <2>2, EmptiedInv
<1>5. CASE /\ Received(m, b, Mismatch(p, b, "SF_HAVE_FUP"))
           /\ prev' = m /\ pair' = pair
  BY <1>1, <1>2, <1>5, MismatchInv
<1> QED BY <1>2, <1>4, <1>5

\* The port without a stored message, or with the one it had.
LEMMA PortInv ==
    ASSUME IInv, sent' = sent, heard' = heard, parent' \in Masters, pair' = pair,
           prev' = NoMessage, Resting(port'),
           Storing(port') => Storing(port) /\ port'.content[port'.last] = port.content[port.last]
    PROVE  IInv'
<1>1. TypeOK' BY DEF IInv, TypeOK, Resting
<1>2. Heard' BY DEF IInv, Heard
<1>3. StoredRecent' /\ PrevStored' BY DEF IInv, StoredRecent, PrevStored, Recent
<1> QED BY <1>1, <1>2, <1>3 DEF IInv

\* The invariant holds at first.
LEMMA InitInv == Init => IInv
<1> SUFFICES ASSUME Init PROVE IInv OBVIOUS
<1>1. PICK b \in Buffers :
         port = [state |-> "LISTENING", syfu |-> "SF_EMPTY", last |-> b,
                 content |-> [x \in Buffers |-> NoMessage],
                 refcnt |-> [x \in Buffers |-> 0], pool |-> Buffers]
  BY DEF Init
<1>2. [x \in Buffers |-> NoMessage] \in Contents /\ [x \in Buffers |-> 0] \in Counts
  BY DEF Contents, Counts
<1>3. port \in PortType /\ port.syfu = "SF_EMPTY" /\ port.pool = Buffers
  BY <1>1, <1>2 DEF PortType, Contents, Counts
<1>4. TypeOK BY <1>3, BoundsAssumption DEF Init, TypeOK
<1>5. Resting(port) BY <1>3 DEF Resting, Storing, StoredTyped
<1>6. Heard BY BoundsAssumption DEF Init, Heard
<1>7. StoredRecent /\ PrevStored BY <1>3 DEF Init, StoredRecent, PrevStored, Storing
<1> QED BY <1>4, <1>5, <1>6, <1>7 DEF IInv

\* A master sends its next Sync.
LEMMA SendInv == ASSUME IInv, NEW a \in Masters, Send(a) PROVE IInv'
<1>1. /\ sent' = [sent EXCEPT ![a] = sent[a] + 1] /\ sent[a] < MaxSent
      /\ sent[a] - heard[a] < MaxGap /\ heard' = heard /\ parent' = parent
      /\ port' = port /\ pair' = pair /\ prev' = prev
  BY DEF Send
<1>2. sent \in [Masters -> 0..MaxSent] /\ heard \in [Masters -> 0..MaxSent]
  BY DEF IInv, TypeOK
<1>3. sent' \in [Masters -> 0..MaxSent] BY <1>1, <1>2, BoundsAssumption
<1>4. Heard'
  <2> SUFFICES ASSUME NEW x \in Masters
               PROVE  heard[x] <= sent'[x] /\ sent'[x] - heard[x] <= MaxGap
    BY <1>1 DEF Heard
  <2>1. heard[x] \in 0..MaxSent /\ sent[x] \in 0..MaxSent BY <1>2
  <2>2. sent'[x] = IF x = a THEN sent[x] + 1 ELSE sent[x] BY <1>1, <1>2
  <2>3. heard[x] <= sent[x] /\ sent[x] - heard[x] <= MaxGap BY DEF IInv, Heard
  <2> QED BY <1>1, <2>1, <2>2, <2>3, BoundsAssumption
<1>5. TypeOK' BY <1>1, <1>3 DEF IInv, TypeOK
<1>6. Resting(port') BY <1>1 DEF IInv
<1>7. StoredRecent' /\ PrevStored'
  BY <1>1 DEF IInv, StoredRecent, PrevStored, Recent
<1> QED BY <1>4, <1>5, <1>6, <1>7 DEF IInv

\* A port at rest whose state changes is at rest.
LEMMA SetStateResting ==
    ASSUME NEW p, Resting(p), NEW s \in {"LISTENING"} \cup Synced
    PROVE  LET q == [p EXCEPT !.state = s]
           IN  Resting(q) /\ q.syfu = p.syfu /\ q.last = p.last /\ q.content = p.content
<1> DEFINE q == [p EXCEPT !.state = s]
<1>1. /\ q \in PortType /\ q.syfu = p.syfu /\ q.last = p.last
      /\ q.content = p.content /\ q.refcnt = p.refcnt /\ q.pool = p.pool
  BY SetState DEF Resting
<1> HIDE DEF q
<1>2. Resting(q) BY <1>1 DEF Resting, Storing, StoredTyped
<1> QED BY <1>1, <1>2 DEF q

\* The clock recommends the slave state.
LEMMA RsSlaveInv == ASSUME IInv, RsSlave PROVE IInv'
<1>1. PICK a \in Masters :
        /\ parent' = a
        /\ port' = IF port.state = "LISTENING" \/ (port.state = "SLAVE" /\ a # parent)
                   THEN flush_last_sync([port EXCEPT !.state = "UNCALIBRATED"])
                   ELSE port
  BY DEF RsSlave
<1>2. sent' = sent /\ heard' = heard /\ pair' = pair /\ prev' = NoMessage BY DEF RsSlave
<1> DEFINE q == [port EXCEPT !.state = "UNCALIBRATED"]
<1>3. Resting(q) BY SetStateResting DEF IInv, Synced
<1> HIDE DEF q
<1>4. Resting(flush_last_sync(q)) /\ flush_last_sync(q).syfu = "SF_EMPTY"
  BY <1>3, FlushResting
<1>5. port' = flush_last_sync(q) \/ port' = port BY <1>1 DEF q
<1>6. /\ Resting(port')
      /\ Storing(port') => Storing(port) /\ port'.content[port'.last] = port.content[port.last]
  BY <1>4, <1>5 DEF IInv, Storing
<1> QED BY <1>1, <1>2, <1>6, PortInv

\* The port leaves the slave states.
LEMMA LeaveInv == ASSUME IInv, Leave PROVE IInv'
<1> DEFINE q == [port EXCEPT !.state = "LISTENING"]
<1>1. /\ sent' = sent /\ heard' = heard /\ pair' = pair /\ prev' = NoMessage
      /\ parent' = parent /\ port' = q
  BY DEF Leave
<1>2. Resting(q) /\ q.syfu = port.syfu /\ q.last = port.last /\ q.content = port.content
  BY SetStateResting DEF IInv
<1> HIDE DEF q
<1>3. parent \in Masters BY DEF IInv, TypeOK
<1> QED BY <1>1, <1>2, <1>3, PortInv DEF Storing

\* The port is initialized again.
LEMMA ReinitializeInv == ASSUME IInv, Reinitialize PROVE IInv'
<1> DEFINE f == flush_last_sync(port)
           q == [f EXCEPT !.state = "LISTENING"]
<1>1. /\ sent' = sent /\ heard' = heard /\ pair' = pair /\ prev' = NoMessage
      /\ parent' = parent /\ port' = q
  BY DEF Reinitialize
<1>2. Resting(f) /\ f.syfu = "SF_EMPTY" BY FlushResting DEF IInv
<1> HIDE DEF f
<1>3. Resting(q) /\ q.syfu = f.syfu BY <1>2, SetStateResting
<1> HIDE DEF q
<1>4. parent \in Masters BY DEF IInv, TypeOK
<1> QED BY <1>1, <1>2, <1>3, <1>4, PortInv DEF Storing

\* Every step keeps the invariant.
LEMMA NextInv == IInv /\ [Next]_vars => IInv'
<1> SUFFICES ASSUME IInv, [Next]_vars PROVE IInv' OBVIOUS
<1>1. CASE \E a \in Masters : Send(a) BY <1>1, SendInv
<1>2. CASE Receive
  <2>1. PICK m \in Messages, b \in port.pool :
          /\ Deliverable(m)
          /\ Ignored(m, b) \/ process_sync(m, b) \/ process_follow_up(m, b)
    BY <1>2 DEF Receive
  <2> QED BY <2>1, IgnoredInv, SyncInv, FollowUpInv
<1>3. CASE RsSlave BY <1>3, RsSlaveInv
<1>4. CASE Leave BY <1>4, LeaveInv
<1>5. CASE Reinitialize BY <1>5, ReinitializeInv
<1>6. CASE UNCHANGED vars
  BY <1>6 DEF vars, IInv, TypeOK, Heard, StoredRecent, Recent, PrevStored
<1> QED BY <1>1, <1>2, <1>3, <1>4, <1>5, <1>6 DEF Next

\* The invariant that all three theorems rest on.
LEMMA Invariance == Spec => []IInv
BY InitInv, NextInv, PTL DEF Spec

\* The message buffers are always in order, whatever the servo's verdict does to
\* the stored message while port_syfufsm() still uses it.
THEOREM BuffersAlwaysInOrder == Spec => []BuffersInOrder
<1>1. IInv => BuffersInOrder
  <2> SUFFICES ASSUME IInv PROVE BuffersInOrder OBVIOUS
  <2>1. TypeOK BY DEF IInv
  <2>2. PoolServes BY DEF IInv, Resting, Storing, PoolServes, Stored
  <2>3. StoredIsTyped BY DEF IInv, Resting, StoredTyped, StoredIsTyped
  <2> QED BY <2>1, <2>2, <2>3 DEF BuffersInOrder
<1> QED BY <1>1, Invariance, PTL

-----------------------------------------------------------------------------
\* There is at most one two-step master.
OneTwoStepMaster == \A a, b \in Masters \ OneStep : a = b

\* A stored message and a deliverable one of the other kind with its sequence
\* number are of the same Sync.
LEMMA SameSync ==
    ASSUME OneTwoStepMaster, IInv, Storing(port), NEW m \in Messages, Deliverable(m),
           m.kind # "ONE_STEP_SYNC",
           SequenceId(port.content[port.last]) = SequenceId(m)
    PROVE  m.src = port.content[port.last].src /\ m.n = port.content[port.last].n
<1> DEFINE s == port.content[port.last]
<1>1. Recent(s) BY DEF IInv, StoredRecent
<1>2. s.n % SeqMod = m.n % SeqMod BY DEF SequenceId
<1> HIDE DEF s
<1>3. m.src = s.src BY <1>1 DEF OneTwoStepMaster, Deliverable, Recent, Messages
<1>4. /\ s.n \in Nat /\ m.n \in Nat /\ s.n <= heard[m.src] /\ heard[m.src] - s.n < Window
      /\ m.src \in Masters
  BY <1>1, <1>3, BoundsAssumption DEF Recent, Messages
<1>5. /\ heard[m.src] \in Nat /\ sent[m.src] \in Nat /\ heard[m.src] <= sent[m.src]
      /\ sent[m.src] - heard[m.src] <= MaxGap
      /\ m.n <= sent[m.src] /\ sent[m.src] - m.n < Window
  BY <1>4, BoundsAssumption DEF IInv, TypeOK, Heard, Deliverable
<1>6. SeqMod \in Nat /\ s.n - m.n < SeqMod /\ m.n - s.n < SeqMod
  BY <1>4, <1>5, BoundsAssumption
<1>7. s.n = m.n BY <1>2, <1>4, <1>6, SameRemainder
<1> QED BY <1>3, <1>7 DEF s

\* No reception makes a pair of two Syncs' halves.
LEMMA PairsStep ==
    ASSUME OneTwoStepMaster, IInv, PairsMatch, [Next]_vars
    PROVE  PairsMatch'
<1>1. CASE Receive
  <2>1. PICK m \in Messages, b \in port.pool :
          /\ Deliverable(m)
          /\ Ignored(m, b) \/ process_sync(m, b) \/ process_follow_up(m, b)
    BY <1>1 DEF Receive
  <2> DEFINE p == msg_allocate(port, b, m)
  <2>2. /\ p.syfu = port.syfu /\ p.last = port.last
        /\ Storing(port) => p.content[port.last] = port.content[port.last]
    BY Allocate DEF IInv
  <2>3. CASE Ignored(m, b) BY <2>3 DEF Ignored, PairsMatch
  <2>4. CASE process_sync(m, b)
    <3>1. \/ pair' = <<m, m>>
          \/ /\ m.kind = "SYNC" /\ p.syfu = "SF_HAVE_FUP"
             /\ SequenceId(p.content[p.last]) = SequenceId(m)
             /\ pair' = <<m, p.content[p.last]>>
          \/ pair' = pair
      BY <2>4, Zenon DEF process_sync
    <3> HIDE DEF p
    <3> QED BY <2>1, <2>2, <3>1, SameSync DEF PairsMatch, Storing
  <2>5. CASE process_follow_up(m, b)
    <3>1. \/ /\ m.kind = "FOLLOW_UP" /\ p.syfu = "SF_HAVE_SYNC"
             /\ SequenceId(p.content[p.last]) = SequenceId(m)
             /\ pair' = <<p.content[p.last], m>>
          \/ pair' = pair
      BY <2>5, Zenon DEF process_follow_up
    <3> HIDE DEF p
    <3> QED BY <2>1, <2>2, <3>1, SameSync DEF PairsMatch, Storing
  <2> QED BY <2>1, <2>3, <2>4, <2>5
<1>2. CASE pair' = pair BY <1>2 DEF PairsMatch
<1> QED BY <1>1, <1>2 DEF Next, Send, RsSlave, Leave, Reinitialize, vars

\* With at most one two-step master a synchronization always uses the two halves
\* of one Sync: between two messages that the port holds at the same time there
\* are fewer than SeqMod Syncs, so that equal sequence numbers are equal messages.
THEOREM PairsAlwaysMatch == OneTwoStepMaster /\ Spec => []PairsMatch
<1>1. Init => PairsMatch BY DEF Init, PairsMatch, NoMessage
<1>2. OneTwoStepMaster /\ IInv /\ PairsMatch /\ [Next]_vars => PairsMatch'
  BY PairsStep
<1> SUFFICES ASSUME OneTwoStepMaster PROVE Spec => []PairsMatch OBVIOUS
<1> QED BY <1>1, <1>2, Invariance, PTL DEF Spec

\* The two halves of one Sync, received next to each other, synchronize the clock
\* in either order: the second one is never stored.
THEOREM AdjacentAlwaysSynchronize == Spec => AdjacentSynchronize
<1> DEFINE Apart == ~ /\ prev' # NoMessage /\ prev'.src = prev.src
                      /\ prev'.n = prev.n /\ prev'.kind # prev.kind
<1>1. ASSUME IInv, [Next]_vars PROVE [Apart]_vars
  <2> SUFFICES ASSUME Next, prev' # NoMessage, prev'.src = prev.src,
                      prev'.n = prev.n, prev'.kind # prev.kind
               PROVE  FALSE
    BY <1>1
  <2>1. Receive BY DEF Next, Send, RsSlave, Leave, Reinitialize
  <2>2. PICK m \in Messages, b \in port.pool :
          /\ Deliverable(m)
          /\ Ignored(m, b) \/ process_sync(m, b) \/ process_follow_up(m, b)
    BY <2>1 DEF Receive
  <2> DEFINE p == msg_allocate(port, b, m)
  <2>3. /\ p.syfu = port.syfu /\ p.last = port.last
        /\ Storing(port) => p.content[port.last] = port.content[port.last]
    BY <1>1, Allocate DEF IInv
  <2>4. /\ prev' = m
        /\ \/ /\ m.kind = "SYNC"
              /\ ~ /\ p.syfu = "SF_HAVE_FUP"
                   /\ SequenceId(p.content[p.last]) = SequenceId(m)
           \/ /\ m.kind = "FOLLOW_UP"
              /\ ~ /\ p.syfu = "SF_HAVE_SYNC"
                   /\ SequenceId(p.content[p.last]) = SequenceId(m)
    BY <2>2, Zenon DEF Ignored, process_sync, process_follow_up
  <2> HIDE DEF p
  <2>5. prev # NoMessage
    BY <2>2, <2>4, BoundsAssumption DEF NoMessage, Messages
  <2>6. /\ Storing(port) /\ port.content[port.last] = prev /\ Recent(prev) /\ StoredTyped(port)
        /\ port.syfu \in {"SF_EMPTY", "SF_HAVE_SYNC", "SF_HAVE_FUP"}
    BY <1>1, <2>5 DEF IInv, PrevStored, StoredRecent, Resting, PortType
  <2>7. SequenceId(prev) = SequenceId(m) BY <2>4 DEF SequenceId
  <2> QED BY <2>3, <2>4, <2>6, <2>7 DEF StoredTyped, Storing
<1>2. IInv /\ [Next]_vars => [Apart]_vars BY <1>1
<1> QED BY <1>2, Invariance, PTL DEF Spec, AdjacentSynchronize
-----------------------------------------------------------------------------

\* A number is the multiple and the remainder of which it is the sum.
LEMMA UniqueRemainder ==
    ASSUME NEW M \in Nat, NEW a \in Nat, NEW q \in Nat, NEW r \in 0..(M - 1),
           a = M * q + r
    PROVE  a % M = r
<1> DEFINE d == a \div M
           e == a % M
<1>1. M > 0 OBVIOUS
<1>2. d \in Nat /\ e \in 0..(M - 1) /\ a = M * d + e BY <1>1
<1> HIDE DEF d, e
<1>3. CASE d < q
  <2>1. M * (q - d) >= M BY <1>1, <1>2, <1>3
  <2> QED BY <1>2, <2>1
<1>4. CASE q < d
  <2>1. M * (d - q) >= M BY <1>1, <1>2, <1>4
  <2> QED BY <1>2, <2>1
<1>5. CASE q = d BY <1>2, <1>5 DEF e
<1> QED BY <1>2, <1>3, <1>4, <1>5

\* Counting modulo M by counting what was counted modulo M.
LEMMA NextRemainder ==
    ASSUME NEW M \in Nat \ {0}, NEW a \in Nat
    PROVE  ((a % M) + 1) % M = (a + 1) % M
<1> DEFINE q == a \div M
           r == a % M
<1>1. q \in Nat /\ r \in 0..(M - 1) /\ a = M * q + r OBVIOUS
<1> HIDE DEF q, r
<1>2. CASE r + 1 < M
  <2>1. (a + 1) % M = r + 1 BY <1>1, <1>2, UniqueRemainder
  <2>2. (r + 1) % M = r + 1 BY <1>1, <1>2
  <2> QED BY <2>1, <2>2 DEF r
<1>3. CASE r + 1 = M
  <2>1. a + 1 = M * (q + 1) + 0 /\ q + 1 \in Nat BY <1>1, <1>3
  <2>2. (a + 1) % M = 0 BY <1>1, <2>1, UniqueRemainder
  <2>3. (r + 1) % M = 0 BY <1>3
  <2> QED BY <2>2, <2>3 DEF r
<1> QED BY <1>1, <1>2, <1>3

-----------------------------------------------------------------------------
\* The NetSync monitor.
NsmType ==
    [req : SUBSET NsMessages, kept : [Slots -> SUBSET NsMessages],
     sequence_id : 0..(IdMod - 1)]

AtMostOne(S) == \A x, y \in S : x = y

NsTypes ==
    /\ nsm \in NsmType /\ AtMostOne(nsm.req) /\ \A s \in Slots : AtMostOne(nsm.kept[s])
    /\ nsm.sequence_id = asked % IdMod
    /\ batch \in BOOLEAN /\ waiting \in BOOLEAN /\ status \in {"run", "ended", "crashed"}
    /\ left \in 0..MaxRequests /\ asked \in 0..MaxRequests /\ asked + left <= MaxRequests
    /\ net \subseteq NsMessages /\ faulty \subseteq Nodes

\* The request, the messages under way and the answers kept are of the newest
\* requests, and a request went to one node.
NetRecent == \A x \in net : x.n <= asked /\ asked - x.n <= Late
ReqRecent == \A r \in nsm.req : r.n <= asked /\ asked - r.n <= Late
OneNode ==
    /\ \A x, y \in net : x.n = y.n => x.node = y.node
    /\ \A x \in net, r \in nsm.req : x.n = r.n => x.node = r.node

\* The answers kept are those to the request.
KeptBelong ==
    \A s \in Slots : \A m \in nsm.kept[s] :
        nsm.req # {} /\ \A r \in nsm.req : m.n = r.n /\ m.node = r.node

OneMeasured == \A a, b \in measured : a.node = b.node /\ a.n = b.n

NsInv == NsTypes /\ NetRecent /\ ReqRecent /\ OneNode /\ KeptBelong /\ OneMeasured

\* A set with at most one element is counted as such.
LEMMA AtMostOneCounts == ASSUME NEW S, AtMostOne(S) PROVE Cardinality(S) <= 1
<1>1. CASE S = {} BY <1>1, FS_EmptySet
<1>2. CASE S # {}
  <2>1. PICK x \in S : TRUE BY <1>2
  <2>2. S = {x} BY <2>1 DEF AtMostOne
  <2>3. Cardinality({x}) = 1 BY FS_Singleton, Zenon
  <2> QED BY <2>2, <2>3
<1> QED BY <1>1, <1>2

\* The invariant says what the run checks.
LEMMA NsInvMeasures == NsInv => MeasuresOneExchange
<1> SUFFICES ASSUME NsInv PROVE MeasuresOneExchange OBVIOUS
<1>1. \A s \in Slots : Cardinality(nsm.kept[s]) <= 1
  BY AtMostOneCounts DEF NsInv, NsTypes
<1>2. NsTypeOK BY <1>1 DEF NsInv, NsTypes, NsTypeOK, NsmType
<1> QED BY <1>2 DEF MeasuresOneExchange, NsInv, OneMeasured

\* nsm_reset() and NextId() by the fields they change.
LEMMA ResetFields ==
    ASSUME NEW s \in NsmType
    PROVE  LET q == nsm_reset(s)
           IN  /\ q \in NsmType /\ q.req = {} /\ q.sequence_id = s.sequence_id
               /\ \A x \in Slots : q.kept[x] = {}
BY DEF NsmType, nsm_reset, Nothing

\* The next sequence number
LEMMA NextIdFields ==
    ASSUME NEW s \in NsmType
    PROVE  LET q == NextId(s)
           IN  /\ q \in NsmType /\ q.req = s.req /\ q.kept = s.kept
               /\ q.sequence_id = (s.sequence_id + 1) % IdMod
<1> DEFINE i == (s.sequence_id + 1) % IdMod
<1>1. i \in 0..(IdMod - 1) BY NetSyncAssumption DEF NsmType
<1>2. NextId(s) = [s EXCEPT !.sequence_id = i] BY DEF NextId
<1> HIDE DEF i
<1> QED BY <1>1, <1>2 DEF NsmType, i

\* The monitor has heard nothing at first.
LEMMA NsInitInv == NsInit => NsInv
<1> SUFFICES ASSUME NsInit PROVE NsInv OBVIOUS
<1>1. IdMod \in Nat /\ IdMod > 0 /\ MaxRequests \in Nat /\ 0 % IdMod = 0
  BY NetSyncAssumption
<1>2. /\ nsm \in NsmType /\ nsm.req = {} /\ nsm.sequence_id = 0
      /\ \A s \in Slots : nsm.kept[s] = {}
  BY <1>1 DEF NsInit, Idle_nsm, Nothing, NsmType
<1>3. NsTypes BY <1>1, <1>2 DEF NsInit, NsTypes, AtMostOne
<1> QED BY <1>2, <1>3 DEF NsInit, NsInv, NetRecent, ReqRecent, OneNode, KeptBelong, OneMeasured

\* nsm_request() takes the next sequence number, and the messages that are still
\* under way are younger than Late requests.
LEMMA CommandInv == ASSUME NsInv, nsm_command PROVE NsInv'
<1> USE NetSyncAssumption
<1>1. PICK node \in Nodes : nsm_request(node) BY DEF nsm_command
<1>2. /\ left > 0 /\ left' = left - 1 /\ batch' = batch /\ waiting' = waiting
      /\ status' = status /\ faulty' = faulty /\ measured' = measured
  BY DEF nsm_command
<1>3. /\ asked \in Nat /\ asked + 1 <= MaxRequests /\ asked + 1 + left' <= MaxRequests
      /\ left' \in 0..MaxRequests /\ asked + 1 \in 1..MaxRequests
  BY <1>2 DEF NsInv, NsTypes
<1> DEFINE m == [type |-> "DELAY_REQ", node |-> node, n |-> asked + 1]
           Young == {x \in net : asked + 1 - x.n < Late}
           t == NextId(nsm)
<1>4. m \in NsMessages /\ m.n = asked + 1 /\ m.node = node BY <1>3 DEF NsMessages
<1>5. /\ t \in NsmType /\ t.req = nsm.req /\ t.kept = nsm.kept
      /\ t.sequence_id = (asked + 1) % IdMod
  <2>1. nsm \in NsmType /\ nsm.sequence_id = asked % IdMod BY DEF NsInv, NsTypes
  <2>2. ((asked % IdMod) + 1) % IdMod = (asked + 1) % IdMod
    <3>1. IdMod \in Nat \ {0} /\ asked \in Nat BY <1>3
    <3> QED BY ONLY <3>1, NextRemainder
  <2> QED BY <2>1, <2>2, NextIdFields
<1>6. \/ UNCHANGED <<nsm, asked, net>>
      \/ /\ \A r \in nsm.req : asked - r.n < Late
         /\ nsm' = t /\ asked' = asked + 1 /\ net' \in {Young, Young \cup {m}}
      \/ /\ nsm' = [nsm_reset(t) EXCEPT !.req = {m}]
         /\ asked' = asked + 1 /\ net' = Young \cup {m}
  BY <1>1 DEF nsm_request
<1> HIDE DEF m, t
<1>7. CASE UNCHANGED <<nsm, asked, net>>
  <2>1. NsTypes' BY <1>2, <1>3, <1>7 DEF NsInv, NsTypes
  <2> QED BY <1>2, <1>7, <2>1
          DEF NsInv, NetRecent, ReqRecent, OneNode, KeptBelong, OneMeasured
<1>8. ASSUME asked' = asked + 1, net' \in {Young, Young \cup {m}}
      PROVE  /\ net' \subseteq NsMessages /\ NetRecent'
             /\ \A x, y \in net' : x.n = y.n => x.node = y.node
             /\ \A x \in net' : x.n = m.n => x.node = m.node
             /\ \A x \in net' : x = m \/ x \in net
  <2>1. \A x \in net' : x = m \/ (x \in net /\ asked + 1 - x.n < Late)
    BY <1>8
  <2>2. net' \subseteq NsMessages BY <1>4, <2>1 DEF NsInv, NsTypes
  <2>3. \A x \in net : x.n \in Nat /\ x.n <= asked
    BY DEF NsInv, NsTypes, NsMessages, NetRecent
  <2>4. NetRecent' BY <1>3, <1>4, <1>8, <2>1, <2>3 DEF NetRecent
  <2>5. \A x \in net : x.n # m.n BY <1>3, <1>4, <2>3
  <2>6. \A x, y \in net : x.n = y.n => x.node = y.node BY DEF NsInv, OneNode
  <2> QED BY <2>1, <2>2, <2>4, <2>5, <2>6
<1>9. CASE /\ \A r \in nsm.req : asked - r.n < Late
           /\ nsm' = t /\ asked' = asked + 1 /\ net' \in {Young, Young \cup {m}}
  <2>1. NsTypes' BY <1>2, <1>3, <1>5, <1>8, <1>9 DEF NsInv, NsTypes
  <2>2. \A r \in nsm.req : r.n \in Nat /\ r.n <= asked /\ asked - r.n < Late
    BY <1>9 DEF NsInv, NsTypes, NsmType, NsMessages, ReqRecent
  <2>3. ReqRecent' BY <1>3, <1>5, <1>9, <2>2 DEF ReqRecent
  <2>4. \A r \in nsm.req : r.n # m.n BY <1>3, <1>4, <2>2
  <2>5. OneNode' BY <1>5, <1>8, <1>9, <2>4 DEF NsInv, OneNode
  <2>6. KeptBelong' BY <1>5, <1>9 DEF NsInv, KeptBelong
  <2>7. OneMeasured' BY <1>2 DEF NsInv, OneMeasured
  <2> QED BY <1>8, <1>9, <2>1, <2>3, <2>5, <2>6, <2>7 DEF NsInv
<1>10. CASE /\ nsm' = [nsm_reset(t) EXCEPT !.req = {m}]
            /\ asked' = asked + 1 /\ net' = Young \cup {m}
  <2> DEFINE z == nsm_reset(t)
  <2>1. /\ z \in NsmType /\ z.req = {} /\ z.sequence_id = t.sequence_id
        /\ \A x \in Slots : z.kept[x] = {}
    BY <1>5, ResetFields
  <2> HIDE DEF z
  <2>2. nsm' = [z EXCEPT !.req = {m}] BY <1>10 DEF z
  <2>3. /\ nsm' \in NsmType /\ nsm'.req = {m} /\ nsm'.sequence_id = t.sequence_id
        /\ nsm'.kept = z.kept
    BY <1>4, <2>1, <2>2 DEF NsmType
  <2>4. NsTypes'
    BY <1>2, <1>3, <1>5, <1>8, <1>10, <2>1, <2>3 DEF NsInv, NsTypes, AtMostOne
  <2>5. ReqRecent' BY <1>3, <1>4, <1>10, <2>3 DEF ReqRecent
  <2>6. OneNode' BY <1>8, <1>10, <2>3 DEF OneNode
  <2>7. KeptBelong' BY <2>1, <2>3 DEF KeptBelong
  <2>8. OneMeasured' BY <1>2 DEF NsInv, OneMeasured
  <2> QED BY <1>8, <1>10, <2>4, <2>5, <2>6, <2>7, <2>8 DEF NsInv
<1> QED BY <1>6, <1>7, <1>9, <1>10

\* An answer that belongs to the request by its sequence number is an answer to
\* that request, since both are of the last IdMod requests.
LEMMA BelongsIsOwn ==
    ASSUME NsInv, NEW m \in net, Belongs(nsm, m), NEW r \in nsm.req
    PROVE  m.n = r.n /\ m.node = r.node
<1>1. (m.n - 1) % IdMod = (r.n - 1) % IdMod BY DEF Belongs, SequenceIdOf
<1>2. /\ m.n \in 1..MaxRequests /\ r.n \in 1..MaxRequests /\ asked \in Nat
      /\ m.n <= asked /\ asked - m.n <= Late /\ r.n <= asked /\ asked - r.n <= Late
  BY NetSyncAssumption DEF NsInv, NsTypes, NsmType, NsMessages, NetRecent, ReqRecent
<1>3. /\ m.n - 1 \in Nat /\ r.n - 1 \in Nat /\ IdMod \in Nat
      /\ (m.n - 1) - (r.n - 1) < IdMod /\ (r.n - 1) - (m.n - 1) < IdMod
  BY <1>2, NetSyncAssumption
<1>4. m.n - 1 = r.n - 1 BY ONLY <1>1, <1>3, SameRemainder
<1>5. m.n = r.n BY <1>2, <1>4
<1> QED BY <1>5 DEF NsInv, OneNode

\* What is kept after Keep().
LEMMA KeepFields ==
    ASSUME NEW s \in NsmType, NEW m \in NsMessages, m.type \in Answers
    PROVE  LET q == Keep(s, m)
           IN  /\ q \in NsmType /\ q.req = s.req /\ q.sequence_id = s.sequence_id
               /\ \A x \in Slots : q.kept[x] = s.kept[x] \/ q.kept[x] = {m}
<1> DEFINE x0 == SlotOf(m.type)
           k == IF s.kept[x0] = Nothing THEN {m} ELSE s.kept[x0]
           f == [s.kept EXCEPT ![x0] = k]
           q == Keep(s, m)
<1>1. x0 \in Slots BY DEF SlotOf, Answers, Slots
<1>2. q = [s EXCEPT !.kept = f] BY DEF Keep
<1> HIDE DEF x0
<1>3. k \in SUBSET NsMessages /\ (k = s.kept[x0] \/ k = {m}) BY <1>1 DEF NsmType
<1> HIDE DEF k
<1>4. /\ f \in [Slots -> SUBSET NsMessages]
      /\ \A x \in Slots : f[x] = s.kept[x] \/ f[x] = {m}
  BY <1>1, <1>3 DEF NsmType
<1> HIDE DEF f, q
<1>5. q \in NsmType /\ q.req = s.req /\ q.sequence_id = s.sequence_id /\ q.kept = f
  BY <1>2, <1>4 DEF NsmType
<1> QED BY <1>4, <1>5 DEF q

\* The parts of the invariant that say nothing of the answers kept.
LEMMA NsKeepsRest ==
    ASSUME NsInv, nsm' \in NsmType, nsm'.req \in {nsm.req, {}},
           nsm'.sequence_id = nsm.sequence_id, \A s \in Slots : AtMostOne(nsm'.kept[s]),
           batch' = batch, waiting' \in BOOLEAN, status' \in {"run", "ended", "crashed"},
           left' = left, asked' = asked, net' = net, faulty' = faulty
    PROVE  NsTypes' /\ NetRecent' /\ ReqRecent' /\ OneNode'
<1>1. NsTypes' BY DEF NsInv, NsTypes, AtMostOne
<1>2. NetRecent' /\ ReqRecent' /\ OneNode' BY DEF NsInv, NetRecent, ReqRecent, OneNode
<1> QED BY <1>1, <1>2

\* A message reaches the monitor, in whatever order.
LEMMA HandleInv == ASSUME NsInv, NEW m \in net, nsm_handle_msg(m) PROVE NsInv'
<1> DEFINE s == Keep(nsm, m)
<1>1. nsm \in NsmType /\ m \in NsMessages /\ m.type \in Answers /\ Belongs(nsm, m)
  BY DEF NsInv, NsTypes, nsm_handle_msg
<1>2. /\ s \in NsmType /\ s.req = nsm.req /\ s.sequence_id = nsm.sequence_id
      /\ \A x \in Slots : s.kept[x] = nsm.kept[x] \/ s.kept[x] = {m}
  BY <1>1, KeepFields
<1>3. /\ batch' = batch /\ waiting' = waiting /\ left' = left /\ asked' = asked
      /\ net' = net /\ faulty' = faulty
      /\ \/ nsm' = s /\ measured' = measured /\ status' \in {status, "crashed"}
         \/ /\ measured' = UNION ({s.req} \cup {s.kept[x] : x \in Slots})
            /\ nsm' = nsm_reset(s) /\ status' = status
  BY DEF nsm_handle_msg
<1> HIDE DEF s
<1>4. \A r \in nsm.req : m.n = r.n /\ m.node = r.node BY <1>1, BelongsIsOwn
<1>5. nsm.req # {} BY <1>1 DEF Belongs, Nothing
<1>6. /\ \A x \in Slots : AtMostOne(s.kept[x])
      /\ \A x \in Slots : \A y \in s.kept[x] :
            \A r \in nsm.req : y.n = r.n /\ y.node = r.node
  BY <1>2, <1>4 DEF NsInv, NsTypes, KeptBelong, AtMostOne
<1>7. waiting \in BOOLEAN /\ status \in {"run", "ended", "crashed"}
  BY DEF NsInv, NsTypes
<1>8. CASE nsm' = s /\ measured' = measured /\ status' \in {status, "crashed"}
  <2>1. NsTypes' /\ NetRecent' /\ ReqRecent' /\ OneNode'
    BY <1>2, <1>3, <1>6, <1>7, <1>8, NsKeepsRest
  <2>2. KeptBelong' BY <1>2, <1>5, <1>6, <1>8 DEF KeptBelong
  <2>3. OneMeasured' BY <1>8 DEF NsInv, OneMeasured
  <2> QED BY <2>1, <2>2, <2>3 DEF NsInv
<1>9. CASE /\ measured' = UNION ({s.req} \cup {s.kept[x] : x \in Slots})
           /\ nsm' = nsm_reset(s) /\ status' = status
  <2> DEFINE z == nsm_reset(s)
  <2>1. /\ z \in NsmType /\ z.req = {} /\ z.sequence_id = s.sequence_id
        /\ \A x \in Slots : z.kept[x] = {}
    BY <1>2, ResetFields
  <2>2. nsm' = z BY <1>9
  <2> HIDE DEF z
  <2>3. \A x \in Slots : AtMostOne(nsm'.kept[x]) BY <2>1, <2>2 DEF AtMostOne
  <2>4. NsTypes' /\ NetRecent' /\ ReqRecent' /\ OneNode'
    BY <1>2, <1>3, <1>7, <1>9, <2>1, <2>2, <2>3, NsKeepsRest
  <2>5. KeptBelong' BY <2>1, <2>2 DEF KeptBelong
  <2>6. PICK r \in nsm.req : TRUE BY <1>5
  <2>7. \A y \in nsm.req : y = r BY DEF NsInv, NsTypes, AtMostOne
  <2>8. \A y \in measured' : y.n = r.n /\ y.node = r.node
    BY <1>2, <1>6, <1>9, <2>7
  <2>9. OneMeasured' BY <2>8 DEF OneMeasured
  <2> QED BY <2>4, <2>5, <2>9 DEF NsInv
<1> QED BY <1>3, <1>8, <1>9

\* A timeout or the end of the input forgets the exchange, or leaves it alone.
LEMMA EndInv == ASSUME NsInv, PollTimeout \/ EndOfInput PROVE NsInv'
<1> DEFINE z == nsm_reset(nsm)
<1>1. /\ z \in NsmType /\ z.req = {} /\ z.sequence_id = nsm.sequence_id
      /\ \A x \in Slots : z.kept[x] = {}
  BY ResetFields DEF NsInv, NsTypes
<1>2. /\ batch' = batch /\ left' = left /\ asked' = asked
      /\ net' = net /\ faulty' = faulty /\ measured' = measured
      /\ waiting' \in {waiting, TRUE} /\ status' \in {status, "ended"}
      /\ nsm' = z \/ nsm' = nsm
  BY DEF PollTimeout, TimedOut, EndOfInput
<1> HIDE DEF z
<1>3. /\ nsm \in NsmType /\ waiting \in BOOLEAN /\ status \in {"run", "ended", "crashed"}
      /\ \A x \in Slots : AtMostOne(nsm.kept[x])
  BY DEF NsInv, NsTypes
<1>4. \A x \in Slots : AtMostOne(nsm'.kept[x]) BY <1>1, <1>2, <1>3 DEF AtMostOne
<1>5. NsTypes' /\ NetRecent' /\ ReqRecent' /\ OneNode'
  BY <1>1, <1>2, <1>3, <1>4, NsKeepsRest
<1>6. KeptBelong' BY <1>1, <1>2 DEF NsInv, KeptBelong
<1>7. OneMeasured' BY <1>2 DEF NsInv, OneMeasured
<1> QED BY <1>5, <1>6, <1>7 DEF NsInv

\* A node answers with messages of the exchange it was asked for.
LEMMA ServeInv == ASSUME NsInv, NEW m \in net, Serve(m) PROVE NsInv'
<1>1. PICK s \in process_delay_req(m.node) :
        /\ net' = net \cup {[m EXCEPT !.type = t] : t \in s.types}
        /\ faulty' = IF s.ok THEN faulty ELSE faulty \cup {m.node}
  BY DEF Serve
<1>2. /\ nsm' = nsm /\ batch' = batch /\ waiting' = waiting /\ left' = left
      /\ status' = status /\ asked' = asked /\ measured' = measured
  BY DEF Serve
<1>3. s.types \subseteq Answers
  <2>1. \A node \in Nodes : \A x \in port_tx_sync(node) : x.types \subseteq Answers
    BY DEF port_tx_sync, Sent, Answers
  <2>2. m.node \in Nodes BY DEF NsInv, NsTypes, NsMessages
  <2>3. \/ s.types \subseteq {"DELAY_RESP"}
        \/ \E x \in port_tx_sync(m.node) : s = Sent({"DELAY_RESP"} \cup x.types, x.ok)
    BY <1>1 DEF process_delay_req, Sent, net_sync_resp_append
  <2> QED BY <2>1, <2>2, <2>3 DEF Sent, Answers
<1>4. m \in NsMessages /\ net \subseteq NsMessages BY DEF NsInv, NsTypes
<1>5. \A t \in Answers : LET x == [m EXCEPT !.type = t]
                         IN  x \in NsMessages /\ x.n = m.n /\ x.node = m.node
  BY <1>4 DEF NsMessages
<1>6. \A x \in net' : x \in NsMessages /\ \E y \in net : x.n = y.n /\ x.node = y.node
  BY <1>1, <1>3, <1>4, <1>5
<1>7. faulty' \subseteq Nodes BY <1>1, <1>4 DEF NsInv, NsTypes, NsMessages
<1>8. NsTypes' BY <1>2, <1>6, <1>7 DEF NsInv, NsTypes
<1>9. NetRecent' BY <1>2, <1>6 DEF NsInv, NetRecent
<1>10. OneNode' BY <1>2, <1>6 DEF NsInv, OneNode
<1>11. ReqRecent' /\ KeptBelong' /\ OneMeasured'
  BY <1>2 DEF NsInv, ReqRecent, KeptBelong, OneMeasured
<1> QED BY <1>8, <1>9, <1>10, <1>11 DEF NsInv

\* Every step of the monitor and of the network keeps its invariant.
LEMMA NsNextInv == NsInv /\ [NsNext]_nvars => NsInv'
<1> SUFFICES ASSUME NsInv, [NsNext]_nvars PROVE NsInv' OBVIOUS
<1>1. CASE Repair
  BY <1>1 DEF Repair, NsInv, NsTypes, NetRecent, ReqRecent, OneNode, KeptBelong, OneMeasured
<1>2. CASE UNCHANGED nvars
  BY <1>2 DEF nvars, NsInv, NsTypes, NetRecent, ReqRecent, OneNode, KeptBelong, OneMeasured
<1>3. CASE Arrives BY <1>3, HandleInv DEF Arrives
<1> QED BY <1>1, <1>2, <1>3, CommandInv, EndInv, ServeInv DEF NsNext

-----------------------------------------------------------------------------
\* The transmit time stamps.  The message of a port whose time stamp is pending is
\* the only one of which the socket may still deliver one.
Pending == {polling, deferred} \ {None}

TxInv ==
    /\ user \in {"port", "nsm"} /\ sends \in Nat
    /\ user = "port" =>
         /\ polling = None \/ deferred = None
         /\ underway \subseteq Pending
         /\ errqueue = <<>> \/ \E n \in Pending : errqueue = <<n>> /\ underway = {}
         /\ stamped[1] = stamped[2]

\* No time stamp is under way at first.
LEMMA TxInitInv == TxInit => TxInv
BY DEF TxInit, TxInv

\* A port that fails to get a time stamp closes the socket.
LEMMA FailedInv == ASSUME TxInv, Failed PROVE TxInv'
BY DEF TxInv, Failed, transport_close

\* An event message is sent and its time stamp awaited.
LEMMA SendInvTx ==
    ASSUME TxInv, NEW event \in {"TRANS_EVENT", "TRANS_DEFER_EVENT"}, transport_send(event)
    PROVE  TxInv'
<1>1. CASE Failed BY <1>1, FailedInv
<1>2. CASE OnTheWire(event)
  <2>1. /\ polling = None /\ deferred = None /\ user' = user /\ sends' = sends + 1
        /\ underway' = underway \cup {sends + 1} /\ errqueue' = errqueue
        /\ stamped' = stamped /\ polling' \in {sends + 1, None}
        /\ deferred' \in {sends + 1, None}
        /\ polling' = IF event = "TRANS_EVENT" THEN sends + 1 ELSE None
        /\ deferred' = IF event = "TRANS_DEFER_EVENT" THEN sends + 1 ELSE None
    BY <1>2 DEF transport_send, OnTheWire
  <2>2. sends \in Nat /\ sends + 1 # None BY DEF TxInv, None
  <2>3. user = "port" => underway = {} /\ errqueue = <<>> BY <2>1 DEF TxInv, Pending
  <2> QED BY <2>1, <2>2, <2>3 DEF TxInv, Pending
<1> QED BY <1>1, <1>2 DEF transport_send, raw_send, udp_send

\* sk_receive() takes what the error queue has.
LEMMA ReceiveInvTx == ASSUME TxInv, sk_receive PROVE TxInv'
<1>1. CASE Failed BY <1>1, FailedInv
<1>2. CASE /\ errqueue # <<>>
           /\ stamped' = <<polling, Head(errqueue)>> /\ errqueue' = Tail(errqueue)
           /\ polling' = None
           /\ UNCHANGED <<user, trp, fds, sends, underway, deferred>>
  <2>1. user' = user /\ sends' = sends /\ TxInv BY <1>2
  <2>2. CASE user = "port"
    <3>1. PICK n \in Pending : errqueue = <<n>> /\ underway = {} BY <1>2, <2>2 DEF TxInv
    <3>2. polling # None BY DEF sk_receive
    <3>3. n = polling BY <2>2, <3>1, <3>2 DEF TxInv, Pending
    <3>4. Head(errqueue) = polling /\ Tail(errqueue) = <<>> BY <3>1, <3>3
    <3> QED BY <1>2, <2>2, <3>1, <3>4 DEF TxInv
  <2>3. CASE user # "port" BY <2>1, <2>3 DEF TxInv
  <2> QED BY <2>2, <2>3
<1> QED BY <1>1, <1>2 DEF sk_receive

\* The driver delivers a time stamp to the error queue.
LEMMA DeliverInv == ASSUME TxInv, NEW n \in underway, Deliver(n) PROVE TxInv'
<1>1. CASE user = "port"
  <2>1. n \in Pending /\ errqueue = <<>> BY <1>1 DEF TxInv
  <2>2. underway = {n} BY <1>1, <2>1 DEF TxInv, Pending
  <2>3. errqueue' = <<n>> /\ underway' = {} BY <2>1, <2>2 DEF Deliver
  <2> QED BY <1>1, <2>1, <2>3 DEF TxInv, Deliver, Pending
<1>2. CASE user # "port" BY <1>2 DEF TxInv, Deliver
<1> QED BY <1>1, <1>2

\* Every step of the time stamping keeps its invariant.
LEMMA TxNextInv == TxInv /\ [TxNext]_tvars => TxInv'
<1> SUFFICES ASSUME TxInv, [TxNext]_tvars PROVE TxInv' OBVIOUS
<1>1. CASE transport_txts BY <1>1 DEF transport_txts, TxInv, Pending
<1>2. CASE transport_open BY <1>2 DEF transport_open, TxInv, Pending
<1>3. CASE UNCHANGED tvars BY <1>3 DEF tvars, TxInv, Pending
<1> QED BY <1>1, <1>2, <1>3, SendInvTx, ReceiveInvTx, DeliverInv DEF TxNext

-----------------------------------------------------------------------------
\* The slave event monitor.
Indices == 0..(RecordsPerMessage - 1)
RecordType == [src : Parents \cup {"wildcard"}, n : Nat]
MonitorMessage ==
    [source : Parents \cup {"wildcard"}, count : Nat, record : [Indices -> RecordType],
     sequenceId : Nat]

\* The first n records of a message are of its source, and in the order of the
\* events, of which there were e.
Ordered(mm, n, e) ==
    /\ \A i \in Indices : i < n => mm.record[i].src = mm.source /\ mm.record[i].n <= e
    /\ \A i, j \in Indices : i < j /\ j < n => mm.record[i].n < mm.record[j].n

MonInv ==
    /\ mon \in [{"sync", "delay"} -> MonitorMessage] /\ events \in Nat
    /\ \A k \in {"sync", "delay"} :
         mon[k].count < RecordsPerMessage /\ Ordered(mon[k], mon[k].count, events)
    /\ ForwardsFresh

\* The event monitor has collected nothing at first.
LEMMA MonInitInv == MonInit => MonInv
<1> SUFFICES ASSUME MonInit PROVE MonInv OBVIOUS
<1> DEFINE mm == monitor_init_message
<1>1. [i \in Indices |-> Blank] \in [Indices -> RecordType] BY DEF RecordType, Blank
<1>2. mm \in MonitorMessage /\ mm.count = 0
  BY <1>1 DEF monitor_init_message, MonitorMessage, Indices
<1>3. RecordsPerMessage > 0 BY MonitorAssumption
<1>4. Ordered(mm, 0, 0) BY DEF Ordered, Indices
<1> HIDE DEF mm
<1>5. mon = [k \in {"sync", "delay"} |-> mm] BY DEF MonInit, mm
<1> QED BY <1>2, <1>3, <1>4, <1>5 DEF MonInit, MonInv, ForwardsFresh

\* A record after those that are there.
LEMMA AppendOrdered ==
    ASSUME NEW mm \in MonitorMessage, NEW e \in Nat, mm.count \in Indices,
           Ordered(mm, mm.count, e),
           NEW q \in MonitorMessage, q.count = mm.count + 1, q.source = mm.source,
           q.record[mm.count].src = mm.source, q.record[mm.count].n = e + 1,
           \A i \in Indices \ {mm.count} : q.record[i] = mm.record[i]
    PROVE  Ordered(q, q.count, e + 1)
<1> DEFINE c == mm.count
<1>1. c \in Nat /\ c \in Indices BY DEF Indices
<1> HIDE DEF c
<1>2. \A i \in Indices : i \in Int /\ mm.record[i].n \in Int
  <2>1. \A i \in Indices : mm.record[i] \in RecordType BY DEF MonitorMessage
  <2>2. \A i \in Indices : mm.record[i].n \in Nat BY <2>1 DEF RecordType
  <2> QED BY <2>2 DEF Indices
<1>3. ASSUME NEW i \in Indices, i < c + 1
      PROVE  q.record[i].src = q.source /\ q.record[i].n <= e + 1
  <2>1. CASE i = c BY <2>1 DEF c
  <2>2. CASE i # c
    <3>1. i < c BY <1>1, <1>2, <1>3, <2>2
    <3> QED BY <1>2, <2>2, <3>1 DEF Ordered, c
  <2> QED BY <2>1, <2>2
<1>4. ASSUME NEW i \in Indices, NEW j \in Indices, i < j, j < c + 1
      PROVE  q.record[i].n < q.record[j].n
  <2>1. i < c /\ i # c BY <1>1, <1>2, <1>4
  <2>2. q.record[i] = mm.record[i] /\ mm.record[i].n <= e BY <2>1 DEF Ordered, c
  <2>3. CASE j = c BY <1>2, <2>2, <2>3 DEF c
  <2>4. CASE j # c
    <3>1. j < c BY <1>1, <1>2, <1>4, <2>4
    <3> QED BY <1>4, <2>2, <2>4, <3>1 DEF Ordered, c
  <2> QED BY <2>3, <2>4
<1> QED BY <1>3, <1>4 DEF Ordered, c

\* The message under the name of its source: the records that are there stay, or
\* are dropped.
LEMMA NamedOrdered ==
    ASSUME NEW mm \in MonitorMessage, mm.count < RecordsPerMessage,
           Ordered(mm, mm.count, events), NEW src \in Parents
    PROVE  LET q == NameSource(mm, src)
           IN  /\ q \in MonitorMessage /\ q.source = src /\ q.count \in Indices
               /\ Ordered(q, q.count, events)
<1> DEFINE q == NameSource(mm, src)
<1>0. mm.count \in Indices /\ 0 \in Indices
  BY MonitorAssumption DEF MonitorMessage, Indices
<1>1. CASE mm.source = src BY <1>0, <1>1 DEF NameSource
<1>2. CASE mm.source # src
  <2>1. q \in MonitorMessage /\ q.source = src /\ q.count = 0
    BY <1>2 DEF NameSource, MonitorMessage
  <2> HIDE DEF q
  <2>2. Ordered(q, 0, events) BY DEF Ordered, Indices
  <2> QED BY <1>0, <2>1, <2>2 DEF q
<1> QED BY <1>1, <1>2

\* monitor_sync() and monitor_delay(): the record is put behind those of the same
\* source, and a full message is forwarded and begun anew.
LEMMA RecordInv ==
    ASSUME MonInv, NEW kind \in {"sync", "delay"}, NEW src \in Parents,
           NEW snt \in BOOLEAN, NEW counted \in BOOLEAN, Record(kind, src, snt, counted)
    PROVE  MonInv'
<1> DEFINE mm == mon[kind]
           named == NameSource(mm, src)
           more == [named EXCEPT !.record[named.count] = [src |-> src, n |-> events + 1],
                                 !.count = @ + 1]
           z == [more EXCEPT !.count = 0]
           w == monitor_forward(z, counted)
<1>1. /\ events' = events + 1
      /\ IF Full(more)
         THEN /\ mon' = [mon EXCEPT ![kind] = w]
              /\ forwarded' = IF snt THEN <<more>> ELSE <<>>
         ELSE mon' = [mon EXCEPT ![kind] = more] /\ forwarded' = <<>>
  BY Zenon DEF Record
<1>2. /\ events \in Nat /\ mm \in MonitorMessage /\ mm.count < RecordsPerMessage
      /\ Ordered(mm, mm.count, events)
  BY DEF MonInv
<1> HIDE DEF mm
<1>3. /\ named \in MonitorMessage /\ named.source = src /\ named.count \in Indices
      /\ Ordered(named, named.count, events)
  BY <1>2, NamedOrdered
<1> HIDE DEF named
<1>4. /\ more \in MonitorMessage /\ more.count = named.count + 1 /\ more.source = src
      /\ Ordered(more, more.count, events + 1) /\ more.record[named.count].n = events + 1
  <2> DEFINE c == named.count
             e == [src |-> src, n |-> events + 1]
             f == [named.record EXCEPT ![c] = e]
  <2>1. more = [named EXCEPT !.record = f, !.count = c + 1] BY Zenon
  <2>2. e \in RecordType /\ e.src = src /\ e.n = events + 1 BY <1>2 DEF RecordType
  <2>3. c + 1 \in Nat /\ c \in Indices BY <1>3 DEF Indices
  <2> HIDE DEF e
  <2>4. /\ f \in [Indices -> RecordType] /\ f[c] = e
        /\ \A i \in Indices \ {c} : f[i] = named.record[i]
    BY <1>3, <2>2 DEF MonitorMessage
  <2> HIDE DEF f, c, more
  <2>5. more.count = c + 1 /\ more.source = named.source /\ more.record = f
    BY <1>3, <2>1 DEF MonitorMessage
  <2>6. more \in MonitorMessage BY <1>3, <2>1, <2>3, <2>4 DEF MonitorMessage
  <2>7. Ordered(more, more.count, events + 1)
    BY <1>2, <1>3, <2>2, <2>4, <2>5, <2>6, AppendOrdered DEF c
  <2> QED BY <1>3, <2>2, <2>4, <2>5, <2>6, <2>7 DEF c
<1> HIDE DEF more
<1>5. /\ w \in MonitorMessage /\ w.count = 0
  <2>1. z \in MonitorMessage /\ z.count = 0 BY <1>4 DEF MonitorMessage
  <2> HIDE DEF z
  <2> DEFINE i == IF counted THEN (z.sequenceId + 1) % 2 ELSE z.sequenceId
  <2>2. i \in Nat BY <2>1 DEF MonitorMessage
  <2>3. w = [z EXCEPT !.sequenceId = i] BY DEF monitor_forward
  <2> HIDE DEF i, w
  <2> QED BY <2>1, <2>2, <2>3 DEF MonitorMessage
<1> HIDE DEF w
<1>6. \A k \in {"sync", "delay"} :
         /\ mon[k] \in MonitorMessage /\ mon[k].count < RecordsPerMessage
         /\ Ordered(mon[k], mon[k].count, events + 1)
  <2> SUFFICES ASSUME NEW k \in {"sync", "delay"}
               PROVE  /\ mon[k] \in MonitorMessage /\ mon[k].count < RecordsPerMessage
                      /\ Ordered(mon[k], mon[k].count, events + 1)
    OBVIOUS
  <2> DEFINE mk == mon[k]
  <2>1. /\ mk \in MonitorMessage /\ mk.count < RecordsPerMessage
        /\ Ordered(mk, mk.count, events)
    BY DEF MonInv
  <2> HIDE DEF mk
  <2>2. \A i \in Indices : mk.record[i] \in RecordType BY <2>1 DEF MonitorMessage
  <2>3. \A i \in Indices : mk.record[i].n \in Nat BY <2>2 DEF RecordType
  <2>4. Ordered(mk, mk.count, events + 1) BY <1>2, <2>1, <2>3 DEF Ordered
  <2> QED BY <2>1, <2>4 DEF mk
<1>7. mon \in [{"sync", "delay"} -> MonitorMessage] BY DEF MonInv
<1>8. named.count \in Nat /\ named.count < RecordsPerMessage /\ RecordsPerMessage \in Nat
  BY <1>3, MonitorAssumption DEF Indices
<1>9. CASE Full(more)
  <2>1. mon' = [mon EXCEPT ![kind] = w] /\ forwarded' \in {<<more>>, <<>>} BY <1>1, <1>9
  <2>2. more.count = RecordsPerMessage BY <1>9 DEF Full
  <2>3. mon' \in [{"sync", "delay"} -> MonitorMessage] BY <1>5, <1>7, <2>1
  <2>4. Ordered(w, 0, events + 1) BY DEF Ordered, Indices
  <2>5. \A k \in {"sync", "delay"} :
          /\ mon'[k].count < RecordsPerMessage
          /\ Ordered(mon'[k], mon'[k].count, events + 1)
    BY <1>5, <1>6, <1>7, <1>8, <2>1, <2>4
  <2>6. Ordered(more, RecordsPerMessage, events + 1) BY <1>4, <2>2
  <2>7. named.count = RecordsPerMessage - 1 BY <1>4, <1>8, <2>2
  <2>8. DOMAIN more.record = Indices BY <1>4 DEF MonitorMessage
  <2>9. /\ \A i \in DOMAIN more.record : more.record[i].src = more.source
        /\ \A i, j \in DOMAIN more.record : i < j => more.record[i].n < more.record[j].n
        /\ more.record[RecordsPerMessage - 1].n = events + 1
    BY <1>4, <1>8, <2>6, <2>7, <2>8 DEF Ordered, Indices
  <2>10. ForwardsFresh' BY <1>1, <2>1, <2>9 DEF ForwardsFresh
  <2> QED BY <1>1, <1>2, <2>3, <2>5, <2>10 DEF MonInv
<1>10. CASE ~Full(more)
  <2>1. mon' = [mon EXCEPT ![kind] = more] /\ forwarded' = <<>> BY <1>1, <1>10
  <2>2. more.count < RecordsPerMessage BY <1>4, <1>8, <1>10 DEF Full
  <2>3. mon' \in [{"sync", "delay"} -> MonitorMessage] BY <1>4, <1>7, <2>1
  <2>4. \A k \in {"sync", "delay"} :
          /\ mon'[k].count < RecordsPerMessage
          /\ Ordered(mon'[k], mon'[k].count, events + 1)
    BY <1>4, <1>6, <1>7, <2>1, <2>2
  <2> QED BY <1>1, <1>2, <2>1, <2>3, <2>4 DEF MonInv, ForwardsFresh
<1> QED BY <1>9, <1>10

\* Every step of the event monitor keeps its invariant.
LEMMA MonNextInv == MonInv /\ [MonNext]_mvars => MonInv'
<1> SUFFICES ASSUME MonInv, [MonNext]_mvars PROVE MonInv' OBVIOUS
<1>1. CASE MonNext BY <1>1, RecordInv DEF MonNext, monitor_sync, monitor_delay
<1>2. CASE UNCHANGED mvars BY <1>2 DEF mvars, MonInv, ForwardsFresh
<1> QED BY <1>1, <1>2

-----------------------------------------------------------------------------
\* A measurement of the NetSync monitor is made of the messages of one exchange
\* with one node, whatever is lost, duplicated, late or given up meanwhile: a
\* message that may still arrive and the request it is compared with are fewer
\* than IdMod requests apart.
THEOREM AlwaysMeasuresOneExchange == NsInit /\ [][NsNext]_nvars => []MeasuresOneExchange
BY NsInitInv, NsNextInv, NsInvMeasures, PTL

\* The reports are always in order: a port never takes a late time stamp for that
\* of its newest message, a forwarded message holds fresh records of the master
\* it names, and no record is written behind the end of its message.
THEOREM ReportsAlwaysInOrder ==
    TxInit /\ [][TxNext]_tvars /\ MonInit /\ [][MonNext]_mvars => []ReportsInOrder
<1>1. TxInv => StampIsOwn BY DEF TxInv, StampIsOwn
<1>2. MonInv => ForwardsFresh /\ RecordFits
  <2> SUFFICES ASSUME MonInv PROVE RecordFits BY DEF MonInv
  <2>1. \A k \in {"sync", "delay"} : /\ mon[k] \in MonitorMessage
                                      /\ mon[k].count < RecordsPerMessage
    BY DEF MonInv
  <2>2. DOMAIN mon = {"sync", "delay"} BY DEF MonInv
  <2>3. \A k \in {"sync", "delay"} : /\ DOMAIN mon[k].record = Indices
                                      /\ mon[k].count \in Nat
    BY <2>1 DEF MonitorMessage
  <2> QED BY <2>1, <2>2, <2>3, MonitorAssumption DEF RecordFits, Indices
<1>3. TxInv /\ MonInv => ReportsInOrder BY <1>1, <1>2 DEF ReportsInOrder
<1> QED BY <1>3, TxInitInv, TxNextInv, MonInitInv, MonNextInv, PTL

\* The composition that TLC checks has all of this, since a step of it is a step
\* of one component.
COROLLARY ComposedInOrder ==
    FairSpec => [](BuffersInOrder /\ MeasuresOneExchange /\ ReportsInOrder)
<1>1. FairSpec => MCInit /\ [][MCNext]_allvars BY DEF FairSpec
<1>2. MCInit => Init /\ NsInit /\ TxInit /\ MonInit BY DEF MCInit
<1>3. [MCNext]_allvars =>
        [Next]_vars /\ [NsNext]_nvars /\ [TxNext]_tvars /\ [MonNext]_mvars
  BY DEF MCNext, allvars, vars, nvars, tvars, mvars
<1>4. Init /\ [][Next]_vars => []BuffersInOrder BY BuffersAlwaysInOrder DEF Spec
<1> QED BY <1>1, <1>2, <1>3, <1>4, AlwaysMeasuresOneExchange, ReportsAlwaysInOrder, PTL
=============================================================================
