----------------------------- MODULE Bridge_proof -----------------------------
(****************************************************************************)
(* Theorems about the two halves of a bridge.  PeerDelay, for every set of  *)
(* peers, every allowedLostResponses, every number of exchanges per rate    *)
(* estimate and every sequence number width: a measurement is made of one   *)
(* exchange, and asCapable is earned by measurements and lost in time.      *)
(* TransparentClock, for every number of ports, all configurations and      *)
(* every sequence number width: residence times leave with the messages     *)
(* they were measured for, and the lists of messages are kept short.        *)
(****************************************************************************)
EXTENDS PeerDelay, TransparentClock, FiniteSetTheorems, SequenceTheorems,
        WellFoundedInduction, TLAPS

-----------------------------------------------------------------------------
\* Peer delay.
\* The assumptions that the arithmetic below needs.
LEMMA Bounds ==
    /\ Allowed \in Nat /\ MaxCount \in Nat /\ MaxCount >= 1
    /\ SeqIds \in Nat /\ Window \in Nat /\ 1 <= Window /\ Window <= SeqIds
    /\ None \notin Messages /\ None \notin Peers
BY AllowedAssumption, MaxCountAssumption, SequenceAssumption, NoneAssumption

-----------------------------------------------------------------------------
\* What the operations do to the fields of a port.
LEMMA InitializeFields ==
    ASSUME NEW p \in PortType
    PROVE  LET q == port_nrate_initialize(p)
           IN  /\ q \in PortType
               /\ q.up = p.up /\ q.req = p.req /\ q.resp = p.resp /\ q.fup = p.fup
               /\ q.pdr_missing = Allowed + 1
               /\ q.multiple_pdr_detected = p.multiple_pdr_detected
               /\ q.multiple_seq_pdr_count = p.multiple_seq_pdr_count
               /\ q.peer = None /\ q.delay = p.delay /\ ~q.ingress
               /\ ~q.ratio_valid /\ q.asCapable = p.asCapable /\ q.tlv = p.tlv
<1> DEFINE q == port_nrate_initialize(p)
<1>1. q = [p EXCEPT !.pdr_missing = Allowed + 1, !.peer = None, !.ingress = FALSE,
                    !.count = 0, !.ratio_valid = FALSE]
  BY DEF port_nrate_initialize
<1> HIDE DEF q
<1>2. Allowed + 1 \in 0..(Allowed + 1) /\ 0 \in 0..MaxCount BY Bounds
<1>3. q \in PortType BY <1>1, <1>2 DEF PortType
<1> QED BY <1>1, <1>3 DEF PortType, q

\* The fields after port_capable()
LEMMA CapableFields ==
    ASSUME NEW p \in PortType
    PROVE  LET q == port_capable(p)
           IN  /\ q \in PortType
               /\ q.up = p.up /\ q.req = p.req /\ q.resp = p.resp /\ q.fup = p.fup
               /\ q.multiple_pdr_detected = p.multiple_pdr_detected
               /\ q.multiple_seq_pdr_count = p.multiple_seq_pdr_count
               /\ q.delay = p.delay /\ q.asCapable \in BOOLEAN /\ (q.asCapable <=> Capable(p))
               /\ \/ /\ Capable(p) \/ ~p.asCapable
                     /\ q.pdr_missing = p.pdr_missing /\ q.peer = p.peer
                     /\ q.ingress = p.ingress /\ q.ratio_valid = p.ratio_valid
                  \/ /\ ~Capable(p) /\ p.asCapable
                     /\ q.pdr_missing = Allowed + 1 /\ q.peer = None
                     /\ ~q.ingress /\ ~q.ratio_valid
<1> DEFINE q == port_capable(p)
<1>1. CASE Capable(p)
  <2>1. q = [p EXCEPT !.tlv = p.tlv \/ ~p.asCapable, !.asCapable = TRUE]
    BY <1>1 DEF port_capable
  <2>2. (p.tlv \/ ~p.asCapable) \in BOOLEAN OBVIOUS
  <2> HIDE DEF q
  <2> QED BY <1>1, <2>1, <2>2 DEF PortType, q
<1>2. CASE ~Capable(p) /\ p.asCapable
  <2> DEFINE z == port_nrate_initialize(p)
  <2>1. q = [z EXCEPT !.tlv = TRUE, !.asCapable = FALSE] BY <1>2 DEF port_capable
  <2>2. /\ z \in PortType
        /\ z.up = p.up /\ z.req = p.req /\ z.resp = p.resp /\ z.fup = p.fup
        /\ z.pdr_missing = Allowed + 1
        /\ z.multiple_pdr_detected = p.multiple_pdr_detected
        /\ z.multiple_seq_pdr_count = p.multiple_seq_pdr_count
        /\ z.peer = None /\ z.delay = p.delay /\ ~z.ingress
        /\ ~z.ratio_valid
    BY InitializeFields
  <2> HIDE DEF q, z
  <2>3. /\ q.up = z.up /\ q.req = z.req /\ q.resp = z.resp /\ q.fup = z.fup
        /\ q.multiple_pdr_detected = z.multiple_pdr_detected
        /\ q.multiple_seq_pdr_count = z.multiple_seq_pdr_count
        /\ q.pdr_missing = z.pdr_missing /\ q.peer = z.peer /\ q.delay = z.delay
        /\ q.ingress = z.ingress /\ q.ratio_valid = z.ratio_valid /\ ~q.asCapable
    BY <2>1, <2>2 DEF PortType
  <2>4. q \in PortType /\ q.asCapable \in BOOLEAN BY <2>1, <2>2 DEF PortType
  <2> HIDE DEF Capable
  <2> QED BY <1>2, <2>2, <2>3, <2>4 DEF q
<1>3. CASE ~Capable(p) /\ ~p.asCapable
  <2>1. q = [p EXCEPT !.tlv = TRUE, !.asCapable = FALSE] BY <1>3 DEF port_capable
  <2> HIDE DEF q
  <2> QED BY <1>3, <2>1 DEF PortType, q
<1> QED BY <1>1, <1>2, <1>3

\* The other changes of a port: the fields that Capable() and the invariant read.
Same(p, q) ==
    /\ q.up = p.up /\ q.pdr_missing = p.pdr_missing
    /\ q.multiple_pdr_detected = p.multiple_pdr_detected
    /\ q.multiple_seq_pdr_count = p.multiple_seq_pdr_count
    /\ q.peer = p.peer /\ q.delay = p.delay /\ q.ingress = p.ingress
    /\ q.ratio_valid = p.ratio_valid /\ q.asCapable = p.asCapable

\* What is forgotten when a measurement ends
LEMMA IdleFields ==
    ASSUME NEW p \in PortType
    PROVE  LET q == Idle(p)
           IN  q \in PortType /\ Same(p, q) /\ q.req = p.req /\ q.resp = p.resp /\ q.fup = p.fup
BY DEF PortType, Idle, Same

\* The fields after flush_peer_delay()
LEMMA FlushFields ==
    ASSUME NEW p \in PortType
    PROVE  LET q == flush_peer_delay(p)
           IN  q \in PortType /\ Same(p, q) /\ ~q.req
BY DEF PortType, flush_peer_delay, Same

\* The fields after a fault
LEMMA FaultedFields ==
    ASSUME NEW p \in PortType
    PROVE  LET q == Faulted(p)
           IN  /\ q \in PortType /\ ~q.up /\ ~q.req /\ q.peer = p.peer
               /\ q.ingress = p.ingress /\ q.ratio_valid = p.ratio_valid
               /\ q.asCapable = p.asCapable
BY DEF PortType, flush_peer_delay, Faulted

-----------------------------------------------------------------------------
Alone == Cardinality(peers) = 1

\* A port whose counters and flags agree.
Sound(p) ==
    /\ p \in PortType
    /\ p.up => p.multiple_seq_pdr_count <= Allowed
    /\ p.asCapable => p.ratio_valid
    /\ p.ratio_valid => p.ingress

\* With one peer, its identity is known when a measurement may be made of a rate.
Lonely(p) ==
    /\ p.peer \in peers \cup {None}
    /\ p.ratio_valid => p.peer # None
    /\ p.req /\ p.resp # None /\ p.ingress => p.peer # None

\* A port that is capable, or would be if it were evaluated, has counted n misses.
Counted(p, n) == p.up /\ (p.asCapable \/ Capable(p)) => n <= p.pdr_missing

Fine(p, n) == Sound(p) /\ (Alone => Lonely(p) /\ Counted(p, n))

\* The inductive invariant of the specification.
IInv ==
    /\ peers \in PeerSets /\ peerUp \in BOOLEAN /\ meas \in BOOLEAN
    /\ misses \in 0..MaxMisses /\ (~Alone => misses = 0)
    /\ Fine(port, misses)
    /\ OneExchange

\* A single peer is the only one.
LEMMA AloneIsOne ==
    ASSUME peers \in PeerSets, Alone, NEW a \in peers, NEW b \in peers
    PROVE  a = b
<1>1. IsFiniteSet(peers) BY PeersAssumption, FS_Subset
<1>2. \E x : peers = {x} BY <1>1, FS_Singleton DEF Alone
<1> QED BY <1>2

\* port_capable() keeps a port fine.
LEMMA CapableFine ==
    ASSUME NEW p, NEW n, Fine(p, n)
    PROVE  LET q == port_capable(p)
           IN  /\ Fine(q, n) /\ q.up = p.up /\ q.req = p.req /\ q.resp = p.resp
               /\ q.fup = p.fup /\ (q.asCapable => q.pdr_missing <= Allowed)
<1> DEFINE q == port_capable(p)
<1>0. p \in PortType BY DEF Fine, Sound
<1>1. /\ q \in PortType
      /\ q.up = p.up /\ q.req = p.req /\ q.resp = p.resp /\ q.fup = p.fup
      /\ q.multiple_pdr_detected = p.multiple_pdr_detected
      /\ q.multiple_seq_pdr_count = p.multiple_seq_pdr_count
      /\ q.delay = p.delay /\ q.asCapable \in BOOLEAN /\ (q.asCapable <=> Capable(p))
      /\ \/ /\ Capable(p) \/ ~p.asCapable
            /\ q.pdr_missing = p.pdr_missing /\ q.peer = p.peer
            /\ q.ingress = p.ingress /\ q.ratio_valid = p.ratio_valid
         \/ /\ ~Capable(p) /\ p.asCapable
            /\ q.pdr_missing = Allowed + 1 /\ q.peer = None
            /\ ~q.ingress /\ ~q.ratio_valid
  BY <1>0, CapableFields
<1> HIDE DEF q
<1>2. Sound(q) BY <1>1 DEF Fine, Sound, Capable
<1>3. ASSUME Alone PROVE Lonely(q) BY <1>1, <1>3 DEF Fine, Lonely
<1>4. ASSUME Alone PROVE Counted(q, n) BY <1>1, <1>4 DEF Fine, Counted, Capable
<1>5. q.asCapable => q.pdr_missing <= Allowed BY <1>1 DEF Capable
<1> QED BY <1>1, <1>2, <1>3, <1>4, <1>5 DEF Fine, q

\* Nothing that the invariant reads but the exchange changes.
LEMMA SameFine ==
    ASSUME NEW p, NEW n, Fine(p, n), NEW q \in PortType, Same(p, q),
           q.req /\ q.resp # None => (p.req /\ p.resp # None) \/ q.peer # None
    PROVE  Fine(q, n)
<1>1. Sound(q) BY DEF Fine, Sound, Same
<1>2. ASSUME Alone PROVE Lonely(q) /\ Counted(q, n)
  BY <1>2 DEF Fine, Lonely, Counted, Capable, Same
<1> QED BY <1>1, <1>2 DEF Fine

\* A fault keeps a port fine.
LEMMA FaultedFine ==
    ASSUME NEW p \in PortType, p.asCapable => p.ratio_valid, p.ratio_valid => p.ingress,
           Alone => Lonely(p), NEW n
    PROVE  Fine(Faulted(p), n)
<1> DEFINE q == Faulted(p)
<1>1. /\ q \in PortType /\ ~q.up /\ ~q.req /\ q.peer = p.peer
      /\ q.ingress = p.ingress /\ q.ratio_valid = p.ratio_valid
      /\ q.asCapable = p.asCapable
  BY FaultedFields
<1> HIDE DEF q
<1> QED BY <1>1 DEF Fine, Sound, Lonely, Counted, q

\* The name of the peer becomes known.
LEMMA PeerFine ==
    ASSUME peers \in PeerSets, NEW p, NEW n, Fine(p, n), p.peer = None, NEW a \in peers
    PROVE  LET q == [p EXCEPT !.peer = a]
           IN  /\ Fine(q, n) /\ q.up = p.up /\ q.req = p.req /\ q.resp = p.resp
               /\ q.fup = p.fup /\ q.peer # None
<1> DEFINE q == [p EXCEPT !.peer = a]
<1>0. p \in PortType /\ a \in Peers /\ a # None
  BY PeersAssumption, Bounds DEF Fine, Sound
<1>1. /\ q \in PortType /\ q.up = p.up /\ q.req = p.req /\ q.resp = p.resp /\ q.fup = p.fup
      /\ q.pdr_missing = p.pdr_missing /\ q.multiple_seq_pdr_count = p.multiple_seq_pdr_count
      /\ q.peer = a /\ q.ingress = p.ingress
      /\ q.ratio_valid = p.ratio_valid /\ q.asCapable = p.asCapable
  BY <1>0 DEF PortType
<1> HIDE DEF q
<1>2. Sound(q) BY <1>1 DEF Fine, Sound
<1>3. ASSUME Alone PROVE Lonely(q) /\ Counted(q, n)
  <2>1. Lonely(q) BY <1>0, <1>1 DEF Lonely
  <2>2. ~p.ratio_valid /\ ~p.asCapable BY <1>3 DEF Fine, Lonely, Sound
  <2>3. Counted(q, n) BY <1>1, <2>2 DEF Counted, Capable
  <2> QED BY <2>1, <2>3
<1> QED BY <1>0, <1>1, <1>2, <1>3 DEF Fine, q

\* Another peer is heard: only with more than one.
LEMMA PeerLost ==
    ASSUME peers \in PeerSets, NEW p, NEW n, Fine(p, n), NEW a \in peers,
           p.peer # None, p.peer # a
    PROVE  LET q == port_capable([p EXCEPT !.peer = None])
           IN  /\ ~Alone /\ Fine(q, n) /\ q.up = p.up /\ q.req = p.req /\ q.resp = p.resp
               /\ q.fup = p.fup
<1> DEFINE r == [p EXCEPT !.peer = None]
<1>1. ~Alone BY AloneIsOne DEF Fine, Lonely
<1>2. /\ r \in PortType /\ r.up = p.up /\ r.req = p.req /\ r.resp = p.resp /\ r.fup = p.fup
      /\ r.multiple_seq_pdr_count = p.multiple_seq_pdr_count /\ r.ingress = p.ingress
      /\ r.ratio_valid = p.ratio_valid /\ r.asCapable = p.asCapable
  BY DEF PortType, Fine, Sound
<1> HIDE DEF r
<1>3. Fine(r, n) BY <1>1, <1>2 DEF Fine, Sound
<1> QED BY <1>1, <1>2, <1>3, CapableFine DEF r

\* What process_pdelay_resp() and process_pdelay_req() make of the peer's name.
LEMMA NamedFine ==
    ASSUME peers \in PeerSets, NEW p, NEW n, Fine(p, n), NEW a \in peers
    PROVE  LET q == IF p.peer = None THEN [p EXCEPT !.peer = a]
                    ELSE IF p.peer = a THEN p
                    ELSE port_capable([p EXCEPT !.peer = None])
           IN  /\ Fine(q, n) /\ q.up = p.up /\ q.req = p.req /\ q.resp = p.resp
               /\ q.fup = p.fup /\ (Alone => q.peer # None)
<1>1. CASE p.peer = None BY <1>1, PeerFine
<1>2. CASE p.peer # None /\ p.peer = a BY <1>2
<1>3. CASE p.peer # None /\ p.peer # a BY <1>3, PeerLost
<1> QED BY <1>1, <1>2, <1>3

\* A number below the modulus that is divisible by it is zero: the only request
\* whose number a deliverable answer can carry is the newest.
LEMMA NewestOnly == ASSUME NEW m \in Messages, SameSequence(m) PROVE m.age = 0
<1>1. m.age \in Nat /\ m.age < SeqIds BY Bounds DEF Messages
<1>2. m.age % SeqIds = m.age BY <1>1, Bounds
<1> QED BY <1>2 DEF SameSequence

\* port_peer_delay() with what is stored, complete or not.
LEMMA DoneInv ==
    ASSUME IInv, NEW p, Fine(p, misses), PeerDelayDone(p), peers' = peers, peerUp' = peerUp
    PROVE  IInv'
<1>0. p \in PortType /\ misses \in 0..MaxMisses /\ MaxMisses \in Nat
  BY Bounds DEF Fine, Sound, IInv, MaxMisses
<1>1. CASE /\ Complete(p) /\ meas' = TRUE /\ misses' = 0
           /\ \E delay \in {"ok", "out_of_range"}, bad \in BOOLEAN :
                port' = [port_nrate_calculate(p, bad) EXCEPT !.req = FALSE, !.delay = delay]
  <2>1. PICK delay \in {"ok", "out_of_range"}, bad \in BOOLEAN :
          port' = [port_nrate_calculate(p, bad) EXCEPT !.req = FALSE, !.delay = delay]
    BY <1>1
  <2> DEFINE reached == p.ingress /\ p.count + 1 >= MaxCount
             valid   == reached /\ ~bad
             c == IF ~p.ingress THEN p.count ELSE IF valid THEN 0
                  ELSE IF reached THEN MaxCount ELSE p.count + 1
             v == p.ratio_valid \/ valid
  <2>2. port' = [p EXCEPT !.pdr_missing = 0, !.ingress = TRUE, !.count = c,
                          !.ratio_valid = v, !.req = FALSE, !.delay = delay]
    BY <1>0, <2>1 DEF port_nrate_calculate, PortType
  <2>3. c \in 0..MaxCount /\ v \in BOOLEAN BY <1>0, Bounds DEF PortType
  <2>4. (p.ratio_valid => v) /\ (v => p.ratio_valid \/ p.ingress) OBVIOUS
  <2> HIDE DEF c, v
  <2>5. /\ port' \in PortType
        /\ port'.pdr_missing = 0 /\ port'.ingress /\ (port'.ratio_valid <=> v) /\ ~port'.req
        /\ port'.up = p.up /\ port'.multiple_seq_pdr_count = p.multiple_seq_pdr_count
        /\ port'.peer = p.peer /\ port'.asCapable = p.asCapable
        /\ port'.resp = p.resp /\ port'.fup = p.fup
    <3>1. 0 \in 0..(Allowed + 1) BY Bounds
    <3>2. port' \in PortType BY <1>0, <2>2, <2>3, <3>1 DEF PortType
    <3> QED BY <1>0, <2>2, <2>3, <3>2 DEF PortType
  <2>6. Sound(port') BY <2>4, <2>5 DEF Fine, Sound
  <2>7. ASSUME Alone PROVE Lonely(port') /\ Counted(port', 0)
    <3>1. p.peer \in peers \cup {None} /\ (v => p.peer # None)
      BY <1>1, <2>4, <2>7 DEF Fine, Lonely, Complete
    <3> QED BY <2>5, <3>1 DEF Lonely, Counted
  <2>8. OneExchange'
    <3>1. p.resp \in Messages /\ p.resp.mine /\ SameSequence(p.resp)
      BY <1>0, <1>1 DEF Complete, PortType
    <3>2. p.resp.kind = "RESP" => /\ p.fup \in Messages /\ p.fup.mine
                                  /\ SameSequence(p.fup) /\ p.fup.src = p.resp.src
      BY <1>0, <1>1 DEF Complete, PortType
    <3>3. p.resp.age = 0 /\ (p.resp.kind = "RESP" => p.fup.age = 0)
      BY <3>1, <3>2, NewestOnly
    <3> QED BY <2>5, <3>1, <3>2, <3>3 DEF OneExchange
  <2>9. (Fine(port, misses))' BY <1>1, <2>6, <2>7 DEF Fine, Alone, Lonely
  <2> QED BY <1>0, <1>1, <2>8, <2>9 DEF IInv, Alone
<1>2. CASE port' = p /\ meas' = FALSE /\ misses' = misses
  <2>1. (Fine(port, misses))' BY <1>2 DEF Fine, Alone, Lonely
  <2>2. OneExchange' BY <1>2 DEF OneExchange
  <2> QED BY <1>2, <2>1, <2>2 DEF IInv, Alone
<1> QED BY <1>1, <1>2 DEF PeerDelayDone

\* A step without a measurement, after which the port is fine.
LEMMA FineInv ==
    ASSUME IInv, Fine(port', misses'), meas' = FALSE, peers' = peers, peerUp' \in BOOLEAN,
           misses' \in 0..MaxMisses, ~Alone => misses' = 0
    PROVE  IInv'
<1>1. (Fine(port, misses))' BY DEF Fine, Alone, Lonely
<1>2. OneExchange' BY DEF OneExchange
<1> QED BY <1>1, <1>2 DEF IInv, Alone

\* The invariant holds at first.
LEMMA InitInv == Init => IInv
<1> SUFFICES ASSUME Init PROVE IInv OBVIOUS
<1>1. Allowed + 1 \in 0..(Allowed + 1) /\ 0 \in 0..(Allowed + 1) /\ 0 \in 0..MaxCount
      /\ 0 \in 0..MaxMisses
  BY Bounds DEF MaxMisses
<1>2. /\ port \in PortType /\ port.multiple_seq_pdr_count = 0 /\ ~port.asCapable
      /\ ~port.ratio_valid /\ port.peer = None /\ ~port.req
  BY <1>1 DEF Init, PortType
<1>3. Sound(port) BY <1>2, Bounds DEF Sound
<1>4. Lonely(port) /\ Counted(port, misses)
  BY <1>2 DEF Lonely, Counted, Capable
<1> QED BY <1>1, <1>3, <1>4 DEF Init, IInv, Fine, OneExchange

\* port_delay_request(): a request that is still open is counted as missed by a
\* capable port, by pdr_missing as by misses.
LEMMA RequestInv == ASSUME IInv, port_pdelay_request PROVE IInv'
<1> DEFINE p == Forgotten(port)
           q == IF p.req THEN port_capable(p) ELSE p
           n == IF port.req /\ Cardinality(peers) = 1 /\ misses < MaxMisses
                THEN misses + 1 ELSE misses
<1>1. /\ port' = [q EXCEPT !.req = TRUE, !.pdr_missing = Missed(p, q)]
      /\ misses' = n /\ meas' = FALSE /\ peers' = peers /\ peerUp' = peerUp /\ port.up
  BY Zenon DEF port_pdelay_request
<1>2. Fine(port, misses) /\ port \in PortType /\ misses \in 0..MaxMisses
      /\ port.multiple_seq_pdr_count \in 0..Allowed
  BY <1>1, Bounds DEF IInv, Fine, Sound, PortType
<1>3. /\ p \in PortType /\ p.req = port.req /\ p.up = port.up /\ p.resp = None
      /\ p.pdr_missing = port.pdr_missing /\ p.multiple_seq_pdr_count <= Allowed
      /\ ~p.multiple_pdr_detected /\ p.peer = port.peer /\ p.delay = port.delay
      /\ p.ingress = port.ingress /\ p.ratio_valid = port.ratio_valid
      /\ p.asCapable = port.asCapable
  <2> DEFINE i == Idle(port)
             c == IF port.multiple_pdr_detected THEN i.multiple_seq_pdr_count ELSE 0
  <2>1. i \in PortType /\ Same(port, i) /\ i.req = port.req BY <1>2, IdleFields
  <2>2. p = [i EXCEPT !.resp = None, !.fup = None, !.multiple_seq_pdr_count = c,
                      !.multiple_pdr_detected = FALSE]
    BY DEF Forgotten
  <2> HIDE DEF i
  <2>3. c \in 0..(Allowed + 1) /\ c <= Allowed BY <1>2, <2>1, Bounds DEF Same
  <2> HIDE DEF c, p
  <2>4. p \in PortType BY <2>1, <2>2, <2>3 DEF PortType
  <2>5. /\ p.req = i.req /\ p.up = i.up /\ p.resp = None
        /\ p.pdr_missing = i.pdr_missing /\ p.multiple_seq_pdr_count = c
        /\ ~p.multiple_pdr_detected /\ p.peer = i.peer /\ p.delay = i.delay
        /\ p.ingress = i.ingress /\ p.ratio_valid = i.ratio_valid
        /\ p.asCapable = i.asCapable
    BY <2>1, <2>2 DEF PortType
  <2> QED BY <2>1, <2>3, <2>4, <2>5 DEF Same
<1> HIDE DEF p
<1>4. Fine(p, misses)
  <2>1. Sound(p) BY <1>2, <1>3 DEF Fine, Sound
  <2>2. ASSUME Alone PROVE Lonely(p) /\ Counted(p, misses)
    BY <1>2, <1>3, <2>2 DEF Fine, Lonely, Counted, Capable
  <2> QED BY <2>1, <2>2 DEF Fine
<1>5. /\ Fine(q, misses) /\ q.up = p.up /\ q.req = p.req /\ q.resp = p.resp
      /\ p.req /\ q.asCapable => q.pdr_missing <= Allowed
  BY <1>4, CapableFine
<1>6. q \in PortType BY <1>5 DEF Fine, Sound
<1>7. p.req => (q.asCapable <=> Capable(p)) /\ (~q.asCapable => ~Capable(q))
  <2> SUFFICES ASSUME p.req PROVE (q.asCapable <=> Capable(p)) /\ (~q.asCapable => ~Capable(q))
    OBVIOUS
  <2> DEFINE z == port_capable(p)
  <2>1. /\ z.multiple_pdr_detected = p.multiple_pdr_detected
        /\ z.multiple_seq_pdr_count = p.multiple_seq_pdr_count
        /\ z.delay = p.delay /\ (z.asCapable <=> Capable(p))
        /\ \/ /\ Capable(p) \/ ~p.asCapable
              /\ z.pdr_missing = p.pdr_missing /\ z.peer = p.peer
              /\ z.ratio_valid = p.ratio_valid
           \/ ~Capable(p) /\ ~z.ratio_valid
    BY <1>3, CapableFields
  <2>2. q = z OBVIOUS
  <2> HIDE DEF z, q
  <2> QED BY <2>1, <2>2 DEF Capable
<1> HIDE DEF q
<1> DEFINE k == Missed(p, q)
<1>8. /\ k \in 0..(Allowed + 1)
      /\ k = IF p.req /\ q.asCapable THEN q.pdr_missing + 1 ELSE q.pdr_missing
  BY <1>5, <1>6, Bounds DEF Missed, PortType
<1> HIDE DEF k
<1>9. /\ port' \in PortType /\ port'.req /\ port'.pdr_missing = k
      /\ port'.up = q.up /\ port'.resp = q.resp /\ port'.peer = q.peer
      /\ port'.delay = q.delay /\ port'.ingress = q.ingress
      /\ port'.ratio_valid = q.ratio_valid /\ port'.asCapable = q.asCapable
      /\ port'.multiple_pdr_detected = q.multiple_pdr_detected
      /\ port'.multiple_seq_pdr_count = q.multiple_seq_pdr_count
  BY <1>1, <1>6, <1>8 DEF PortType, k
<1>10. Sound(port') BY <1>5, <1>9 DEF Fine, Sound
<1>11. n \in 0..MaxMisses /\ n <= misses + 1 /\ (~port.req => n = misses)
       /\ (~Alone => n = misses)
  BY <1>2, Bounds DEF MaxMisses, Alone
<1> HIDE DEF n
<1>12. ASSUME Alone PROVE Lonely(port') /\ Counted(port', n)
  <2>1. Lonely(port') BY <1>3, <1>5, <1>9, <1>12 DEF Fine, Lonely
  <2>2. CASE p.req
    <3>1. ~q.asCapable => ~Capable(port')
      <4> SUFFICES ASSUME ~q.asCapable PROVE ~Capable(port') OBVIOUS
      <4>1. ~Capable(q) /\ k = q.pdr_missing BY <1>7, <1>8, <2>2
      <4> QED BY <1>9, <4>1 DEF Capable
    <3>2. q.asCapable /\ q.up => misses <= q.pdr_missing
      BY <1>5, <1>12 DEF Fine, Counted
    <3>3. q.pdr_missing \in Nat BY <1>6, Bounds DEF PortType
    <3> QED BY <1>2, <1>8, <1>9, <1>11, <2>1, <2>2, <3>1, <3>2, <3>3 DEF Counted
  <2>3. CASE ~p.req
    <3>1. k = q.pdr_missing /\ n = misses BY <1>3, <1>8, <1>11, <2>3
    <3>2. Counted(q, misses) BY <1>5, <1>12 DEF Fine
    <3> QED BY <1>9, <2>1, <3>1, <3>2 DEF Counted, Capable
  <2> QED BY <2>2, <2>3
<1>13. Fine(port', misses') BY <1>1, <1>10, <1>12 DEF Fine
<1>14. peerUp' \in BOOLEAN /\ (~Alone => misses' = 0) BY <1>1, <1>11 DEF IInv
<1> QED BY <1>1, <1>11, <1>13, <1>14, FineInv

\* A request that cannot be sent
LEMMA RequestFailsInv == ASSUME IInv, RequestFails PROVE IInv'
<1> DEFINE p == Forgotten(port)
<1>1. /\ port' = Faulted(p) /\ meas' = FALSE /\ peers' = peers /\ peerUp' = peerUp
      /\ misses' = misses
  BY DEF RequestFails
<1>2. Sound(port) /\ (Alone => Lonely(port)) /\ port \in PortType
  BY DEF IInv, Fine, Sound
<1>3. /\ p \in PortType /\ p.resp = None /\ p.peer = port.peer
      /\ p.ingress = port.ingress /\ p.ratio_valid = port.ratio_valid
      /\ p.asCapable = port.asCapable
  <2> DEFINE i == Idle(port)
             c == IF port.multiple_pdr_detected THEN i.multiple_seq_pdr_count ELSE 0
  <2>1. i \in PortType /\ Same(port, i) BY <1>2, IdleFields
  <2>2. p = [i EXCEPT !.resp = None, !.fup = None, !.multiple_seq_pdr_count = c,
                      !.multiple_pdr_detected = FALSE]
    BY DEF Forgotten
  <2> HIDE DEF i
  <2>3. c \in 0..(Allowed + 1) BY <2>1, Bounds DEF PortType
  <2> HIDE DEF c, p
  <2> QED BY <2>1, <2>2, <2>3 DEF PortType, Same
<1> HIDE DEF p
<1>4. Alone => Lonely(p) BY <1>2, <1>3 DEF Lonely
<1>5. Fine(port', misses') BY <1>1, <1>2, <1>3, <1>4, FaultedFine DEF Sound
<1> QED BY <1>1, <1>5, FineInv DEF IInv

\* The port as port_ignore() leaves it, before the message is processed.
LEMMA EvaluatedFine ==
    ASSUME IInv
    PROVE  LET p == port_capable(Idle(port))
           IN  /\ Fine(p, misses) /\ p.up = port.up /\ p.req = port.req
               /\ p.resp = port.resp /\ p.fup = port.fup
<1> DEFINE i == Idle(port)
<1>1. Fine(port, misses) /\ port \in PortType BY DEF IInv, Fine, Sound
<1>2. i \in PortType /\ Same(port, i) /\ i.req = port.req /\ i.resp = port.resp
      /\ i.fup = port.fup
  BY <1>1, IdleFields
<1> HIDE DEF i
<1>3. Fine(i, misses) BY <1>1, <1>2, SameFine
<1>4. i.up = port.up BY <1>2 DEF Same
<1> QED BY <1>2, <1>3, <1>4, CapableFine DEF i

\* A response, from whomever
LEMMA RespInv ==
    ASSUME IInv, NEW m \in Messages, m.src \in peers, process_pdelay_resp(m)
    PROVE  IInv'
<1> DEFINE p0 == port_capable(Idle(port))
           second == p0.resp # None
           p1 == IF second /\ ~p0.multiple_pdr_detected
                 THEN [p0 EXCEPT !.multiple_pdr_detected = TRUE,
                                 !.multiple_seq_pdr_count = @ + 1]
                 ELSE p0
           p2 == IF p1.peer = None THEN [p1 EXCEPT !.peer = m.src]
                 ELSE IF p1.peer = m.src THEN p1
                 ELSE port_capable([p1 EXCEPT !.peer = None])
<1>1. /\ port.up /\ peers' = peers /\ peerUp' = peerUp
      /\ \/ port' = Faulted(p1) /\ meas' = FALSE /\ misses' = misses
         \/ /\ ~(second /\ p1.multiple_seq_pdr_count > Allowed)
            /\ PeerDelayDone([p2 EXCEPT !.resp = m])
  BY Zenon DEF process_pdelay_resp
<1>2. Fine(p0, misses) /\ p0.up /\ p0.req = port.req BY <1>1, EvaluatedFine
<1> HIDE DEF p0
<1>3. /\ p0 \in PortType /\ p0.multiple_seq_pdr_count \in 0..Allowed
      /\ p0.multiple_seq_pdr_count + 1 \in 0..(Allowed + 1)
  BY <1>2, Bounds DEF Fine, Sound, PortType
<1>4. /\ p1 \in PortType /\ p1.up = p0.up /\ p1.req = p0.req /\ p1.resp = p0.resp
      /\ p1.fup = p0.fup /\ p1.pdr_missing = p0.pdr_missing /\ p1.peer = p0.peer
      /\ p1.delay = p0.delay /\ p1.ingress = p0.ingress
      /\ p1.ratio_valid = p0.ratio_valid /\ p1.asCapable = p0.asCapable
      /\ p1.multiple_seq_pdr_count \in 0..(Allowed + 1)
      /\ p1 = p0 \/ (second /\ p1.multiple_seq_pdr_count = p0.multiple_seq_pdr_count + 1)
  <2>1. CASE second /\ ~p0.multiple_pdr_detected
    <3> DEFINE c == p0.multiple_seq_pdr_count + 1
    <3>1. p1 = [p0 EXCEPT !.multiple_pdr_detected = TRUE, !.multiple_seq_pdr_count = c]
      BY <2>1
    <3>2. c \in 0..(Allowed + 1) BY <1>3
    <3> HIDE DEF p1, c
    <3>3. p1 \in PortType BY <1>3, <3>1, <3>2 DEF PortType
    <3> QED BY <1>3, <2>1, <3>1, <3>2, <3>3 DEF PortType, c
  <2>2. CASE ~(second /\ ~p0.multiple_pdr_detected) BY <1>3, <2>2, Bounds
  <2> QED BY <2>1, <2>2
<1>5. (Alone => Lonely(p1)) /\ (p1.asCapable => p1.ratio_valid) /\ (p1.ratio_valid => p1.ingress)
  BY <1>2, <1>4 DEF Fine, Lonely, Sound
<1> HIDE DEF p1
<1>6. CASE port' = Faulted(p1) /\ meas' = FALSE /\ misses' = misses
  <2>1. Fine(port', misses') BY <1>4, <1>5, <1>6, FaultedFine
  <2> QED BY <1>1, <1>6, <2>1, FineInv DEF IInv
<1>7. CASE /\ ~(second /\ p1.multiple_seq_pdr_count > Allowed)
           /\ PeerDelayDone([p2 EXCEPT !.resp = m])
  <2>1. p1.multiple_seq_pdr_count <= Allowed BY <1>3, <1>4, <1>7, Bounds
  <2>2. Fine(p1, misses)
    <3>1. Sound(p1) BY <1>4, <1>5, <2>1 DEF Sound
    <3>2. ASSUME Alone PROVE Counted(p1, misses)
      <4>1. p0.ratio_valid => p0.peer # None BY <1>2, <3>2 DEF Fine, Lonely
      <4>2. Capable(p1) => Capable(p0) BY <1>3, <1>4, <4>1 DEF Capable
      <4>3. Counted(p0, misses) BY <1>2, <3>2 DEF Fine
      <4> QED BY <1>4, <4>2, <4>3 DEF Counted
    <3> QED BY <1>5, <3>1, <3>2 DEF Fine
  <2>3. Fine(p2, misses) /\ (Alone => p2.peer # None) BY <2>2, NamedFine DEF IInv
  <2> HIDE DEF p2
  <2> DEFINE r == [p2 EXCEPT !.resp = m]
  <2>4. p2 \in PortType BY <2>3 DEF Fine, Sound
  <2>5. r \in PortType /\ Same(p2, r) BY <2>4 DEF PortType, Same
  <2>6. PeerDelayDone(r) BY <1>7
  <2> HIDE DEF r
  <2>7. Fine(r, misses)
    <3>1. Sound(r) BY <2>3, <2>5 DEF Fine, Sound, Same
    <3>2. ASSUME Alone PROVE Lonely(r) /\ Counted(r, misses)
      BY <2>3, <2>5, <3>2 DEF Fine, Lonely, Counted, Capable, Same
    <3> QED BY <3>1, <3>2 DEF Fine
  <2> QED BY <1>1, <2>6, <2>7, DoneInv
<1> QED BY <1>1, <1>6, <1>7

\* A response follow-up, from whomever
LEMMA FupInv == ASSUME IInv, NEW m \in Messages, process_pdelay_resp_fup(m) PROVE IInv'
<1> DEFINE p == port_capable(Idle(port))
           r == [p EXCEPT !.fup = m]
<1>1. /\ peers' = peers /\ peerUp' = peerUp
      /\ \/ port' = p /\ meas' = FALSE /\ misses' = misses
         \/ PeerDelayDone(r)
  BY DEF process_pdelay_resp_fup
<1>2. Fine(p, misses) BY EvaluatedFine
<1> HIDE DEF p
<1>3. CASE port' = p /\ meas' = FALSE /\ misses' = misses
  BY <1>1, <1>2, <1>3, FineInv DEF IInv
<1>4. CASE PeerDelayDone(r)
  <2>1. p \in PortType BY <1>2 DEF Fine, Sound
  <2>2. r \in PortType /\ Same(p, r) /\ r.req = p.req /\ r.resp = p.resp
    BY <2>1 DEF PortType, Same
  <2> HIDE DEF r
  <2>3. Fine(r, misses) BY <1>2, <2>2, SameFine
  <2> QED BY <1>1, <1>4, <2>3, DoneInv
<1> QED BY <1>1, <1>3, <1>4

\* A request of a peer
LEMMA ReqInv == ASSUME IInv, NEW a \in peers, process_pdelay_req(a) PROVE IInv'
<1> DEFINE p == port_capable(Idle(port))
           q == IF p.peer = None THEN [p EXCEPT !.peer = a]
                ELSE IF p.peer = a THEN p
                ELSE port_capable([p EXCEPT !.peer = None])
<1>1. /\ peers' = peers /\ peerUp' = peerUp /\ meas' = FALSE /\ misses' = misses
      /\ port' = q
  BY DEF process_pdelay_req
<1>2. Fine(p, misses) BY EvaluatedFine
<1> HIDE DEF p
<1>3. Fine(q, misses) BY <1>2, NamedFine DEF IInv
<1> HIDE DEF q
<1> QED BY <1>1, <1>3, FineInv DEF IInv

\* The reception of any other message
LEMMA OtherInv == ASSUME IInv, OtherReception PROVE IInv'
<1>1. Fine(port', misses') BY EvaluatedFine DEF OtherReception
<1> QED BY <1>1, FineInv DEF OtherReception, IInv

\* A flush at a transition
LEMMA FlushInv == ASSUME IInv, Flush PROVE IInv'
<1> DEFINE i == Idle(port)
           f == flush_peer_delay(i)
           g == [i EXCEPT !.req = FALSE]
<1>1. Fine(port, misses) /\ port \in PortType BY DEF IInv, Fine, Sound
<1>2. i \in PortType /\ Same(port, i) BY <1>1, IdleFields
<1>3. /\ peers' = peers /\ peerUp' = peerUp /\ meas' = FALSE /\ misses' = misses
      /\ port' = f \/ port' = g
  BY DEF Flush
<1> HIDE DEF i
<1>4. f \in PortType /\ Same(i, f) /\ ~f.req BY <1>2, FlushFields
<1>5. g \in PortType /\ Same(i, g) /\ ~g.req BY <1>2 DEF PortType, Same
<1> HIDE DEF f, g
<1>6. port' \in PortType /\ Same(port, port') /\ ~port'.req
  BY <1>2, <1>3, <1>4, <1>5 DEF Same
<1>7. Fine(port', misses') BY <1>1, <1>3, <1>6, SameFine
<1> QED BY <1>3, <1>7, FineInv DEF IInv

\* A port that is initialized again
LEMMA InitializeInv == ASSUME IInv, port_initialize PROVE IInv'
<1> DEFINE z == port_nrate_initialize(port)
<1>1. /\ peers' = peers /\ peerUp' = peerUp /\ meas' = FALSE /\ misses' = 0
      /\ port' = [z EXCEPT !.up = TRUE, !.multiple_seq_pdr_count = 0,
                           !.multiple_pdr_detected = FALSE, !.asCapable = FALSE, !.tlv = TRUE]
  BY DEF port_initialize
<1>2. z \in PortType /\ z.peer = None /\ ~z.ingress /\ ~z.ratio_valid
  BY InitializeFields DEF IInv, Fine, Sound
<1> HIDE DEF z
<1>3. 0 \in 0..(Allowed + 1) /\ 0 \in 0..MaxMisses /\ 0 <= Allowed BY Bounds DEF MaxMisses
<1>4. port' \in PortType BY <1>1, <1>2, <1>3 DEF PortType
<1>5. /\ port'.multiple_seq_pdr_count = 0 /\ ~port'.asCapable
      /\ port'.peer = None /\ ~port'.ingress /\ ~port'.ratio_valid
  BY <1>1, <1>2 DEF PortType
<1>6. Fine(port', misses')
  BY <1>3, <1>4, <1>5 DEF Fine, Sound, Lonely, Counted, Capable
<1> QED BY <1>1, <1>3, <1>6, FineInv DEF IInv

\* The peer comes or goes.
LEMMA ChangeInv == ASSUME IInv, PeerChange PROVE IInv'
<1> DEFINE i == Idle(port)
<1>1. Fine(port, misses) /\ port \in PortType BY DEF IInv, Fine, Sound
<1>2. i \in PortType /\ Same(port, i) /\ i.req = port.req /\ i.resp = port.resp
  BY <1>1, IdleFields
<1>3. port' = i /\ peers' = peers /\ peerUp' = ~peerUp /\ meas' = FALSE /\ misses' = misses
  BY DEF PeerChange
<1> HIDE DEF i
<1>4. Fine(i, misses) BY <1>1, <1>2, SameFine
<1> QED BY <1>3, <1>4, FineInv DEF IInv

\* Every step keeps the invariant.
LEMMA NextInv == IInv /\ [Next]_vars => IInv'
<1> SUFFICES ASSUME IInv, [Next]_vars PROVE IInv' OBVIOUS
<1>1. CASE port_pdelay_request BY <1>1, RequestInv
<1>2. CASE RequestFails BY <1>2, RequestFailsInv
<1>3. CASE \E m \in {x \in Messages : x.src \in peers} :
              process_pdelay_resp(m) \/ process_pdelay_resp_fup(m)
  BY <1>3, RespInv, FupInv
<1>4. CASE \E peer \in peers : process_pdelay_req(peer) BY <1>4, ReqInv
<1>5. CASE OtherReception BY <1>5, OtherInv
<1>6. CASE Flush BY <1>6, FlushInv
<1>7. CASE port_initialize BY <1>7, InitializeInv
<1>8. CASE PeerChange BY <1>8, ChangeInv
<1>9. CASE UNCHANGED vars
  BY <1>9 DEF vars, IInv, Alone, Fine, Lonely, OneExchange
<1> QED BY <1>1, <1>2, <1>3, <1>4, <1>5, <1>6, <1>7, <1>8, <1>9 DEF Next

\* The invariant that both theorems rest on.
LEMMA Invariance == Spec => []IInv
BY InitInv, NextInv, PTL DEF Spec

\* A measurement is made of the messages of one exchange with one peer: an answer
\* that may still arrive and carries the number of the newest request answers it.
THEOREM AlwaysOneExchange == Spec => []OneExchange
<1>1. IInv => OneExchange BY DEF IInv
<1> QED BY <1>1, Invariance, PTL

\* A port is capable only on the strength of measurements since it last was not,
\* and for at most one unanswered request beyond allowedLostResponses.  What
\* pdr_missing does not count are losses before the port became capable; a port
\* with one peer that could become capable has none.
THEOREM AlwaysCapableIsEarned == Spec => []CapableIsEarned
<1>1. IInv => CapableIsEarned
  <2> SUFFICES ASSUME IInv PROVE CapableIsEarned OBVIOUS
  <2>1. Sound(port) /\ port \in PortType BY DEF IInv, Fine, Sound
  <2>2. TypeOK BY <2>1 DEF IInv, TypeOK
  <2>3. CapableIsMeasured BY <2>1 DEF Sound, CapableIsMeasured
  <2>4. port.pdr_missing \in 0..(Allowed + 1) BY <2>1 DEF PortType
  <2>5. LossNoticed
    <3>1. CASE Alone BY <2>4, <3>1, Bounds DEF IInv, Fine, Counted, LossNoticed, MaxMisses
    <3>2. CASE ~Alone BY <3>2, Bounds DEF IInv, LossNoticed
    <3> QED BY <3>1, <3>2
  <2> QED BY <2>2, <2>3, <2>5 DEF CapableIsEarned
<1> QED BY <1>1, Invariance, PTL

-----------------------------------------------------------------------------
\* Transparent clocks.

\* The list of a network port p: descriptors in the order in which they were
\* stored, with the residence times of their own messages; one that is pruned is
\* at most a second old.
FitTxd(p, t, timers) ==
    /\ t.host = t.msg.num /\ t.host <= now
    /\ t.msg.type \in EventTypes => t.residence = <<t.msg.num, t.ingress_port, p>>
    /\ ~t.kept => "DELAY" \in timers /\ now - 1 <= t.host

Fit(p, queue, timers) ==
    /\ queue \in Seq(Txd)
    /\ \A k \in 1..Len(queue) : FitTxd(p, queue[k], timers)
    /\ \A j, k \in 1..Len(queue) : j <= k => queue[j].host <= queue[k].host

\* What a port that is down may hold.
Held(t) == t.msg.type = "FOLLOW_UP" /\ (conf.spanning => t.msg.foreign)

TcPort == [state : PortStates \ {"INITIALIZING"}, timers : SUBSET TcTimers, queue : Seq(Txd)]

Sane(p, r) ==
    /\ r \in TcPort
    /\ Fit(p, r.queue, r.timers)
    /\ Enabled(r) \/ \A k \in 1..Len(r.queue) : Held(r.queue[k])
    /\ Enabled(r) /\ ~conf.asap => "DELAY" \in r.timers
    /\ r.state \in Electable => "ANNOUNCE" \in r.timers

SanePorts == {f \in [Ports -> TcPort] : \A p \in Ports : Sane(p, f[p])}

\* What may leave with a residence time.
Belongs(o) ==
    \/ o.kept
    \/ o.type \notin {"FOLLOW_UP", "DELAY_RESP"}
    \/ o.type = "FOLLOW_UP" /\ o.residence = <<o.num, o.link, o.port>>
    \/ /\ o.type = "DELAY_RESP"
       /\ o.residence[1] = o.num /\ o.residence[2] = o.port

Links == 0..NPorts
Residences == (-1..MaxTime) \X (0..NPorts) \X (0..NPorts)
Outs == {o \in [port : Ports, type : MessageTypes, num : 0..MaxTime, foreign : BOOLEAN,
                residence : Residences, link : Links, kept : BOOLEAN] : Belongs(o)}

\* The accumulators of the forwarding functions.
Accs == [ports : SanePorts, out : SUBSET Outs,
         left : SUBSET Ports, broken : BOOLEAN]

TcInv ==
    /\ conf \in Confs /\ ports \in SanePorts
    /\ now \in 0..MaxTime /\ messages \in 0..MaxMessages /\ events \in 0..MaxEvents
    /\ broken \in BOOLEAN
    /\ \A o \in out : Belongs(o)

-----------------------------------------------------------------------------
\* Lists and loops.

\* A set of numbers that is not empty has a smallest.
LEMMA SmallestOf ==
    ASSUME NEW S \in SUBSET Nat, S # {}
    PROVE  \E x \in S : \A y \in S : x <= y
  <1> DEFINE R == OpToRel(<, Nat)
  <1>w. IsWellFoundedOn(R, Nat)
    BY NatLessThanWellFounded
  <1> HIDE DEF R
  <1>1. PICK x \in S : \A y \in S : ~(<<y, x>> \in R)
    BY <1>w, WFMin, Zenon
  <1>2. R = {ss \in Nat \X Nat : ss[1] < ss[2]}
    BY DEF OpToRel, R
  <1>3. \A y \in S : ~(y < x)
    BY <1>1, <1>2
  <1> QED
    BY <1>3

\* A loop that stays in X from one round to the next ends in X.
LEMMA LoopEnds ==
    ASSUME NEW N \in Nat, NEW X, NEW f, f[0] \in X,
           \A i \in 1..N : f[i - 1] \in X => f[i] \in X
    PROVE  f[N] \in X
  <1> DEFINE T == {i \in 0..N : f[i] \notin X}
  <1> SUFFICES ASSUME T # {} PROVE FALSE
    OBVIOUS
  <1>1. T \in SUBSET Nat OBVIOUS
  <1>2. PICK i \in T : \A j \in T : i <= j BY <1>1, SmallestOf
  <1>3. i \in 0..N /\ i # 0 OBVIOUS
  <1>4. i \in 1..N /\ i - 1 \in 0..N /\ i - 1 < i BY <1>3
  <1>5. i - 1 \notin T BY <1>2, <1>4
  <1>6. f[i - 1] \in X BY <1>4, <1>5
  <1> QED BY <1>4, <1>6

\* The courses of a loop of N rounds that starts in a.
Runs(N, X, a, G) ==
    \E f \in [0..N -> X] : f[0] = a /\ \A i \in 1..N : f[i] = G[<<f[i - 1], i>>]

\* A loop whose rounds are given by a function has a course.
LEMMA LoopRuns ==
    ASSUME NEW N \in Nat, NEW X, NEW a \in X, NEW G \in [X \X (1..N) -> X]
    PROVE  Runs(N, X, a, G)
  <1> USE DEF Runs
  <1> DEFINE Course(n, f) == /\ f \in [0..n -> X] /\ f[0] = a
                             /\ \A i \in 1..n : f[i] = G[<<f[i - 1], i>>]
             T == {n \in 0..N : ~\E f : Course(n, f)}
  <1> SUFFICES ASSUME T # {} PROVE FALSE
    <2>1. N \in 0..N OBVIOUS
    <2> QED BY <2>1
  <1>1. T \in SUBSET Nat OBVIOUS
  <1>2. PICK n \in T : \A j \in T : n <= j BY <1>1, SmallestOf
  <1>3. n # 0
    <2> DEFINE f == [i \in 0..0 |-> a]
    <2>1. Course(0, f) OBVIOUS
    <2> QED BY <2>1
  <1>4. n \in 1..N /\ n - 1 \in 0..N /\ ~(n <= n - 1) BY <1>3
  <1>5. n - 1 \notin T BY <1>2, <1>4
  <1>6. PICK f : Course(n - 1, f) BY <1>4, <1>5
  <1> DEFINE g == [i \in 0..n |-> IF i = n THEN G[<<f[n - 1], n>>] ELSE f[i]]
  <1>7. f[n - 1] \in X BY <1>4, <1>6
  <1>8. G[<<f[n - 1], n>>] \in X BY <1>4, <1>7
  <1>9. \A i \in 0..(n - 1) : f[i] \in X BY <1>6
  <1>10. \A i \in 0..n : i # n => i \in 0..(n - 1) BY <1>4
  <1>11. g \in [0..n -> X] BY <1>8, <1>9, <1>10
  <1>12. g[0] = a BY <1>4, <1>6
  <1>13. ASSUME NEW i \in 1..n PROVE g[i] = G[<<g[i - 1], i>>]
    <2>1. i - 1 \in 0..n /\ i - 1 # n /\ i \in 0..n BY <1>4
    <2>2. g[i - 1] = f[i - 1] BY <2>1
    <2>3. CASE i = n BY <2>1, <2>2, <2>3
    <2>4. CASE i # n
      <3>1. i \in 1..(n - 1) BY <1>4, <2>4
      <3>2. g[i] = f[i] BY <2>1, <2>4
      <3> QED BY <2>2, <3>1, <3>2, <1>6
    <2> QED BY <2>3, <2>4
  <1>14. Course(n, g) BY <1>11, <1>12, <1>13
  <1> QED BY <1>14

\* A list without one of its descriptors.
LEMMA RemoveFields ==
    ASSUME NEW S, NEW s \in Seq(S), NEW k \in 1..Len(s)
    PROVE  /\ RemoveAt(s, k) \in Seq(S) /\ Len(RemoveAt(s, k)) = Len(s) - 1
           /\ \A i \in 1..(Len(s) - 1) :
                  RemoveAt(s, k)[i] = IF i < k THEN s[i] ELSE s[i + 1]
  <1> DEFINE u == SubSeq(s, 1, k - 1)
             v == SubSeq(s, k + 1, Len(s))
  <1>1. Len(s) \in Nat /\ k \in Nat OBVIOUS
  <1>2. u \in Seq(S) /\ Len(u) = k - 1 /\ \A i \in 1..(k - 1) : u[i] = s[i]
    BY <1>1
  <1>3. v \in Seq(S) /\ Len(v) = Len(s) - k /\ \A i \in 1..(Len(s) - k) : v[i] = s[k + i]
    BY <1>1
  <1>4. RemoveAt(s, k) = u \o v BY DEF RemoveAt
  <1> HIDE DEF u, v
  <1>5. u \o v \in Seq(S) /\ Len(u \o v) = Len(s) - 1
    <2>1. u \o v \in Seq(S) /\ Len(u \o v) = Len(u) + Len(v) BY <1>2, <1>3, ConcatProperties
    <2> QED BY <1>1, <1>2, <1>3, <2>1
  <1>6. ASSUME NEW i \in 1..(Len(s) - 1)
        PROVE  (u \o v)[i] = IF i < k THEN s[i] ELSE s[i + 1]
    <2>1. CASE i < k BY <1>1, <1>2, <1>3, <2>1
    <2>2. CASE ~(i < k)
      <3>1. i - (k - 1) \in 1..(Len(s) - k) BY <1>1, <2>2
      <3>2. (u \o v)[i] = v[i - (k - 1)] BY <1>1, <1>2, <1>3, <2>2
      <3>3. v[i - (k - 1)] = s[k + (i - (k - 1))] BY <3>1, <1>3
      <3>4. k + (i - (k - 1)) = i + 1 BY <1>1
      <3> QED BY <3>2, <3>3, <3>4, <2>2
    <2> QED BY <2>1, <2>2
  <1> QED BY <1>4, <1>5, <1>6

-----------------------------------------------------------------------------
\* Lists stay fit.

\* An empty list is fit.
LEMMA FitEmpty == ASSUME NEW p, NEW timers PROVE Fit(p, <<>>, timers)
BY DEF Fit

\* The timers may change as long as what prunes the list goes on.
LEMMA FitTimers ==
    ASSUME NEW p, NEW s, NEW tm, NEW tn, Fit(p, s, tm), "DELAY" \in tm => "DELAY" \in tn
    PROVE  Fit(p, s, tn)
BY DEF Fit, FitTxd

\* So is a list without one of its descriptors.
LEMMA FitRemove ==
    ASSUME NEW p, NEW s, NEW tm, Fit(p, s, tm), NEW k \in 1..Len(s)
    PROVE  /\ Fit(p, RemoveAt(s, k), tm)
           /\ \A i \in 1..Len(RemoveAt(s, k)) : \E j \in 1..Len(s) : RemoveAt(s, k)[i] = s[j]
  <1> DEFINE u == RemoveAt(s, k)
             at(i) == IF i < k THEN i ELSE i + 1
  <1>1. s \in Seq(Txd) /\ Len(s) \in Nat BY DEF Fit
  <1>2. u \in Seq(Txd) /\ Len(u) = Len(s) - 1
        /\ \A i \in 1..(Len(s) - 1) : u[i] = IF i < k THEN s[i] ELSE s[i + 1]
    BY <1>1, RemoveFields
  <1> HIDE DEF u
  <1>3. \A i \in 1..Len(u) : at(i) \in 1..Len(s) /\ u[i] = s[at(i)]
    BY <1>1, <1>2
  <1>4. \A i, j \in 1..Len(u) : i <= j => at(i) <= at(j)
    BY <1>1, <1>2
  <1> HIDE DEF at
  <1>5. \A i \in 1..Len(u) : FitTxd(p, u[i], tm) BY <1>3 DEF Fit
  <1>6. \A i, j \in 1..Len(u) : i <= j => u[i].host <= u[j].host BY <1>3, <1>4 DEF Fit
  <1>7. Fit(p, u, tm) BY <1>2, <1>5, <1>6 DEF Fit
  <1> QED BY <1>3, <1>7 DEF u

\* A descriptor of this second goes to the end.
LEMMA FitAppend ==
    ASSUME NEW p, NEW s, NEW tm, Fit(p, s, tm), now \in Nat,
           NEW t \in Txd, FitTxd(p, t, tm), t.host = now
    PROVE  /\ Fit(p, Append(s, t), tm) /\ Len(Append(s, t)) = Len(s) + 1
           /\ \A i \in 1..Len(s) : Append(s, t)[i] = s[i]
           /\ Append(s, t)[Len(s) + 1] = t
  <1> DEFINE u == Append(s, t)
  <1>1. s \in Seq(Txd) /\ Len(s) \in Nat BY DEF Fit
  <1>2. u \in Seq(Txd) /\ Len(u) = Len(s) + 1 /\ u[Len(s) + 1] = t
        /\ \A i \in 1..Len(s) : u[i] = s[i]
    BY <1>1
  <1> HIDE DEF u
  <1>3. \A i \in 1..Len(u) : i \in 1..Len(s) \/ i = Len(s) + 1 BY <1>1, <1>2
  <1>4. \A i \in 1..Len(u) : FitTxd(p, u[i], tm) BY <1>2, <1>3 DEF Fit
  <1>5. ASSUME NEW i \in 1..Len(u), NEW j \in 1..Len(u), i <= j
        PROVE  u[i].host <= u[j].host
    <2>1. CASE j \in 1..Len(s)
      <3>1. i \in 1..Len(s) BY <1>1, <1>5, <2>1
      <3> QED BY <1>2, <1>5, <2>1, <3>1 DEF Fit
    <2>2. CASE j = Len(s) + 1
      <3>1. u[j].host = now BY <1>2, <2>2
      <3>2. u[i].host <= now BY <1>4 DEF FitTxd
      <3> QED BY <3>1, <3>2
    <2> QED BY <1>3, <2>1, <2>2
  <1>6. Fit(p, u, tm) BY <1>2, <1>4, <1>5 DEF Fit
  <1> QED BY <1>2, <1>6 DEF u

\* A list that was pruned from its head.
LEMMA FitSub ==
    ASSUME NEW p, NEW s, NEW tm, Fit(p, s, tm), NEW k \in 1..Len(s)
    PROVE  /\ Fit(p, SubSeq(s, k, Len(s)), tm)
           /\ \A i \in 1..Len(SubSeq(s, k, Len(s))) :
                  \E j \in 1..Len(s) : SubSeq(s, k, Len(s))[i] = s[j]
  <1> DEFINE u == SubSeq(s, k, Len(s))
             at(i) == k + i - 1
  <1>1. s \in Seq(Txd) /\ Len(s) \in Nat BY DEF Fit
  <1>2. u \in Seq(Txd) /\ Len(u) = Len(s) - k + 1
        /\ \A i \in 1..(Len(s) - k + 1) : u[i] = s[k + i - 1]
    BY <1>1
  <1> HIDE DEF u
  <1>3. \A i \in 1..Len(u) : at(i) \in 1..Len(s) /\ u[i] = s[at(i)]
    BY <1>1, <1>2
  <1>4. \A i, j \in 1..Len(u) : i <= j => at(i) <= at(j)
    BY <1>1, <1>2
  <1> HIDE DEF at
  <1>5. \A i \in 1..Len(u) : FitTxd(p, u[i], tm) BY <1>3 DEF Fit
  <1>6. \A i, j \in 1..Len(u) : i <= j => u[i].host <= u[j].host BY <1>3, <1>4 DEF Fit
  <1>7. Fit(p, u, tm) BY <1>2, <1>5, <1>6 DEF Fit
  <1> QED BY <1>3, <1>7 DEF u

-----------------------------------------------------------------------------
\* Ports stay sane.

\* The assumptions that the arithmetic below needs.
LEMMA TcBounds ==
    /\ NPorts \in Nat /\ NPorts >= 1 /\ IdMod \in Nat /\ IdMod >= 2
    /\ MaxTime \in Nat /\ MaxMessages \in Nat /\ MaxEvents \in Nat
    /\ Ports = 1..NPorts /\ Ingress \subseteq Ports
BY TcAssumption DEF Ports

\* A port gives up a descriptor.
LEMMA SaneRemove ==
    ASSUME NEW p, NEW r, Sane(p, r), NEW k \in 1..Len(r.queue)
    PROVE  Sane(p, [r EXCEPT !.queue = RemoveAt(r.queue, k)])
  <1> DEFINE u == RemoveAt(r.queue, k)
             n == [r EXCEPT !.queue = u]
  <1>1. Fit(p, u, r.timers)
        /\ \A i \in 1..Len(u) : \E j \in 1..Len(r.queue) : u[i] = r.queue[j]
    BY FitRemove DEF Sane
  <1> HIDE DEF u
  <1>2. u \in Seq(Txd) BY <1>1 DEF Fit
  <1>3. n \in TcPort /\ n.queue = u /\ n.state = r.state /\ n.timers = r.timers
    BY <1>2 DEF Sane, TcPort
  <1> HIDE DEF n
  <1>4. Enabled(n) = Enabled(r) BY <1>3 DEF Enabled
  <1>5. Enabled(r) \/ \A i \in 1..Len(u) : Held(u[i]) BY <1>1 DEF Sane
  <1>6. Sane(p, n) BY <1>1, <1>3, <1>4, <1>5 DEF Sane
  <1> QED BY <1>6 DEF n, u

\* A new descriptor: on a port that is down only one that may be held.
LEMMA SaneStore ==
    ASSUME NEW p, NEW r, Sane(p, r), now \in Nat, NEW t \in Txd,
           FitTxd(p, t, r.timers), t.host = now, Enabled(r) \/ Held(t)
    PROVE  Sane(p, [r EXCEPT !.queue = Append(r.queue, t)])
  <1> DEFINE u == Append(r.queue, t)
             n == [r EXCEPT !.queue = u]
  <1>1. /\ Fit(p, u, r.timers) /\ Len(u) = Len(r.queue) + 1
        /\ \A i \in 1..Len(r.queue) : u[i] = r.queue[i]
        /\ u[Len(r.queue) + 1] = t
    BY FitAppend DEF Sane
  <1>0. Len(r.queue) \in Nat BY DEF Sane, TcPort
  <1> HIDE DEF u
  <1>2. u \in Seq(Txd) BY <1>1 DEF Fit
  <1>3. n \in TcPort /\ n.queue = u /\ n.state = r.state /\ n.timers = r.timers
    BY <1>2 DEF Sane, TcPort
  <1> HIDE DEF n
  <1>4. Enabled(n) = Enabled(r) BY <1>3 DEF Enabled
  <1>5. \A i \in 1..Len(u) : i \in 1..Len(r.queue) \/ i = Len(r.queue) + 1 BY <1>0, <1>1
  <1>6. Enabled(r) \/ \A i \in 1..Len(u) : Held(u[i]) BY <1>1, <1>5 DEF Sane
  <1>7. Sane(p, n) BY <1>1, <1>3, <1>4, <1>6 DEF Sane
  <1> QED BY <1>7 DEF n, u

\* tc_prune()
LEMMA SanePrune ==
    ASSUME NEW p, NEW r, Sane(p, r), "DELAY" \in r.timers
    PROVE  Sane(p, [tc_prune(r) EXCEPT !.timers = @ \cup {"DELAY"}])
  <1> DEFINE found == {k \in DOMAIN r.queue : ~(now - r.queue[k].host >= 1)}
             k == IF found = {} THEN 0 ELSE CHOOSE i \in found : \A j \in found : i <= j
             u == IF k = 0 THEN <<>> ELSE SubSeq(r.queue, k, Len(r.queue))
             n == [tc_prune(r) EXCEPT !.timers = @ \cup {"DELAY"}]
  <1>1. r \in TcPort /\ DOMAIN r.queue = 1..Len(r.queue) /\ r.queue \in Seq(Txd)
    BY DEF Sane, TcPort
  <1>2. tc_prune(r) = [r EXCEPT !.queue = u] BY DEF tc_prune, FirstMatch
  <1>3. k = 0 \/ k \in 1..Len(r.queue)
    <2>1. found \in SUBSET Nat /\ found \subseteq 1..Len(r.queue) BY <1>1
    <2> HIDE DEF found
    <2>2. CASE found = {} BY <2>2
    <2>3. CASE found # {}
      <3>1. \E i \in found : \A j \in found : i <= j BY <2>1, <2>3, SmallestOf
      <3>2. k \in found BY <2>3, <3>1
      <3> QED BY <2>1, <3>2
    <2> QED BY <2>2, <2>3
  <1> HIDE DEF k
  <1>4. Fit(p, u, r.timers)
        /\ \A i \in 1..Len(u) : \E j \in 1..Len(r.queue) : u[i] = r.queue[j]
    <2>1. CASE k = 0
      <3>1. u = <<>> BY <2>1
      <3> HIDE DEF u
      <3>2. Fit(p, u, r.timers) BY <3>1, FitEmpty
      <3>3. Len(u) = 0 BY <3>1
      <3> QED BY <3>2, <3>3
    <2>2. CASE k # 0
      <3>1. u = SubSeq(r.queue, k, Len(r.queue)) BY <2>2
      <3>2. k \in 1..Len(r.queue) BY <1>3, <2>2
      <3> QED BY <3>1, <3>2, FitSub DEF Sane
    <2> QED BY <2>1, <2>2
  <1> HIDE DEF u
  <1>5. u \in Seq(Txd) BY <1>4 DEF Fit
  <1>6. r.timers \cup {"DELAY"} = r.timers OBVIOUS
  <1>7. n \in TcPort /\ n.queue = u /\ n.state = r.state /\ n.timers = r.timers
    BY <1>1, <1>2, <1>5, <1>6 DEF TcPort
  <1> HIDE DEF n
  <1>8. Enabled(n) = Enabled(r) BY <1>7 DEF Enabled
  <1>9. Enabled(r) \/ \A i \in 1..Len(u) : Held(u[i]) BY <1>4 DEF Sane
  <1>10. Sane(p, n) BY <1>4, <1>7, <1>8, <1>9 DEF Sane
  <1> QED BY <1>10 DEF n

\* The events that reach a port of a transparent clock.
TcEvents == ClockEvents \cup {"NONE", "ANNOUNCE_RECEIPT_TIMEOUT_EXPIRES",
                              "QUALIFICATION_TIMEOUT_EXPIRES", "FAULT_CLEARED"}

\* The state machine: a port leaves a fault for its initialization only.
LEMMA MachineFields ==
    ASSUME NEW s \in PortStates \ {"INITIALIZING"}, NEW e \in TcEvents
    PROVE  /\ ptp_fsm(s, e, FALSE) \in PortStates
           /\ ptp_fsm(s, e, FALSE) = "INITIALIZING" => s = "FAULTY"
           /\ s \in {"FAULTY", "DISABLED"} => ptp_fsm(s, e, FALSE) \in {s, "INITIALIZING"}
           /\ s \in {"FAULTY", "DISABLED"} /\ e = "FAULT_DETECTED" => ptp_fsm(s, e, FALSE) = s
BY DEF PortStates, TcEvents, ClockEvents, ptp_fsm, ManagedFsm, BootFsm, Electable, Restart

\* e2e_dispatch() and p2p_dispatch() leave a port sane; a fault takes nothing
\* from the list of a port that is down.
LEMMA SaneDispatch ==
    ASSUME NEW p, NEW r, Sane(p, r), NEW e \in TcEvents
    PROVE  /\ Sane(p, dispatch(r, e, FALSE))
           /\ ~Enabled(r) /\ e = "FAULT_DETECTED" => dispatch(r, e, FALSE).queue = r.queue
  <1> DEFINE next == ptp_fsm(r.state, e, FALSE)
             s == port_state_update(r, e, FALSE)
             d == dispatch(r, e, FALSE)
             base == IF Enabled(r) THEN port_disable(r) ELSE r
  <1>1. r \in TcPort /\ Fit(p, r.queue, r.timers) BY DEF Sane
  <1>2. r.state \in PortStates \ {"INITIALIZING"} /\ r.timers \in SUBSET TcTimers
        /\ r.queue \in Seq(Txd)
    BY <1>1 DEF TcPort
  <1>3. /\ next \in PortStates
        /\ next = "INITIALIZING" => r.state = "FAULTY"
        /\ r.state \in {"FAULTY", "DISABLED"} => next \in {r.state, "INITIALIZING"}
        /\ r.state \in {"FAULTY", "DISABLED"} /\ e = "FAULT_DETECTED" => next = r.state
    BY <1>2, MachineFields
  <1> HIDE DEF next
  <1>d. Enabled(r) <=> r.state \notin {"FAULTY", "DISABLED"} BY <1>2 DEF Enabled
  <1>0. <<>> \in Seq(Txd) OBVIOUS
  <1>4. CASE next = "INITIALIZING" \/ (next = "FAULTY" /\ conf.asap)
    <2>1. s = [base EXCEPT !.state = "LISTENING", !.timers = {"ANNOUNCE"}]
      BY <1>4 DEF port_state_update, next
    <2>2. base \in TcPort /\ base.queue = (IF Enabled(r) THEN <<>> ELSE r.queue)
      BY <1>0, <1>1 DEF port_disable, tc_flush, TcPort
    <2> HIDE DEF base
    <2>3. s \in TcPort /\ s.state = "LISTENING" /\ s.timers = {"ANNOUNCE"} /\ s.queue = base.queue
      BY <2>1, <2>2 DEF TcPort, PortStates, TcTimers
    <2> HIDE DEF s
    <2>4. CASE r.state = "LISTENING"
      <3>1. d = s BY <2>3, <2>4 DEF dispatch, s
      <3>2. Enabled(r) BY <2>4 DEF Enabled
      <3>6. next # "INITIALIZING" BY <1>3, <2>4
      <3>7. conf.asap BY <1>4, <3>6, Zenon
      <3>3. s.queue = <<>> BY <2>2, <2>3, <3>2
      <3>4. Enabled(s) BY <2>3 DEF Enabled
      <3>5. Fit(p, s.queue, s.timers) BY <3>3, FitEmpty
      <3>8. Sane(p, s) BY <2>3, <3>4, <3>5, <3>7 DEF Sane
      <3> QED BY <3>1, <3>2, <3>8
    <2>5. CASE r.state # "LISTENING"
      <3>1. d = Transition(s) BY <2>3, <2>5 DEF dispatch, s
      <3>2. d = [s EXCEPT !.timers = {"ANNOUNCE", "DELAY"}]
        <4>1. ~(s.state \in {"FAULTY", "DISABLED"}) /\ s.state \in Electable /\ s.state # "PRE_MASTER"
          BY <2>3 DEF Electable
        <4>2. (s.timers \cap {"DELAY"}) \cup {"ANNOUNCE", "DELAY"} \cup {} \cup {"ANNOUNCE"}
              = {"ANNOUNCE", "DELAY"}
          BY <2>3
        <4>3. s.state = "LISTENING" BY <2>3
        <4> QED BY <3>1, <4>1, <4>2, <4>3, <2>3 DEF Transition, TcPort
      <3>3. d \in TcPort /\ d.state = "LISTENING" /\ d.timers = {"ANNOUNCE", "DELAY"}
            /\ d.queue = s.queue
        BY <2>3, <3>2 DEF TcPort, TcTimers
      <3> HIDE DEF d
      <3>4. Enabled(d) BY <3>3 DEF Enabled
      <3>5. Fit(p, d.queue, d.timers)
        <4>1. CASE Enabled(r)
          <5>1. d.queue = <<>> BY <2>2, <2>3, <3>3, <4>1
          <5> QED BY <5>1, FitEmpty
        <4>2. CASE ~Enabled(r)
          <5>1. d.queue = r.queue BY <2>2, <2>3, <3>3, <4>2
          <5>2. "DELAY" \in d.timers BY <3>3
          <5> QED BY <1>1, <5>1, <5>2, FitTimers
        <4> QED BY <4>1, <4>2
      <3>6. Sane(p, d) BY <3>3, <3>4, <3>5 DEF Sane
      <3>7. ~Enabled(r) => d.queue = r.queue BY <2>2, <2>3, <3>3
      <3> QED BY <3>6, <3>7 DEF d
    <2> QED BY <2>4, <2>5
  <1>5. CASE ~(next = "INITIALIZING" \/ (next = "FAULTY" /\ conf.asap))
    <2>1. s = [r EXCEPT !.state = next] BY <1>5 DEF port_state_update, next
    <2>2. s \in TcPort /\ s.state = next /\ s.timers = r.timers /\ s.queue = r.queue
      <3>1. next # "INITIALIZING" BY <1>5, Zenon
      <3> QED BY <1>1, <1>3, <2>1, <3>1 DEF TcPort
    <2>3. CASE next = r.state
      <3>1. s = r BY <1>1, <2>1, <2>3 DEF TcPort
      <3>2. d = r BY <3>1 DEF dispatch
      <3> QED BY <3>2
    <2>4. CASE next # r.state
      <3>1. d = Transition(s) BY <2>2, <2>4 DEF dispatch
      <3>2. Enabled(r) BY <1>3, <1>5, <1>d, <2>4
      <3> HIDE DEF s
      <3>3. CASE next \in {"FAULTY", "DISABLED"}
        <4>1. d = port_disable(s) BY <3>1, <3>3, <2>2 DEF Transition
        <4>2. d \in TcPort /\ d.state = next /\ d.timers = {} /\ d.queue = <<>>
          BY <1>0, <4>1, <2>2 DEF port_disable, tc_flush, TcPort
        <4> HIDE DEF d
        <4>3. Fit(p, d.queue, d.timers) BY <4>2, FitEmpty
        <4>4. ~Enabled(d) /\ d.state \notin Electable BY <3>3, <4>2 DEF Enabled, Electable
        <4>5. Len(d.queue) = 0 BY <4>2
        <4>6. Sane(p, d) BY <4>2, <4>3, <4>4, <4>5 DEF Sane
        <4> QED BY <3>2, <4>6 DEF d
      <3>4. CASE next \notin {"FAULTY", "DISABLED"}
        <4> DEFINE tm == (s.timers \cap {"DELAY"})
                     \cup (IF s.state = "LISTENING" THEN {"ANNOUNCE", "DELAY"} ELSE {})
                     \cup (IF s.state = "PRE_MASTER" THEN {"QUALIFICATION"} ELSE {})
                     \cup (IF s.state \in Electable THEN {"ANNOUNCE"} ELSE {})
        <4>1. d = [s EXCEPT !.timers = tm] BY <3>1, <3>4, <2>2 DEF Transition
        <4>2. tm \in SUBSET TcTimers BY DEF TcTimers
        <4>3. "DELAY" \in r.timers => "DELAY" \in tm BY <2>2
        <4>4. s.state \in Electable => "ANNOUNCE" \in tm OBVIOUS
        <4> HIDE DEF tm
        <4>5. d \in TcPort /\ d.state = next /\ d.timers = tm /\ d.queue = r.queue
          BY <4>1, <4>2, <2>2 DEF TcPort
        <4> HIDE DEF d
        <4>6. Fit(p, d.queue, d.timers) BY <1>1, <4>3, <4>5, FitTimers
        <4>7. Enabled(d) BY <1>5, <3>4, <4>5 DEF Enabled
        <4>8. ~conf.asap => "DELAY" \in d.timers BY <3>2, <4>3, <4>5 DEF Sane
        <4>9. Sane(p, d) BY <2>2, <4>4, <4>5, <4>6, <4>7, <4>8 DEF Sane
        <4> QED BY <3>2, <4>9 DEF d
      <3> QED BY <3>3, <3>4
    <2> QED BY <2>3, <2>4
  <1> QED BY <1>4, <1>5

-----------------------------------------------------------------------------
\* The forwarding functions keep their accumulator.

\* One port changes.
LEMMA PutPort ==
    ASSUME NEW a \in Accs, NEW p \in Ports, NEW r, Sane(p, r)
    PROVE  /\ [a EXCEPT !.ports[p] = r] \in Accs
           /\ [a EXCEPT !.ports[p] = r].ports = [a.ports EXCEPT ![p] = r]
  <1> DEFINE f == [a.ports EXCEPT ![p] = r]
  <1>1. a.ports \in [Ports -> TcPort] /\ \A i \in Ports : Sane(i, a.ports[i])
    BY DEF Accs, SanePorts
  <1>2. r \in TcPort BY DEF Sane
  <1>3. f \in [Ports -> TcPort] /\ \A i \in Ports : f[i] = IF i = p THEN r ELSE a.ports[i]
    BY <1>1, <1>2
  <1> HIDE DEF f
  <1>4. \A i \in Ports : Sane(i, f[i]) BY <1>1, <1>3
  <1>5. f \in SanePorts BY <1>3, <1>4 DEF SanePorts
  <1>6. [a EXCEPT !.ports[p] = r] = [a EXCEPT !.ports = f] BY DEF Accs, f
  <1> QED BY <1>5, <1>6 DEF Accs, f

\* The parts of an accumulator.
LEMMA AccFields ==
    ASSUME NEW a \in Accs
    PROVE  /\ a.ports \in [Ports -> TcPort] /\ a.out \subseteq Outs
           /\ a.left \subseteq Ports /\ a.broken \in BOOLEAN
           /\ \A p \in Ports : Sane(p, a.ports[p])
BY DEF Accs, SanePorts

\* port_dispatch() of a fault, on one port.
LEMMA FaultKeeps ==
    ASSUME NEW a \in Accs, NEW p \in Ports
    PROVE  /\ Fault(a, p) \in Accs
           /\ Fault(a, p).ports = [a.ports EXCEPT ![p] = dispatch(a.ports[p], "FAULT_DETECTED", FALSE)]
  <1> DEFINE r == dispatch(a.ports[p], "FAULT_DETECTED", FALSE)
  <1>1. "FAULT_DETECTED" \in TcEvents BY DEF TcEvents, ClockEvents
  <1>2. Sane(p, r) BY <1>1, AccFields, SaneDispatch
  <1>3. Fault(a, p) = [a EXCEPT !.ports[p] = r] BY DEF Fault
  <1> HIDE DEF r
  <1>4. Fault(a, p) \in Accs /\ Fault(a, p).ports = [a.ports EXCEPT ![p] = r]
    BY <1>2, <1>3, PutPort
  <1> QED BY <1>4 DEF r

\* A message leaves by a port, or the port faults.
LEMMA SendKeeps ==
    ASSUME NEW a \in Accs, NEW p \in Ports, NEW F
    PROVE  SendBy(a, p, F) \in Accs
  <1>1. Left(a, p) \in Accs BY DEF Left, Accs
  <1> QED BY <1>1, FaultKeeps DEF SendBy

\* The residence time with which m may leave by p.
Measured(p, m, residence, link, kept) ==
    \/ kept
    \/ m.type = "FOLLOW_UP" /\ residence = <<m.num, link, p>>
    \/ m.type = "DELAY_RESP" /\ residence[1] = m.num /\ residence[2] = p

\* A message leaves with a residence time.
LEMMA EmitKeeps ==
    ASSUME NEW a \in Accs, NEW p \in Ports, NEW m \in Message, NEW residence \in Residences,
           NEW link \in Links, NEW kept \in BOOLEAN,
           Measured(p, m, residence, link, kept)
    PROVE  Emit(a, p, m, residence, link, kept) \in Accs
           /\ Emit(a, p, m, residence, link, kept).ports = a.ports
  <1> DEFINE o == [port |-> p, type |-> m.type, num |-> m.num, foreign |-> m.foreign,
                   residence |-> residence, link |-> link, kept |-> kept]
  <1>1. m.type \in MessageTypes /\ m.num \in 0..MaxTime /\ m.foreign \in BOOLEAN BY DEF Message
  <1>2. o \in [port : Ports, type : MessageTypes, num : 0..MaxTime, foreign : BOOLEAN,
               residence : Residences, link : Links, kept : BOOLEAN]
    BY <1>1
  <1>3. Belongs(o) BY DEF Belongs, Measured
  <1>4. o \in Outs BY <1>2, <1>3 DEF Outs
  <1>5. Emit(a, p, m, residence, link, kept) = [a EXCEPT !.out = @ \cup {o}] BY DEF Emit
  <1> HIDE DEF o
  <1> QED BY <1>4, <1>5 DEF Accs

\* tc_allocate(): a port remembers a message.
LEMMA StoreKeeps ==
    ASSUME NEW a \in Accs, NEW p \in Ports, NEW q \in Ports, NEW m \in Message,
           NEW residence \in Residences, now \in Nat, m.num = now,
           m.type \in EventTypes => residence = <<m.num, q, p>>,
           Enabled(a.ports[p]) \/ (m.type = "FOLLOW_UP" /\ (conf.spanning => m.foreign))
    PROVE  Store(a, q, p, m, residence) \in Accs
  <1> DEFINE r == a.ports[p]
             t == [msg |-> m, residence |-> residence, ingress_port |-> q,
                   host |-> now, kept |-> "DELAY" \notin r.timers]
             n == [r EXCEPT !.queue = Append(r.queue, t)]
  <1>1. a.ports \in [Ports -> TcPort] /\ Sane(p, r) BY AccFields
  <1>2. now \in 0..MaxTime BY DEF Message
  <1>3. t \in Txd BY <1>2 DEF Txd, Residences
  <1>4. FitTxd(p, t, r.timers)
    <2>1. /\ t.host = now /\ t.msg = m /\ t.residence = residence /\ t.ingress_port = q
          /\ t.kept = ("DELAY" \notin r.timers)
      OBVIOUS
    <2> HIDE DEF t, r
    <2>2. ~t.kept => "DELAY" \in r.timers BY <2>1
    <2> QED BY <2>1, <2>2 DEF FitTxd
  <1>5. t.host = now /\ t.msg = m OBVIOUS
  <1>6. Enabled(r) \/ Held(t) BY <1>5 DEF Held
  <1>7. Store(a, q, p, m, residence) = [a EXCEPT !.ports[p] = n]
    <2>1. a.ports[p] \in TcPort BY <1>1
    <2> QED BY <1>1, <2>1 DEF Store, Accs, TcPort
  <1> HIDE DEF t, r
  <1>8. Sane(p, n) BY <1>1, <1>3, <1>4, <1>5, <1>6, SaneStore
  <1> HIDE DEF n
  <1> QED BY <1>7, <1>8, PutPort

\* A descriptor of a list is taken from it.
LEMMA DropKeeps ==
    ASSUME NEW a \in Accs, NEW p \in Ports, NEW k \in 1..Len(a.ports[p].queue)
    PROVE  [a EXCEPT !.ports[p].queue = RemoveAt(a.ports[p].queue, k)] \in Accs
  <1> DEFINE r == a.ports[p]
             n == [r EXCEPT !.queue = RemoveAt(r.queue, k)]
  <1>1. a.ports \in [Ports -> TcPort] /\ Sane(p, r) BY AccFields
  <1>2. Sane(p, n) BY <1>1, SaneRemove
  <1>3. [a EXCEPT !.ports[p].queue = RemoveAt(a.ports[p].queue, k)] = [a EXCEPT !.ports[p] = n]
    BY <1>1 DEF Accs, TcPort
  <1> HIDE DEF n
  <1> QED BY <1>2, <1>3, PutPort

\* Two successive numbers have different sequence ids.
LEMMA NextIdDiffers ==
    ASSUME NEW M \in Nat, M >= 2, NEW a \in Nat, NEW b \in Nat, a % M = b % M,
           b <= a, a - 1 <= b
    PROVE  a = b
  <1> SUFFICES ASSUME a = b + 1 PROVE FALSE OBVIOUS
  <1> DEFINE qa == a \div M
             qb == b \div M
  <1>1. /\ qa \in Nat /\ qb \in Nat
        /\ a = M * qa + (a % M) /\ b = M * qb + (b % M)
    OBVIOUS
  <1> HIDE DEF qa, qb
  <1>2. M * (qa - qb) = 1 BY <1>1
  <1>3. CASE qa - qb <= 0 BY <1>1, <1>2, <1>3
  <1>4. CASE qa - qb >= 1
    <2>1. M * (qa - qb) >= M BY <1>1, <1>4
    <2> QED BY <1>2, <2>1
  <1> QED BY <1>1, <1>3, <1>4

\* t on p and m received on q belong together.
Answered(p, q, m, types, t) ==
    /\ t.msg \in Message /\ t.residence \in Residences /\ t.kept \in BOOLEAN
    /\ t.kept \/ t.msg.num = m.num
    /\ {m.type, t.msg.type} = types
    /\ t.msg.type \in EventTypes => t.residence = <<t.msg.num, q, p>>

\* A descriptor that matches a message of this second is of its round of sequence
\* ids, if its list is pruned.
LEMMA MatchedRight ==
    ASSUME NEW p, NEW s, NEW tm, Fit(p, s, tm), NEW k \in 1..Len(s), now \in 0..MaxTime,
           NEW types, NEW q \in Ports, NEW m \in Message, m.num = now, Matches(types, q, m, s[k])
    PROVE  Answered(p, q, m, types, s[k])
  <1> DEFINE t == s[k]
  <1>1. t \in Txd BY DEF Fit
  <1>2. t.msg \in Message /\ t.residence \in Residences /\ t.kept \in BOOLEAN
    BY <1>1 DEF Txd, Residences
  <1>3. FitTxd(p, t, tm) BY DEF Fit
  <1> HIDE DEF t
  <1>4. t.ingress_port = q /\ {m.type, t.msg.type} = types
        /\ m.num % IdMod = t.msg.num % IdMod
    BY DEF Matches, sequenceId, t
  <1>5. CASE ~t.kept
    <2>1. t.msg.num <= now /\ now - 1 <= t.msg.num BY <1>3, <1>5 DEF FitTxd
    <2>2. t.msg.num \in Nat /\ now \in Nat BY <1>2 DEF Message
    <2>3. t.msg.num = now BY <1>4, <2>1, <2>2, TcBounds, NextIdDiffers
    <2> QED BY <1>2, <1>3, <1>4, <2>3 DEF FitTxd, Answered, t
  <1>6. CASE t.kept BY <1>2, <1>3, <1>4, <1>6 DEF FitTxd, Answered, t
  <1> QED BY <1>5, <1>6

SyfupAt(s, q, m) == FirstMatch(s, LAMBDA t : tc_match_syfup(q, m, t))
DelayAt(s, q, m) == FirstMatch(s, LAMBDA t : tc_match_delay(q, m, t))

\* tc_match_syfup() and tc_match_delay() find a descriptor of the list, if any.
LEMMA SyfupFound ==
    ASSUME NEW s \in Seq(Txd), NEW q, NEW m
    PROVE  \/ SyfupAt(s, q, m) = 0
           \/ SyfupAt(s, q, m) \in 1..Len(s) /\ tc_match_syfup(q, m, s[SyfupAt(s, q, m)])
  <1> DEFINE found == {k \in DOMAIN s : tc_match_syfup(q, m, s[k])}
             k == SyfupAt(s, q, m)
  <1>1. k = IF found = {} THEN 0 ELSE CHOOSE i \in found : \A j \in found : i <= j
    BY DEF FirstMatch, SyfupAt
  <1>2. found \in SUBSET Nat OBVIOUS
  <1> HIDE DEF k
  <1>3. CASE found = {} BY <1>1, <1>3 DEF k
  <1>4. CASE found # {}
    <2> HIDE DEF found
    <2>1. \E i \in found : \A j \in found : i <= j BY <1>2, <1>4, SmallestOf
    <2>2. k \in found BY <1>1, <1>4, <2>1
    <2> QED BY <2>2 DEF found, k
  <1> QED BY <1>3, <1>4

\* The same for a Delay_Resp.
LEMMA DelayFound ==
    ASSUME NEW s \in Seq(Txd), NEW q, NEW m
    PROVE  \/ DelayAt(s, q, m) = 0
           \/ DelayAt(s, q, m) \in 1..Len(s) /\ tc_match_delay(q, m, s[DelayAt(s, q, m)])
  <1> DEFINE found == {k \in DOMAIN s : tc_match_delay(q, m, s[k])}
             k == DelayAt(s, q, m)
  <1>1. k = IF found = {} THEN 0 ELSE CHOOSE i \in found : \A j \in found : i <= j
    BY DEF FirstMatch, DelayAt
  <1>2. found \in SUBSET Nat OBVIOUS
  <1> HIDE DEF k
  <1>3. CASE found = {} BY <1>1, <1>3 DEF k
  <1>4. CASE found # {}
    <2> HIDE DEF found
    <2>1. \E i \in found : \A j \in found : i <= j BY <1>2, <1>4, SmallestOf
    <2>2. k \in found BY <1>1, <1>4, <2>1
    <2> QED BY <2>2 DEF found, k
  <1> QED BY <1>3, <1>4

\* A Follow_Up leaves with the residence time of its own Sync.
LEMMA SyfupKeeps ==
    ASSUME NEW a \in Accs, NEW q \in Ports, NEW p \in Ports, NEW m \in Message,
           NEW residence \in Residences, NEW F, now \in 0..MaxTime, m.num = now,
           m.type \in {"SYNC", "FOLLOW_UP"},
           m.type = "SYNC" => residence = <<m.num, q, p>>,
           Enabled(a.ports[p]) \/ (m.type = "FOLLOW_UP" /\ (conf.spanning => m.foreign))
    PROVE  tc_complete_syfup(a, q, p, m, residence, F) \in Accs
  <1> DEFINE r == a.ports[p]
             queue == r.queue
             k == SyfupAt(queue, q, m)
             t == queue[k]
             res == tc_complete_syfup(a, q, p, m, residence, F)
             drop(b) == [b EXCEPT !.ports[p].queue = RemoveAt(queue, k)]
             e == IF m.type = "SYNC" THEN Emit(a, p, t.msg, residence, q, t.kept)
                  ELSE Emit(a, p, m, t.residence, q, t.kept)
  <1>1. res = CASE k = 0 -> Store(a, q, p, m, residence)
                [] k # 0 /\ ~Enabled(r) -> drop(Fault(a, p))
                [] k # 0 /\ Enabled(r) /\ p \in F -> [Fault(a, p) EXCEPT !.broken = TRUE]
                [] k # 0 /\ Enabled(r) /\ p \notin F -> drop(e)
    BY DEF tc_complete_syfup, SyfupAt
  <1>2. a.ports \in [Ports -> TcPort] /\ Sane(p, r) BY AccFields
  <1>3. Fit(p, queue, r.timers) /\ queue \in Seq(Txd) BY <1>2 DEF Sane, TcPort
  <1> HIDE DEF queue
  <1>4. k = 0 \/ (k \in 1..Len(queue) /\ tc_match_syfup(q, m, queue[k])) BY <1>3, SyfupFound
  <1> HIDE DEF k, t
  <1>5. CASE k = 0
    <2>1. res = Store(a, q, p, m, residence) BY <1>1, <1>5
    <2>2. m.type \in EventTypes => residence = <<m.num, q, p>> BY DEF EventTypes
    <2>3. now \in Nat OBVIOUS
    <2> QED BY <2>1, <2>2, <2>3, StoreKeeps
  <1>6. CASE k # 0 /\ ~Enabled(r)
    <2> DEFINE b == Fault(a, p)
    <2>1. res = drop(b) BY <1>1, <1>6
    <2>2. b \in Accs /\ b.ports = [a.ports EXCEPT ![p] = dispatch(r, "FAULT_DETECTED", FALSE)]
      BY FaultKeeps
    <2>3. "FAULT_DETECTED" \in TcEvents BY DEF TcEvents, ClockEvents
    <2>4. dispatch(r, "FAULT_DETECTED", FALSE).queue = queue
      BY <1>2, <1>6, <2>3, SaneDispatch DEF queue
    <2> HIDE DEF b
    <2>5. b.ports[p].queue = queue BY <1>2, <2>2, <2>4
    <2>6. k \in 1..Len(b.ports[p].queue) BY <1>4, <1>6, <2>5
    <2>7. drop(b) \in Accs BY <2>2, <2>5, <2>6, DropKeeps
    <2> QED BY <2>1, <2>7
  <1>7. CASE k # 0 /\ Enabled(r) /\ p \in F
    <2> DEFINE b == Fault(a, p)
    <2>1. res = [b EXCEPT !.broken = TRUE] BY <1>1, <1>7
    <2>2. b \in Accs BY FaultKeeps
    <2> HIDE DEF b
    <2> QED BY <2>1, <2>2 DEF Accs
  <1>8. CASE k # 0 /\ Enabled(r) /\ p \notin F
    <2>1. res = drop(e) BY <1>1, <1>8
    <2>2. k \in 1..Len(queue) /\ Matches({"SYNC", "FOLLOW_UP"}, q, m, queue[k])
      BY <1>4, <1>8 DEF tc_match_syfup
    <2>3. /\ t.msg \in Message /\ t.residence \in Residences /\ t.kept \in BOOLEAN
          /\ t.kept \/ t.msg.num = m.num
          /\ {m.type, t.msg.type} = {"SYNC", "FOLLOW_UP"}
          /\ t.msg.type \in EventTypes => t.residence = <<t.msg.num, q, p>>
      <3> HIDE DEF r
      <3>1. Answered(p, q, m, {"SYNC", "FOLLOW_UP"}, queue[k]) BY <1>3, <2>2, MatchedRight
      <3> QED BY <3>1 DEF Answered, t
    <2>4. q \in Links BY TcBounds DEF Links
    <2>5. e \in Accs /\ e.ports = a.ports
      <3>1. CASE m.type = "SYNC"
        <4>1. t.msg.type = "FOLLOW_UP" BY <2>3, <3>1
        <4>2. Measured(p, t.msg, residence, q, t.kept) BY <2>3, <3>1, <4>1 DEF Measured
        <4>3. e = Emit(a, p, t.msg, residence, q, t.kept) BY <3>1
        <4> HIDE DEF e
        <4> QED BY <2>3, <2>4, <4>2, <4>3, EmitKeeps
      <3>2. CASE m.type # "SYNC"
        <4>1. m.type = "FOLLOW_UP" /\ t.msg.type = "SYNC" BY <2>3, <3>2
        <4>2. Measured(p, m, t.residence, q, t.kept) BY <2>3, <4>1 DEF EventTypes, Measured
        <4>3. e = Emit(a, p, m, t.residence, q, t.kept) BY <3>2
        <4> HIDE DEF e
        <4> QED BY <2>3, <2>4, <4>1, <4>2, <4>3, EmitKeeps
      <3> QED BY <3>1, <3>2
    <2> HIDE DEF e
    <2>6. e.ports[p].queue = queue BY <2>5 DEF queue
    <2>8. k \in 1..Len(e.ports[p].queue) BY <2>2, <2>6
    <2>7. drop(e) \in Accs BY <2>5, <2>6, <2>8, DropKeeps
    <2> QED BY <2>1, <2>7
  <1> QED BY <1>5, <1>6, <1>7, <1>8

\* A Delay_Resp leaves with the residence time of its own request.
LEMMA ResponseKeeps ==
    ASSUME NEW a \in Accs, NEW q \in Ports, NEW p \in Ports, p # q, NEW m \in Message,
           NEW F, now \in 0..MaxTime, m.num = now, m.type = "DELAY_RESP"
    PROVE  tc_complete_response(a, q, p, m, F) \in Accs
  <1> DEFINE r == a.ports[q]
             queue == r.queue
             k == DelayAt(queue, p, m)
             t == queue[k]
             res == tc_complete_response(a, q, p, m, F)
             sent == IF p \in F \/ ~Enabled(a.ports[p]) THEN Fault(a, p)
                     ELSE Emit(a, p, m, t.residence, 0, t.kept)
  <1>1. res = IF k = 0 THEN a ELSE [sent EXCEPT !.ports[q].queue = RemoveAt(queue, k)]
    BY DEF tc_complete_response, DelayAt
  <1>2. a.ports \in [Ports -> TcPort] /\ Sane(q, r) BY AccFields
  <1>3. Fit(q, queue, r.timers) /\ queue \in Seq(Txd) BY <1>2 DEF Sane, TcPort
  <1> HIDE DEF queue
  <1>4. k = 0 \/ (k \in 1..Len(queue) /\ tc_match_delay(p, m, queue[k])) BY <1>3, DelayFound
  <1> HIDE DEF k, t
  <1>5. CASE k = 0 BY <1>1, <1>5
  <1>6. CASE k # 0
    <2>2. k \in 1..Len(queue) /\ Matches({"DELAY_REQ", "DELAY_RESP"}, p, m, queue[k])
      BY <1>4, <1>6 DEF tc_match_delay
    <2>3. /\ t.msg \in Message /\ t.residence \in Residences /\ t.kept \in BOOLEAN
          /\ t.kept \/ t.msg.num = m.num
          /\ {m.type, t.msg.type} = {"DELAY_REQ", "DELAY_RESP"}
          /\ t.msg.type \in EventTypes => t.residence = <<t.msg.num, p, q>>
      <3> HIDE DEF r
      <3>1. Answered(q, p, m, {"DELAY_REQ", "DELAY_RESP"}, queue[k]) BY <1>3, <2>2, MatchedRight
      <3> QED BY <3>1 DEF Answered, t
    <2>4. t.msg.type = "DELAY_REQ" BY <2>3
    <2>5. t.residence = <<t.msg.num, p, q>> BY <2>3, <2>4 DEF EventTypes
    <2>6. t.residence[1] = t.msg.num /\ t.residence[2] = p BY <2>5
    <2>7. sent \in Accs /\ sent.ports[q] = r
      <3>1. CASE p \in F \/ ~Enabled(a.ports[p])
        <4>1. sent = Fault(a, p) BY <3>1
        <4>2. Fault(a, p) \in Accs /\ Fault(a, p).ports[q] = a.ports[q] BY <1>2, FaultKeeps
        <4> QED BY <4>1, <4>2
      <3>2. CASE ~(p \in F \/ ~Enabled(a.ports[p]))
        <4>1. sent = Emit(a, p, m, t.residence, 0, t.kept) BY <3>2
        <4>2. 0 \in Links BY TcBounds DEF Links
        <4>3. Measured(p, m, t.residence, 0, t.kept) BY <2>3, <2>6 DEF Measured
        <4> QED BY <2>3, <4>1, <4>2, <4>3, EmitKeeps
      <3> QED BY <3>1, <3>2
    <2> HIDE DEF sent
    <2>8. sent.ports[q].queue = queue BY <2>7 DEF queue
    <2>10. k \in 1..Len(sent.ports[q].queue) BY <2>2, <2>8
    <2>9. [sent EXCEPT !.ports[q].queue = RemoveAt(queue, k)] \in Accs
      BY <2>7, <2>8, <2>10, DropKeeps
    <2> QED BY <1>1, <1>6, <2>9
  <1> QED BY <1>5, <1>6

-----------------------------------------------------------------------------
\* The loops over the ports.

\* The time stamp of an event message.
LEMMA StampKeeps ==
    ASSUME NEW a \in Accs, NEW q \in Ports, NEW p \in Ports, NEW m \in Message,
           NEW left, NEW fails, now \in 0..MaxTime, m.num = now, m.type \in EventTypes
    PROVE  Stamp(a, q, p, m, left, fails) \in Accs
  <1> DEFINE F == fails.general
             residence == <<m.num, q, p>>
  <1>1. CASE p \in fails.txts \/ p \notin left \/ ~Enabled(a.ports[p])
    BY <1>1, FaultKeeps DEF Stamp
  <1>2. CASE ~(p \in fails.txts \/ p \notin left \/ ~Enabled(a.ports[p]))
    <2>1. Stamp(a, q, p, m, left, fails) = tc_complete(a, q, p, m, residence, F)
      BY <1>2 DEF Stamp
    <2>2. residence \in Residences BY TcBounds DEF Residences
    <2>3. Enabled(a.ports[p]) BY <1>2
    <2>4. CASE m.type = "SYNC"
      <3>1. tc_complete(a, q, p, m, residence, F) = tc_complete_syfup(a, q, p, m, residence, F)
        BY <2>4 DEF tc_complete
      <3> QED BY <2>1, <2>2, <2>3, <2>4, <3>1, SyfupKeeps
    <2>5. CASE m.type = "DELAY_REQ"
      <3>1. tc_complete(a, q, p, m, residence, F) = Store(a, q, p, m, residence)
        BY <2>5 DEF tc_complete, tc_complete_request
      <3>2. now \in Nat OBVIOUS
      <3> QED BY <2>1, <2>2, <2>3, <3>1, <3>2, StoreKeeps
    <2> QED BY <2>4, <2>5 DEF EventTypes
  <1> QED BY <1>1, <1>2

\* A Follow_Up or a Delay_Resp.
LEMMA FolupKeeps ==
    ASSUME NEW a \in Accs, NEW q \in Ports, NEW p \in Ports, NEW m \in Message,
           NEW F, now \in 0..MaxTime, m.num = now, m.type \in {"FOLLOW_UP", "DELAY_RESP"},
           ~tc_blocked(a.ports, q, p, m)
    PROVE  tc_complete(a, q, p, m, NoResidence, F) \in Accs
  <1>1. p # q BY DEF tc_blocked
  <1>2. NoResidence \in Residences BY TcBounds DEF Residences, NoResidence
  <1>3. CASE m.type = "FOLLOW_UP"
    <2>1. tc_complete(a, q, p, m, NoResidence, F) = tc_complete_syfup(a, q, p, m, NoResidence, F)
      BY <1>3 DEF tc_complete
    <2>2. Enabled(a.ports[p]) \/ (conf.spanning => m.foreign)
      BY <1>3 DEF tc_blocked, Enabled, Down
    <2> QED BY <1>2, <1>3, <2>1, <2>2, SyfupKeeps
  <1>4. CASE m.type = "DELAY_RESP"
    <2>1. tc_complete(a, q, p, m, NoResidence, F) = tc_complete_response(a, q, p, m, F)
      BY <1>4 DEF tc_complete
    <2> QED BY <1>1, <1>4, <2>1, ResponseKeeps
  <1> QED BY <1>3, <1>4

\* The three loops as operators.
SendAll(a, q, m, F) == ForEachPort(a, q, m, LAMBDA b, p : SendBy(b, p, F))
StampAll(a, q, m, left, fails) ==
    ForEachPort(a, q, m, LAMBDA b, p : Stamp(b, q, p, m, left, fails))

\* The first loop of tc_fwd_event(), and that of tc_forward().
LEMMA SendLoop ==
    ASSUME NEW a \in Accs, NEW q \in Ports, NEW m, NEW F
    PROVE  SendAll(a, q, m, F) \in Accs
  <1> DEFINE Step(b, p) == IF tc_blocked(b.ports, q, p, m) THEN b ELSE SendBy(b, p, F)
             Course(f) == f = [p \in 0..NPorts |-> IF p = 0 THEN a ELSE Step(f[p - 1], p)]
             f == CHOOSE f : Course(f)
             G == [x \in Accs \X (1..NPorts) |-> Step(x[1], x[2])]
  <1>1. SendAll(a, q, m, F) = f[NPorts]
    BY DEF ForEachPort, SendAll
  <1>2. \A b \in Accs, p \in 1..NPorts : Step(b, p) \in Accs
    BY TcBounds, SendKeeps
  <1> HIDE DEF Step
  <1>3. G \in [Accs \X (1..NPorts) -> Accs]
        /\ \A b \in Accs, p \in 1..NPorts : G[<<b, p>>] = Step(b, p)
    BY <1>2
  <1> HIDE DEF G
  <1>4. PICK g \in [0..NPorts -> Accs] :
            g[0] = a /\ \A i \in 1..NPorts : g[i] = G[<<g[i - 1], i>>]
    <2>1. NPorts \in Nat BY TcBounds
    <2>2. G \in [Accs \X (1..NPorts) -> Accs] BY <1>3
    <2>3. Runs(NPorts, Accs, a, G) BY <2>1, <2>2, LoopRuns, Zenon
    <2> QED BY <2>3 DEF Runs
  <1>5. \A i \in 1..NPorts : g[i - 1] \in Accs BY <1>4, TcBounds
  <1>6. \A i \in 1..NPorts : g[i] = Step(g[i - 1], i) BY <1>3, <1>4, <1>5
  <1>7. \A i \in 0..NPorts : g[i] = IF i = 0 THEN a ELSE Step(g[i - 1], i)
    <2>1. \A i \in 0..NPorts : i = 0 \/ i \in 1..NPorts BY TcBounds
    <2> QED BY <1>4, <1>6, <2>1
  <1>8. Course(g) BY <1>4, <1>7
  <1>9. Course(f) BY <1>8
  <1> HIDE DEF f
  <1>10. f[0] = a /\ \A i \in 1..NPorts : f[i] = Step(f[i - 1], i)
    <2>1. 0 \in 0..NPorts /\ \A i \in 1..NPorts : i \in 0..NPorts /\ i # 0 BY TcBounds
    <2> QED BY <1>9, <2>1
  <1>11. f[NPorts] \in Accs
    <2>1. NPorts \in Nat /\ f[0] \in Accs BY <1>10, TcBounds
    <2>2. \A i \in 1..NPorts : f[i - 1] \in Accs => f[i] \in Accs BY <1>2, <1>10
    <2> QED BY <2>1, <2>2, LoopEnds, Zenon
  <1> QED BY <1>1, <1>11

\* The second loop of tc_fwd_event().
LEMMA StampLoop ==
    ASSUME NEW a \in Accs, NEW q \in Ports, NEW m \in Message, NEW left, NEW fails,
           now \in 0..MaxTime, m.num = now, m.type \in EventTypes
    PROVE  StampAll(a, q, m, left, fails) \in Accs
  <1> DEFINE Step(b, p) == IF tc_blocked(b.ports, q, p, m) THEN b ELSE Stamp(b, q, p, m, left, fails)
             Course(f) == f = [p \in 0..NPorts |-> IF p = 0 THEN a ELSE Step(f[p - 1], p)]
             f == CHOOSE f : Course(f)
             G == [x \in Accs \X (1..NPorts) |-> Step(x[1], x[2])]
  <1>1. StampAll(a, q, m, left, fails) = f[NPorts]
    BY DEF ForEachPort, StampAll
  <1>2. \A b \in Accs, p \in 1..NPorts : Step(b, p) \in Accs
    BY TcBounds, StampKeeps
  <1> HIDE DEF Step
  <1>3. G \in [Accs \X (1..NPorts) -> Accs]
        /\ \A b \in Accs, p \in 1..NPorts : G[<<b, p>>] = Step(b, p)
    BY <1>2
  <1> HIDE DEF G
  <1>4. PICK g \in [0..NPorts -> Accs] :
            g[0] = a /\ \A i \in 1..NPorts : g[i] = G[<<g[i - 1], i>>]
    <2>1. NPorts \in Nat BY TcBounds
    <2>2. G \in [Accs \X (1..NPorts) -> Accs] BY <1>3
    <2>3. Runs(NPorts, Accs, a, G) BY <2>1, <2>2, LoopRuns, Zenon
    <2> QED BY <2>3 DEF Runs
  <1>5. \A i \in 1..NPorts : g[i - 1] \in Accs BY <1>4, TcBounds
  <1>6. \A i \in 1..NPorts : g[i] = Step(g[i - 1], i) BY <1>3, <1>4, <1>5
  <1>7. \A i \in 0..NPorts : g[i] = IF i = 0 THEN a ELSE Step(g[i - 1], i)
    <2>1. \A i \in 0..NPorts : i = 0 \/ i \in 1..NPorts BY TcBounds
    <2> QED BY <1>4, <1>6, <2>1
  <1>8. Course(g) BY <1>4, <1>7
  <1>9. Course(f) BY <1>8
  <1> HIDE DEF f
  <1>10. f[0] = a /\ \A i \in 1..NPorts : f[i] = Step(f[i - 1], i)
    <2>1. 0 \in 0..NPorts /\ \A i \in 1..NPorts : i \in 0..NPorts /\ i # 0 BY TcBounds
    <2> QED BY <1>9, <2>1
  <1>11. f[NPorts] \in Accs
    <2>1. NPorts \in Nat /\ f[0] \in Accs BY <1>10, TcBounds
    <2>2. \A i \in 1..NPorts : f[i - 1] \in Accs => f[i] \in Accs BY <1>2, <1>10
    <2> QED BY <2>1, <2>2, LoopEnds, Zenon
  <1> QED BY <1>1, <1>11

\* The loop of tc_fwd_folup() and tc_fwd_response().
LEMMA FolupLoop ==
    ASSUME NEW a \in Accs, NEW q \in Ports, NEW m \in Message, NEW fails,
           now \in 0..MaxTime, m.num = now, m.type \in {"FOLLOW_UP", "DELAY_RESP"}
    PROVE  tc_fwd_folup(a, q, m, fails) \in Accs
  <1> DEFINE Step(b, p) == IF tc_blocked(b.ports, q, p, m) THEN b ELSE tc_complete(b, q, p, m, NoResidence, fails.general)
             Course(f) == f = [p \in 0..NPorts |-> IF p = 0 THEN a ELSE Step(f[p - 1], p)]
             f == CHOOSE f : Course(f)
             G == [x \in Accs \X (1..NPorts) |-> Step(x[1], x[2])]
  <1>1. tc_fwd_folup(a, q, m, fails) = f[NPorts]
    BY DEF ForEachPort, tc_fwd_folup
  <1>2. \A b \in Accs, p \in 1..NPorts : Step(b, p) \in Accs
    BY TcBounds, FolupKeeps
  <1> HIDE DEF Step
  <1>3. G \in [Accs \X (1..NPorts) -> Accs]
        /\ \A b \in Accs, p \in 1..NPorts : G[<<b, p>>] = Step(b, p)
    BY <1>2
  <1> HIDE DEF G
  <1>4. PICK g \in [0..NPorts -> Accs] :
            g[0] = a /\ \A i \in 1..NPorts : g[i] = G[<<g[i - 1], i>>]
    <2>1. NPorts \in Nat BY TcBounds
    <2>2. G \in [Accs \X (1..NPorts) -> Accs] BY <1>3
    <2>3. Runs(NPorts, Accs, a, G) BY <2>1, <2>2, LoopRuns, Zenon
    <2> QED BY <2>3 DEF Runs
  <1>5. \A i \in 1..NPorts : g[i - 1] \in Accs BY <1>4, TcBounds
  <1>6. \A i \in 1..NPorts : g[i] = Step(g[i - 1], i) BY <1>3, <1>4, <1>5
  <1>7. \A i \in 0..NPorts : g[i] = IF i = 0 THEN a ELSE Step(g[i - 1], i)
    <2>1. \A i \in 0..NPorts : i = 0 \/ i \in 1..NPorts BY TcBounds
    <2> QED BY <1>4, <1>6, <2>1
  <1>8. Course(g) BY <1>4, <1>7
  <1>9. Course(f) BY <1>8
  <1> HIDE DEF f
  <1>10. f[0] = a /\ \A i \in 1..NPorts : f[i] = Step(f[i - 1], i)
    <2>1. 0 \in 0..NPorts /\ \A i \in 1..NPorts : i \in 0..NPorts /\ i # 0 BY TcBounds
    <2> QED BY <1>9, <2>1
  <1>11. f[NPorts] \in Accs
    <2>1. NPorts \in Nat /\ f[0] \in Accs BY <1>10, TcBounds
    <2>2. \A i \in 1..NPorts : f[i - 1] \in Accs => f[i] \in Accs BY <1>2, <1>10
    <2> QED BY <2>1, <2>2, LoopEnds, Zenon
  <1> QED BY <1>1, <1>11


\* tc_fwd_event(), tc_fwd_sync() and tc_forward()
LEMMA EventKeeps ==
    ASSUME NEW a \in Accs, NEW q \in Ports, NEW m \in Message, NEW fails,
           now \in 0..MaxTime, m.num = now, m.type \in EventTypes
    PROVE  tc_fwd_event(a, q, m, fails) \in Accs
  <1> DEFINE sent == SendAll(a, q, m, fails.send)
  <1>1. tc_fwd_event(a, q, m, fails) = StampAll(sent, q, m, sent.left, fails)
    BY DEF tc_fwd_event, SendAll, StampAll
  <1>2. sent \in Accs BY SendLoop
  <1> HIDE DEF sent
  <1> QED BY <1>1, <1>2, StampLoop

\* A one step Sync is split in two.
LEMMA SyncKeeps ==
    ASSUME NEW a \in Accs, NEW q \in Ports, NEW m \in Message, NEW fails,
           now \in 0..MaxTime, m.num = now, m.type = "SYNC"
    PROVE  tc_fwd_sync(a, q, m, fails) \in Accs
  <1> DEFINE m1 == [m EXCEPT !.oneStep = FALSE]
             m2 == [m EXCEPT !.type = "FOLLOW_UP", !.oneStep = FALSE]
             first == tc_fwd_event(a, q, m1, fails)
  <1>1. m1 \in Message /\ m1.num = now /\ m1.type \in EventTypes BY DEF Message, EventTypes
  <1>2. m2 \in Message /\ m2.num = now /\ m2.type \in {"FOLLOW_UP", "DELAY_RESP"}
    BY DEF Message, MessageTypes, EventTypes
  <1>3. tc_fwd_sync(a, q, m, fails) = IF m.oneStep THEN tc_fwd_folup(first, q, m2, fails) ELSE first
    BY DEF tc_fwd_sync
  <1> HIDE DEF m1, m2
  <1>4. first \in Accs BY <1>1, EventKeeps
  <1> HIDE DEF first
  <1>5. tc_fwd_folup(first, q, m2, fails) \in Accs BY <1>2, <1>4, FolupLoop
  <1> QED BY <1>3, <1>4, <1>5

\* Whatever is received is forwarded with the residence time that belongs to it.
LEMMA ForwardedKeeps ==
    ASSUME NEW a \in Accs, NEW q \in Ports, NEW m \in Message, NEW fails,
           now \in 0..MaxTime, m.num = now
    PROVE  Forwarded(a, q, m, fails) \in Accs
  <1> DEFINE res == Forwarded(a, q, m, fails)
  <1>0. m.type \in {"SYNC", "DELAY_REQ", "FOLLOW_UP", "DELAY_RESP", "GENERAL"}
    BY DEF Message, MessageTypes, EventTypes
  <1>1. CASE m.type = "SYNC"
    <2>1. res = tc_fwd_sync(a, q, m, fails) BY <1>1 DEF Forwarded
    <2> QED BY <1>1, <2>1, SyncKeeps
  <1>2. CASE m.type = "FOLLOW_UP"
    <2>1. res = tc_fwd_folup(a, q, m, fails) BY <1>2 DEF Forwarded
    <2> QED BY <1>2, <2>1, FolupLoop
  <1>3. CASE m.type = "DELAY_REQ"
    <2>1. res = IF conf.dm = "E2E" THEN tc_fwd_event(a, q, m, fails) ELSE a
      BY <1>3 DEF Forwarded
    <2>2. m.type \in EventTypes BY <1>3 DEF EventTypes
    <2>3. tc_fwd_event(a, q, m, fails) \in Accs BY <2>2, EventKeeps
    <2> QED BY <2>1, <2>3
  <1>4. CASE m.type = "DELAY_RESP"
    <2>1. res = IF conf.dm = "E2E" THEN tc_fwd_folup(a, q, m, fails) ELSE a
      BY <1>4 DEF Forwarded
    <2>2. tc_fwd_folup(a, q, m, fails) \in Accs BY <1>4, FolupLoop
    <2> QED BY <2>1, <2>2
  <1>5. CASE m.type = "GENERAL"
    <2>1. res = tc_forward(a, q, m, fails) BY <1>5 DEF Forwarded
    <2>2. tc_forward(a, q, m, fails) = SendAll(a, q, m, fails.general)
      BY DEF tc_forward, SendAll
    <2>3. SendAll(a, q, m, fails.general) \in Accs BY SendLoop
    <2> QED BY <2>1, <2>2, <2>3
  <1> QED BY <1>0, <1>1, <1>2, <1>3, <1>4, <1>5

-----------------------------------------------------------------------------
\* Every step keeps the invariant.

\* What a sane port is does not depend on anything but the time.
LEMMA SameSanity ==
    ASSUME conf' = conf, now' = now
    PROVE  SanePorts' = SanePorts
BY DEF SanePorts, Sane, Fit, FitTxd, Held, Enabled, TcPort, Txd, Message

\* One port handles an event.
LEMMA BecomesInv ==
    ASSUME TcInv, NEW p \in Ports, NEW r, Sane(p, r), Becomes(p, r), events' \in 0..MaxEvents
    PROVE  TcInv'
  <1>1. /\ ports' = [ports EXCEPT ![p] = r] /\ out' = {}
        /\ conf' = conf /\ now' = now /\ messages' = messages /\ broken' = broken
    BY DEF Becomes
  <1>2. ports \in [Ports -> TcPort] /\ \A i \in Ports : Sane(i, ports[i])
    BY DEF TcInv, SanePorts
  <1>3. r \in TcPort BY DEF Sane
  <1> DEFINE f == [ports EXCEPT ![p] = r]
  <1>4. f \in [Ports -> TcPort] /\ \A i \in Ports : f[i] = IF i = p THEN r ELSE ports[i]
    BY <1>2, <1>3
  <1> HIDE DEF f
  <1>5. \A i \in Ports : Sane(i, f[i]) BY <1>2, <1>4
  <1>6. f \in SanePorts BY <1>4, <1>5 DEF SanePorts
  <1>7. ports' \in SanePorts' BY <1>1, <1>6, SameSanity DEF f
  <1> QED BY <1>1, <1>7 DEF TcInv

\* A message is received and forwarded.
LEMMA ReceiveInv ==
    ASSUME TcInv, NEW q \in Ports, NEW m \in Message, m.num = now, NEW fails,
           Receive(q, m, fails), events' \in 0..MaxEvents
    PROVE  TcInv'
  <1> DEFINE a0 == [ports |-> ports, out |-> {}, left |-> {}, broken |-> FALSE]
             a == Forwarded(a0, q, m, fails)
  <1>1. /\ ports' = a.ports /\ out' = a.out /\ broken' = a.broken
        /\ conf' = conf /\ now' = now /\ messages' = messages + 1 /\ messages < MaxMessages
    BY DEF Receive
  <1>2. a0 \in Accs BY DEF Accs, TcInv
  <1>3. now \in 0..MaxTime BY DEF TcInv
  <1> HIDE DEF a0
  <1>4. a \in Accs BY <1>2, <1>3, ForwardedKeeps
  <1> HIDE DEF a
  <1>5. a.ports \in SanePorts /\ a.out \subseteq Outs /\ a.broken \in BOOLEAN BY <1>4 DEF Accs
  <1>6. ports' \in SanePorts' BY <1>1, <1>5, SameSanity
  <1>7. \A o \in out' : Belongs(o) BY <1>1, <1>5 DEF Outs
  <1>8. messages' \in 0..MaxMessages BY <1>1, TcBounds DEF TcInv
  <1> QED BY <1>1, <1>5, <1>6, <1>7, <1>8 DEF TcInv, Belongs

\* Lists that are pruned are so in time.
LEMMA TickInv ==
    ASSUME TcInv, Tick
    PROVE  TcInv'
  <1>1. /\ now' = now + 1 /\ now < MaxTime /\ out' = {} /\ conf' = conf /\ ports' = ports
        /\ messages' = messages /\ events' = events /\ broken' = broken
    BY DEF Tick
  <1>2. ports \in [Ports -> TcPort] /\ now \in 0..MaxTime BY DEF TcInv, SanePorts
  <1>3. ASSUME NEW p \in Ports PROVE Sane(p, ports[p])'
    <2> DEFINE r == ports[p]
               s == r.queue
    <2>1. Sane(p, r) BY DEF TcInv, SanePorts
    <2>2. Fit(p, s, r.timers) /\ s \in Seq(Txd) BY <2>1 DEF Sane, TcPort
    <2>3. "DELAY" \in r.timers /\ s # <<>> => Head(s).host = now BY DEF Tick
    <2> HIDE DEF s
    <2>4. ASSUME NEW k \in 1..Len(s) PROVE FitTxd(p, s[k], r.timers)'
      <3>1. FitTxd(p, s[k], r.timers) /\ s[k].host \in Nat /\ s[k].kept \in BOOLEAN
        <4>1. FitTxd(p, s[k], r.timers) BY <2>2 DEF Fit
        <4>2. s[k] \in Txd BY <2>2
        <4>3. s[k].host \in 0..MaxTime /\ s[k].kept \in BOOLEAN BY <4>2 DEF Txd
        <4> QED BY <4>1, <4>3, TcBounds
      <3>2. ASSUME ~s[k].kept PROVE "DELAY" \in r.timers /\ now <= s[k].host
        <4>1. "DELAY" \in r.timers BY <3>1, <3>2 DEF FitTxd
        <4>2. s # <<>> /\ Head(s) = s[1] /\ 1 \in 1..Len(s) /\ 1 <= k BY <2>2
        <4>3. s[1].host = now BY <2>3, <4>1, <4>2
        <4>4. s[1].host <= s[k].host BY <2>2, <4>2 DEF Fit
        <4> QED BY <4>1, <4>3, <4>4
      <3>3. s[k].host = s[k].msg.num /\ s[k].host <= now
            /\ (s[k].msg.type \in EventTypes
                => s[k].residence = <<s[k].msg.num, s[k].ingress_port, p>>)
        BY <3>1 DEF FitTxd
      <3>4. s[k].host <= now + 1 /\ (~s[k].kept => "DELAY" \in r.timers /\ (now + 1) - 1 <= s[k].host)
        BY <1>2, <3>1, <3>2, <3>3
      <3>5. s' = s /\ r' = r BY <1>1 DEF s
      <3> QED BY <1>1, <3>3, <3>4, <3>5 DEF FitTxd
    <2>5. s' = s /\ r' = r BY <1>1 DEF s
    <2>6. Fit(p, s, r.timers)' BY <1>1, <2>2, <2>4, <2>5 DEF Fit
    <2> QED BY <1>1, <2>1, <2>5, <2>6 DEF Sane, Held, Enabled, s
  <1>4. ports' \in SanePorts' BY <1>1, <1>2, <1>3 DEF SanePorts
  <1>5. now' \in 0..MaxTime BY <1>1, <1>2, TcBounds
  <1> QED BY <1>1, <1>4, <1>5 DEF TcInv

\* The initial states satisfy the invariant.
LEMMA InitInvTc == TcInit => TcInv
  <1> SUFFICES ASSUME TcInit PROVE TcInv OBVIOUS
  <1>1. ASSUME NEW p \in Ports PROVE ports[p] \in TcPort /\ Sane(p, ports[p])
    <2> DEFINE st == IF p = 1 THEN "SLAVE" ELSE "MASTER"
               tm == IF p = 1 THEN {"DELAY", "ANNOUNCE"} ELSE {"DELAY"}
    <2>1. ports[p] = Running(st) BY DEF TcInit
    <2>2. Running(st) = [state |-> st, timers |-> tm, queue |-> <<>>]
      <3>1. CASE p = 1
        <4>1. ({"DELAY"} \cap {"DELAY"}) \cup {} \cup {} \cup {"ANNOUNCE"} = {"DELAY", "ANNOUNCE"}
          OBVIOUS
        <4> QED BY <3>1, <4>1 DEF Running, Transition, Electable
      <3>2. CASE p # 1
        <4>1. ({"DELAY"} \cap {"DELAY"}) \cup {} \cup {} \cup {} = {"DELAY"}
          OBVIOUS
        <4> QED BY <3>2, <4>1 DEF Running, Transition, Electable
      <3> QED BY <3>1, <3>2
    <2> DEFINE r == [state |-> st, timers |-> tm, queue |-> <<>>]
    <2>3. r \in TcPort BY DEF TcPort, PortStates, TcTimers
    <2>4. Enabled(r) /\ "DELAY" \in r.timers BY DEF Enabled
    <2>5. r.state \in Electable => "ANNOUNCE" \in r.timers BY DEF Electable
    <2>6. Fit(p, r.queue, r.timers) BY FitEmpty
    <2> HIDE DEF r
    <2>7. Sane(p, r) BY <2>3, <2>4, <2>5, <2>6 DEF Sane
    <2>8. ports[p] = r BY <2>1, <2>2 DEF r
    <2> QED BY <2>3, <2>7, <2>8
  <1>2. ports \in [Ports -> TcPort] BY <1>1 DEF TcInit
  <1>3. ports \in SanePorts BY <1>1, <1>2 DEF SanePorts
  <1>4. conf \in Confs /\ now = 0 /\ messages = 0 /\ events = 0 /\ broken = FALSE /\ out = {}
    BY DEF TcInit
  <1>5. now \in 0..MaxTime /\ messages \in 0..MaxMessages /\ events \in 0..MaxEvents
    BY <1>4, TcBounds
  <1> QED BY <1>3, <1>4, <1>5 DEF TcInv

\* What may be received.
LEMMA ArrivesInv ==
    ASSUME TcInv, NEW type \in MessageTypes, Arrives(type)
    PROVE  TcInv'
  <1>1. PICK q \in Ingress, foreign \in BOOLEAN, oneStep \in BOOLEAN,
             fails \in {NoFailure} \cup Single :
             /\ fails # NoFailure => events < MaxEvents
             /\ Receive(q, [type |-> type, num |-> now, foreign |-> foreign,
                            oneStep |-> oneStep], fails)
    BY DEF Arrives
  <1> DEFINE m == [type |-> type, num |-> now, foreign |-> foreign, oneStep |-> oneStep]
  <1>2. m \in Message /\ m.num = now BY DEF Message, TcInv
  <1>3. events' = events + (IF fails = NoFailure THEN 0 ELSE 1) BY <1>1 DEF Receive, CountFailure
  <1>4. events' \in 0..MaxEvents BY <1>1, <1>3, TcBounds DEF TcInv
  <1>5. q \in Ports BY TcBounds
  <1>6. Receive(q, m, fails) BY <1>1
  <1> HIDE DEF m
  <1> QED BY <1>2, <1>4, <1>5, <1>6, ReceiveInv

\* The events of a port.
LEMMA PortEventInv ==
    ASSUME TcInv, NEW p \in Ports, NEW e \in TcEvents, events' \in 0..MaxEvents,
           \/ Becomes(p, dispatch(ports[p], e, FALSE))
           \/ DelayTimeout(p, e)
    PROVE  TcInv'
  <1>1. Sane(p, ports[p]) BY DEF TcInv, SanePorts
  <1>2. CASE Becomes(p, dispatch(ports[p], e, FALSE))
    <2>1. Sane(p, dispatch(ports[p], e, FALSE)) BY <1>1, SaneDispatch
    <2> QED BY <1>2, <2>1, BecomesInv
  <1>3. CASE DelayTimeout(p, e)
    <2> DEFINE r == [tc_prune(ports[p]) EXCEPT !.timers = @ \cup {"DELAY"}]
    <2>1. "DELAY" \in ports[p].timers /\ Becomes(p, dispatch(r, e, FALSE)) BY <1>3 DEF DelayTimeout
    <2>2. Sane(p, r) BY <1>1, <2>1, SanePrune
    <2> HIDE DEF r
    <2>3. Sane(p, dispatch(r, e, FALSE)) BY <2>2, SaneDispatch
    <2> QED BY <2>1, <2>3, BecomesInv
  <1> QED BY <1>2, <1>3

\* Every step keeps it.
LEMMA NextInvTc == TcInv /\ [TcNext]_tcvars => TcInv'
  <1> SUFFICES ASSUME TcInv, [TcNext]_tcvars PROVE TcInv' OBVIOUS
  <1>0. events \in 0..MaxEvents BY DEF TcInv
  <1>1. CASE \E type \in MessageTypes : Arrives(type) BY <1>1, ArrivesInv
  <1>2. CASE \E p \in Ports : Calm(p) /\ UNCHANGED events
    <2>1. PICK p \in Ports : Calm(p) /\ events' = events BY <1>2
    <2>2. events' \in 0..MaxEvents BY <1>0, <2>1
    <2>3. {"NONE", "QUALIFICATION_TIMEOUT_EXPIRES", "FAULT_CLEARED"} \subseteq TcEvents
      BY DEF TcEvents
    <2>4. \/ DelayTimeout(p, "NONE")
          \/ Becomes(p, dispatch(ports[p], "QUALIFICATION_TIMEOUT_EXPIRES", FALSE))
          \/ Becomes(p, dispatch(ports[p], "FAULT_CLEARED", FALSE))
      BY <2>1 DEF Calm, QualificationTimeout, ClockEvent
    <2> QED BY <2>2, <2>3, <2>4, PortEventInv
  <1>3. CASE Tick BY <1>3, TickInv
  <1>4. CASE Event(AnnounceTimeout)
    <2>1. PICK p \in Ports : AnnounceTimeout(p) BY <1>4 DEF Event
    <2>2. events' \in 0..MaxEvents BY <1>0, <1>4, TcBounds DEF Event
    <2>3. "ANNOUNCE_RECEIPT_TIMEOUT_EXPIRES" \in TcEvents BY DEF TcEvents
    <2>4. Becomes(p, dispatch(ports[p], "ANNOUNCE_RECEIPT_TIMEOUT_EXPIRES", FALSE))
      BY <2>1 DEF AnnounceTimeout
    <2> QED BY <2>2, <2>3, <2>4, PortEventInv
  <1>5. CASE Event(LAMBDA p : DelayTimeout(p, "FAULT_DETECTED"))
    <2>1. PICK p \in Ports : DelayTimeout(p, "FAULT_DETECTED") BY <1>5 DEF Event
    <2>2. events' \in 0..MaxEvents BY <1>0, <1>5, TcBounds DEF Event
    <2>3. "FAULT_DETECTED" \in TcEvents BY DEF TcEvents, ClockEvents
    <2> QED BY <2>1, <2>2, <2>3, PortEventInv
  <1>6. CASE \E event \in ClockEvents : Event(LAMBDA p : ClockEvent(p, event))
    <2>1. PICK event \in ClockEvents, p \in Ports : ClockEvent(p, event) BY <1>6 DEF Event
    <2>2. events' \in 0..MaxEvents BY <1>0, <1>6, TcBounds DEF Event
    <2>3. event \in TcEvents BY DEF TcEvents
    <2>4. Becomes(p, dispatch(ports[p], event, FALSE)) BY <2>1 DEF ClockEvent
    <2> QED BY <2>2, <2>3, <2>4, PortEventInv
  <1>7. CASE UNCHANGED tcvars
    <2>1. /\ conf' = conf /\ now' = now /\ ports' = ports /\ messages' = messages
          /\ events' = events /\ broken' = broken /\ out' = out
      BY <1>7 DEF tcvars
    <2>2. ports' \in SanePorts' BY <2>1, SameSanity DEF TcInv
    <2> QED BY <2>1, <2>2 DEF TcInv, Belongs
  <1> QED BY <1>1, <1>2, <1>3, <1>4, <1>5, <1>6, <1>7 DEF TcNext

\* The invariant that both theorems rest on.
LEMMA TcInvariance == TcSpec => []TcInv
BY InitInvTc, NextInvTc, PTL DEF TcSpec

\* A residence time leaves with the message it was measured for: the Follow_Up of
\* the Sync that came in by the same port, the Delay_Resp of the request.  Only a
\* descriptor on a list that nothing prunes may outlive the sequence ids.
THEOREM ResidenceAlwaysBelongs == TcSpec => []ResidenceBelongs
<1>1. TcInv => ResidenceBelongs BY DEF TcInv, Belongs, ResidenceBelongs
<1> QED BY <1>1, TcInvariance, PTL

\* The lists of transmitted messages are kept short: a port that is down holds
\* nothing that it could have forwarded, and the lists of the others are pruned.
THEOREM ListsAlwaysInOrder == TcSpec => []ListsInOrder
<1>1. TcInv => ListsInOrder
  <2> SUFFICES ASSUME TcInv PROVE ListsInOrder OBVIOUS
  <2>1. \A p \in Ports : Sane(p, ports[p]) BY DEF TcInv, SanePorts
  <2>2. \A p \in Ports : ports[p] \in TcPort BY <2>1 DEF Sane
  <2>3. \A p \in Ports : DOMAIN ports[p].queue = 1..Len(ports[p].queue)
                         /\ \A k \in 1..Len(ports[p].queue) : ports[p].queue[k] \in Txd
    BY <2>2 DEF TcPort
  <2>4. TcTypeOK BY <2>2, <2>3 DEF TcInv, TcTypeOK, TcPort
  <2>5. DownHoldsNothing BY <2>1, <2>3 DEF Sane, Held, DownHoldsNothing
  <2>6. KeepsPruning BY <2>1 DEF Sane, KeepsPruning
  <2> QED BY <2>4, <2>5, <2>6 DEF ListsInOrder
<1> QED BY <1>1, TcInvariance, PTL
=============================================================================
