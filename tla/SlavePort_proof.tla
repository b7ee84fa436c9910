--------------------------- MODULE SlavePort_proof ---------------------------
(****************************************************************************)
(* Theorems about the two halves of a client port, for every value of their *)
(* constants: the duties of the delay timer and the path delay (PathDelay,  *)
(* DelayFilter), and the messages of the best master, which are there when  *)
(* its address is needed (ForeignMasters).                                  *)
(****************************************************************************)
EXTENDS MCSlavePort, FiniteSetTheorems, SequenceTheorems, WellFoundedInduction, TLAPS

\* The half of the client port that measures the delay, on its own.
PDSpec == PDInit /\ [][PDNext]_pdvars

CmldsType == [age : Nat, count : Nat, capable : BOOLEAN]
ServiceType == [up : BOOLEAN, left : Nat, kept : BOOLEAN]

\* delay_response_counter is the number of requests since a valid response, and
\* is below the limit in every state of the port, SLAVE or not.
Counted ==
    /\ setup \in SetupType /\ counter \in Nat /\ silent = counter
    /\ setup.timeout > 0 => counter < setup.timeout

\* A subscription that is kept is at least as long as what is left until it is
\* renewed, which happens in time.
Renewed ==
    /\ cmlds \in CmldsType /\ service \in ServiceType
    /\ service.kept =>
           service.up /\ service.left + cmlds.age >= Subscription /\ cmlds.age <= Update

TimerInv == Counted /\ Renewed

-----------------------------------------------------------------------------
\* Counted and Renewed hold when the port is opened.
LEMMA TimerInit == PDInit => TimerInv
  <1> SUFFICES ASSUME PDInit PROVE TimerInv
    OBVIOUS
  <1>1. setup \in SetupType /\ counter = 0 /\ silent = 0
    BY PathDelayAssumption DEF PDInit
  <1>2. Counted
    BY <1>1 DEF Counted, SetupType
  <1>3. cmlds \in CmldsType /\ service \in ServiceType /\ ~service.kept
    BY <1>1 DEF PDInit, CmldsType, ServiceType, SetupType
  <1> QED
    BY <1>2, <1>3 DEF TimerInv, Renewed

\* The handler of the delay timer counts a request, and gives up in time.
LEMMA TimerCounts == ASSUME Counted, DelayTimer PROVE Counted'
  <1>1. /\ setup' = setup
        /\ LET counts == setup.timeout > 0 /\ role = "SLAVE"
               expires == counts /\ counter + 1 >= setup.timeout
           IN  /\ counter' = IF expires THEN 0 ELSE IF counts THEN counter + 1 ELSE counter
               /\ silent' = IF expires THEN 0 ELSE IF counts THEN silent + 1 ELSE silent
    BY DEF DelayTimer, CountRequest
  <1>2. setup.timeout \in Nat
    BY DEF Counted, SetupType
  <1> QED
    BY <1>1, <1>2 DEF Counted

\* Only a response that matches a request makes the count start again.
LEMMA ResponseCounts ==
    ASSUME NEW a, Counted, process_delay_resp(a) PROVE Counted'
  <1>1. setup' = setup
    BY DEF process_delay_resp
  <1>2. (counter' = 0 /\ silent' = 0) \/ (counter' = counter /\ silent' = silent)
    BY DEF process_delay_resp, Alive
  <1>3. setup.timeout \in Nat
    BY DEF Counted, SetupType
  <1> QED
    BY <1>1, <1>2, <1>3 DEF Counted

\* port_cmlds_timeout() renews the subscription before it runs out.
LEMMA TimeoutRenews == ASSUME Renewed, port_cmlds_timeout PROVE Renewed'
  <1> DEFINE aged == [cmlds EXCEPT !.age = IF @ < Never THEN @ + 1 ELSE @]
             older == [service EXCEPT !.left = IF @ > 0 THEN @ - 1 ELSE 0]
             first == IF RenewDue(aged) THEN Renew(aged, older) ELSE [c |-> aged, s |-> older]
             count == first.c.count + 1
             lost == count > AllowedLost
             second == IF lost THEN Renew(first.c, first.s) ELSE first
             Held(c, s) ==
               /\ c \in CmldsType /\ s \in ServiceType
               /\ s.kept => s.up /\ s.left + c.age >= Subscription /\ c.age <= Update
  <1>c. Subscription \in Nat /\ Update \in Nat /\ AllowedLost \in Nat /\ Update < Subscription
        /\ Never \in Nat /\ Update < Never
    BY PathDelayAssumption DEF Never
  <1>1. aged \in CmldsType /\ older \in ServiceType
    BY <1>c DEF Renewed, CmldsType, ServiceType
  <1>2. older.kept => older.up /\ older.left + aged.age >= Subscription /\ aged.age <= Update + 1
    <2> SUFFICES ASSUME older.kept
                 PROVE  older.up /\ older.left + aged.age >= Subscription /\ aged.age <= Update + 1
      OBVIOUS
    <2>1. service.kept /\ older.up = service.up
      BY DEF Renewed, ServiceType
    <2>2. service.up /\ service.left + cmlds.age >= Subscription /\ cmlds.age <= Update
      BY <2>1 DEF Renewed
    <2>3. service.left \in Nat /\ cmlds.age \in Nat
      BY DEF Renewed, CmldsType, ServiceType
    <2>4. service.left > 0 /\ cmlds.age < Never
      BY <2>2, <2>3, <1>c
    <2>5. older.left = service.left - 1 /\ aged.age = cmlds.age + 1
      BY <2>4 DEF Renewed, CmldsType, ServiceType
    <2> QED
      BY <2>1, <2>2, <2>3, <2>5, <1>c
  <1> HIDE DEF aged, older
  <1>3. ASSUME NEW c \in CmldsType, NEW s \in ServiceType, s.kept => s.up
        PROVE  Held(Renew(c, s).c, Renew(c, s).s)
    <2> DEFINE d == [c EXCEPT !.age = 0]
               t == IF s.up THEN [s EXCEPT !.left = Subscription, !.kept = TRUE] ELSE s
    <2>1. Renew(c, s).c = d /\ Renew(c, s).s = t
      BY DEF Renew
    <2>2. d \in CmldsType /\ d.age = 0
      BY DEF CmldsType
    <2>3. t \in ServiceType /\ (t.kept => t.up /\ t.left = Subscription)
      BY <1>3, <1>c DEF ServiceType
    <2> HIDE DEF d, t
    <2> QED
      BY <2>1, <2>2, <2>3, <1>c
  <1>4. Held(first.c, first.s)
    <2>1. CASE RenewDue(aged)
      BY <2>1, <1>1, <1>2, <1>3
    <2>2. CASE ~RenewDue(aged)
      <3>1. first.c = aged /\ first.s = older
        BY <2>2
      <3>2. aged.age \in Nat /\ aged.age <= Update
        BY <2>2, <1>1, <1>c DEF RenewDue, CmldsType
      <3> QED
        BY <3>1, <3>2, <1>1, <1>2
    <2> QED
      BY <2>1, <2>2
  <1> HIDE DEF first
  <1>5. Held(second.c, second.s)
    <2>1. CASE lost
      BY <2>1, <1>4, <1>3
    <2>2. CASE ~lost
      BY <2>2, <1>4
    <2> QED
      BY <2>1, <2>2
  <1>6. /\ cmlds' = [second.c EXCEPT !.count = IF lost THEN AllowedLost + 1 ELSE count,
                                     !.capable = IF lost THEN FALSE ELSE @]
        /\ service' = second.s
    BY DEF port_cmlds_timeout, first, aged, older
  <1>7. count \in Nat
    BY <1>4 DEF CmldsType
  <1> DEFINE n == IF lost THEN AllowedLost + 1 ELSE count
             b == IF lost THEN FALSE ELSE second.c.capable
             k == second.c
  <1>8. n \in Nat /\ b \in BOOLEAN
    <2>1. second.c.capable \in BOOLEAN
      BY <1>5 DEF CmldsType
    <2> HIDE DEF count, second
    <2>2. n \in Nat
      BY <1>7, <1>c
    <2> HIDE DEF lost
    <2> QED
      BY <2>1, <2>2
  <1>9. cmlds' = [k EXCEPT !.count = n, !.capable = b]
    BY <1>6
  <1>10. k \in CmldsType
    BY <1>5
  <1> HIDE DEF n, b, k
  <1>11. cmlds' \in CmldsType /\ cmlds'.age = k.age
    BY <1>8, <1>9, <1>10 DEF CmldsType
  <1> QED
    BY <1>5, <1>6, <1>11 DEF Renewed, k

\* A notification of the service, and its restart, leave the subscription right.
LEMMA ServiceRenews ==
    ASSUME Renewed, process_cmlds \/ CmldsAgain \/ ServiceRestarts PROVE Renewed'
  <1>1. CASE process_cmlds \/ CmldsAgain
    <2>1. service' = service /\ cmlds \in CmldsType
      BY <1>1 DEF process_cmlds, CmldsAgain, Renewed
    <2>2. cmlds' = [cmlds EXCEPT !.capable = TRUE, !.count = 0] \/ cmlds' = [cmlds EXCEPT !.count = 0]
      BY <1>1 DEF process_cmlds, CmldsAgain
    <2>3. cmlds' \in CmldsType /\ cmlds'.age = cmlds.age
      <3>1. CASE cmlds' = [cmlds EXCEPT !.count = 0]
        BY <2>1, <3>1 DEF CmldsType
      <3>2. CASE cmlds' = [cmlds EXCEPT !.capable = TRUE, !.count = 0]
        BY <2>1, <3>2 DEF CmldsType
      <3> QED
        BY <2>2, <3>1, <3>2
    <2> QED
      BY <2>1, <2>3 DEF Renewed
  <1>2. CASE ServiceRestarts
    <2>1. service' \in ServiceType /\ ~service'.kept /\ cmlds' = cmlds
      BY <1>2 DEF ServiceRestarts, Renewed, ServiceType
    <2> QED
      BY <2>1 DEF Renewed
  <1> QED
    BY <1>1, <1>2

\* Every step keeps the invariant.
LEMMA TimerStep == TimerInv /\ [PDNext]_pdvars => TimerInv'
  <1> SUFFICES ASSUME TimerInv, [PDNext]_pdvars PROVE TimerInv'
    OBVIOUS
  <1> USE DEF TimerInv
  <1>1. CASE DelayTimer
    <2>1. UNCHANGED <<cmlds, service>>
      BY <1>1 DEF DelayTimer
    <2> QED
      BY <1>1, <2>1, TimerCounts DEF Renewed
  <1>2. CASE \E a \in answers : process_delay_resp(a)
    <2> PICK a \in answers : process_delay_resp(a)
      BY <1>2
    <2>1. UNCHANGED <<cmlds, service>>
      BY DEF process_delay_resp
    <2> QED
      BY <2>1, ResponseCounts DEF Renewed
  <1>3. CASE SendFails \/ Recover \/ Deselect \/ port_synchronize \/ \E m \in Masters : Select(m)
    <2>1. UNCHANGED <<setup, counter, silent, cmlds, service>>
      BY <1>3 DEF SendFails, Recover, Deselect, port_synchronize, Select, e2e
    <2> QED
      BY <2>1 DEF Counted, Renewed
  <1>4. CASE port_cmlds_timeout
    <2>1. UNCHANGED <<setup, counter, silent>>
      BY <1>4 DEF port_cmlds_timeout, e2e
    <2> QED
      BY <1>4, <2>1, TimeoutRenews DEF Counted
  <1>5. CASE process_cmlds \/ CmldsAgain \/ ServiceRestarts
    <2>1. UNCHANGED <<setup, counter, silent>>
      BY <1>5 DEF process_cmlds, CmldsAgain, ServiceRestarts, e2e
    <2> QED
      BY <1>5, <2>1, ServiceRenews DEF Counted
  <1>6. CASE UNCHANGED pdvars
    BY <1>6 DEF pdvars, e2e, Counted, Renewed
  <1> QED
    BY <1>1, <1>2, <1>3, <1>4, <1>5, <1>6 DEF PDNext

\* The invariant says what the delay timer owes.
LEMMA TimerImplies == TimerInv => DelayTimerServes
  <1> SUFFICES ASSUME TimerInv PROVE DelayTimerServes
    OBVIOUS
  <1>1. SilenceNoticed
    BY DEF TimerInv, Counted, SilenceNoticed
  <1>2. SubscriptionKept
    <2>1. service.left \in Nat /\ cmlds.age \in Nat
      BY DEF TimerInv, Renewed, CmldsType, ServiceType
    <2> QED
      BY <2>1, PathDelayAssumption DEF TimerInv, Renewed, SubscriptionKept
  <1> QED
    BY <1>1, <1>2 DEF DelayTimerServes

\* A port in SLAVE never overlooks that delay_response_timeout requests in a row
\* were not answered, and a subscription to the common service never lapses,
\* whatever is lost, doubled, late or restarted.
THEOREM TimerAlwaysServes == PDSpec => []DelayTimerServes
  BY TimerInit, TimerStep, TimerImplies, PTL DEF PDSpec

\* The same for the client port as a whole, which foreign masters reach.
COROLLARY ClientTimerServes == FairSpec => []DelayTimerServes
  <1>1. Init => TimerInv
    BY TimerInit DEF Init
  <1>2. TimerInv /\ [Next]_allvars => TimerInv'
    <2> SUFFICES ASSUME TimerInv, [Next]_allvars PROVE TimerInv'
      OBVIOUS
    <2>1. [PDNext]_pdvars
      BY DEF Next, allvars
    <2> QED
      BY <2>1, TimerStep
  <1> QED
    BY <1>1, <1>2, TimerImplies, PTL DEF FairSpec, Spec


-----------------------------------------------------------------------------
(* Foreign masters. *)

Message == [quality : Qualities, age : 0..Window]

\* The messages that are kept are announcements; the best master is one of the
\* list, which a message of it therefore joins instead of being dropped.
Listed ==
    /\ messages \in [Sources -> Seq(Message)] /\ quality \in [Sources -> Qualities \cup {0}]
    /\ sde \in BOOLEAN
    /\ best # Nobody => Contains(fc, best)

MastersInv == FMTypeOK /\ AddressKnown /\ Listed

\* A set of numbers that is not empty has a smallest.
LEMMA Smallest ==
    ASSUME NEW S \in SUBSET Nat, S # {}
    PROVE  \E x \in S : \A y \in S : x <= y
  <1> DEFINE R == OpToRel(<, Nat)
  <1>w. IsWellFoundedOn(R, Nat)
    BY NatLessThanWellFounded
  <1> HIDE DEF R
  <1>1. PICK x \in S : \A y \in S : ~(<<y, x>> \in R)
    BY <1>w, WFMin, Zenon
  <1>2. R = {ss \in Nat \X Nat : ss[1] < ss[2]}
    BY DEF OpToRel, R
  <1>3. \A y \in S : ~(y < x)
    BY <1>1, <1>2
  <1> QED
    BY <1>3

\* fc_prune() leaves the first messages, at most as many as the threshold.
LEMMA PruneRight ==
    ASSUME NEW q \in Seq(Message)
    PROVE  /\ fc_prune(q) \in Seq(Message) /\ Len(fc_prune(q)) \in 0..2
           /\ Len(fc_prune(q)) <= Len(q)
           /\ \A i \in 1..Len(fc_prune(q)) : fc_prune(q)[i] = q[i]
  <1> DEFINE current == {i \in DOMAIN q : i <= FOREIGN_MASTER_THRESHOLD /\ msg_current(q[i])}
             n == Max(current \cup {0})
  <1>1. DOMAIN q = 1..Len(q) /\ Len(q) \in Nat
    BY LenProperties
  <1>2. current \subseteq {1, 2} /\ current \subseteq 1..Len(q)
    BY <1>1 DEF FOREIGN_MASTER_THRESHOLD
  <1> HIDE DEF current
  <1>3. \E x \in current \cup {0} : \A y \in current \cup {0} : x >= y
    <2>1. CASE 2 \in current BY <1>2, <2>1
    <2>2. CASE 2 \notin current /\ 1 \in current BY <1>2, <2>2
    <2>3. CASE 2 \notin current /\ 1 \notin current BY <1>2, <2>3
    <2> QED BY <2>1, <2>2, <2>3
  <1>4. n \in current \cup {0}
    BY <1>3 DEF Max
  <1> HIDE DEF n
  <1>5. n \in 0..2 /\ n <= Len(q)
    BY <1>1, <1>2, <1>4
  <1>6. \A i \in 1..n : q[i] \in Message
    BY <1>1, <1>5, ElementOfSeq
  <1>7. fc_prune(q) = SubSeq(q, 1, n)
    BY DEF fc_prune, n, current
  <1>8. /\ SubSeq(q, 1, n) \in Seq(Message)
        /\ Len(SubSeq(q, 1, n)) = IF 1 <= n THEN n - 1 + 1 ELSE 0
        /\ \A i \in 1..(n - 1 + 1) : SubSeq(q, 1, n)[i] = q[1 + i - 1]
    BY <1>5, <1>6, SubSeqProperties
  <1> HIDE DEF fc_prune
  <1>9. Len(fc_prune(q)) = n
    BY <1>5, <1>7, <1>8
  <1> QED
    BY <1>1, <1>5, <1>7, <1>8, <1>9

\* A message comes before those that are there.
LEMMA PutFirst ==
    ASSUME NEW S, NEW m \in S, NEW q \in Seq(S)
    PROVE  /\ <<m>> \o q \in Seq(S) /\ Len(<<m>> \o q) = Len(q) + 1 /\ <<m>> \o q # <<>>
           /\ (<<m>> \o q)[1] = m /\ \A i \in 1..Len(q) : (<<m>> \o q)[i + 1] = q[i]
  <1>1. <<m>> \in Seq(S) /\ Len(<<m>>) = 1 /\ <<m>>[1] = m
    OBVIOUS
  <1>2. Len(q) \in Nat
    BY LenProperties
  <1>3. /\ <<m>> \o q \in Seq(S) /\ Len(<<m>> \o q) = Len(<<m>>) + Len(q)
        /\ \A i \in 1..(Len(<<m>>) + Len(q)) :
             (<<m>> \o q)[i] = IF i <= Len(<<m>>) THEN <<m>>[i] ELSE q[i - Len(<<m>>)]
    BY <1>1, ConcatProperties
  <1> DEFINE p == <<m>> \o q
  <1> HIDE DEF p
  <1>4. p \in Seq(S) /\ Len(p) = Len(q) + 1
    BY <1>1, <1>2, <1>3 DEF p
  <1>5. p # <<>>
    BY <1>2, <1>4, EmptySeq
  <1>6. p[1] = m /\ \A i \in 1..Len(q) : p[i + 1] = q[i]
    BY <1>1, <1>2, <1>3 DEF p
  <1> QED
    BY <1>4, <1>5, <1>6 DEF p

\* A master that qualifies has a newest message.
LEMMA QualifiedHas ==
    ASSUME Listed, NEW s \in Sources, Qualified(s)
    PROVE  /\ messages[s] # <<>> /\ messages[s][1].quality \in {1, 2}
           /\ fc_prune(messages[s]) # <<>>
  <1>1. messages[s] \in Seq(Message)
    BY DEF Listed
  <1>2. Len(fc_prune(messages[s])) >= 2 /\ Len(fc_prune(messages[s])) <= Len(messages[s])
    BY <1>1, PruneRight DEF Qualified, FOREIGN_MASTER_THRESHOLD
  <1>3. Len(messages[s]) \in Nat /\ fc_prune(messages[s]) \in Seq(Message)
    BY <1>1, LenProperties, PruneRight
  <1>4. Len(fc_prune(messages[s])) \in Nat
    BY <1>3, LenProperties
  <1>5. messages[s] # <<>> /\ fc_prune(messages[s]) # <<>>
    BY <1>1, <1>2, <1>3, <1>4, EmptySeq
  <1>6. messages[s][1] \in Message
    BY <1>1, <1>2, <1>3, <1>4, ElementOfSeq
  <1> QED
    BY <1>5, <1>6 DEF Message, Qualities


\* port_compute_best() chooses one of the list that qualifies and wins against
\* all others that do, if there is one.
LEMMA ChooseRight ==
    ASSUME Listed, NEW from \in Seq(Sources), Choose(from) # Nobody
    PROVE  \E i \in 1..Len(from) :
             /\ Choose(from) = from[i] /\ Qualified(from[i])
             /\ \A j \in 1..Len(from) : Qualified(from[j]) /\ j < i => Better(from[i], from[j])
  <1> DEFINE q == {i \in DOMAIN from : Qualified(from[i])}
             Wins(i) == \A j \in q \ {i} : IF j < i THEN Better(from[i], from[j])
                                           ELSE ~Better(from[j], from[i])
             best1 == CHOOSE i \in q : Wins(i)
             grade(i) == messages[from[i]][1].quality
  <1>1. DOMAIN from = 1..Len(from) /\ Len(from) \in Nat
    BY LenProperties
  <1>2. q # {} /\ Choose(from) = from[best1]
    BY DEF Choose
  <1>3. \A i \in q : i \in Nat /\ from[i] \in Sources
    BY <1>1, ElementOfSeq
  <1>4. \A i \in q : messages[from[i]] # <<>> /\ grade(i) \in {1, 2}
    BY <1>3, QualifiedHas
  <1>5. \A i, j \in q : Better(from[i], from[j]) <=> grade(i) > grade(j)
    BY <1>4 DEF Better
  <1>6. \E i \in q : Wins(i)
    <2> DEFINE top == {i \in q : grade(i) = 2}
    <2>1. CASE top # {}
      <3>1. PICK i \in top : \A j \in top : i <= j
        BY <1>3, <2>1, Smallest
      <3>2. \A j \in q \ {i} : j < i => grade(j) = 1
        BY <1>3, <1>4, <3>1
      <3> HIDE DEF q, grade
      <3>3. Wins(i)
        <4> TAKE j \in q \ {i}
        <4>1. i \in q /\ j \in q /\ grade(i) = 2 /\ grade(j) \in {1, 2} /\ i \in Nat /\ j \in Nat
          BY <1>3, <1>4, <3>1
        <4>2. CASE j < i BY <1>5, <3>2, <4>1, <4>2
        <4>3. CASE ~(j < i) BY <1>5, <4>1, <4>3
        <4> QED BY <4>2, <4>3
      <3> QED BY <3>1, <3>3
    <2>2. CASE top = {}
      <3>1. PICK i \in q : \A j \in q : i <= j
        BY <1>2, <1>3, Smallest
      <3>2. \A j \in q : grade(j) = 1
        BY <1>4, <2>2
      <3> HIDE DEF q, grade
      <3>3. Wins(i)
        <4> TAKE j \in q \ {i}
        <4>1. ~(j < i) /\ ~Better(from[j], from[i])
          BY <1>3, <1>5, <3>1, <3>2
        <4> QED BY <4>1
      <3> QED BY <3>1, <3>3
    <2> QED BY <2>1, <2>2
  <1>7. best1 \in q /\ Wins(best1)
    BY <1>6
  <1> HIDE DEF best1
  <1>8. \A j \in 1..Len(from) : Qualified(from[j]) /\ j < best1 => Better(from[best1], from[j])
    <2> SUFFICES ASSUME NEW j \in 1..Len(from), Qualified(from[j]), j < best1
                 PROVE  Better(from[best1], from[j])
      OBVIOUS
    <2>1. j \in q \ {best1}
      BY <1>1, <1>3, <1>7
    <2> QED
      BY <1>7, <2>1
  <1> QED
    BY <1>1, <1>2, <1>7, <1>8

\* The best master keeps messages when the others are pruned or cleared.
LEMMA ChosenKeeps ==
    ASSUME Listed, FMTypeOK, Choose(fc) # Nobody
    PROVE  /\ Choose(fc) \in Sources /\ Contains(fc, Choose(fc))
           /\ messages[Choose(fc)][1].quality > OwnQuality
           /\ AfterChoice(Choose(fc)) # <<>>
  <1> DEFINE b == Choose(fc)
  <1>1. fc \in Seq(Sources) /\ Len(fc) \in Nat /\ DOMAIN fc = 1..Len(fc)
    BY LenProperties DEF FMTypeOK
  <1>2. PICK i \in 1..Len(fc) :
          /\ b = fc[i] /\ Qualified(fc[i])
          /\ \A j \in 1..Len(fc) : Qualified(fc[j]) /\ j < i => Better(fc[i], fc[j])
    BY <1>1, ChooseRight
  <1>3. b \in Sources
    BY <1>1, <1>2, ElementOfSeq
  <1>4. Contains(fc, b)
    BY <1>2 DEF Contains
  <1> HIDE DEF b
  <1>5. /\ messages[b] # <<>> /\ messages[b][1].quality \in {1, 2}
        /\ fc_prune(messages[b]) # <<>>
    BY <1>2, <1>3, QualifiedHas
  <1> DEFINE at == CHOOSE k \in DOMAIN fc : fc[k] = b
             before == SubSeq(fc, 1, at - 1)
             leader == Choose(before)
  <1>6. at = i
    <2>1. at \in DOMAIN fc /\ fc[at] = b
      BY <1>1, <1>2
    <2> HIDE DEF at
    <2> QED
      BY <1>1, <1>2, <2>1 DEF FMTypeOK, IsInjective
  <1> HIDE DEF at
  <1>7. /\ before \in Seq(Sources) /\ Len(before) = i - 1
        /\ \A k \in 1..(i - 1) : before[k] = fc[k]
    <2>1. \A k \in 1..(i - 1) : fc[k] \in Sources
      BY <1>1, ElementOfSeq
    <2>2. /\ SubSeq(fc, 1, i - 1) \in Seq(Sources)
          /\ Len(SubSeq(fc, 1, i - 1)) = IF 1 <= i - 1 THEN i - 1 - 1 + 1 ELSE 0
          /\ \A k \in 1..(i - 1 - 1 + 1) : SubSeq(fc, 1, i - 1)[k] = fc[1 + k - 1]
      BY <2>1, SubSeqProperties
    <2> QED
      BY <1>6, <2>2
  <1> HIDE DEF before
  <1>8. leader # Nobody => Better(b, leader)
    <2> SUFFICES ASSUME leader # Nobody PROVE Better(b, leader)
      OBVIOUS
    <2>1. PICK k \in 1..Len(before) : leader = before[k] /\ Qualified(before[k])
      BY <1>7, ChooseRight
    <2>2. k \in 1..Len(fc) /\ k < i /\ leader = fc[k] /\ Qualified(fc[k])
      BY <1>1, <1>7, <2>1
    <2> QED
      BY <1>2, <2>2
  <1>9. AfterChoice(b) = fc_prune(messages[b])
    BY <1>4, <1>8 DEF AfterChoice, at, before
  <1> QED
    BY <1>3, <1>4, <1>5, <1>9 DEF b, OwnQuality

\* Whatever is chosen, the lists of messages stay lists of few.
LEMMA AfterChoiceTyped ==
    ASSUME Listed, FMTypeOK, NEW s \in Sources
    PROVE  AfterChoice(s) \in Seq(Message) /\ Len(AfterChoice(s)) <= 3
  <1>1. messages[s] \in Seq(Message) /\ Len(messages[s]) <= 3
    BY DEF Listed, FMTypeOK, FOREIGN_MASTER_THRESHOLD
  <1>2. fc_prune(messages[s]) \in Seq(Message) /\ Len(fc_prune(messages[s])) <= 3
    BY <1>1, PruneRight
  <1>3. fc_clear(messages[s]) \in Seq(Message) /\ Len(fc_clear(messages[s])) <= 3
    <2>1. <<>> \in Seq(Message) /\ Len(<<>>) = 0
      BY EmptySeq
    <2> QED
      BY <2>1 DEF fc_clear
  <1>4. AfterChoice(s) \in {messages[s], fc_clear(messages[s]), fc_prune(messages[s])}
    BY DEF AfterChoice
  <1> QED
    BY <1>1, <1>2, <1>3, <1>4


\* What the state machines do with the events that come here.
LEMMA Moves ==
    ASSUME FMTypeOK, NEW d \in BOOLEAN
    PROVE  /\ Dispatch("RS_SLAVE", d) \in Running
           /\ Dispatch("RS_GRAND_MASTER", d) \in Running \ Following
           /\ Dispatch("NONE", d) = state
           /\ Dispatch("ANNOUNCE_RECEIPT_TIMEOUT_EXPIRES", d) \in Running
           /\ Dispatch("MASTER_CLOCK_SELECTED", d) \in Running
           /\ Dispatch("SYNCHRONIZATION_FAULT", d) \in Running
  <1> USE DEF FMTypeOK, Dispatch, state_machine, Running, Following, Restart, Electable
  <1>1. CASE machine = "ptp_fsm"
    BY <1>1 DEF ptp_fsm
  <1>2. CASE machine = "ptp_slave_fsm"
    BY <1>2 DEF ptp_slave_fsm
  <1> QED
    BY <1>1, <1>2

LEMMA TimerTyped ==
    ASSUME NEW next, NEW t \in 0..Armed
    PROVE  TimerOf(next, t) \in 0..Armed /\ Armed \in 0..Armed
  <1>1. ReceiptTimeout \in Nat /\ Armed \in Nat
    BY ForeignMastersAssumption DEF Armed
  <1> QED
    BY <1>1 DEF TimerOf

\* The port is opened.
LEMMA MastersInit == FMInit => MastersInv
  <1> SUFFICES ASSUME FMInit PROVE MastersInv
    OBVIOUS
  <1>1. fc \in Seq(Sources) /\ IsInjective(fc)
    <2>1. fc = <<>> /\ <<>> \in Seq(Sources) /\ DOMAIN <<>> = {}
      BY EmptySeq DEF FMInit
    <2> QED
      BY <2>1 DEF IsInjective
  <1>2. messages \in [Sources -> Seq(Message)] /\ \A s \in Sources : Len(messages[s]) = 0
    BY DEF FMInit
  <1>3. FMTypeOK
    <2>1. timer \in 0..Armed
      BY ForeignMastersAssumption DEF FMInit, Armed
    <2> QED
      BY <1>1, <1>2, <2>1 DEF FMTypeOK, FMInit, Running, FOREIGN_MASTER_THRESHOLD
  <1>4. Listed
    BY <1>2 DEF Listed, FMInit
  <1>5. AddressKnown
    BY DEF AddressKnown, FMInit, Following
  <1> QED
    BY <1>3, <1>4, <1>5 DEF MastersInv

\* An announcement is taken.
LEMMA AnnounceStep ==
    ASSUME MastersInv, NEW s \in Sources, process_announce(s)
    PROVE  MastersInv'
  <1> DEFINE m == [quality |-> quality[s], age |-> 0]
             old == fc_prune(messages[s])
             q == <<m>> \o old
  <1>0. FMTypeOK /\ Listed /\ AddressKnown
    BY DEF MastersInv
  <1>1. /\ ready = {} /\ ~sde /\ quality[s] > 0
        /\ UNCHANGED <<machine, state, best, ready, quality, events, parent>>
        /\ IF state \in Following /\ s = best THEN update_current_master(s, m)
           ELSE add_foreign_master(s, m)
    BY DEF process_announce
  <1>2. messages \in [Sources -> Seq(Message)] /\ fc \in Seq(Sources) /\ Window \in Nat
    BY <1>0, ForeignMastersAssumption DEF Listed, FMTypeOK
  <1>3. m \in Message
    BY <1>0, <1>1, <1>2 DEF Listed, Message, Qualities
  <1>4. old \in Seq(Message) /\ Len(old) \in 0..2
    BY <1>2, PruneRight
  <1> HIDE DEF m, old
  <1>a. q \in Seq(Message) /\ Len(q) = Len(old) + 1 /\ q # <<>>
    BY <1>3, <1>4, PutFirst
  <1> DEFINE none == <<>>
  <1>6. none \in Seq(Message) /\ Len(none) = 0
    BY EmptySeq
  <1> HIDE DEF q, none
  <1>5. Len(q) <= 3 /\ Len(none) <= 3
    <2>1. \A n \in 0..2 : n + 1 <= 3
      OBVIOUS
    <2>2. Len(old) + 1 <= 3
      BY <1>4, <2>1
    <2>3. Len(q) <= 3
      BY <1>a, <2>2
    <2>4. Len(none) <= 3
      BY <1>6
    <2> QED
      BY <2>3, <2>4
  <1>7. /\ \E l \in Seq(Message) : /\ Len(l) <= 3 /\ messages' = [messages EXCEPT ![s] = l]
                                   /\ l # <<>> \/ (~Contains(fc, s) /\ fc' = <<s>> \o fc)
        /\ fc' = fc \/ (~Contains(fc, s) /\ fc' = <<s>> \o fc)
        /\ timer' \in 0..Armed /\ sde' \in BOOLEAN
    <2>1. CASE state \in Following /\ s = best
      <3>1. update_current_master(s, m)
        BY <1>1, <2>1
      <3>2. messages' = [messages EXCEPT ![s] = q] /\ fc' = fc /\ timer' = Armed
        BY <3>1 DEF update_current_master, q, old
      <3>3. sde' \in BOOLEAN
        BY <3>1, Zenon DEF update_current_master
      <3>4. Armed \in 0..Armed
        BY <1>0, TimerTyped DEF FMTypeOK
      <3> QED
        BY <1>5, <1>a, <3>2, <3>3, <3>4
    <2>2. CASE ~(state \in Following /\ s = best)
      <3>1. add_foreign_master(s, m)
        BY <1>1, <2>2
      <3>2. sde' \in BOOLEAN
        BY <3>1, Zenon DEF add_foreign_master
      <3>3. timer' \in 0..Armed
        BY <1>0, <3>1 DEF add_foreign_master, FMTypeOK
      <3>4. CASE Contains(fc, s)
        <4>1. messages' = [messages EXCEPT ![s] = q] /\ fc' = fc
          BY <3>1, <3>4 DEF add_foreign_master, Added, q, old
        <4> QED
          BY <1>5, <1>a, <3>2, <3>3, <4>1
      <3>5. CASE ~Contains(fc, s)
        <4>1. messages' = [messages EXCEPT ![s] = none] /\ fc' = <<s>> \o fc
          BY <3>1, <3>5 DEF add_foreign_master, Added, none
        <4> QED
          BY <1>5, <1>6, <3>2, <3>3, <3>5, <4>1
      <3> QED
        BY <3>4, <3>5
    <2> QED
      BY <2>1, <2>2
  <1>8. PICK l \in Seq(Message) :
          /\ Len(l) <= 3 /\ messages' = [messages EXCEPT ![s] = l]
          /\ l # <<>> \/ (~Contains(fc, s) /\ fc' = <<s>> \o fc)
    BY <1>7
  <1>9. messages' \in [Sources -> Seq(Message)] /\ \A x \in Sources : Len(messages'[x]) <= 3
    BY <1>0, <1>2, <1>8 DEF FMTypeOK, FOREIGN_MASTER_THRESHOLD
  <1>10. fc' \in Seq(Sources) /\ IsInjective(fc') /\ \A x : Contains(fc, x) => Contains(fc', x)
    <2>1. CASE fc' = fc
      BY <1>0, <1>2, <2>1 DEF FMTypeOK
    <2>2. CASE ~Contains(fc, s) /\ fc' = <<s>> \o fc
      <3>1. /\ fc' \in Seq(Sources) /\ Len(fc') = Len(fc) + 1 /\ fc'[1] = s
            /\ \A i \in 1..Len(fc) : fc'[i + 1] = fc[i]
        BY <1>2, <2>2, PutFirst
      <3>2. DOMAIN fc' = 1..Len(fc') /\ DOMAIN fc = 1..Len(fc) /\ Len(fc) \in Nat
        BY <1>2, <3>1, LenProperties
      <3>3. \A i \in 1..Len(fc) : fc[i] # s
        BY <2>2 DEF Contains
      <3>4. \A i \in 2..Len(fc') : fc'[i] = fc[i - 1] /\ i - 1 \in 1..Len(fc)
        BY <3>1, <3>2
      <3>5. \A i, j \in 1..Len(fc) : fc[i] = fc[j] => i = j
        BY <1>0, <3>2 DEF FMTypeOK, IsInjective
      <3>6. IsInjective(fc')
        <4> SUFFICES ASSUME NEW a \in 1..Len(fc'), NEW b \in 1..Len(fc'), fc'[a] = fc'[b]
                     PROVE  a = b
          BY <3>2 DEF IsInjective
        <4>1. CASE a = 1 /\ b = 1 BY <4>1
        <4>2. CASE a = 1 /\ b # 1
          <5>1. b \in 2..Len(fc') BY <3>1, <3>2, <4>2
          <5> QED BY <3>1, <3>3, <3>4, <4>2, <5>1
        <4>3. CASE a # 1 /\ b = 1
          <5>1. a \in 2..Len(fc') BY <3>1, <3>2, <4>3
          <5> QED BY <3>1, <3>3, <3>4, <4>3, <5>1
        <4>4. CASE a # 1 /\ b # 1
          <5>1. a \in 2..Len(fc') /\ b \in 2..Len(fc') BY <3>1, <3>2, <4>4
          <5>2. a - 1 = b - 1 BY <3>4, <3>5, <5>1
          <5> QED BY <5>1, <5>2
        <4> QED BY <4>1, <4>2, <4>3, <4>4
      <3>7. ASSUME NEW x, Contains(fc, x) PROVE Contains(fc', x)
        <4>1. PICK i \in 1..Len(fc) : fc[i] = x
          BY <3>7 DEF Contains
        <4>2. i + 1 \in 1..Len(fc') /\ fc'[i + 1] = x
          BY <3>1, <3>2, <4>1
        <4> QED
          BY <4>2 DEF Contains
      <3> QED
        BY <3>1, <3>6, <3>7
    <2> QED
      BY <1>7, <2>1, <2>2
  <1>11. FMTypeOK'
    BY <1>0, <1>1, <1>7, <1>9, <1>10 DEF FMTypeOK, FOREIGN_MASTER_THRESHOLD
  <1>12. Listed'
    BY <1>0, <1>1, <1>7, <1>9, <1>10 DEF Listed
  <1>13. AddressKnown'
    <2>1. HasAddress => HasAddress'
      <3> SUFFICES ASSUME HasAddress PROVE HasAddress'
        OBVIOUS
      <3>1. best # Nobody /\ best \in Sources /\ Contains(fc, best)
        BY <1>0 DEF HasAddress, Listed, FMTypeOK
      <3>2. messages'[best] # <<>>
        BY <1>2, <1>8, <3>1 DEF HasAddress
      <3> QED
        BY <1>1, <3>1, <3>2 DEF HasAddress
    <2> QED
      BY <1>0, <1>1, <2>1 DEF AddressKnown
  <1> QED
    BY <1>11, <1>12, <1>13 DEF MastersInv

\* The best master is chosen and the port state follows.
LEMMA DecisionStep ==
    ASSUME MastersInv, handle_state_decision_event
    PROVE  MastersInv'
  <1> DEFINE b == Choose(fc)
             event == IF b # Nobody /\ messages[b][1].quality > OwnQuality THEN "RS_SLAVE"
                      ELSE IF b = Nobody /\ state = "LISTENING" THEN "NONE"
                      ELSE "RS_GRAND_MASTER"
             next == Dispatch(event, b # parent)
  <1>0. FMTypeOK /\ Listed /\ AddressKnown
    BY DEF MastersInv
  <1>1. /\ ready = {} /\ sde' = FALSE /\ best' = b /\ parent' = b
        /\ messages' = [s \in Sources |-> AfterChoice(s)]
        /\ state' = next /\ timer' = TimerOf(next, timer)
        /\ UNCHANGED <<machine, fc, ready, said, quality, events>>
    BY DEF handle_state_decision_event
  <1>2. b # Nobody => /\ b \in Sources /\ Contains(fc, b)
                      /\ messages[b][1].quality > OwnQuality /\ AfterChoice(b) # <<>>
    BY <1>0, ChosenKeeps
  <1> HIDE DEF b
  <1>3. (b # parent) \in BOOLEAN
    OBVIOUS
  <1>4. next \in Running /\ (b = Nobody => next \notin Following)
    <2>1. CASE b # Nobody
      BY <1>0, <1>2, <1>3, <2>1, Moves
    <2>2. CASE b = Nobody /\ state = "LISTENING"
      <3>1. next = state
        BY <1>0, <1>3, <2>2, Moves
      <3> QED
        BY <2>2, <3>1 DEF Running, Following
    <2>3. CASE b = Nobody /\ state # "LISTENING"
      BY <1>0, <1>3, <2>3, Moves
    <2> QED
      BY <2>1, <2>2, <2>3
  <1> HIDE DEF next
  <1>5. messages' \in [Sources -> Seq(Message)] /\ \A s \in Sources : Len(messages'[s]) <= 3
    BY <1>0, <1>1, AfterChoiceTyped
  <1>6. FMTypeOK'
    <2>1. timer' \in 0..Armed
      BY <1>0, <1>1, TimerTyped DEF FMTypeOK
    <2> QED
      BY <1>0, <1>1, <1>2, <1>4, <1>5, <2>1 DEF FMTypeOK, FOREIGN_MASTER_THRESHOLD
  <1>7. Listed'
    BY <1>0, <1>1, <1>2, <1>5 DEF Listed
  <1>8. AddressKnown'
    BY <1>1, <1>2, <1>4 DEF AddressKnown, HasAddress
  <1> QED
    BY <1>6, <1>7, <1>8 DEF MastersInv


\* The receipt timeout: the messages of the best master go, and a decision is due.
LEMMA ExpiredStep ==
    ASSUME MastersInv, AnnounceTimeout
    PROVE  MastersInv'
  <1> DEFINE next == Dispatch("ANNOUNCE_RECEIPT_TIMEOUT_EXPIRES", FALSE)
             none == <<>>
  <1>0. FMTypeOK /\ Listed
    BY DEF MastersInv
  <1>1. /\ ready' = ready \ {"ANNOUNCE"} /\ sde' = TRUE
        /\ messages' = IF best = Nobody THEN messages ELSE [messages EXCEPT ![best] = none]
        /\ state' = next /\ timer' = TimerOf(next, Armed)
        /\ UNCHANGED <<machine, best, fc, said, quality, events, parent>>
    BY DEF AnnounceTimeout, fc_clear
  <1>2. next \in Running
    BY <1>0, Moves
  <1>3. none \in Seq(Message) /\ Len(none) = 0
    BY EmptySeq
  <1> HIDE DEF next, none
  <1>4. Len(none) <= 3
    BY <1>3
  <1>5. messages' \in [Sources -> Seq(Message)] /\ \A s \in Sources : Len(messages'[s]) <= 3
    BY <1>0, <1>1, <1>3, <1>4 DEF FMTypeOK, Listed, FOREIGN_MASTER_THRESHOLD
  <1>6. timer' \in 0..Armed
    <2>1. Armed \in 0..Armed
      BY <1>0, TimerTyped DEF FMTypeOK
    <2> QED
      BY <1>1, <2>1, TimerTyped
  <1>7. FMTypeOK'
    BY <1>0, <1>1, <1>2, <1>5, <1>6 DEF FMTypeOK, FOREIGN_MASTER_THRESHOLD
  <1>8. Listed'
    BY <1>0, <1>1, <1>5 DEF Listed
  <1>9. AddressKnown'
    BY <1>1 DEF AddressKnown
  <1> QED
    BY <1>7, <1>8, <1>9 DEF MastersInv

\* An interval passes: the messages grow older.
LEMMA IntervalStep ==
    ASSUME MastersInv, FMTick
    PROVE  MastersInv'
  <1>0. FMTypeOK /\ Listed /\ AddressKnown
    BY DEF MastersInv
  <1>1. /\ ready = {} /\ ~sde /\ timer # 1
        /\ timer' = IF timer > 0 THEN timer - 1 ELSE 0
        /\ messages' = [s \in Sources |-> Older(messages[s])]
        /\ UNCHANGED <<machine, state, best, fc, ready, sde, quality, events, parent>>
    BY DEF FMTick
  <1>2. Window \in Nat /\ Armed \in Nat
    BY ForeignMastersAssumption DEF Armed
  <1>3. ASSUME NEW q \in Seq(Message) PROVE Older(q) \in Seq(Message) /\ Len(Older(q)) = Len(q)
    <2>1. DOMAIN q = 1..Len(q) /\ Len(q) \in Nat
      BY LenProperties
    <2>2. \A i \in 1..Len(q) : q[i] \in Message
      BY <2>1, ElementOfSeq
    <2>3. ASSUME NEW x \in Message
          PROVE  [x EXCEPT !.age = IF x.age < Window THEN x.age + 1 ELSE x.age] \in Message
      <3>1. x.age \in 0..Window
        BY DEF Message
      <3>2. (IF x.age < Window THEN x.age + 1 ELSE x.age) \in 0..Window
        BY <1>2, <3>1
      <3> QED
        BY <3>2 DEF Message
    <2>4. Older(q) \in [1..Len(q) -> Message]
      BY <2>1, <2>2, <2>3 DEF Older
    <2>5. Older(q) \in Seq(Message)
      BY <2>1, <2>4, IsASeq
    <2>6. DOMAIN Older(q) = 1..Len(Older(q)) /\ DOMAIN Older(q) = 1..Len(q)
      BY <2>4, <2>5, LenProperties
    <2>7. Len(Older(q)) = Len(q)
      BY <2>1, <2>4, <2>5, LenProperties
    <2> QED
      BY <2>5, <2>7
  <1>4. \A s \in Sources : messages[s] \in Seq(Message) /\ messages'[s] = Older(messages[s])
    BY <1>0, <1>1 DEF Listed
  <1>5. \A s \in Sources : messages'[s] \in Seq(Message) /\ Len(messages'[s]) = Len(messages[s])
    BY <1>3, <1>4
  <1>6. messages' \in [Sources -> Seq(Message)]
    BY <1>1, <1>5
  <1>7. FMTypeOK'
    <2>1. timer' \in 0..Armed
      BY <1>0, <1>1, <1>2 DEF FMTypeOK
    <2> QED
      BY <1>0, <1>1, <1>5, <2>1 DEF FMTypeOK
  <1>8. Listed'
    BY <1>0, <1>1, <1>6 DEF Listed
  <1>9. AddressKnown'
    <2>1. HasAddress => HasAddress'
      <3> SUFFICES ASSUME HasAddress PROVE HasAddress'
        OBVIOUS
      <3>1. best # Nobody /\ best \in Sources /\ messages[best] # <<>>
        BY <1>0 DEF HasAddress, FMTypeOK
      <3>2. Len(messages[best]) # 0
        BY <1>4, <3>1, EmptySeq
      <3>3. Len(messages'[best]) # 0
        BY <1>5, <3>1, <3>2
      <3>4. messages'[best] # <<>>
        BY <1>5, <3>1, <3>3, EmptySeq
      <3> QED
        BY <1>1, <3>1, <3>4 DEF HasAddress
    <2> QED
      BY <1>0, <1>1, <2>1 DEF AddressKnown
  <1> QED
    BY <1>7, <1>8, <1>9 DEF MastersInv

\* No step of the half that chooses the master breaks the invariant.
LEMMA MastersStep == ASSUME MastersInv, [FMNext]_fmvars PROVE MastersInv'
  <1>0. FMTypeOK /\ Listed /\ AddressKnown
    BY DEF MastersInv
  <1>1. ASSUME NEW s \in Sources, process_announce(s) PROVE MastersInv'
    BY <1>1, AnnounceStep
  <1>2. ASSUME NEW s \in Sources, Lose(s) PROVE MastersInv'
    BY <1>0, <1>2 DEF Lose, MastersInv, FMTypeOK, Listed, AddressKnown, HasAddress
  <1>3. ASSUME NEW s \in Sources, Change(s) PROVE MastersInv'
    <2>1. quality' \in [Sources -> Qualities \cup {0}]
      BY <1>0, <1>3 DEF Change, Listed
    <2> QED
      BY <1>0, <1>3, <2>1 DEF Change, MastersInv, FMTypeOK, Listed, AddressKnown, HasAddress
  <1>4. CASE handle_state_decision_event
    BY <1>4, DecisionStep
  <1>5. CASE Poll
    <2>1. HasAddress' = HasAddress
      BY <1>5 DEF Poll, HasAddress
    <2>2. AddressKnown'
      BY <1>0, <1>5, <2>1 DEF Poll, AddressKnown
    <2>3. FMTypeOK' /\ Listed'
      BY <1>0, <1>5 DEF Poll, FMTypeOK, Listed
    <2> QED
      BY <2>2, <2>3 DEF MastersInv
  <1>6. CASE AnnounceTimeout
    BY <1>6, ExpiredStep
  <1>7. CASE DelayTimeout
    <2>1. HasAddress' = HasAddress
      BY <1>7 DEF DelayTimeout, HasAddress
    <2>2. AddressKnown'
      BY <1>0, <1>7, <2>1 DEF DelayTimeout, AddressKnown
    <2>3. FMTypeOK' /\ Listed'
      BY <1>0, <1>7 DEF DelayTimeout, FMTypeOK, Listed
    <2> QED
      BY <2>2, <2>3 DEF MastersInv
  <1>8. CASE FMTick
    BY <1>8, IntervalStep
  <1>9. ASSUME NEW e \in {"MASTER_CLOCK_SELECTED", "SYNCHRONIZATION_FAULT"}, Synchronize(e)
        PROVE  MastersInv'
    <2>1. state' \in Running
      BY <1>0, <1>9, Moves DEF Synchronize
    <2>2. timer' \in 0..Armed
      BY <1>0, <1>9, TimerTyped DEF Synchronize, FMTypeOK
    <2>3. HasAddress' = HasAddress
      BY <1>9 DEF Synchronize, HasAddress
    <2>4. AddressKnown'
      BY <1>0, <1>9, <2>3 DEF Synchronize, AddressKnown
    <2>5. FMTypeOK' /\ Listed'
      BY <1>0, <1>9, <2>1, <2>2 DEF Synchronize, FMTypeOK, Listed
    <2> QED
      BY <2>4, <2>5 DEF MastersInv
  <1>10. CASE UNCHANGED fmvars
    BY <1>0, <1>10 DEF fmvars, MastersInv, FMTypeOK, Listed, AddressKnown, HasAddress
  <1> QED
    BY <1>1, <1>2, <1>3, <1>4, <1>5, <1>6, <1>7, <1>8, <1>9, <1>10 DEF FMNext

\* The best master has messages whenever port_delay_request() or
\* net_sync_resp_append() asks for its address: port_compute_best() never clears
\* what it chooses, a timeout that clears it is followed by a decision, and the
\* list holds no master twice nor more messages than fc_prune() leaves, for any
\* number of sources, any window and any receipt timeout.
THEOREM MastersAlwaysInOrder == FMSpec => []MastersInOrder
  <1>1. MastersInv => MastersInOrder
    BY DEF MastersInv, MastersInOrder
  <1>2. MastersInv /\ [FMNext]_fmvars => MastersInv'
    BY MastersStep
  <1> QED
    BY <1>1, <1>2, MastersInit, PTL DEF FMSpec

\* The same for the client port as a whole, which measures the delay too.
COROLLARY ClientMastersInOrder == FairSpec => []MastersInOrder
  <1>1. MastersInv => MastersInOrder
    BY DEF MastersInv, MastersInOrder
  <1>2. Init => MastersInv
    BY MastersInit DEF Init
  <1>3. MastersInv /\ [Next]_allvars => MastersInv'
    <2> SUFFICES ASSUME MastersInv, [Next]_allvars PROVE MastersInv'
      OBVIOUS
    <2>1. [FMNext]_fmvars
      BY DEF Next, allvars
    <2> QED
      BY <2>1, MastersStep
  <1> QED
    BY <1>1, <1>2, <1>3, PTL DEF FairSpec, Spec

-----------------------------------------------------------------------------
(* The path delay: the filters first, then the queue and the time stamps. *)

\* The sums of the first samples.
Sums(w, s) ==
    /\ s \in [0..Len(w) -> Int] /\ s[0] = 0
    /\ \A n \in 1..Len(w) : s[n] = s[n - 1] + w[n]

\* A sequence of samples has such sums.
LEMMA SumsExist == ASSUME NEW w \in Seq(Int) PROVE \E s : Sums(w, s)
  <1> DEFINE Part(n, s) == /\ s \in [0..n -> Int] /\ s[0] = 0
                           /\ \A i \in 1..n : s[i] = s[i - 1] + w[i]
             T == {n \in 0..Len(w) : ~\E s : Part(n, s)}
  <1>0. Len(w) \in Nat /\ \A i \in 1..Len(w) : w[i] \in Int
    BY LenProperties, ElementOfSeq
  <1> SUFFICES ASSUME T # {} PROVE FALSE
    <2>1. Len(w) \in 0..Len(w) BY <1>0
    <2> QED BY <2>1 DEF Sums
  <1>1. T \in SUBSET Nat OBVIOUS
  <1>2. PICK n \in T : \A j \in T : n <= j BY <1>1, Smallest
  <1>3. n # 0
    <2> DEFINE s == [i \in 0..0 |-> 0]
    <2>1. Part(0, s) OBVIOUS
    <2> QED BY <2>1
  <1>4. n \in 1..Len(w) /\ n - 1 \in 0..Len(w) /\ ~(n <= n - 1) BY <1>0, <1>3
  <1>5. n - 1 \notin T BY <1>2, <1>4
  <1>6. PICK s : Part(n - 1, s) BY <1>4, <1>5
  <1> DEFINE t == [i \in 0..n |-> IF i = n THEN s[n - 1] + w[n] ELSE s[i]]
  <1>7. s[n - 1] \in Int /\ w[n] \in Int BY <1>0, <1>4, <1>6
  <1>8. \A i \in 0..n : i # n => s[i] \in Int BY <1>4, <1>6
  <1>9. t \in [0..n -> Int] BY <1>7, <1>8
  <1>10. t[0] = 0 BY <1>4, <1>6
  <1>11. ASSUME NEW i \in 1..n PROVE t[i] = t[i - 1] + w[i]
    <2>1. i - 1 \in 0..n /\ i - 1 # n /\ i \in 0..n BY <1>4
    <2>2. t[i - 1] = s[i - 1] BY <2>1
    <2>3. CASE i = n BY <2>1, <2>2, <2>3
    <2>4. CASE i # n
      <3>1. i \in 1..(n - 1) BY <1>4, <2>4
      <3>2. t[i] = s[i] BY <2>1, <2>4
      <3> QED BY <2>2, <3>1, <3>2, <1>6
    <2> QED BY <2>3, <2>4
  <1>12. Part(n, t) BY <1>9, <1>10, <1>11
  <1> QED BY <1>12

\* Total() is the last of the sums.
LEMMA TotalIsLast ==
    ASSUME NEW w \in Seq(Int), NEW s, Sums(w, s) PROVE Total(w) = s[Len(w)] /\ Total(w) \in Int
  <1> DEFINE Fix(f) == f = [n \in 0..Len(w) |-> IF n = 0 THEN 0 ELSE f[n - 1] + w[n]]
             f == CHOOSE f : Fix(f)
  <1>0. Len(w) \in Nat
    BY LenProperties
  <1>1. Total(w) = f[Len(w)]
    BY DEF Total
  <1>2. Fix(s)
    <2>1. \A n \in 0..Len(w) : s[n] = IF n = 0 THEN 0 ELSE s[n - 1] + w[n]
      <3>1. \A n \in 0..Len(w) : n = 0 \/ n \in 1..Len(w) BY <1>0
      <3> QED BY <3>1 DEF Sums
    <2>2. s = [n \in 0..Len(w) |-> s[n]] BY DEF Sums
    <2> QED BY <2>1, <2>2
  <1>3. Fix(f) BY <1>2
  <1> HIDE DEF f
  <1>4. \A n \in 0..Len(w) : f[n] = IF n = 0 THEN 0 ELSE f[n - 1] + w[n] BY <1>3
  <1> DEFINE T == {n \in 0..Len(w) : f[n] # s[n]}
  <1>5. T = {}
    <2> SUFFICES ASSUME T # {} PROVE FALSE OBVIOUS
    <2>1. T \in SUBSET Nat OBVIOUS
    <2>2. PICK n \in T : \A j \in T : n <= j BY <2>1, Smallest
    <2>3. n # 0 BY <1>0, <1>4 DEF Sums
    <2>4. n \in 1..Len(w) /\ n - 1 \in 0..Len(w) /\ ~(n <= n - 1) BY <1>0, <2>3
    <2>5. f[n - 1] = s[n - 1] BY <2>2, <2>4
    <2>6. f[n] = f[n - 1] + w[n] BY <1>4, <2>3
    <2> QED BY <2>2, <2>4, <2>5, <2>6 DEF Sums
  <1>6. Len(w) \in 0..Len(w) BY <1>0
  <1>7. f[Len(w)] = s[Len(w)] BY <1>5, <1>6
  <1> QED BY <1>1, <1>6, <1>7 DEF Sums

\* A sample is added at the end.
LEMMA TotalAppend ==
    ASSUME NEW w \in Seq(Int), NEW v \in Int PROVE Total(Append(w, v)) = Total(w) + v
  <1> DEFINE u == Append(w, v)
  <1>1. /\ u \in Seq(Int) /\ Len(u) = Len(w) + 1 /\ u[Len(w) + 1] = v
        /\ \A i \in 1..Len(w) : u[i] = w[i]
    BY AppendProperties
  <1>2. Len(w) \in Nat BY LenProperties
  <1> HIDE DEF u
  <1>3. PICK s : Sums(u, s) BY <1>1, SumsExist
  <1> DEFINE t == [n \in 0..Len(w) |-> s[n]]
  <1>4. Sums(w, t)
    <2>1. \A n \in 0..Len(w) : t[n] = s[n] /\ s[n] \in Int BY <1>1, <1>2, <1>3 DEF Sums
    <2>2. t \in [0..Len(w) -> Int] BY <2>1
    <2>3. t[0] = 0 BY <1>2, <1>3, <2>1 DEF Sums
    <2>4. ASSUME NEW n \in 1..Len(w) PROVE t[n] = t[n - 1] + w[n]
      <3>1. n \in 1..Len(u) /\ n \in 0..Len(w) /\ n - 1 \in 0..Len(w) BY <1>1, <1>2
      <3>2. s[n] = s[n - 1] + u[n] BY <1>3, <3>1 DEF Sums
      <3>3. t[n] = s[n] /\ t[n - 1] = s[n - 1] BY <3>1, <2>1
      <3> QED BY <1>1, <3>2, <3>3
    <2> HIDE DEF t
    <2> QED BY <2>2, <2>3, <2>4 DEF Sums
  <1>5. t[Len(w)] = s[Len(w)] BY <1>2
  <1>6. s[Len(w) + 1] = s[Len(w)] + v
    <2>1. Len(w) + 1 \in 1..Len(u) /\ (Len(w) + 1) - 1 = Len(w) BY <1>1, <1>2
    <2> QED BY <1>1, <1>3, <2>1 DEF Sums
  <1>7. Total(w) = s[Len(w)] BY <1>4, <1>5, TotalIsLast
  <1>8. Total(u) = s[Len(w) + 1] BY <1>1, <1>3, TotalIsLast
  <1> QED BY <1>6, <1>7, <1>8 DEF u

\* The first sample goes.
LEMMA TotalTail ==
    ASSUME NEW w \in Seq(Int), w # <<>> PROVE Total(Tail(w)) = Total(w) - w[1]
  <1> DEFINE u == Tail(w)
  <1>0. Len(w) \in Nat /\ Len(w) >= 1 /\ w[1] \in Int BY LenProperties, EmptySeq, ElementOfSeq
  <1>1. u \in Seq(Int) /\ Len(u) = Len(w) - 1 /\ \A i \in 1..Len(u) : u[i] = w[i + 1]
    BY HeadTailProperties
  <1> HIDE DEF u
  <1>3. PICK s : Sums(w, s) BY SumsExist
  <1>s. \A n \in 0..Len(w) : s[n] \in Int BY <1>3 DEF Sums
  <1> DEFINE t == [n \in 0..Len(u) |-> s[n + 1] - w[1]]
  <1>4. Sums(u, t)
    <2>1. \A n \in 0..Len(u) : t[n] = s[n + 1] - w[1] /\ s[n + 1] \in Int
      <3>1. \A n \in 0..Len(u) : n + 1 \in 0..Len(w) BY <1>0, <1>1
      <3> QED BY <3>1, <1>s
    <2>2. t \in [0..Len(u) -> Int] BY <2>1, <1>0
    <2>3. t[0] = 0
      <3>1. 1 \in 1..Len(w) /\ 0 \in 0..Len(u) /\ s[1 - 1] = 0 /\ 1 - 1 = 0 BY <1>0, <1>1, <1>3 DEF Sums
      <3>2. s[1] = s[1 - 1] + w[1] BY <1>3, <3>1 DEF Sums
      <3> QED BY <1>0, <2>1, <3>1, <3>2
    <2>4. ASSUME NEW n \in 1..Len(u) PROVE t[n] = t[n - 1] + u[n]
      <3>1. n + 1 \in 1..Len(w) /\ n \in 0..Len(u) /\ n - 1 \in 0..Len(u) /\ (n - 1) + 1 = n
            /\ (n + 1) - 1 = n BY <1>1, <1>0
      <3>2. s[n + 1] = s[n] + w[n + 1] BY <1>3, <3>1 DEF Sums
      <3>3. t[n] = s[n + 1] - w[1] /\ t[n - 1] = s[n] - w[1] /\ s[n] \in Int /\ s[n + 1] \in Int BY <3>1, <2>1
      <3>4. w[n + 1] \in Int BY <3>1, ElementOfSeq
      <3>5. u[n] = w[n + 1] BY <1>1
      <3> HIDE DEF t
      <3> QED BY <1>0, <3>2, <3>3, <3>4, <3>5
    <2> HIDE DEF t
    <2> QED BY <2>2, <2>3, <2>4 DEF Sums
  <1>5. t[Len(u)] = s[Len(w)] - w[1]
    <2>1. Len(u) \in 0..Len(u) /\ Len(u) + 1 = Len(w) BY <1>0, <1>1
    <2> QED BY <2>1
  <1>7. Total(u) = s[Len(w)] - w[1] BY <1>1, <1>4, <1>5, TotalIsLast
  <1>8. Total(w) = s[Len(w)] BY <1>3, TotalIsLast
  <1> QED BY <1>7, <1>8 DEF u

\* p puts the n samples of w in order, and q is its inverse.
Puts(w, n, p, q) ==
    /\ Len(w) = n /\ p \in [1..n -> 1..n] /\ q \in [1..n -> 1..n]
    /\ \A i \in 1..n : p[q[i]] = i
    /\ \A i \in 1..n : q[p[i]] = i
    /\ \A i, j \in 1..n : i <= j => w[p[i]] <= w[p[j]]

\* The k-th in the order is the sample that k - 1 others precede.
LEMMA NthRight ==
    ASSUME NEW w \in Seq(Int), NEW n \in Nat, NEW p, NEW q, Puts(w, n, p, q), NEW k \in 1..n
    PROVE  Nth(w, k) = w[p[k]]
  <1> USE DEF Puts
  <1> DEFINE v == w[p[k]]
             less == {i \in DOMAIN w : w[i] < v}
             upto == {i \in DOMAIN w : w[i] <= v}
             Is(x) == /\ Cardinality({i \in DOMAIN w : w[i] < x}) < k
                      /\ Cardinality({i \in DOMAIN w : w[i] <= x}) >= k
  <1>1. DOMAIN w = 1..n /\ \A i \in 1..n : w[i] \in Int BY LenProperties, ElementOfSeq
  <1>2. v \in Int /\ v \in Range(w) BY <1>1 DEF Range
  <1>3. IsFiniteSet(1..n) BY FS_Interval
  <1>4. Cardinality(less) < k
    <2> DEFINE f == [i \in less |-> q[i]]
    <2>1. \A i \in less : i \in 1..n /\ q[i] \in 1..(k - 1)
      <3> SUFFICES ASSUME NEW i \in less PROVE i \in 1..n /\ q[i] \in 1..(k - 1) OBVIOUS
      <3>1. i \in 1..n /\ w[i] < v /\ q[i] \in 1..n /\ w[i] \in Int BY <1>1
      <3>2. w[p[q[i]]] = w[i] BY <3>1
      <3>3. ~(k <= q[i])
        <4> SUFFICES ASSUME k <= q[i] PROVE FALSE OBVIOUS
        <4>1. v <= w[p[q[i]]] BY <3>1
        <4> QED BY <1>2, <3>1, <3>2, <4>1
      <3> QED BY <3>1, <3>3
    <2>2. f \in [less -> 1..(k - 1)] BY <2>1
    <2>3. \A i, j \in less : f[i] = f[j] => i = j
      <3> TAKE i, j \in less
      <3>1. i \in 1..n /\ j \in 1..n BY <2>1
      <3>2. p[q[i]] = i /\ p[q[j]] = j BY <3>1
      <3> QED BY <3>2
    <2>4. f \in Injection(less, 1..(k - 1)) BY <2>2, <2>3 DEF Injection, IsInjective
    <2>5. IsFiniteSet(1..(k - 1)) /\ Cardinality(1..(k - 1)) = k - 1
      <3>1. /\ IsFiniteSet(1..(k - 1)) 
            /\ Cardinality(1..(k - 1)) = IF 1 > k - 1 THEN 0 ELSE (k - 1) - 1 + 1 BY FS_Interval
      <3> QED BY <3>1
    <2> HIDE DEF f, less
    <2>6. IsFiniteSet(less) /\ Cardinality(less) <= Cardinality(1..(k - 1)) BY <2>4, <2>5, FS_Injection
    <2>7. Cardinality(less) \in Nat BY <2>6, FS_CardinalityType
    <2> QED BY <2>5, <2>6, <2>7
  <1>5. Cardinality(upto) >= k
    <2> DEFINE f == [i \in 1..k |-> p[i]]
    <2>1. \A i \in 1..k : i \in 1..n /\ p[i] \in upto
      <3> SUFFICES ASSUME NEW i \in 1..k PROVE i \in 1..n /\ p[i] \in upto OBVIOUS
      <3>1. i \in 1..n /\ i <= k OBVIOUS
      <3>2. p[i] \in 1..n /\ w[p[i]] <= v BY <3>1
      <3> QED BY <1>1, <3>1, <3>2
    <2>2. f \in [1..k -> upto] BY <2>1
    <2>3. \A i, j \in 1..k : f[i] = f[j] => i = j
      <3> TAKE i, j \in 1..k
      <3>1. i \in 1..n /\ j \in 1..n BY <2>1
      <3>2. q[p[i]] = i /\ q[p[j]] = j BY <3>1
      <3> QED BY <3>2
    <2>4. f \in Injection(1..k, upto) BY <2>2, <2>3 DEF Injection, IsInjective
    <2>5. Cardinality(1..k) = k
      <3>1. Cardinality(1..k) = IF 1 > k THEN 0 ELSE k - 1 + 1 BY FS_Interval
      <3> QED BY <3>1
    <2>6. upto \in SUBSET (1..n) BY <1>1
    <2> HIDE DEF f, upto
    <2>7. IsFiniteSet(upto) BY <1>3, <2>6, FS_Subset
    <2>8. Cardinality(1..k) <= Cardinality(upto) BY <2>4, <2>7, FS_Injection
    <2>9. Cardinality(upto) \in Nat BY <2>7, FS_CardinalityType
    <2> QED BY <2>5, <2>8, <2>9
  <1>6. Is(v) BY <1>4, <1>5
  <1>7. ASSUME NEW x \in Int, NEW y \in Int, Is(x), Is(y), x < y PROVE FALSE
    <2> DEFINE X == {i \in DOMAIN w : w[i] <= x}
               Y == {i \in DOMAIN w : w[i] < y}
    <2>0. \A i \in 1..n : w[i] <= x => w[i] < y BY <1>1, <1>7
    <2>1. X \subseteq Y /\ Y \subseteq 1..n
      <3> HIDE DEF Is
      <3>1. X = {i \in 1..n : w[i] <= x} /\ Y = {i \in 1..n : w[i] < y} BY <1>1
      <3> HIDE DEF X, Y
      <3> QED BY <2>0, <3>1
    <2>2. Cardinality(X) >= k /\ Cardinality(Y) < k BY <1>7
    <2> HIDE DEF X, Y
    <2>3. IsFiniteSet(Y) BY <1>3, <2>1, FS_Subset
    <2>4. IsFiniteSet(X) /\ Cardinality(X) <= Cardinality(Y) BY <2>1, <2>3, FS_Subset
    <2>5. Cardinality(X) \in Nat /\ Cardinality(Y) \in Nat BY <2>3, <2>4, FS_CardinalityType
    <2> QED BY <2>2, <2>4, <2>5
  <1>8. \A x \in Range(w) : x \in Int BY <1>1 DEF Range
  <1> DEFINE c == CHOOSE x \in Range(w) : Is(x)
  <1>9. Nth(w, k) = c BY DEF Nth
  <1> HIDE DEF Is, v
  <1>10. c \in Range(w) /\ Is(c) BY <1>2, <1>6
  <1> HIDE DEF c
  <1>11. c \in Int BY <1>8, <1>10
  <1>12. c < v \/ v < c \/ c = v BY <1>2, <1>11
  <1>13. c = v BY <1>2, <1>6, <1>7, <1>10, <1>11, <1>12
  <1> QED BY <1>9, <1>13 DEF v

Slots == 0..(FilterLength - 1)
FilterType == [cnt : 0..FilterLength, index : Slots, sum : Int,
               val : [Slots -> Int], order : Seq(Slots)]

\* Where the k-th of the last samples is in the buffer.
Slot(f, k) == IF f.cnt < FilterLength THEN k - 1
              ELSE IF f.index + k <= FilterLength THEN f.index + k - 1
              ELSE f.index + k - 1 - FilterLength

\* The buffer of f holds the samples of w.
Holds(f, w) ==
    /\ f \in FilterType /\ w \in Seq(Int) /\ f.cnt = Len(w)
    /\ f.cnt < FilterLength => f.index = f.cnt /\ f.val[f.index] = 0
                               /\ \A i \in Slots : i >= f.cnt => f.val[i] = 0
    /\ \A k \in 1..f.cnt : w[k] = f.val[Slot(f, k)]

\* The window after another sample.
Slide(w, v) == IF Len(Append(w, v)) > FilterLength THEN Tail(Append(w, v)) ELSE Append(w, v)

\* The length of a filter, delay_filter_length.
LEMMA LengthIs == FilterLength \in Nat /\ FilterLength >= 1
  BY PathDelayAssumption

\* The index turns around at the end of the buffer.
LEMMA IndexTurns ==
    ASSUME NEW f \in FilterType
    PROVE  NextIndex(f) = IF f.index + 1 = FilterLength THEN 0 ELSE f.index + 1
  <1>1. f.index \in Nat /\ f.index + 1 <= FilterLength
    BY LengthIs DEF FilterType, Slots
  <1>2. \A a, n \in Nat : n >= 1 /\ a < n => a % n = a
    OBVIOUS
  <1>3. \A n \in Nat : n >= 1 => n % n = 0
    OBVIOUS
  <1>4. CASE f.index + 1 = FilterLength
    BY <1>1, <1>3, <1>4, LengthIs DEF NextIndex
  <1>5. CASE f.index + 1 # FilterLength
    BY <1>1, <1>2, <1>5, LengthIs DEF NextIndex
  <1> QED BY <1>4, <1>5

\* What slides out of the window is the oldest sample.
LEMMA SlideIs ==
    ASSUME NEW w \in Seq(Int), NEW v \in Int, Len(w) <= FilterLength
    PROVE  /\ Slide(w, v) \in Seq(Int)
           /\ Len(w) < FilterLength =>
                /\ Slide(w, v) = Append(w, v)
                /\ Len(Slide(w, v)) = Len(w) + 1 /\ Slide(w, v)[Len(w) + 1] = v
                /\ \A k \in 1..Len(w) : Slide(w, v)[k] = w[k]
           /\ Len(w) = FilterLength =>
                /\ Slide(w, v) = Tail(Append(w, v)) /\ Append(w, v)[1] = w[1]
                /\ Len(Slide(w, v)) = Len(w) /\ Slide(w, v)[Len(w)] = v
                /\ \A k \in 1..(Len(w) - 1) : Slide(w, v)[k] = w[k + 1]
  <1> DEFINE u == Append(w, v)
  <1>1. /\ u \in Seq(Int) /\ Len(u) = Len(w) + 1 /\ u[Len(w) + 1] = v
        /\ \A i \in 1..Len(w) : u[i] = w[i]
    BY AppendProperties
  <1>2. Len(w) \in Nat BY LenProperties
  <1>3. Slide(w, v) = IF Len(u) > FilterLength THEN Tail(u) ELSE u
    BY DEF Slide
  <1> HIDE DEF u
  <1>4. CASE Len(w) < FilterLength
    <2>1. Slide(w, v) = u BY <1>1, <1>2, <1>3, <1>4, LengthIs
    <2> QED BY <1>1, <1>2, <1>4, <2>1, LengthIs DEF u
  <1>5. CASE Len(w) = FilterLength
    <2>1. Slide(w, v) = Tail(u) BY <1>1, <1>2, <1>3, <1>5, LengthIs
    <2>2. u # <<>> BY <1>1, <1>2, EmptySeq
    <2>3. Tail(u) \in Seq(Int) /\ Len(Tail(u)) = Len(u) - 1 /\ \A i \in 1..Len(Tail(u)) : Tail(u)[i] = u[i + 1]
      BY <1>1, <2>2, HeadTailProperties
    <2>4. Len(Tail(u)) = Len(w) BY <1>1, <1>2, <2>3
    <2>5. Tail(u)[Len(w)] = v
      BY <1>1, <1>2, <1>5, <2>3, <2>4, LengthIs
    <2>6. ASSUME NEW k \in 1..(Len(w) - 1) PROVE Tail(u)[k] = w[k + 1]
      <3>1. k \in 1..Len(Tail(u)) /\ k + 1 \in 1..Len(w) BY <1>2, <2>4
      <3> QED BY <1>1, <2>3, <3>1
    <2>7. u[1] = w[1] BY <1>1, <1>2, <1>5, LengthIs
    <2> QED BY <1>5, <2>1, <2>3, <2>4, <2>5, <2>6, <2>7, LengthIs DEF u
  <1> QED BY <1>2, <1>4, <1>5, LengthIs

\* A sample takes the place of the oldest one.
LEMMA HoldsNext ==
    ASSUME NEW f, NEW w, Holds(f, w), NEW v \in Int, NEW g \in FilterType,
           g.cnt = Count(f), g.index = NextIndex(f), g.val = [f.val EXCEPT ![f.index] = v]
    PROVE  Holds(g, Slide(w, v))
  <1>1. /\ f \in FilterType /\ w \in Seq(Int) /\ f.cnt = Len(w)
        /\ f.cnt < FilterLength => f.index = f.cnt /\ \A i \in Slots : i >= f.cnt => f.val[i] = 0
        /\ \A k \in 1..f.cnt : w[k] = f.val[Slot(f, k)]
    BY DEF Holds
  <1>2. /\ f.cnt \in Nat /\ f.cnt <= FilterLength /\ f.index \in Nat /\ f.index < FilterLength
        /\ f.index \in Slots /\ f.val \in [Slots -> Int]
    <2>1. f \in [cnt : 0..FilterLength, index : Slots, sum : Int,
                 val : [Slots -> Int], order : Seq(Slots)]
      BY <1>1 DEF FilterType
    <2>2. f.cnt \in 0..FilterLength /\ f.index \in Slots /\ f.val \in [Slots -> Int] BY <2>1
    <2> QED BY <2>2, LengthIs DEF Slots
  <1>3. g.index = IF f.index + 1 = FilterLength THEN 0 ELSE f.index + 1
    BY <1>1, IndexTurns
  <1>4. \A i \in Slots : g.val[i] = IF i = f.index THEN v ELSE f.val[i]
    BY <1>2
  <1>i. \A i : i \in Slots <=> i \in Nat /\ i < FilterLength BY LengthIs DEF Slots
  <1>5. CASE f.cnt < FilterLength
    <2>1. g.cnt = f.cnt + 1 /\ f.index = f.cnt BY <1>1, <1>5 DEF Count
    <2>2. Slide(w, v) \in Seq(Int) /\ Len(Slide(w, v)) = g.cnt
      BY <1>1, <1>2, <1>5, <2>1, SlideIs
    <2>3. g.cnt < FilterLength => g.index = g.cnt
      BY <1>2, <1>3, <2>1, LengthIs
    <2>4. g.cnt < FilterLength => \A i \in Slots : i >= g.cnt => g.val[i] = 0
      <3> SUFFICES ASSUME NEW i \in Slots, i >= g.cnt PROVE g.val[i] = 0 OBVIOUS
      <3>1. i # f.index /\ i >= f.cnt BY <1>2, <2>1, <1>i
      <3> QED BY <1>1, <1>4, <1>5, <3>1
    <2>5. ASSUME NEW k \in 1..g.cnt PROVE Slide(w, v)[k] = g.val[Slot(g, k)]
      <3>1. Slot(g, k) = k - 1
        <4>1. CASE g.cnt < FilterLength BY <4>1 DEF Slot
        <4>2. CASE ~(g.cnt < FilterLength)
          <5>1. g.index = 0 /\ k <= FilterLength BY <1>2, <1>3, <1>5, <2>1, <4>2, LengthIs
          <5> QED BY <4>2, <5>1, LengthIs DEF Slot
        <4> QED BY <4>1, <4>2
      <3>2. k - 1 \in Slots BY <1>2, <1>5, <1>i, <2>1, LengthIs
      <3>3. CASE k = f.cnt + 1
        <4>1. g.val[k - 1] = v BY <1>2, <1>4, <2>1, <3>2, <3>3
        <4>2. Slide(w, v)[k] = v BY <1>1, <1>2, <1>5, <3>3, SlideIs
        <4> QED BY <3>1, <4>1, <4>2
      <3>4. CASE k # f.cnt + 1
        <4>1. k \in 1..f.cnt BY <1>2, <2>1, <3>4
        <4>2. Slot(f, k) = k - 1 BY <1>5 DEF Slot
        <4>3. g.val[k - 1] = f.val[k - 1] BY <1>2, <1>4, <2>1, <3>2, <3>4
        <4>4. Slide(w, v)[k] = w[k] BY <1>1, <1>2, <1>5, <4>1, SlideIs
        <4> QED BY <1>1, <3>1, <4>1, <4>2, <4>3, <4>4
      <3> QED BY <3>3, <3>4
    <2>6. g.cnt < FilterLength => g.val[g.index] = 0
      BY <2>3, <2>4, <1>i, <1>2, <2>1
    <2> QED BY <2>2, <2>3, <2>4, <2>5, <2>6 DEF Holds
  <1>6. CASE ~(f.cnt < FilterLength)
    <2>1. g.cnt = FilterLength /\ f.cnt = FilterLength BY <1>2, <1>6, LengthIs DEF Count
    <2>3. Len(w) = FilterLength /\ Len(w) <= FilterLength BY <1>1, <2>1, LengthIs
    <2>2. Slide(w, v) \in Seq(Int) /\ Len(Slide(w, v)) = g.cnt
      BY <1>1, <1>2, <2>1, <2>3, SlideIs
    <2>4. \A k \in 1..(Len(w) - 1) : Slide(w, v)[k] = w[k + 1]
      BY <1>1, <2>3, SlideIs
    <2>5. ASSUME NEW k \in 1..g.cnt PROVE Slide(w, v)[k] = g.val[Slot(g, k)]
      <3>0. k \in Nat /\ k >= 1 /\ k <= FilterLength BY <2>1, LengthIs
      <3>1. Slot(g, k) = IF g.index + k <= FilterLength THEN g.index + k - 1
                         ELSE g.index + k - 1 - FilterLength
        BY <2>1, LengthIs DEF Slot
      <3>3. CASE k = FilterLength
        <4>1. Slot(g, k) = f.index BY <1>2, <1>3, <3>1, <3>3, LengthIs
        <4>2. Slide(w, v)[k] = v BY <1>1, <1>2, <2>1, <2>3, <3>3, SlideIs
        <4> QED BY <1>2, <1>4, <4>1, <4>2
      <3>4. CASE k # FilterLength
        <4>1. k \in 1..(Len(w) - 1) /\ k + 1 \in 1..f.cnt BY <1>1, <2>1, <3>0, <3>4, LengthIs
        <4>2. Slot(f, k + 1) = IF f.index + k + 1 <= FilterLength THEN f.index + k
                               ELSE f.index + k - FilterLength
          BY <1>2, <3>0, <2>1, LengthIs DEF Slot
        <4>3. Slot(g, k) = Slot(f, k + 1) /\ Slot(g, k) # f.index /\ Slot(g, k) \in Slots
          BY <1>2, <1>3, <3>0, <3>1, <3>4, <4>2, <1>i, LengthIs
        <4>4. Slide(w, v)[k] = w[k + 1] BY <2>4, <4>1
        <4> QED BY <1>1, <1>4, <4>1, <4>3, <4>4
      <3> QED BY <3>3, <3>4
    <2> QED BY <2>1, <2>2, <2>5, LengthIs DEF Holds
  <1> QED BY <1>5, <1>6

\* The oldest sample is the one that is replaced.
LEMMA OldestIs ==
    ASSUME NEW f, NEW w, Holds(f, w), f.cnt = FilterLength PROVE f.val[f.index] = w[1]
  <1>1. 1 \in 1..f.cnt BY LengthIs
  <1>2. Slot(f, 1) = f.index BY LengthIs DEF Slot, Holds, FilterType, Slots
  <1> QED BY <1>1, <1>2 DEF Holds

\* A set of numbers up to n that is not empty has a largest.
LEMMA LargestIs ==
    ASSUME NEW n \in Nat, NEW S \in SUBSET (0..n), S # {}
    PROVE  Max(S) \in S /\ \A y \in S : y <= Max(S)
  <1> DEFINE T == {n - x : x \in S}
  <1>1. T \in SUBSET Nat /\ T # {} OBVIOUS
  <1>2. PICK t \in T : \A y \in T : t <= y BY <1>1, Smallest
  <1>3. PICK x \in S : t = n - x BY <1>2
  <1>4. \A y \in S : x >= y
    <2> TAKE y \in S
    <2>1. n - y \in T /\ x \in Nat /\ y \in Nat OBVIOUS
    <2>2. n - x <= n - y BY <1>2, <1>3, <2>1
    <2> QED BY <2>1, <2>2
  <1>5. Max(S) \in S /\ \A y \in S : Max(S) >= y BY <1>4 DEF Max
  <1> HIDE DEF T
  <1> QED BY <1>5

\* A sequence without one of its elements.
LEMMA RemoveFields ==
    ASSUME NEW S, NEW s \in Seq(S), NEW k \in 1..Len(s)
    PROVE  /\ RemoveAt(s, k) \in Seq(S) /\ Len(RemoveAt(s, k)) = Len(s) - 1
           /\ \A i \in 1..(Len(s) - 1) :
                  RemoveAt(s, k)[i] = IF i < k THEN s[i] ELSE s[i + 1]
  <1> DEFINE u == SubSeq(s, 1, k - 1)
             v == SubSeq(s, k + 1, Len(s))
  <1>1. Len(s) \in Nat /\ k \in Nat OBVIOUS
  <1>2. u \in Seq(S) /\ Len(u) = k - 1 /\ \A i \in 1..(k - 1) : u[i] = s[i]
    BY <1>1
  <1>3. v \in Seq(S) /\ Len(v) = Len(s) - k /\ \A i \in 1..(Len(s) - k) : v[i] = s[k + i]
    BY <1>1
  <1>4. RemoveAt(s, k) = u \o v BY DEF RemoveAt
  <1> HIDE DEF u, v
  <1>5. u \o v \in Seq(S) /\ Len(u \o v) = Len(s) - 1
    <2>1. u \o v \in Seq(S) /\ Len(u \o v) = Len(u) + Len(v) BY <1>2, <1>3, ConcatProperties
    <2> QED BY <1>1, <1>2, <1>3, <2>1
  <1>6. ASSUME NEW i \in 1..(Len(s) - 1)
        PROVE  (u \o v)[i] = IF i < k THEN s[i] ELSE s[i + 1]
    <2>1. CASE i < k BY <1>1, <1>2, <1>3, <2>1
    <2>2. CASE ~(i < k)
      <3>1. i - (k - 1) \in 1..(Len(s) - k) BY <1>1, <2>2
      <3>2. (u \o v)[i] = v[i - (k - 1)] BY <1>1, <1>2, <1>3, <2>2
      <3>3. v[i - (k - 1)] = s[k + (i - (k - 1))] BY <3>1, <1>3
      <3>4. k + (i - (k - 1)) = i + 1 BY <1>1
      <3> QED BY <3>2, <3>3, <3>4, <2>2
    <2> QED BY <2>1, <2>2
  <1> QED BY <1>4, <1>5, <1>6

\* t is s with e at the place k.
HasInserted(t, s, k, e) ==
    /\ Len(t) = Len(s) + 1
    /\ \A i \in 1..(Len(s) + 1) :
           t[i] = IF i < k THEN s[i] ELSE IF i = k THEN e ELSE s[i - 1]

\* InsertAt() makes a sequence with another element.
LEMMA InsertFields ==
    ASSUME NEW S, NEW s \in Seq(S), NEW e \in S, NEW k \in 1..(Len(s) + 1)
    PROVE  InsertAt(s, k, e) \in Seq(S) /\ HasInserted(InsertAt(s, k, e), s, k, e)
  <1> DEFINE u == SubSeq(s, 1, k - 1)
             v == SubSeq(s, k, Len(s))
             b == <<e>>
  <1>1. Len(s) \in Nat /\ k \in Nat /\ k >= 1 /\ k <= Len(s) + 1 OBVIOUS
  <1>2. u \in Seq(S) /\ Len(u) = k - 1 /\ \A i \in 1..(k - 1) : u[i] = s[i]
    BY <1>1
  <1>3. /\ v \in Seq(S) /\ Len(v) = Len(s) + 1 - k
        /\ \A i \in 1..(Len(s) + 1 - k) : v[i] = s[k + i - 1]
    BY <1>1
  <1>4. InsertAt(s, k, e) = (u \o b) \o v BY DEF InsertAt
  <1>5. b \in Seq(S) /\ Len(b) = 1 /\ b[1] = e OBVIOUS
  <1> HIDE DEF u, v, b
  <1>6. /\ u \o b \in Seq(S) /\ Len(u \o b) = Len(u) + Len(b)
        /\ \A i \in 1..(Len(u) + Len(b)) :
               (u \o b)[i] = IF i <= Len(u) THEN u[i] ELSE b[i - Len(u)]
    BY <1>2, <1>5, ConcatProperties
  <1> DEFINE c == u \o b
  <1>7. /\ c \in Seq(S) /\ Len(c) = k
        /\ \A i \in 1..k : c[i] = IF i < k THEN s[i] ELSE e
    <2>1. Len(c) = k BY <1>1, <1>2, <1>5, <1>6
    <2>2. ASSUME NEW i \in 1..k PROVE c[i] = IF i < k THEN s[i] ELSE e
      <3>1. CASE i < k BY <1>1, <1>2, <1>5, <1>6, <3>1
      <3>2. CASE ~(i < k)
        <4>1. i = k /\ i - Len(u) = 1 /\ ~(i <= Len(u)) BY <1>1, <1>2, <3>2
        <4> QED BY <1>1, <1>2, <1>5, <1>6, <4>1
      <3> QED BY <3>1, <3>2
    <2> QED BY <1>6, <2>1, <2>2
  <1> HIDE DEF c
  <1>8. /\ c \o v \in Seq(S) /\ Len(c \o v) = Len(c) + Len(v)
        /\ \A i \in 1..(Len(c) + Len(v)) :
               (c \o v)[i] = IF i <= Len(c) THEN c[i] ELSE v[i - Len(c)]
    BY <1>3, <1>7, ConcatProperties
  <1>9. Len(c) + Len(v) = Len(s) + 1 BY <1>1, <1>3, <1>7
  <1>10. ASSUME NEW i \in 1..(Len(s) + 1)
         PROVE  (c \o v)[i] = IF i < k THEN s[i] ELSE IF i = k THEN e ELSE s[i - 1]
    <2>1. CASE i <= k
      <3>1. (c \o v)[i] = c[i] BY <1>7, <1>8, <1>9, <2>1
      <3>2. i \in 1..k BY <1>1, <2>1
      <3> QED BY <1>1, <1>7, <2>1, <3>1, <3>2
    <2>2. CASE ~(i <= k)
      <3>1. (c \o v)[i] = v[i - k] BY <1>7, <1>8, <1>9, <2>2
      <3>2. i - k \in 1..(Len(s) + 1 - k) /\ k + (i - k) - 1 = i - 1 BY <1>1, <2>2
      <3>3. v[i - k] = s[k + (i - k) - 1] BY <1>3, <3>2
      <3> QED BY <1>1, <2>2, <3>1, <3>2, <3>3
    <2> QED BY <2>1, <2>2
  <1>11. InsertAt(s, k, e) = c \o v BY <1>4 DEF c
  <1> HIDE DEF InsertAt
  <1> QED BY <1>8, <1>9, <1>10, <1>11 DEF HasInserted

\* tmv_div() yields a number.
LEMMA DivIs == ASSUME NEW a \in Int, NEW d \in Nat \ {0} PROVE tmv_div(a, d) \in Int
  BY DEF tmv_div

\* mave_accumulate(): the sum is that of the samples in the buffer.
LEMMA MaveRight ==
    ASSUME NEW f, NEW w, Holds(f, w), f.order = <<>>, f.sum = Total(w), NEW v \in Int
    PROVE  LET r == mave_accumulate(f, v)
           IN  /\ Holds(r.f, Slide(w, v)) /\ r.f.order = <<>> /\ r.f.sum = Total(Slide(w, v))
               /\ r.result = Mean(Slide(w, v)) /\ r.result \in Int
  <1> DEFINE x == f.sum - f.val[f.index] + v
             y == [f.val EXCEPT ![f.index] = v]
             g == [f EXCEPT !.sum = x, !.val = y, !.index = NextIndex(f), !.cnt = Count(f)]
  <1>0. f \in FilterType /\ w \in Seq(Int) /\ f.cnt = Len(w) BY DEF Holds
  <1>1. /\ f.cnt \in 0..FilterLength /\ f.index \in Slots /\ f.sum \in Int
        /\ f.val \in [Slots -> Int] /\ f.order \in Seq(Slots)
    BY <1>0 DEF FilterType
  <1>2. x \in Int /\ y \in [Slots -> Int] BY <1>1
  <1>3. NextIndex(f) \in Slots
    BY <1>0, <1>1, IndexTurns, LengthIs DEF Slots
  <1>4. Count(f) \in 0..FilterLength /\ Count(f) \in Nat \ {0}
    BY <1>1, LengthIs DEF Count
  <1>5. mave_accumulate(f, v) = [f |-> g, result |-> tmv_div(g.sum, g.cnt)]
    <2>1. [f EXCEPT !.sum = f.sum - f.val[f.index] + v, !.val[f.index] = v,
                    !.index = NextIndex(f), !.cnt = Count(f)] = g
      BY <1>0 DEF FilterType
    <2> QED BY <2>1 DEF mave_accumulate
  <1> HIDE DEF x, y
  <1>6. /\ g.sum = x /\ g.val = y /\ g.index = NextIndex(f) /\ g.cnt = Count(f)
        /\ g.order = f.order /\ g \in FilterType
    BY <1>0, <1>2, <1>3, <1>4 DEF FilterType
  <1> HIDE DEF g
  <1>7. Holds(g, Slide(w, v))
    <2>1. g.val = [f.val EXCEPT ![f.index] = v] BY <1>6 DEF y
    <2> QED BY <1>6, <2>1, HoldsNext
  <1>8. x = Total(Slide(w, v))
    <2>1. Total(Append(w, v)) = Total(w) + v BY <1>0, TotalAppend
    <2>2. CASE f.cnt < FilterLength
      <3>1. f.val[f.index] = 0 BY <2>2 DEF Holds
      <3>0. Len(w) < FilterLength /\ Len(w) <= FilterLength BY <1>0, <1>1, <2>2, LengthIs
      <3>2. Slide(w, v) = Append(w, v) BY <1>0, <3>0, SlideIs
      <3> QED BY <1>1, <2>1, <3>1, <3>2 DEF x
    <2>3. CASE ~(f.cnt < FilterLength)
      <3>1. f.cnt = FilterLength /\ Len(w) <= FilterLength BY <1>0, <1>1, <2>3, LengthIs
      <3>2. f.val[f.index] = w[1] /\ w[1] \in Int BY <1>0, <1>1, <3>1, OldestIs
      <3>3. Slide(w, v) = Tail(Append(w, v)) /\ Append(w, v)[1] = w[1] BY <1>0, <3>1, SlideIs
      <3>4. Append(w, v) \in Seq(Int) /\ Append(w, v) # <<>> BY <1>0, AppendProperties
      <3>5. Total(Tail(Append(w, v))) = Total(Append(w, v)) - w[1] BY <3>3, <3>4, TotalTail
      <3> QED BY <1>1, <2>1, <3>2, <3>3, <3>5 DEF x
    <2> QED BY <2>2, <2>3
  <1>9. g.cnt = Len(Slide(w, v)) BY <1>7 DEF Holds
  <1>10. tmv_div(g.sum, g.cnt) = Mean(Slide(w, v)) BY <1>6, <1>8, <1>9 DEF Mean
  <1>11. tmv_div(g.sum, g.cnt) \in Int BY <1>2, <1>4, <1>6, DivIs
  <1> QED BY <1>5, <1>6, <1>7, <1>8, <1>10, <1>11

\* s holds the numbers of T once each, in the order of their values.
InOrder(s, T, val) ==
    /\ \A k \in 1..Len(s) : s[k] \in T
    /\ \A i \in T : \E k \in 1..Len(s) : s[k] = i
    /\ \A j, k \in 1..Len(s) : j < k => s[j] # s[k] /\ val[s[j]] <= val[s[k]]

\* order holds the indices of the samples, sorted.
Sorted(f) == Len(f.order) = f.cnt /\ InOrder(f.order, 0..(f.cnt - 1), f.val)

\* The indices that stay, without that of the value that is replaced.
Stay(f) == IF f.cnt < FilterLength THEN f.order
           ELSE RemoveAt(f.order, CHOOSE k \in DOMAIN f.order : f.order[k] = f.index)

\* They are in order.
LEMMA StayRight ==
    ASSUME NEW f, NEW w, Holds(f, w), Sorted(f)
    PROVE  /\ Stay(f) \in Seq(Slots) /\ Len(Stay(f)) = Count(f) - 1
           /\ InOrder(Stay(f), (0..(Count(f) - 1)) \ {f.index}, f.val)
  <1> DEFINE s == f.order
             T == 0..(f.cnt - 1)
  <1>0. f \in FilterType BY DEF Holds
  <1>1. /\ f.cnt \in 0..FilterLength /\ f.index \in Slots
        /\ f.val \in [Slots -> Int] /\ s \in Seq(Slots)
    BY <1>0 DEF FilterType
  <1>2. Len(s) = f.cnt /\ InOrder(s, T, f.val) BY DEF Sorted
  <1> HIDE DEF s
  <1>3. CASE f.cnt < FilterLength
    <2>1. Stay(f) = s /\ Count(f) = f.cnt + 1 /\ f.index = f.cnt
      BY <1>3 DEF Stay, s, Count, Holds
    <2>2. (0..(Count(f) - 1)) \ {f.index} = T BY <1>1, <2>1
    <2>3. Len(s) = Count(f) - 1 BY <1>1, <1>2, <2>1
    <2> HIDE DEF T
    <2> QED BY <1>1, <1>2, <2>1, <2>2, <2>3
  <1>4. CASE ~(f.cnt < FilterLength)
    <2>1. f.cnt = FilterLength /\ Count(f) = f.cnt /\ T = Slots
      BY <1>1, <1>4, LengthIs DEF Count, Slots
    <2>2. DOMAIN s = 1..Len(s) /\ Len(s) \in Nat BY <1>1, LenProperties
    <2>3. \E k \in DOMAIN s : s[k] = f.index BY <1>1, <1>2, <2>1, <2>2 DEF InOrder
    <2> DEFINE at == CHOOSE k \in DOMAIN s : s[k] = f.index
               r == RemoveAt(s, at)
    <2>4. at \in 1..Len(s) /\ s[at] = f.index BY <2>2, <2>3
    <2>5. Stay(f) = r BY <1>4 DEF Stay, s
    <2> HIDE DEF at
    <2>6. /\ r \in Seq(Slots) /\ Len(r) = Len(s) - 1
          /\ \A i \in 1..(Len(s) - 1) : r[i] = IF i < at THEN s[i] ELSE s[i + 1]
      BY <1>1, <2>4, RemoveFields
    <2> HIDE DEF r, T
    <2>7. \A k \in 1..Len(s) : s[k] = f.index => k = at
      <3> TAKE k \in 1..Len(s)
      <3>1. k < at \/ at < k \/ k = at BY <2>2, <2>4
      <3> QED BY <1>2, <2>4, <3>1 DEF InOrder
    <2> DEFINE old(i) == IF i < at THEN i ELSE i + 1
    <2>8. \A i \in 1..Len(r) : old(i) \in 1..Len(s) /\ old(i) # at /\ r[i] = s[old(i)]
      BY <2>2, <2>4, <2>6
    <2>9. \A i, j \in 1..Len(r) : i < j => old(i) < old(j)
      BY <2>2, <2>4, <2>6
    <2>10. \A k \in 1..Len(s) : k # at => \E i \in 1..Len(r) : old(i) = k
      <3> SUFFICES ASSUME NEW k \in 1..Len(s), k # at PROVE \E i \in 1..Len(r) : old(i) = k
        OBVIOUS
      <3>1. CASE k < at
        <4>1. k \in 1..Len(r) BY <2>2, <2>4, <2>6, <3>1
        <4>2. old(k) = k BY <3>1
        <4> QED BY <4>1, <4>2
      <3>2. CASE ~(k < at)
        <4>1. k - 1 \in 1..Len(r) BY <2>2, <2>4, <2>6, <3>2
        <4>2. old(k - 1) = k BY <2>2, <2>4, <3>2
        <4> QED BY <4>1, <4>2
      <3> QED BY <3>1, <3>2
    <2> HIDE DEF old
    <2>11. InOrder(r, Slots \ {f.index}, f.val)
      <3>1. \A k \in 1..Len(r) : r[k] \in Slots \ {f.index}
        <4> TAKE k \in 1..Len(r)
        <4>1. old(k) \in 1..Len(s) /\ old(k) # at /\ r[k] = s[old(k)] BY <2>8
        <4> QED BY <1>2, <2>1, <2>7, <4>1 DEF InOrder
      <3>2. \A i \in Slots \ {f.index} : \E k \in 1..Len(r) : r[k] = i
        <4> TAKE i \in Slots \ {f.index}
        <4>1. PICK k \in 1..Len(s) : s[k] = i BY <1>2, <2>1 DEF InOrder
        <4>2. k # at BY <2>4, <4>1
        <4>3. PICK j \in 1..Len(r) : old(j) = k BY <2>10, <4>2
        <4> QED BY <2>8, <4>1, <4>3
      <3>3. \A j, k \in 1..Len(r) : j < k => r[j] # r[k] /\ f.val[r[j]] <= f.val[r[k]]
        <4> SUFFICES ASSUME NEW j \in 1..Len(r), NEW k \in 1..Len(r), j < k
                     PROVE  r[j] # r[k] /\ f.val[r[j]] <= f.val[r[k]]
          OBVIOUS
        <4>1. old(j) < old(k) BY <2>9
        <4>2. old(j) \in 1..Len(s) /\ old(k) \in 1..Len(s) /\ r[j] = s[old(j)] /\ r[k] = s[old(k)]
          BY <2>8
        <4> QED BY <1>2, <4>1, <4>2 DEF InOrder
      <3> QED BY <3>1, <3>2, <3>3 DEF InOrder
    <2>12. 0..(Count(f) - 1) = Slots BY <2>1 DEF T
    <2> QED BY <1>2, <2>1, <2>5, <2>6, <2>11, <2>12
  <1> QED BY <1>3, <1>4

\* Reorder() puts the index of the new value where it belongs.
LEMMA ReorderRight ==
    ASSUME NEW f, NEW w, Holds(f, w), Sorted(f), NEW v \in Int
    PROVE  /\ Reorder(f, v) \in Seq(Slots) /\ Len(Reorder(f, v)) = Count(f)
           /\ InOrder(Reorder(f, v), 0..(Count(f) - 1), [f.val EXCEPT ![f.index] = v])
  <1> DEFINE r == Stay(f)
             n == Len(r)
             T == (0..(Count(f) - 1)) \ {f.index}
             B == {k \in DOMAIN r : f.val[r[k]] <= v} \cup {0}
             b == Max(B)
             o == InsertAt(r, b + 1, f.index)
             y == [f.val EXCEPT ![f.index] = v]
  <1>0. f \in FilterType BY DEF Holds
  <1>1. f.cnt \in 0..FilterLength /\ f.index \in Slots /\ f.val \in [Slots -> Int]
    BY <1>0 DEF FilterType
  <1>c. Count(f) \in 1..FilterLength /\ f.index \in 0..(Count(f) - 1)
    BY <1>1, LengthIs DEF Count, Holds, Slots
  <1>2. r \in Seq(Slots) /\ n = Count(f) - 1 /\ InOrder(r, T, f.val) BY StayRight
  <1>3. Reorder(f, v) = o BY DEF Reorder, Stay
  <1> HIDE DEF r
  <1>4. DOMAIN r = 1..n /\ n \in Nat BY <1>2, LenProperties
  <1>5. b \in B /\ \A k \in B : k <= b
    <2>1. B \in SUBSET (0..n) /\ B # {} BY <1>4
    <2> HIDE DEF B
    <2> QED BY <1>4, <2>1, LargestIs
  <1> HIDE DEF b
  <1>6. b \in 0..n BY <1>4, <1>5
  <1>r. \A k \in 1..n : r[k] \in Slots /\ r[k] # f.index /\ f.val[r[k]] \in Int /\ r[k] \in T
    <2>1. \A k \in 1..n : r[k] \in Slots BY <1>2, <1>4, ElementOfSeq
    <2>2. \A k \in 1..n : r[k] \in T BY <1>2 DEF InOrder
    <2> QED BY <1>1, <2>1, <2>2
  <1>o. \A j, k \in 1..n : j < k => r[j] # r[k] /\ f.val[r[j]] <= f.val[r[k]] BY <1>2 DEF InOrder
  <1>7. \A k \in 1..n : k > b => v <= f.val[r[k]]
    <2> SUFFICES ASSUME NEW k \in 1..n, k > b PROVE v <= f.val[r[k]] OBVIOUS
    <2>1. k \notin B BY <1>5, <1>6
    <2>2. ~(f.val[r[k]] <= v) BY <1>4, <2>1
    <2> QED BY <1>r, <2>2
  <1>8. \A k \in 1..n : k <= b => f.val[r[k]] <= v
    <2> SUFFICES ASSUME NEW k \in 1..n, k <= b PROVE f.val[r[k]] <= v OBVIOUS
    <2>1. b \in 1..n /\ f.val[r[b]] <= v BY <1>4, <1>5, <1>6
    <2>2. k < b => f.val[r[k]] <= f.val[r[b]] BY <1>o, <2>1
    <2>3. f.val[r[k]] \in Int /\ f.val[r[b]] \in Int BY <1>r, <2>1
    <2>4. CASE k = b BY <2>1, <2>4
    <2>5. CASE k # b BY <2>1, <2>2, <2>3, <2>5, <1>6
    <2> QED BY <2>4, <2>5
  <1> HIDE DEF B
  <1>9. /\ o \in Seq(Slots) /\ Len(o) = n + 1
        /\ \A i \in 1..(n + 1) : o[i] = IF i < b + 1 THEN r[i] ELSE IF i = b + 1 THEN f.index ELSE r[i - 1]
    <2>1. b + 1 \in 1..(Len(r) + 1) BY <1>4, <1>6
    <2>2. r \in Seq(Slots) /\ f.index \in Slots BY <1>1, <1>2
    <2>3. o \in Seq(Slots) /\ HasInserted(o, r, b + 1, f.index) BY <2>1, <2>2, InsertFields, Zenon
    <2> HIDE DEF o
    <2> QED BY <2>3 DEF HasInserted
  <1>10. \A i \in Slots : y[i] = IF i = f.index THEN v ELSE f.val[i] BY <1>1
  <1> HIDE DEF y, o
  <1> DEFINE from(i) == IF i < b + 1 THEN i ELSE i - 1
  <1>11. \A i \in 1..(n + 1) : i # b + 1 =>
             from(i) \in 1..n /\ o[i] = r[from(i)] /\ (from(i) <= b <=> i < b + 1)
    BY <1>4, <1>6, <1>9
  <1>12. \A i, j \in 1..(n + 1) : i # b + 1 /\ j # b + 1 /\ i < j => from(i) < from(j)
    BY <1>4, <1>6
  <1>13. \A k \in 1..n : \E i \in 1..(n + 1) : i # b + 1 /\ from(i) = k
    <2> TAKE k \in 1..n
    <2>1. CASE k <= b
      <3>1. k \in 1..(n + 1) /\ k # b + 1 /\ from(k) = k BY <1>4, <1>6, <2>1
      <3> QED BY <3>1
    <2>2. CASE ~(k <= b)
      <3>1. k + 1 \in 1..(n + 1) /\ k + 1 # b + 1 /\ from(k + 1) = k BY <1>4, <1>6, <2>2
      <3> QED BY <3>1
    <2> QED BY <2>1, <2>2
  <1> HIDE DEF from
  <1>14. o[b + 1] = f.index /\ b + 1 \in 1..(n + 1) BY <1>4, <1>6, <1>9
  <1>15. InOrder(o, 0..(Count(f) - 1), y)
    <2>1. \A k \in 1..(n + 1) : o[k] \in 0..(Count(f) - 1)
      <3> TAKE k \in 1..(n + 1)
      <3>1. CASE k = b + 1 BY <1>c, <1>14, <3>1
      <3>2. CASE k # b + 1 BY <1>r, <1>11, <3>2
      <3> QED BY <3>1, <3>2
    <2>2. \A i \in 0..(Count(f) - 1) : \E k \in 1..(n + 1) : o[k] = i
      <3> TAKE i \in 0..(Count(f) - 1)
      <3>1. CASE i = f.index BY <1>14, <3>1
      <3>2. CASE i # f.index
        <4>1. PICK k \in 1..n : r[k] = i BY <1>2, <3>2 DEF InOrder
        <4>2. PICK j \in 1..(n + 1) : j # b + 1 /\ from(j) = k BY <1>13
        <4> QED BY <1>11, <4>1, <4>2
      <3> QED BY <3>1, <3>2
    <2>3. \A j, k \in 1..(n + 1) : j < k => o[j] # o[k] /\ y[o[j]] <= y[o[k]]
      <3> SUFFICES ASSUME NEW j \in 1..(n + 1), NEW k \in 1..(n + 1), j < k
                   PROVE  o[j] # o[k] /\ y[o[j]] <= y[o[k]]
        OBVIOUS
      <3>0. j \in Int /\ k \in Int /\ b \in Int BY <1>4, <1>6
      <3>1. CASE j = b + 1
        <4>1. k # b + 1 /\ ~(k < b + 1) BY <3>0, <3>1
        <4>2. from(k) \in 1..n /\ o[k] = r[from(k)] /\ ~(from(k) <= b) BY <1>11, <4>1
        <4>3. v <= f.val[r[from(k)]] BY <1>6, <1>7, <4>2
        <4>4. o[k] # f.index /\ y[o[k]] = f.val[r[from(k)]] BY <1>r, <1>10, <4>2
        <4>5. o[j] = f.index /\ y[o[j]] = v BY <1>1, <1>10, <1>14, <3>1
        <4> QED BY <4>3, <4>4, <4>5
      <3>2. CASE k = b + 1
        <4>1. j # b + 1 /\ j < b + 1 BY <3>0, <3>2
        <4>2. from(j) \in 1..n /\ o[j] = r[from(j)] /\ from(j) <= b BY <1>11, <4>1
        <4>3. f.val[r[from(j)]] <= v BY <1>8, <4>2
        <4>4. o[j] # f.index /\ y[o[j]] = f.val[r[from(j)]] BY <1>r, <1>10, <4>2
        <4>5. o[k] = f.index /\ y[o[k]] = v BY <1>1, <1>10, <1>14, <3>2
        <4> QED BY <4>3, <4>4, <4>5
      <3>3. CASE j # b + 1 /\ k # b + 1
        <4>1. from(j) \in 1..n /\ o[j] = r[from(j)] /\ from(k) \in 1..n /\ o[k] = r[from(k)]
              /\ from(j) < from(k)
          BY <1>11, <1>12, <3>3
        <4>2. r[from(j)] # r[from(k)] /\ f.val[r[from(j)]] <= f.val[r[from(k)]] BY <1>o, <4>1
        <4>3. y[o[j]] = f.val[r[from(j)]] /\ y[o[k]] = f.val[r[from(k)]] BY <1>r, <1>10, <4>1
        <4> QED BY <4>1, <4>2, <4>3
      <3> QED BY <3>1, <3>2, <3>3
    <2> QED BY <1>9, <2>1, <2>2, <2>3 DEF InOrder
  <1>16. n + 1 = Count(f) BY <1>2, <1>4, <1>c
  <1> QED BY <1>3, <1>9, <1>15, <1>16 DEF y

\* Which of the last samples is at a place of the buffer.
Which(f, i) == IF f.cnt < FilterLength THEN i + 1
               ELSE IF i >= f.index THEN i - f.index + 1
               ELSE i - f.index + 1 + FilterLength

\* Slot() and Which() are inverse.
LEMMA SlotsMatch ==
    ASSUME NEW f \in FilterType
    PROVE  /\ \A k \in 1..f.cnt : Slot(f, k) \in 0..(f.cnt - 1) /\ Which(f, Slot(f, k)) = k
           /\ \A i \in 0..(f.cnt - 1) : Which(f, i) \in 1..f.cnt /\ Slot(f, Which(f, i)) = i
  <1>1. f.cnt \in 0..FilterLength /\ f.index \in Slots BY DEF FilterType
  <1>2. CASE f.cnt < FilterLength
    BY <1>1, <1>2, LengthIs DEF Slot, Which, Slots
  <1>3. CASE ~(f.cnt < FilterLength)
    <2>1. f.cnt = FilterLength /\ f.index \in Nat /\ f.index < FilterLength
      BY <1>1, <1>3, LengthIs DEF Slots
    <2>2. \A k \in 1..f.cnt : Slot(f, k) = IF f.index + k <= FilterLength THEN f.index + k - 1
                                           ELSE f.index + k - 1 - FilterLength
      BY <1>3 DEF Slot
    <2>3. \A i \in 0..(f.cnt - 1) : Which(f, i) = IF i >= f.index THEN i - f.index + 1
                                                  ELSE i - f.index + 1 + FilterLength
      BY <1>3 DEF Which
    <2>4. ASSUME NEW k \in 1..f.cnt PROVE Slot(f, k) \in 0..(f.cnt - 1) /\ Which(f, Slot(f, k)) = k
      <3>1. Slot(f, k) \in 0..(f.cnt - 1) BY <2>1, <2>2, LengthIs
      <3> QED BY <2>1, <2>2, <2>3, <3>1, LengthIs
    <2>5. ASSUME NEW i \in 0..(f.cnt - 1) PROVE Which(f, i) \in 1..f.cnt /\ Slot(f, Which(f, i)) = i
      <3>1. Which(f, i) \in 1..f.cnt BY <2>1, <2>3, LengthIs
      <3> QED BY <2>1, <2>2, <2>3, <3>1, LengthIs
    <2> QED BY <2>4, <2>5
  <1> QED BY <1>2, <1>3

\* The k-th index of order is that of the k-th smallest of the last samples.
LEMMA NthOfFilter ==
    ASSUME NEW f, NEW w, Holds(f, w), Sorted(f), NEW k \in 1..f.cnt
    PROVE  Nth(w, k) = f.val[f.order[k]] /\ f.val[f.order[k]] \in Int
  <1> DEFINE n == f.cnt
             s == f.order
             p == [j \in 1..n |-> Which(f, s[j])]
             q == [i \in 1..n |-> CHOOSE j \in 1..n : s[j] = Slot(f, i)]
  <1>0. f \in FilterType /\ w \in Seq(Int) /\ n = Len(w) /\ \A i \in 1..n : w[i] = f.val[Slot(f, i)]
    BY DEF Holds
  <1>1. n \in Nat /\ f.val \in [Slots -> Int] /\ n <= FilterLength
    BY <1>0, LengthIs DEF FilterType
  <1>2. /\ \A j \in 1..n : s[j] \in 0..(n - 1)
        /\ \A i \in 0..(n - 1) : \E j \in 1..n : s[j] = i
        /\ \A i, j \in 1..n : i < j => s[i] # s[j] /\ f.val[s[i]] <= f.val[s[j]]
    BY DEF Sorted, InOrder
  <1>3. /\ \A i \in 1..n : Slot(f, i) \in 0..(n - 1) /\ Which(f, Slot(f, i)) = i
        /\ \A i \in 0..(n - 1) : Which(f, i) \in 1..n /\ Slot(f, Which(f, i)) = i
    BY <1>0, SlotsMatch
  <1>i. \A i, j \in 1..n : s[i] = s[j] => i = j
    <2> TAKE i, j \in 1..n
    <2>1. i < j \/ j < i \/ i = j BY <1>1
    <2> QED BY <1>2, <2>1
  <1> HIDE DEF n, s
  <1>4. p \in [1..n -> 1..n] BY <1>2, <1>3
  <1>5. \A i \in 1..n : q[i] \in 1..n /\ s[q[i]] = Slot(f, i)
    <2> TAKE i \in 1..n
    <2>1. q[i] = CHOOSE j \in 1..n : s[j] = Slot(f, i) OBVIOUS
    <2>2. \E j \in 1..n : s[j] = Slot(f, i) BY <1>2, <1>3
    <2> QED BY <2>1, <2>2
  <1>6. q \in [1..n -> 1..n]
    <2>1. q = [i \in 1..n |-> q[i]] OBVIOUS
    <2> HIDE DEF q
    <2> QED BY <1>5, <2>1
  <1> HIDE DEF q
  <1>7. \A i \in 1..n : p[q[i]] = i BY <1>3, <1>5
  <1>8. ASSUME NEW j \in 1..n PROVE q[p[j]] = j
    <2>1. p[j] \in 1..n /\ p[j] = Which(f, s[j]) BY <1>4
    <2>2. Slot(f, p[j]) = s[j] BY <1>2, <1>3, <2>1
    <2>3. q[p[j]] \in 1..n /\ s[q[p[j]]] = s[j] BY <1>5, <2>1, <2>2
    <2> QED BY <1>i, <2>3
  <1>9. \A j \in 1..n : w[p[j]] = f.val[s[j]] /\ f.val[s[j]] \in Int
    <2> TAKE j \in 1..n
    <2>1. p[j] \in 1..n /\ p[j] = Which(f, s[j]) BY <1>4
    <2>2. Slot(f, p[j]) = s[j] /\ s[j] \in 0..(n - 1) BY <1>2, <1>3, <2>1
    <2>3. s[j] \in Slots BY <1>1, <2>2, LengthIs DEF Slots
    <2>4. w[p[j]] = f.val[Slot(f, p[j])] BY <1>0, <2>1 DEF n
    <2> QED BY <1>1, <2>2, <2>3, <2>4
  <1> HIDE DEF p
  <1>10. \A i, j \in 1..n : i <= j => w[p[i]] <= w[p[j]]
    <2> SUFFICES ASSUME NEW i \in 1..n, NEW j \in 1..n, i <= j PROVE w[p[i]] <= w[p[j]] OBVIOUS
    <2>1. CASE i = j BY <1>9, <2>1
    <2>2. CASE i # j
      <3>1. i < j BY <1>1, <2>2
      <3> QED BY <1>2, <1>9, <3>1
    <2> QED BY <2>1, <2>2
  <1>11. k \in 1..n /\ Len(w) = n BY <1>0 DEF n
  <1>12. Nth(w, k) = w[p[k]]
    <2>1. \A j \in 1..n : q[p[j]] = j BY <1>8
    <2>2. w \in Seq(Int) /\ n \in Nat BY <1>0, <1>1
    <2>3. Puts(w, n, p, q) BY <1>4, <1>6, <1>7, <1>10, <1>11, <2>1, Zenon DEF Puts
    <2> QED BY <1>11, <2>2, <2>3, NthRight, Zenon
  <1> QED BY <1>9, <1>11, <1>12 DEF s

\* mmedian_sample(): the middle of the sorted indices is the median.
LEMMA MedianRight ==
    ASSUME NEW f, NEW w, Holds(f, w), Sorted(f), NEW v \in Int
    PROVE  LET r == mmedian_sample(f, v)
           IN  /\ Holds(r.f, Slide(w, v)) /\ Sorted(r.f)
               /\ r.result = Median(Slide(w, v)) /\ r.result \in Int
  <1> DEFINE o == Reorder(f, v)
             y == [f.val EXCEPT ![f.index] = v]
             g == [f EXCEPT !.order = o, !.val = y, !.index = NextIndex(f), !.cnt = Count(f)]
             u == Slide(w, v)
             at(i) == g.val[g.order[i + 1]]
             mid == g.cnt \div 2
             res == IF g.cnt % 2 = 1 THEN at(mid) ELSE tmv_div(at(mid - 1) + at(mid), 2)
  <1>0. f \in FilterType BY DEF Holds
  <1>1. /\ f.cnt \in 0..FilterLength /\ f.index \in Slots /\ f.sum \in Int
        /\ f.val \in [Slots -> Int]
    BY <1>0 DEF FilterType
  <1>2. o \in Seq(Slots) /\ Len(o) = Count(f) /\ InOrder(o, 0..(Count(f) - 1), y)
    BY ReorderRight
  <1>3. NextIndex(f) \in Slots /\ y \in [Slots -> Int]
    BY <1>0, <1>1, IndexTurns, LengthIs DEF Slots
  <1>4. Count(f) \in 0..FilterLength /\ Count(f) \in Nat \ {0}
    BY <1>1, LengthIs DEF Count
  <1>5. mmedian_sample(f, v) = [f |-> g, result |-> res]
    <2>1. [f EXCEPT !.order = Reorder(f, v), !.val[f.index] = v,
                    !.index = NextIndex(f), !.cnt = Count(f)] = g
      BY <1>0 DEF FilterType
    <2> QED BY <2>1 DEF mmedian_sample
  <1>y. y = [f.val EXCEPT ![f.index] = v] OBVIOUS
  <1> HIDE DEF o, y
  <1>6. /\ g.order = o /\ g.val = y /\ g.index = NextIndex(f) /\ g.cnt = Count(f)
        /\ g \in FilterType
    BY <1>0, <1>2, <1>3, <1>4 DEF FilterType
  <1> HIDE DEF g
  <1>7. Holds(g, u) BY <1>6, <1>y, HoldsNext
  <1>8. Sorted(g) BY <1>2, <1>6 DEF Sorted
  <1> DEFINE n == g.cnt
  <1>9. n \in Nat \ {0} /\ Len(u) = n BY <1>4, <1>6, <1>7 DEF Holds
  <1> HIDE DEF u, n
  <1>10. \A k \in 1..n : Nth(u, k) = at(k - 1) /\ at(k - 1) \in Int
    <2> TAKE k \in 1..n
    <2>1. Nth(u, k) = g.val[g.order[k]] /\ g.val[g.order[k]] \in Int
      BY <1>7, <1>8, NthOfFilter DEF n
    <2>2. (k - 1) + 1 = k BY <1>9
    <2> QED BY <2>1, <2>2
  <1> DEFINE h == n \div 2
  <1>11. h \in Nat /\ (n % 2 = 1 => h + 1 \in 1..n) /\ (n % 2 # 1 => h \in 1..n /\ h + 1 \in 1..n)
    BY <1>9
  <1> HIDE DEF at, h
  <1>12. res = IF n % 2 = 1 THEN at(h) ELSE tmv_div(at(h - 1) + at(h), 2)
    BY DEF n, h
  <1>13. Median(u) = IF n % 2 = 1 THEN Nth(u, h + 1) ELSE tmv_div(Nth(u, h) + Nth(u, h + 1), 2)
    BY <1>9 DEF Median, h
  <1> HIDE DEF res
  <1>14. res = Median(u) /\ res \in Int
    <2>1. (h + 1) - 1 = h BY <1>11
    <2>2. CASE n % 2 = 1
      <3>1. Nth(u, h + 1) = at(h) /\ at(h) \in Int BY <1>10, <1>11, <2>1, <2>2
      <3> QED BY <1>12, <1>13, <2>2, <3>1
    <2>3. CASE n % 2 # 1
      <3>1. Nth(u, h + 1) = at(h) /\ at(h) \in Int BY <1>10, <1>11, <2>1, <2>3
      <3>2. Nth(u, h) = at(h - 1) /\ at(h - 1) \in Int BY <1>10, <1>11, <2>3
      <3>3. at(h - 1) + at(h) \in Int BY <3>1, <3>2
      <3>4. tmv_div(at(h - 1) + at(h), 2) \in Int BY <3>3, DivIs
      <3> QED BY <1>12, <1>13, <2>3, <3>1, <3>2, <3>4
    <2> QED BY <2>2, <2>3
  <1> QED BY <1>5, <1>7, <1>8, <1>14 DEF u

\* What a filter keeps between samples.
Fits(type, f, w) ==
    /\ Holds(f, w)
    /\ IF type = "MOVING_MEDIAN" THEN Sorted(f) ELSE f.order = <<>> /\ f.sum = Total(w)

\* What a filter computes.
Filtered(type, w) == IF type = "MOVING_MEDIAN" THEN Median(w) ELSE Mean(w)

\* filter_sample() keeps what the filter needs, and yields its value.
LEMMA SampleRight ==
    ASSUME NEW type, NEW f, NEW w, Fits(type, f, w), NEW v \in Int
    PROVE  LET r == filter_sample(type, f, v)
           IN  /\ Fits(type, r.f, Slide(w, v))
               /\ r.result = Filtered(type, Slide(w, v)) /\ r.result \in Int
  <1>1. CASE type = "MOVING_MEDIAN"
    <2>1. filter_sample(type, f, v) = mmedian_sample(f, v) BY <1>1 DEF filter_sample
    <2>2. Holds(f, w) /\ Sorted(f) BY <1>1 DEF Fits
    <2> QED BY <1>1, <2>1, <2>2, MedianRight DEF Fits, Filtered
  <1>2. CASE type # "MOVING_MEDIAN"
    <2>1. filter_sample(type, f, v) = mave_accumulate(f, v) BY <1>2 DEF filter_sample
    <2>2. Holds(f, w) /\ f.order = <<>> /\ f.sum = Total(w) BY <1>2 DEF Fits
    <2> QED BY <1>2, <2>1, <2>2, MaveRight DEF Fits, Filtered
  <1> QED BY <1>1, <1>2

\* filter_reset() forgets all samples.
LEMMA ResetFits == ASSUME NEW type PROVE Fits(type, filter_reset, <<>>)
  <1>1. filter_reset \in FilterType
    BY LengthIs DEF filter_reset, FilterType, Slots
  <1>2. \A i \in Slots : filter_reset.val[i] = 0 BY DEF filter_reset, Slots
  <1>3. filter_reset.cnt = 0 /\ filter_reset.index = 0 /\ filter_reset.order = <<>> /\ filter_reset.sum = 0
    BY DEF filter_reset
  <1>4. 0 \in Slots BY LengthIs DEF Slots
  <1>5. <<>> \in Seq(Int) /\ Len(<<>>) = 0 OBVIOUS
  <1>6. Holds(filter_reset, <<>>)
    BY <1>1, <1>2, <1>3, <1>4, <1>5, LengthIs DEF Holds
  <1>7. Sorted(filter_reset)
    BY <1>3 DEF Sorted, InOrder
  <1>8. Total(<<>>) = 0
    <2>1. PICK s : Sums(<<>>, s) BY <1>5, SumsExist
    <2> QED BY <1>5, <2>1, TotalIsLast DEF Sums
  <1> QED BY <1>3, <1>6, <1>7, <1>8 DEF Fits

Request == [seq : Nat, t3 : Int, age : Nat]

\* The request that is e.age younger than the last of n.
RequestNumber(e, n) == n - 1 - e.age

\* q holds some of the n requests, the newest first, with the times of departure
\* of a clock that is b ahead; age counts the requests since, of which the first
\* entry has low.
Kept(q, n, b, low) ==
    /\ q \in Seq(Request)
    /\ \A i \in 1..Len(q) :
          /\ RequestNumber(q[i], n) \in Nat /\ q[i].age >= i - 1 + low
          /\ q[i].seq = RequestNumber(q[i], n) % SequenceIds
          /\ q[i].t3 = RequestNumber(q[i], n) * Apart + b
    /\ \A i, j \in 1..Len(q) : i < j => q[i].age < q[j].age

\* None is too old.
Fresh(q) == \A i \in 1..Len(q) : q[i].age < StaleAfter

\* Every answer is to one of the last SequenceIds requests.
AnswerTo(a, m) ==
    /\ a.seq = m % SequenceIds
    /\ \E late \in Jitter : a.t4 = m * Apart + Distance[a.from] + late

Sent(A, n) ==
    \A a \in A : \E m \in Nat : n - SequenceIds <= m /\ m < n /\ AnswerTo(a, m)

\* The bounds of the queue and of the sequence numbers.
LEMMA IdsAre ==
    /\ SequenceIds \in Nat /\ SequenceIds >= 1 /\ StaleAfter \in Nat /\ StaleAfter >= 1
    /\ StaleAfter <= SequenceIds /\ Distance \in [Masters -> Nat]
  BY PathDelayAssumption, SequenceAssumption

\* Multiples of SequenceIds are that far apart.
LEMMA MultiplesApart ==
    ASSUME NEW a \in Int, NEW b \in Int, a < b
    PROVE  SequenceIds * a + SequenceIds <= SequenceIds * b
  <1> DEFINE S == SequenceIds
  <1>0. S \in Nat /\ S >= 1 BY IdsAre
  <1> HIDE DEF S
  <1>1. b - a >= 1 OBVIOUS
  <1>2. S * (b - a) >= S BY <1>0, <1>1
  <1>3. S * (b - a) = S * b - S * a BY <1>0
  <1>4. S * a \in Int /\ S * b \in Int BY <1>0
  <1>5. S * a + S <= S * b BY <1>0, <1>2, <1>3, <1>4
  <1> QED BY <1>5 DEF S

\* A sequence number stands for one request of the last SequenceIds.
LEMMA NumberUnique ==
    ASSUME NEW m \in Nat, NEW k \in Nat, m % SequenceIds = k % SequenceIds,
           m - k < SequenceIds, k - m < SequenceIds
    PROVE  m = k
  <1> DEFINE S == SequenceIds
             x == m \div S
             y == k \div S
             r == m % S
  <1>1. S \in Nat /\ S >= 1 BY IdsAre
  <1> HIDE DEF S
  <1>2. m = S * x + r /\ x \in Int /\ r \in Int BY <1>1
  <1>3. k = S * y + r /\ y \in Int BY <1>1 DEF S
  <1> HIDE DEF x, y, r
  <1>4. \A a, b \in Int : a < b => S * a + S <= S * b BY MultiplesApart DEF S
  <1>5. S * x \in Int /\ S * y \in Int BY <1>1, <1>2, <1>3
  <1>6. CASE x < y
    <2>1. S * x + S <= S * y BY <1>2, <1>3, <1>4, <1>6
    <2> QED BY <1>1, <1>2, <1>3, <1>5, <2>1 DEF S
  <1>7. CASE y < x
    <2>1. S * y + S <= S * x BY <1>2, <1>3, <1>4, <1>7
    <2> QED BY <1>1, <1>2, <1>3, <1>5, <2>1 DEF S
  <1>8. CASE x = y BY <1>2, <1>3, <1>8
  <1> QED BY <1>2, <1>3, <1>6, <1>7, <1>8

\* Numbers are used again after SequenceIds requests.
LEMMA NumberAgain ==
    ASSUME NEW m \in Nat PROVE (m + SequenceIds) % SequenceIds = m % SequenceIds
  <1> DEFINE S == SequenceIds
             n == m + S
             x == m \div S
             y == n \div S
             r == m % S
             t == n % S
  <1>1. S \in Nat /\ S >= 1 BY IdsAre
  <1>4. \A a, b \in Int : a < b => S * a + S <= S * b BY MultiplesApart
  <1> HIDE DEF S
  <1>0. n \in Nat /\ n = m + S BY <1>1
  <1> HIDE DEF n
  <1>2. m = S * x + r /\ x \in Int /\ r \in 0..(S - 1) BY <1>1
  <1>3. n = S * y + t /\ y \in Int /\ t \in 0..(S - 1) BY <1>0, <1>1
  <1> HIDE DEF x, y, r, t
  <1>5. S * (x + 1) = S * x + S BY <1>1, <1>2
  <1>6. S * x \in Int /\ S * y \in Int /\ x + 1 \in Int BY <1>1, <1>2, <1>3
  <1>7. CASE x + 1 < y
    <2>1. S * (x + 1) + S <= S * y BY <1>3, <1>4, <1>6, <1>7
    <2> QED BY <1>0, <1>1, <1>2, <1>3, <1>5, <1>6, <2>1
  <1>8. CASE y < x + 1
    <2>1. S * y + S <= S * (x + 1) BY <1>3, <1>4, <1>6, <1>8
    <2> QED BY <1>0, <1>1, <1>2, <1>3, <1>5, <1>6, <2>1
  <1>9. CASE y = x + 1
    <2>1. t = r BY <1>0, <1>1, <1>2, <1>3, <1>5, <1>6, <1>9
    <2> QED BY <2>1 DEF t, r, n, S
  <1>10. x + 1 < y \/ y < x + 1 \/ y = x + 1
    <2>1. x \in Int /\ y \in Int BY <1>2, <1>3
    <2> QED BY <2>1
  <1> QED BY <1>7, <1>8, <1>9, <1>10, Zenon

\* A queue that was sorted by age is so after delay_req_prune(), and nothing in
\* it is too old.
LEMMA PruneKeeps ==
    ASSUME NEW q, NEW n \in Nat, NEW b \in Int, NEW low \in {0, 1}, Kept(q, n, b, low)
    PROVE  Kept(delay_req_prune(q), n, b, low) /\ Fresh(delay_req_prune(q))
  <1> DEFINE C == {i \in DOMAIN q : delay_req_current(q[i])} \cup {0}
             m == Max(C)
             r == SubSeq(q, 1, m)
  <1>0. q \in Seq(Request) BY DEF Kept
  <1>1. DOMAIN q = 1..Len(q) /\ Len(q) \in Nat /\ \A i \in 1..Len(q) : q[i] \in Request
    BY <1>0, LenProperties, ElementOfSeq
  <1>2. m \in C /\ \A k \in C : k <= m
    <2>1. C \in SUBSET (0..Len(q)) /\ C # {} BY <1>1
    <2> HIDE DEF C
    <2> QED BY <1>1, <2>1, LargestIs
  <1> HIDE DEF m
  <1>3. m \in 0..Len(q) BY <1>1, <1>2
  <1>4. delay_req_prune(q) = r BY DEF delay_req_prune, m
  <1>5. r \in Seq(Request) /\ Len(r) = m /\ \A i \in 1..m : r[i] = q[i]
    BY <1>0, <1>1, <1>3
  <1> HIDE DEF r
  <1>6. \A i \in 1..m : i \in 1..Len(q) BY <1>1, <1>3
  <1>7. Kept(r, n, b, low)
    <2>1. \A i \in 1..Len(r) :
            /\ RequestNumber(r[i], n) \in Nat /\ r[i].age >= i - 1 + low
            /\ r[i].seq = RequestNumber(r[i], n) % SequenceIds
            /\ r[i].t3 = RequestNumber(r[i], n) * Apart + b
      BY <1>5, <1>6 DEF Kept
    <2>2. \A i, j \in 1..Len(r) : i < j => r[i].age < r[j].age
      BY <1>5, <1>6 DEF Kept
    <2> QED BY <1>5, <2>1, <2>2 DEF Kept
  <1>8. Fresh(r)
    <2> SUFFICES ASSUME NEW i \in 1..Len(r) PROVE r[i].age < StaleAfter BY DEF Fresh
    <2>1. m \in 1..Len(q) /\ i \in 1..Len(q) /\ i <= m /\ r[i] = q[i] BY <1>1, <1>3, <1>5
    <2>2. q[m].age < StaleAfter BY <1>2, <2>1 DEF delay_req_current
    <2>3. q[i].age \in Nat /\ q[m].age \in Nat BY <1>1, <2>1 DEF Request
    <2>4. i < m => q[i].age < q[m].age BY <2>1 DEF Kept
    <2>5. CASE i = m BY <2>1, <2>2, <2>5
    <2>6. CASE i # m
      <3>1. i < m BY <2>1, <2>6, <1>1
      <3> QED BY <2>1, <2>2, <2>3, <2>4, <3>1, IdsAre
    <2> QED BY <2>5, <2>6
  <1> QED BY <1>4, <1>7, <1>8

\* Another request makes the others older.
LEMMA AgedKeeps ==
    ASSUME NEW q, NEW n \in Nat, NEW b \in Int, Kept(q, n, b, 0), Fresh(q)
    PROVE  Kept(Aged(q), n + 1, b, 1)
  <1> DEFINE r == Aged(q)
  <1>0. q \in Seq(Request) BY DEF Kept
  <1>1. DOMAIN q = 1..Len(q) /\ Len(q) \in Nat /\ \A i \in 1..Len(q) : q[i] \in Request
    BY <1>0, LenProperties, ElementOfSeq
  <1>2. r = [i \in 1..Len(q) |-> [q[i] EXCEPT !.age = IF @ < StaleAfter THEN @ + 1 ELSE @]]
    BY <1>1 DEF Aged
  <1>3. ASSUME NEW i \in 1..Len(q)
        PROVE  r[i] \in Request /\ r[i].seq = q[i].seq /\ r[i].t3 = q[i].t3 /\ r[i].age = q[i].age + 1
    <2>1. q[i].age < StaleAfter BY DEF Fresh
    <2>2. r[i] = [q[i] EXCEPT !.age = q[i].age + 1] BY <1>2, <2>1
    <2>3. q[i] \in Request BY <1>1
    <2> QED BY <2>2, <2>3 DEF Request
  <1>4. r \in Seq(Request) /\ Len(r) = Len(q)
    <2>1. DOMAIN r = 1..Len(q) BY <1>2
    <2>2. r = [i \in 1..Len(q) |-> r[i]] BY <1>2
    <2> HIDE DEF r
    <2>3. r \in [1..Len(q) -> Request] BY <1>3, <2>2
    <2> QED BY <1>1, <2>1, <2>3
  <1> HIDE DEF r
  <1>5. ASSUME NEW i \in 1..Len(r)
        PROVE  /\ RequestNumber(r[i], n + 1) \in Nat /\ r[i].age >= i - 1 + 1
               /\ r[i].seq = RequestNumber(r[i], n + 1) % SequenceIds
               /\ r[i].t3 = RequestNumber(r[i], n + 1) * Apart + b
    <2>1. i \in 1..Len(q) BY <1>4
    <2>2. q[i].age \in Nat BY <1>1, <2>1 DEF Request
    <2>3. /\ RequestNumber(q[i], n) \in Nat /\ q[i].age >= i - 1 + 0
          /\ q[i].seq = RequestNumber(q[i], n) % SequenceIds /\ q[i].t3 = RequestNumber(q[i], n) * Apart + b
      BY <2>1 DEF Kept
    <2>4. RequestNumber(r[i], n + 1) = RequestNumber(q[i], n) BY <1>3, <2>1, <2>2 DEF RequestNumber
    <2>5. r[i].age >= i - 1 + 1 BY <1>3, <2>1, <2>2, <2>3
    <2> QED BY <1>3, <2>1, <2>3, <2>4, <2>5
  <1>6. ASSUME NEW i \in 1..Len(r), NEW j \in 1..Len(r), i < j PROVE r[i].age < r[j].age
    <2>1. i \in 1..Len(q) /\ j \in 1..Len(q) BY <1>4
    <2>2. q[i].age < q[j].age BY <1>6, <2>1 DEF Kept
    <2>3. q[i].age \in Nat /\ q[j].age \in Nat BY <1>1, <2>1 DEF Request
    <2> QED BY <1>3, <2>1, <2>2, <2>3
  <1> QED BY <1>4, <1>5, <1>6 DEF Kept, r

\* port_delay_request() puts the new request first.
LEMMA RequestKeeps ==
    ASSUME NEW q, NEW n \in Nat, NEW b \in Int, Kept(q, n + 1, b, 1), Fresh(q)
    PROVE  LET r == <<[seq |-> n % SequenceIds, t3 |-> n * Apart + b, age |-> 0]>> \o q
           IN  Kept(r, n + 1, b, 0) /\ Fresh(r)
  <1> DEFINE e == [seq |-> n % SequenceIds, t3 |-> n * Apart + b, age |-> 0]
             r == <<e>> \o q
  <1>0. q \in Seq(Request) BY DEF Kept
  <1>1. Len(q) \in Nat /\ \A i \in 1..Len(q) : q[i] \in Request
    BY <1>0, LenProperties, ElementOfSeq
  <1>2. e \in Request /\ e.age = 0 /\ e.seq = n % SequenceIds /\ e.t3 = n * Apart + b
    BY IdsAre DEF Request, Apart
  <1> HIDE DEF e
  <1>3. /\ r \in Seq(Request) /\ Len(r) = Len(q) + 1
        /\ r[1] = e /\ \A i \in 1..Len(q) : r[i + 1] = q[i]
    BY <1>0, <1>2, PutFirst
  <1> HIDE DEF r
  <1>4. ASSUME NEW i \in 1..Len(r)
        PROVE  /\ RequestNumber(r[i], n + 1) \in Nat /\ r[i].age >= i - 1 + 0
               /\ r[i].seq = RequestNumber(r[i], n + 1) % SequenceIds
               /\ r[i].t3 = RequestNumber(r[i], n + 1) * Apart + b
               /\ r[i].age < StaleAfter
    <2>1. CASE i = 1
      <3>1. r[i] = e /\ RequestNumber(e, n + 1) = n BY <1>2, <1>3, <2>1 DEF RequestNumber
      <3> QED BY <1>2, <2>1, <3>1, IdsAre
    <2>2. CASE i # 1
      <3>1. i - 1 \in 1..Len(q) /\ (i - 1) + 1 = i BY <1>1, <1>3, <2>2
      <3>2. r[i] = q[i - 1] BY <1>3, <3>1
      <3>3. /\ RequestNumber(q[i - 1], n + 1) \in Nat /\ q[i - 1].age >= (i - 1) - 1 + 1
            /\ q[i - 1].seq = RequestNumber(q[i - 1], n + 1) % SequenceIds
            /\ q[i - 1].t3 = RequestNumber(q[i - 1], n + 1) * Apart + b
        BY <3>1 DEF Kept
      <3>4. q[i - 1].age < StaleAfter BY <3>1 DEF Fresh
      <3>5. q[i - 1].age \in Nat BY <1>1, <3>1 DEF Request
      <3>6. q[i - 1].age >= i - 1 + 0 BY <3>3, <3>5
      <3> QED BY <3>2, <3>3, <3>4, <3>6
    <2> QED BY <2>1, <2>2
  <1>5. ASSUME NEW i \in 1..Len(r), NEW j \in 1..Len(r), i < j PROVE r[i].age < r[j].age
    <2>0. j - 1 \in 1..Len(q) /\ (j - 1) + 1 = j BY <1>1, <1>3, <1>5
    <2>1. r[j] = q[j - 1] /\ q[j - 1].age \in Nat BY <1>1, <1>3, <2>0 DEF Request
    <2>2. CASE i = 1
      <3>1. q[j - 1].age >= (j - 1) - 1 + 1 BY <2>0 DEF Kept
      <3> QED BY <1>2, <1>3, <1>5, <2>0, <2>1, <2>2, <3>1
    <2>3. CASE i # 1
      <3>1. i - 1 \in 1..Len(q) /\ (i - 1) + 1 = i /\ i - 1 < j - 1 BY <1>1, <1>3, <1>5, <2>3
      <3>2. r[i] = q[i - 1] BY <1>3, <3>1
      <3> QED BY <2>0, <2>1, <3>1, <3>2 DEF Kept
    <2> QED BY <2>2, <2>3
  <1>6. Kept(r, n + 1, b, 0) BY <1>3, <1>4, <1>5 DEF Kept
  <1>7. Fresh(r) BY <1>4 DEF Fresh
  <1> QED BY <1>6, <1>7 DEF r, e

\* A request that was answered leaves the queue.
LEMMA RemoveKeeps ==
    ASSUME NEW q, NEW n \in Nat, NEW b \in Int, Kept(q, n, b, 0), Fresh(q), NEW k \in 1..Len(q)
    PROVE  Kept(RemoveAt(q, k), n, b, 0) /\ Fresh(RemoveAt(q, k))
  <1> DEFINE r == RemoveAt(q, k)
             old(i) == IF i < k THEN i ELSE i + 1
  <1>0. q \in Seq(Request) BY DEF Kept
  <1>1. Len(q) \in Nat /\ \A i \in 1..Len(q) : q[i] \in Request
    BY <1>0, LenProperties, ElementOfSeq
  <1>2. /\ r \in Seq(Request) /\ Len(r) = Len(q) - 1
        /\ \A i \in 1..(Len(q) - 1) : r[i] = IF i < k THEN q[i] ELSE q[i + 1]
    BY <1>0, RemoveFields
  <1> HIDE DEF r
  <1>3. \A i \in 1..Len(r) : old(i) \in 1..Len(q) /\ r[i] = q[old(i)] /\ old(i) >= i
    BY <1>1, <1>2
  <1>4. \A i, j \in 1..Len(r) : i < j => old(i) < old(j) BY <1>1, <1>2
  <1> HIDE DEF old
  <1>5. ASSUME NEW i \in 1..Len(r)
        PROVE  /\ RequestNumber(r[i], n) \in Nat /\ r[i].age >= i - 1 + 0
               /\ r[i].seq = RequestNumber(r[i], n) % SequenceIds
               /\ r[i].t3 = RequestNumber(r[i], n) * Apart + b
               /\ r[i].age < StaleAfter
    <2> DEFINE j == old(i)
    <2>1. j \in 1..Len(q) /\ r[i] = q[j] /\ j >= i BY <1>3
    <2> HIDE DEF j
    <2>2. /\ RequestNumber(q[j], n) \in Nat /\ q[j].age >= j - 1 + 0
          /\ q[j].seq = RequestNumber(q[j], n) % SequenceIds
          /\ q[j].t3 = RequestNumber(q[j], n) * Apart + b
      BY <2>1 DEF Kept
    <2>3. q[j].age < StaleAfter /\ q[j].age \in Nat BY <1>1, <2>1 DEF Fresh, Request
    <2>4. q[j].age >= i - 1 + 0 BY <2>1, <2>2, <2>3
    <2> QED BY <2>1, <2>2, <2>3, <2>4
  <1>6. \A i, j \in 1..Len(r) : i < j => r[i].age < r[j].age
    BY <1>3, <1>4 DEF Kept
  <1>7. Kept(r, n, b, 0) BY <1>2, <1>5, <1>6 DEF Kept
  <1>8. Fresh(r) BY <1>5 DEF Fresh
  <1> QED BY <1>7, <1>8 DEF r

\* A queue that was flushed is in order.
LEMMA NoneKept ==
    ASSUME NEW n \in Nat, NEW b \in Int, NEW low PROVE Kept(<<>>, n, b, low) /\ Fresh(<<>>)
  BY DEF Kept, Fresh

\* A queue that is fresh is as long as it may be.
LEMMA QueueShort ==
    ASSUME NEW q, NEW n \in Nat, NEW b \in Int, Kept(q, n, b, 0), Fresh(q)
    PROVE  Len(q) <= StaleAfter /\ \A i \in DOMAIN q : q[i].age \in 0..StaleAfter
  <1>0. q \in Seq(Request) BY DEF Kept
  <1>1. DOMAIN q = 1..Len(q) /\ Len(q) \in Nat /\ \A i \in 1..Len(q) : q[i] \in Request
    BY <1>0, LenProperties, ElementOfSeq
  <1>2. \A i \in 1..Len(q) : q[i].age \in Nat /\ q[i].age < StaleAfter /\ q[i].age >= i - 1 + 0
    BY <1>1 DEF Request, Fresh, Kept
  <1>3. CASE Len(q) = 0 BY <1>1, <1>3, IdsAre
  <1>4. CASE Len(q) # 0
    <2>1. Len(q) \in 1..Len(q) BY <1>1, <1>4
    <2> QED BY <1>1, <1>2, <2>1, IdsAre
  <1> QED BY <1>3, <1>4

Tsproc == [down : Int \cup {NoStamp}, up : Int \cup {NoStamp}, delay : Int, valid : BOOLEAN]

\* The time stamps of the Sync are those of the present master and clock; the
\* delay in use is what the filter makes of the window.
Stamped(t, w) ==
    /\ t \in Tsproc
    /\ t.down # NoStamp => t.down = Distance[master] + bias
    /\ t.valid => t.delay = Filtered(setup.filter, w)

\* The delays to the present master.
TrueDelays(w) == \A i \in DOMAIN w : w[i] \in {Distance[master] + j \div 2 : j \in Jitter}

PortTyped ==
    /\ setup \in Setups /\ role \in Roles /\ master \in Masters /\ bias \in Int /\ asked \in Nat

Asked == Kept(queue, asked, bias, 0) /\ Fresh(queue) /\ Sent(answers, asked)

Measured ==
    Stamped(ts, window) /\ Fits(setup.filter, filter, window) /\ TrueDelays(window)

CmldsCounted == cmlds \in CmldsType /\ cmlds.count \in 0..(AllowedLost + 1)

DelayInv == PortTyped /\ Asked /\ Measured /\ CmldsCounted

-----------------------------------------------------------------------------
\* The configuration is one of those that exist, the master has a distance.
LEMMA SetupIs == ASSUME PortTyped PROVE setup \in SetupType /\ Distance[master] \in Nat
  BY PathDelayAssumption DEF PortTyped

\* The invariant holds when the port is opened.
LEMMA DelayInit == PDInit => DelayInv
  <1> SUFFICES ASSUME PDInit PROVE DelayInv OBVIOUS
  <1>1. PortTyped BY DEF PDInit, PortTyped, Roles
  <1>2. Asked
    <2>1. queue = <<>> /\ asked = 0 /\ answers = {} /\ bias = 4 BY DEF PDInit
    <2>2. Kept(<<>>, 0, 4, 0) /\ Fresh(<<>>) BY NoneKept
    <2> QED BY <2>1, <2>2 DEF Asked, Sent
  <1>3. Measured
    <2>1. ts = NoTsproc /\ filter = filter_reset /\ window = <<>> BY DEF PDInit
    <2>2. Stamped(ts, window) BY <2>1 DEF Stamped, NoTsproc, Tsproc
    <2>3. Fits(setup.filter, filter, window) BY <2>1, ResetFits
    <2>4. TrueDelays(window) BY <2>1 DEF TrueDelays
    <2> QED BY <2>2, <2>3, <2>4 DEF Measured
  <1>4. CmldsCounted
    BY PathDelayAssumption DEF PDInit, CmldsCounted, CmldsType
  <1> QED BY <1>1, <1>2, <1>3, <1>4 DEF DelayInv

\* The delay of a reset filter.
LEMMA ResetMeasures ==
    ASSUME PortTyped', ts' = NoTsproc, filter' = filter_reset, window' = <<>>
    PROVE  Measured'
  <1>2. Stamped(ts, window)' BY DEF Stamped, NoTsproc, Tsproc
  <1>3. Fits(setup.filter, filter, window)'
    <2>1. Fits(setup'.filter, filter_reset, <<>>) BY ResetFits
    <2> QED BY <2>1
  <1>4. TrueDelays(window)' BY DEF TrueDelays
  <1> QED BY <1>2, <1>3, <1>4 DEF Measured

\* The answers in the network after a request.
LEMMA AnsweredSent ==
    ASSUME NEW n \in Nat, Sent(answers, n), Answered(n) PROVE Sent(answers', n + 1)
  <1>1. PICK M \in SUBSET Masters, late \in Jitter :
            answers' = {a \in answers : a.seq # (n + 1) % SequenceIds /\ a.seq # n % SequenceIds}
                       \cup {process_delay_req(m, n, late) : m \in M}
    BY DEF Answered
  <1> SUFFICES ASSUME NEW a \in answers'
               PROVE  \E m \in Nat : (n + 1) - SequenceIds <= m /\ m < n + 1 /\ AnswerTo(a, m)
    BY DEF Sent
  <1>2. CASE a \in answers /\ a.seq # n % SequenceIds
    <2>1. PICK m \in Nat : n - SequenceIds <= m /\ m < n /\ AnswerTo(a, m) BY <1>2 DEF Sent
    <2>2. m # n - SequenceIds
      <3> SUFFICES ASSUME m = n - SequenceIds PROVE FALSE OBVIOUS
      <3>1. m + SequenceIds = n BY IdsAre
      <3>2. n % SequenceIds = m % SequenceIds BY <3>1, NumberAgain
      <3>3. a.seq = m % SequenceIds BY <2>1 DEF AnswerTo
      <3> QED BY <1>2, <3>2, <3>3
    <2>3. (n + 1) - SequenceIds <= m /\ m < n + 1 BY <2>1, <2>2, IdsAre
    <2> QED BY <2>1, <2>3
  <1>3. CASE \E m \in M : a = process_delay_req(m, n, late)
    <2>1. PICK m \in M : a = process_delay_req(m, n, late) BY <1>3
    <2>2. a.from = m /\ a.seq = n % SequenceIds /\ a.t4 = n * Apart + Distance[m] + late
      BY <2>1 DEF process_delay_req
    <2>3. AnswerTo(a, n) BY <1>1, <2>2 DEF AnswerTo
    <2>4. (n + 1) - SequenceIds <= n /\ n < n + 1 BY IdsAre
    <2> QED BY <2>3, <2>4
  <1> QED BY <1>1, <1>2, <1>3

\* The handler of the delay timer.
LEMMA TimerMeasures == ASSUME DelayInv, DelayTimer PROVE DelayInv'
  <1> DEFINE expires == setup.timeout > 0 /\ role = "SLAVE" /\ counter + 1 >= setup.timeout
             q == delay_req_prune(Aged(queue))
             e == [seq |-> asked % SequenceIds, t3 |-> asked * Apart + bias, age |-> 0]
  <1>0. PortTyped /\ Asked /\ Measured /\ CmldsCounted BY DEF DelayInv
  <1>1. /\ asked' = asked + 1 /\ Answered(asked)
        /\ queue' = IF expires THEN <<>> ELSE <<e>> \o q
        /\ UNCHANGED <<setup, master, bias, cmlds>>
    BY DEF DelayTimer, port_delay_request
  <1>2. /\ role' = IF expires THEN "UNCALIBRATED" ELSE role
        /\ ts' = IF expires THEN tsproc_reset(ts, TRUE) ELSE ts
        /\ filter' = IF expires THEN filter_reset ELSE filter
        /\ window' = IF expires THEN <<>> ELSE window
    BY DEF DelayTimer, CountRequest
  <1>3. asked \in Nat /\ bias \in Int BY <1>0 DEF PortTyped
  <1>4. PortTyped' BY <1>0, <1>1, <1>2 DEF PortTyped, Roles
  <1>5. Asked'
    <2>1. Sent(answers', asked + 1) BY <1>0, <1>1, <1>3, AnsweredSent DEF Asked
    <2>2. Kept(Aged(queue), asked + 1, bias, 1) BY <1>0, <1>3, AgedKeeps DEF Asked
    <2>3. asked + 1 \in Nat BY <1>3
    <2>4. Kept(q, asked + 1, bias, 1) /\ Fresh(q) BY <1>3, <2>2, <2>3, PruneKeeps
    <2> HIDE DEF q
    <2>5. Kept(<<e>> \o q, asked + 1, bias, 0) /\ Fresh(<<e>> \o q) BY <1>3, <2>4, RequestKeeps
    <2>6. Kept(<<>>, asked + 1, bias, 0) /\ Fresh(<<>>) BY <1>3, <2>3, NoneKept
    <2> HIDE DEF e, expires
    <2>7. Kept(queue', asked + 1, bias, 0) /\ Fresh(queue') BY <1>1, <2>5, <2>6
    <2> QED BY <1>1, <2>1, <2>7 DEF Asked
  <1>6. Measured'
    <2>1. CASE expires BY <1>2, <1>4, <2>1, ResetMeasures DEF tsproc_reset
    <2>2. CASE ~expires
      <3>1. UNCHANGED <<ts, filter, window, setup, master, bias>> BY <1>1, <1>2, <2>2
      <3> QED BY <1>0, <3>1 DEF Measured, Stamped, TrueDelays
    <2> QED BY <2>1, <2>2
  <1>7. CmldsCounted' BY <1>0, <1>1 DEF CmldsCounted
  <1> QED BY <1>4, <1>5, <1>6, <1>7 DEF DelayInv

\* What an answer of the master tells is the delay to it.
LEMMA AnswerTells ==
    ASSUME DelayInv, NEW a \in answers, a.from = master, NEW i \in 1..Len(queue),
           queue[i].seq = a.seq
    PROVE  \E late \in Jitter : queue[i].t3 - a.t4 = bias - Distance[master] - late
  <1>0. PortTyped /\ Asked BY DEF DelayInv
  <1>1. asked \in Nat /\ bias \in Int BY <1>0 DEF PortTyped
  <1>2. PICK m \in Nat : asked - SequenceIds <= m /\ m < asked /\ AnswerTo(a, m)
    BY <1>0 DEF Asked, Sent
  <1> DEFINE k == RequestNumber(queue[i], asked)
  <1>3. /\ k \in Nat /\ queue[i].seq = k % SequenceIds /\ queue[i].t3 = k * Apart + bias
        /\ queue[i].age < StaleAfter /\ queue[i].age \in Nat
    <2>1. queue \in Seq(Request) BY <1>0 DEF Asked, Kept
    <2>3. queue[i] \in Request BY <2>1, ElementOfSeq
    <2>2. queue[i].age \in Nat BY <2>3 DEF Request
    <2> QED BY <1>0, <2>2 DEF Asked, Kept, Fresh
  <1>4. k = asked - 1 - queue[i].age BY DEF RequestNumber
  <1> HIDE DEF k
  <1>5. k < asked /\ k >= asked - StaleAfter BY <1>1, <1>3, <1>4, IdsAre
  <1>6. m % SequenceIds = k % SequenceIds BY <1>2, <1>3 DEF AnswerTo
  <1>7. m - k < SequenceIds /\ k - m < SequenceIds BY <1>1, <1>2, <1>3, <1>5, IdsAre
  <1>8. m = k BY <1>2, <1>3, <1>6, <1>7, NumberUnique
  <1>9. PICK late \in Jitter : a.t4 = m * Apart + Distance[a.from] + late BY <1>2 DEF AnswerTo
  <1>10. Distance[master] \in Nat /\ late \in Nat BY <1>0, SetupIs DEF Jitter
  <1>11. queue[i].t3 - a.t4 = bias - Distance[master] - late
    BY <1>1, <1>3, <1>8, <1>9, <1>10 DEF Apart
  <1> QED BY <1>11

\* The delay that tsproc_update_delay() gives to the filter.
LEMMA RawRight ==
    ASSUME NEW d \in Nat, NEW b \in Int, NEW late \in Jitter
    PROVE  LET t == tmv_div((d + b) - (b - d - late), 2)
           IN  t \in Int /\ t \in {d + j \div 2 : j \in Jitter}
  <1>1. (d + b) - (b - d - late) = 2 * d + late BY DEF Jitter
  <1>2. 2 * d + late >= 0 BY DEF Jitter
  <1>3. tmv_div(2 * d + late, 2) = (2 * d + late) \div 2 BY <1>2 DEF tmv_div
  <1>4. (2 * d + late) \div 2 = d + (late \div 2) BY DEF Jitter
  <1>5. late \div 2 \in Int BY DEF Jitter
  <1> QED BY <1>1, <1>3, <1>4, <1>5

\* The window slides over true delays.
LEMMA SlideTrue ==
    ASSUME NEW w \in Seq(Int), TrueDelays(w), Len(w) <= FilterLength, NEW v \in Int,
           v \in {Distance[master] + j \div 2 : j \in Jitter}
    PROVE  TrueDelays(Slide(w, v))
  <1> DEFINE D == {Distance[master] + j \div 2 : j \in Jitter}
             u == Slide(w, v)
  <1> HIDE DEF D
  <1>0. Len(w) \in Nat /\ DOMAIN w = 1..Len(w) BY LenProperties
  <1>1. v \in D /\ \A i \in 1..Len(w) : w[i] \in D BY <1>0 DEF D, TrueDelays
  <1>2. u \in Seq(Int) BY SlideIs
  <1>3. DOMAIN u = 1..Len(u) BY <1>2, LenProperties
  <1>4. CASE Len(w) < FilterLength
    <2>1. Len(u) = Len(w) + 1 /\ u[Len(w) + 1] = v /\ \A k \in 1..Len(w) : u[k] = w[k]
      BY <1>4, SlideIs
    <2> HIDE DEF u
    <2>2. \A i \in 1..Len(u) : u[i] \in D
      <3> TAKE i \in 1..Len(u)
      <3>1. CASE i = Len(w) + 1 BY <1>1, <2>1, <3>1
      <3>2. CASE i # Len(w) + 1
        <4>1. i \in 1..Len(w) BY <1>0, <2>1, <3>2
        <4> QED BY <1>1, <2>1, <4>1
      <3> QED BY <3>1, <3>2
    <2>3. TrueDelays(u) BY <1>3, <2>2 DEF TrueDelays, D
    <2> QED BY <2>3 DEF u
  <1>5. CASE Len(w) = FilterLength
    <2>1. Len(u) = Len(w) /\ u[Len(w)] = v /\ \A k \in 1..(Len(w) - 1) : u[k] = w[k + 1]
      BY <1>5, SlideIs
    <2> HIDE DEF u
    <2>2. \A i \in 1..Len(u) : u[i] \in D
      <3> TAKE i \in 1..Len(u)
      <3>1. CASE i = Len(w) BY <1>1, <2>1, <3>1
      <3>2. CASE i # Len(w)
        <4>0. i \in 1..Len(w) BY <2>1
        <4>1. i \in 1..(Len(w) - 1) /\ i + 1 \in 1..Len(w)
          <5> DEFINE n == Len(w)
          <5>1. n \in Nat /\ i \in 1..n /\ i # n BY <1>0, <3>2, <4>0
          <5> HIDE DEF n
          <5>2. i \in 1..(n - 1) /\ i + 1 \in 1..n BY <5>1
          <5> QED BY <5>2 DEF n
        <4> QED BY <1>1, <2>1, <4>1
      <3> QED BY <3>1, <3>2
    <2>3. TrueDelays(u) BY <1>3, <2>2 DEF TrueDelays, D
    <2> QED BY <2>3 DEF u
  <1>6. Len(w) < FilterLength \/ Len(w) = FilterLength
    <2> DEFINE n == Len(w)
    <2>1. n \in Nat /\ n <= FilterLength BY <1>0
    <2> HIDE DEF n
    <2>2. n < FilterLength \/ n = FilterLength BY <2>1, LengthIs
    <2> QED BY <2>2 DEF n
  <1> QED BY <1>4, <1>5, <1>6

\* tsproc_update_delay() with the time stamps of an answer.
LEMMA UpdateMeasures ==
    ASSUME DelayInv, NEW late \in Jitter, NEW x, x = bias - Distance[master] - late,
           tsproc_update_delay(tsproc_up_ts(ts, x)), UNCHANGED <<setup, master, bias>>
    PROVE  Measured'
  <1> DEFINE t == tsproc_up_ts(ts, x)
             raw == get_raw_delay(t)
             r == filter_sample(setup.filter, filter, raw)
  <1>0. PortTyped /\ Measured BY DEF DelayInv
  <1>1. bias \in Int /\ Distance[master] \in Nat BY <1>0, SetupIs DEF PortTyped
  <1>2. x \in Int BY <1>1 DEF Jitter
  <1>3. ts \in Tsproc BY <1>0 DEF Measured, Stamped
  <1>4. t \in Tsproc /\ t.up = x /\ t.down = ts.down /\ t.valid = ts.valid /\ t.delay = ts.delay
    BY <1>2, <1>3 DEF tsproc_up_ts, Tsproc
  <1> HIDE DEF t
  <1>5. CASE t.down = NoStamp \/ t.up = NoStamp
    <2>1. ts' = t /\ UNCHANGED <<filter, window>> BY <1>5 DEF tsproc_update_delay, t
    <2> QED BY <1>0, <1>4, <2>1 DEF Measured, Stamped, TrueDelays
  <1>6. CASE ~(t.down = NoStamp \/ t.up = NoStamp)
    <2>1. /\ ts' = [t EXCEPT !.delay = r.result, !.valid = TRUE]
          /\ filter' = r.f
          /\ window' = Slide(window, raw)
      BY <1>6 DEF tsproc_update_delay, t, Slide
    <2>2. t.down = Distance[master] + bias BY <1>0, <1>4, <1>6 DEF Measured, Stamped
    <2>3. raw = tmv_div((Distance[master] + bias) - (bias - Distance[master] - late), 2)
      BY <1>4, <2>2 DEF get_raw_delay
    <2>4. raw \in Int /\ raw \in {Distance[master] + j \div 2 : j \in Jitter}
      BY <1>1, <2>3, RawRight
    <2> HIDE DEF raw
    <2>5. Fits(setup.filter, filter, window) BY <1>0 DEF Measured
    <2>6. /\ Fits(setup.filter, r.f, Slide(window, raw))
          /\ r.result = Filtered(setup.filter, Slide(window, raw)) /\ r.result \in Int
      BY <2>4, <2>5, SampleRight
    <2> HIDE DEF r
    <2>7. window \in Seq(Int) /\ Len(window) <= FilterLength
      BY <2>5, LengthIs DEF Fits, Holds, FilterType
    <2>8. TrueDelays(Slide(window, raw)) BY <1>0, <2>4, <2>7, SlideTrue DEF Measured
    <2>9. /\ ts' \in Tsproc /\ ts'.down = t.down /\ ts'.delay = r.result /\ ts'.valid = TRUE
      BY <1>4, <2>1, <2>6 DEF Tsproc
    <2>10. Stamped(ts, window)' BY <2>1, <2>2, <2>6, <2>9 DEF Stamped
    <2>11. Fits(setup.filter, filter, window)' BY <2>1, <2>6
    <2>12. TrueDelays(window)' BY <2>1, <2>8 DEF TrueDelays
    <2> QED BY <2>10, <2>11, <2>12 DEF Measured
  <1> QED BY <1>5, <1>6

\* process_delay_resp()
LEMMA ResponseMeasures ==
    ASSUME DelayInv, NEW a \in answers, process_delay_resp(a) PROVE DelayInv'
  <1> DEFINE hits == {i \in DOMAIN queue : queue[i].seq = a.seq}
             i == CHOOSE j \in hits : \A k \in hits : j <= k
  <1>0. PortTyped /\ Asked /\ Measured /\ CmldsCounted BY DEF DelayInv
  <1>1. UNCHANGED <<setup, role, master, bias, asked, cmlds>> BY DEF process_delay_resp
  <1>2. answers' \subseteq answers BY DEF process_delay_resp
  <1>3. PortTyped' /\ CmldsCounted' BY <1>0, <1>1 DEF PortTyped, CmldsCounted
  <1>4. Sent(answers', asked) BY <1>0, <1>2 DEF Asked, Sent
  <1>5. CASE Measuring /\ a.from = master /\ hits # {}
    <2>1. /\ tsproc_update_delay(tsproc_up_ts(ts, queue[i].t3 - a.t4))
          /\ queue' = RemoveAt(queue, i)
      BY <1>5 DEF process_delay_resp
    <2>2. queue \in Seq(Request) BY <1>0 DEF Asked, Kept
    <2>3. DOMAIN queue = 1..Len(queue) BY <2>2, LenProperties
    <2>4. hits \in SUBSET Nat BY <2>3
    <2>5. i \in hits
      <3> HIDE DEF hits
      <3>1. \E j \in hits : \A k \in hits : j <= k BY <1>5, <2>4, Smallest
      <3> QED BY <3>1
    <2>6. i \in 1..Len(queue) /\ queue[i].seq = a.seq BY <2>3, <2>5
    <2> HIDE DEF i, hits
    <2>7. PICK late \in Jitter : queue[i].t3 - a.t4 = bias - Distance[master] - late
      BY <1>5, <2>6, AnswerTells
    <2>8. Measured' BY <1>1, <2>1, <2>7, UpdateMeasures
    <2>9. Kept(queue', asked, bias, 0) /\ Fresh(queue')
      BY <1>0, <2>1, <2>6, RemoveKeeps DEF Asked, PortTyped
    <2>10. Asked' BY <1>1, <1>4, <2>9 DEF Asked
    <2> QED BY <1>3, <2>8, <2>10 DEF DelayInv
  <1>6. CASE ~(Measuring /\ a.from = master /\ hits # {})
    <2>1. UNCHANGED <<ts, filter, window, queue>> BY <1>6 DEF process_delay_resp
    <2>2. Asked' BY <1>0, <1>1, <1>4, <2>1 DEF Asked
    <2>3. Measured' BY <1>0, <1>1, <2>1 DEF Measured, Stamped, TrueDelays
    <2> QED BY <1>3, <2>2, <2>3 DEF DelayInv
  <1> QED BY <1>5, <1>6

\* port_synchronize(), with a step of the clock and without.
LEMMA SyncMeasures == ASSUME DelayInv, port_synchronize PROVE DelayInv'
  <1> DEFINE t == tsproc_down_ts(ts, Distance[master] + bias)
             offset == t.down - DelayUsed(t)
  <1>0. PortTyped /\ Asked /\ Measured /\ CmldsCounted BY DEF DelayInv
  <1>1. UNCHANGED <<setup, master, asked, answers, filter, window, cmlds>> BY DEF port_synchronize
  <1>2. PICK servo \in (IF HasDelay(t) THEN {"UNLOCKED", "JUMP", "LOCKED"} ELSE {"UNLOCKED"}) :
            /\ role' = IF servo = "LOCKED" THEN "SLAVE" ELSE "UNCALIBRATED"
            /\ IF servo = "JUMP"
               THEN bias' = bias - offset /\ ts' = tsproc_reset(t, FALSE) /\ queue' = <<>>
               ELSE /\ ts' = t /\ UNCHANGED bias
                    /\ queue' = IF role = "SLAVE" /\ role' = "UNCALIBRATED" THEN <<>> ELSE queue
    BY DEF port_synchronize, flush_delay_req
  <1>3. bias \in Int /\ Distance[master] \in Nat /\ asked \in Nat BY <1>0, SetupIs DEF PortTyped
  <1>4. ts \in Tsproc BY <1>0 DEF Measured, Stamped
  <1>5. /\ t \in Tsproc /\ t.down = Distance[master] + bias /\ t.up = ts.up
        /\ t.valid = ts.valid /\ t.delay = ts.delay
    BY <1>3, <1>4 DEF tsproc_down_ts, Tsproc
  <1> HIDE DEF t
  <1>6. CmldsCounted' BY <1>0, <1>1 DEF CmldsCounted
  <1>7. CASE servo = "JUMP"
    <2>1. HasDelay(t) BY <1>2, <1>7
    <2>2. DelayUsed(t) \in Int
      <3>1. CASE setup.mode = "FILTER" BY <1>5, <3>1 DEF DelayUsed, Tsproc
      <3>2. CASE setup.mode # "FILTER"
        <4>1. t.up # NoStamp BY <2>1, <3>2 DEF HasDelay
        <4>2. t.up \in Int /\ t.down \in Int BY <1>3, <1>5, <4>1 DEF Tsproc
        <4>3. tmv_div(t.down - t.up, 2) \in Int BY <4>2, DivIs
        <4> QED BY <3>2, <4>3 DEF DelayUsed, get_raw_delay
      <3> QED BY <3>1, <3>2
    <2>3. bias' \in Int BY <1>2, <1>3, <1>5, <1>7, <2>2
    <2>4. PortTyped' BY <1>0, <1>1, <1>2, <2>3 DEF PortTyped, Roles
    <2>5. Asked'
      <3>1. Kept(<<>>, asked, bias', 0) /\ Fresh(<<>>) BY <1>3, <2>3, NoneKept
      <3> QED BY <1>0, <1>1, <1>2, <1>7, <3>1 DEF Asked
    <2>6. ts' \in Tsproc /\ ts'.down = NoStamp /\ ts'.valid = ts.valid /\ ts'.delay = ts.delay
      BY <1>2, <1>5, <1>7 DEF tsproc_reset, Tsproc
    <2>7. Measured' BY <1>0, <1>1, <2>6 DEF Measured, Stamped, TrueDelays
    <2> QED BY <1>6, <2>4, <2>5, <2>7 DEF DelayInv
  <1>8. CASE servo # "JUMP"
    <2>1. ts' = t /\ bias' = bias /\ (queue' = <<>> \/ queue' = queue) BY <1>2, <1>8
    <2>2. PortTyped' BY <1>0, <1>1, <1>2, <2>1 DEF PortTyped, Roles
    <2>3. Asked'
      <3>1. Kept(<<>>, asked, bias, 0) /\ Fresh(<<>>) BY <1>3, NoneKept
      <3> QED BY <1>0, <1>1, <2>1, <3>1 DEF Asked
    <2>4. Measured' BY <1>0, <1>1, <1>5, <2>1 DEF Measured, Stamped, TrueDelays
    <2> QED BY <1>6, <2>2, <2>3, <2>4 DEF DelayInv
  <1> QED BY <1>7, <1>8

\* Another master, or the same one again.
LEMMA SelectMeasures == ASSUME DelayInv, NEW m \in Masters, Select(m) PROVE DelayInv'
  <1>0. PortTyped /\ Asked /\ Measured /\ CmldsCounted BY DEF DelayInv
  <1>1. /\ master' = m /\ role' = "UNCALIBRATED" /\ (queue' = <<>> \/ queue' = queue)
        /\ UNCHANGED <<setup, bias, asked, answers, cmlds>>
    BY DEF Select
  <1>2. PortTyped' /\ CmldsCounted' BY <1>0, <1>1 DEF PortTyped, Roles, CmldsCounted
  <1>3. Asked'
    <2>1. Kept(<<>>, asked, bias, 0) /\ Fresh(<<>>) BY <1>0, NoneKept DEF PortTyped
    <2> QED BY <1>0, <1>1, <2>1 DEF Asked
  <1>4. CASE m = master
    <2>1. UNCHANGED <<ts, filter, window, setup, bias, master>> BY <1>1, <1>4 DEF Select
    <2>2. Measured' BY <1>0, <2>1 DEF Measured, Stamped, TrueDelays
    <2> QED BY <1>2, <1>3, <2>2 DEF DelayInv
  <1>5. CASE m # master
    <2>1. ts' = NoTsproc /\ filter' = filter_reset /\ window' = <<>>
      BY <1>5 DEF Select, tsproc_reset
    <2> QED BY <1>2, <1>3, <2>1, ResetMeasures DEF DelayInv
  <1> QED BY <1>4, <1>5

\* The port is disabled or loses its master.
LEMMA LoseMeasures ==
    ASSUME DelayInv, SendFails \/ Recover \/ Deselect PROVE DelayInv'
  <1>0. PortTyped /\ Asked /\ Measured /\ CmldsCounted BY DEF DelayInv
  <1>1. /\ role' \in Roles /\ UNCHANGED <<setup, master, bias, asked, answers, ts, filter, window, cmlds>>
        /\ queue' \in {<<>>, queue, delay_req_prune(queue)}
    BY DEF SendFails, Recover, Deselect, e2e, Roles
  <1>2. PortTyped' /\ CmldsCounted' BY <1>0, <1>1 DEF PortTyped, CmldsCounted
  <1>3. Measured' BY <1>0, <1>1 DEF Measured, Stamped, TrueDelays
  <1>4. Asked'
    <2>1. Kept(<<>>, asked, bias, 0) /\ Fresh(<<>>) BY <1>0, NoneKept DEF PortTyped
    <2>2. Kept(delay_req_prune(queue), asked, bias, 0) /\ Fresh(delay_req_prune(queue))
      BY <1>0, PruneKeeps DEF PortTyped, Asked
    <2> QED BY <1>0, <1>1, <2>1, <2>2 DEF Asked
  <1> QED BY <1>2, <1>3, <1>4 DEF DelayInv

\* The common service does not touch the delays that the port measures.
LEMMA CmldsMeasures ==
    ASSUME DelayInv, port_cmlds_timeout \/ process_cmlds \/ CmldsAgain \/ ServiceRestarts
    PROVE  DelayInv'
  <1>0. PortTyped /\ Asked /\ Measured /\ CmldsCounted BY DEF DelayInv
  <1>1. UNCHANGED <<setup, role, master, bias, asked, queue, answers, ts, filter, window>>
    BY DEF port_cmlds_timeout, process_cmlds, CmldsAgain, ServiceRestarts, e2e
  <1>2. PortTyped' /\ Asked' /\ Measured'
    BY <1>0, <1>1 DEF PortTyped, Asked, Measured, Stamped, TrueDelays
  <1>c. AllowedLost \in Nat /\ cmlds \in CmldsType /\ cmlds.count \in 0..(AllowedLost + 1)
    BY <1>0, PathDelayAssumption DEF CmldsCounted
  <1>3. CASE process_cmlds \/ CmldsAgain \/ ServiceRestarts
    <2> SUFFICES CmldsCounted' BY <1>2 DEF DelayInv
    <2>1. CASE process_cmlds
      <3>1. cmlds' = [cmlds EXCEPT !.capable = TRUE, !.count = 0] BY <2>1 DEF process_cmlds
      <3>2. cmlds' \in CmldsType /\ cmlds'.count = 0 BY <1>c, <3>1 DEF CmldsType
      <3> QED BY <1>c, <3>2 DEF CmldsCounted
    <2>2. CASE CmldsAgain
      BY <1>c, <2>2 DEF CmldsAgain, CmldsCounted, CmldsType
    <2>3. CASE ServiceRestarts
      BY <1>c, <2>3 DEF ServiceRestarts, CmldsCounted
    <2> QED BY <1>3, <2>1, <2>2, <2>3
  <1>4. CASE port_cmlds_timeout
    <2> DEFINE aged == [cmlds EXCEPT !.age = IF @ < Never THEN @ + 1 ELSE @]
               older == [service EXCEPT !.left = IF @ > 0 THEN @ - 1 ELSE 0]
               first == IF RenewDue(aged) THEN Renew(aged, older) ELSE [c |-> aged, s |-> older]
               count == first.c.count + 1
               lost == count > AllowedLost
               second == IF lost THEN Renew(first.c, first.s) ELSE first
    <2>0. Never \in Nat BY PathDelayAssumption DEF Never
    <2>1. aged \in CmldsType /\ aged.count = cmlds.count BY <1>c, <2>0 DEF CmldsType
    <2>2. cmlds' = [second.c EXCEPT !.count = IF lost THEN AllowedLost + 1 ELSE count,
                                    !.capable = IF lost THEN FALSE ELSE @]
      BY <1>4 DEF port_cmlds_timeout
    <2> HIDE DEF aged, older
    <2>3. ASSUME NEW c \in CmldsType, NEW s
          PROVE  Renew(c, s).c \in CmldsType /\ Renew(c, s).c.count = c.count
      BY DEF Renew, CmldsType
    <2>4. first.c \in CmldsType /\ first.c.count = cmlds.count
      <3>1. CASE RenewDue(aged) BY <2>1, <2>3, <3>1
      <3>2. CASE ~RenewDue(aged) BY <2>1, <3>2
      <3> QED BY <3>1, <3>2
    <2> HIDE DEF first
    <2>5. second.c \in CmldsType
      <3>1. CASE lost BY <2>3, <2>4, <3>1
      <3>2. CASE ~lost BY <2>4, <3>2
      <3> QED BY <3>1, <3>2
    <2> DEFINE n == IF lost THEN AllowedLost + 1 ELSE count
               k == second.c
               b == IF lost THEN FALSE ELSE k.capable
    <2>6. n \in 0..(AllowedLost + 1) BY <1>c, <2>4
    <2>7. cmlds' = [k EXCEPT !.count = n, !.capable = b] BY <2>2
    <2>8. k \in CmldsType BY <2>5
    <2> HIDE DEF n, k, lost
    <2>9. b \in BOOLEAN BY <2>8 DEF CmldsType
    <2> HIDE DEF b
    <2>10. n \in Nat BY <1>c, <2>6
    <2>11. cmlds' \in CmldsType /\ cmlds'.count = n BY <2>7, <2>8, <2>9, <2>10 DEF CmldsType
    <2>12. CmldsCounted' BY <2>6, <2>11 DEF CmldsCounted
    <2> QED BY <1>2, <2>12 DEF DelayInv
  <1> QED BY <1>3, <1>4

\* Every step keeps the invariant.
LEMMA DelayStep == ASSUME DelayInv, [PDNext]_pdvars PROVE DelayInv'
  <1>1. CASE UNCHANGED pdvars
    <2>1. UNCHANGED <<setup, role, master, bias, asked, queue, answers, ts, filter, window, cmlds>>
      BY <1>1 DEF pdvars, e2e
    <2> QED
      BY <2>1 DEF DelayInv, PortTyped, Asked, Measured, Stamped, TrueDelays, CmldsCounted
  <1>2. CASE PDNext
    BY <1>2, TimerMeasures, LoseMeasures, ResponseMeasures, SyncMeasures, SelectMeasures,
       CmldsMeasures DEF PDNext
  <1> QED BY <1>1, <1>2

\* The invariant says that the delay in use is right.
LEMMA DelayImplies == DelayInv => PathDelayRight
  <1> SUFFICES ASSUME DelayInv PROVE PathDelayRight OBVIOUS
  <1>0. PortTyped /\ Asked /\ Measured /\ CmldsCounted BY DEF DelayInv
  <1>1. setup \in SetupType BY <1>0, SetupIs
  <1>2. Len(queue) <= StaleAfter /\ \A i \in DOMAIN queue : queue[i].age \in 0..StaleAfter
    BY <1>0, QueueShort DEF Asked, PortTyped
  <1>3. filter \in FilterType /\ Fits(setup.filter, filter, window)
    BY <1>0 DEF Measured, Fits, Holds
  <1>4. filter.cnt \in 0..FilterLength /\ filter.index \in 0..(FilterLength - 1)
    BY <1>3 DEF FilterType, Slots
  <1>5. Len(filter.order) \in {0, filter.cnt}
    <2>1. Len(<<>>) = 0 OBVIOUS
    <2>2. CASE setup.filter = "MOVING_MEDIAN" BY <1>3, <2>2 DEF Fits, Sorted
    <2>3. CASE setup.filter # "MOVING_MEDIAN" BY <1>3, <2>1, <2>3 DEF Fits
    <2> QED BY <2>2, <2>3
  <1>6. PDTypeOK BY <1>0, <1>2, <1>4, <1>5 DEF PDTypeOK, PortTyped, CmldsCounted
  <1>7. DelayRight BY <1>0 DEF Measured, TrueDelays, DelayRight
  <1>8. FilterRight
    <2>1. setup.filter \in {"MOVING_AVERAGE", "MOVING_MEDIAN"} BY <1>1 DEF SetupType
    <2>2. ts.valid => ts.delay = Filtered(setup.filter, window) BY <1>0 DEF Measured, Stamped
    <2> QED BY <2>1, <2>2 DEF FilterRight, Filtered
  <1> QED BY <1>6, <1>7, <1>8 DEF PathDelayRight

\* Every delay that process_delay_resp() gives to the filter is the delay to the
\* present master, although the clock was stepped, the master changed and answers
\* were late, doubled or lost in between; and what mave.c or mmedian.c make of it
\* is the mean or the median of the last FilterLength delays, for any length of the
\* filter, any masters, any number of requests and of troubles.
THEOREM PathDelayAlwaysRight == PDSpec => []PathDelayRight
  <1>1. DelayInv /\ [PDNext]_pdvars => DelayInv' BY DelayStep
  <1> QED BY <1>1, DelayInit, DelayImplies, PTL DEF PDSpec

\* The same for the client port as a whole, which foreign masters reach.
COROLLARY ClientPathDelayRight == FairSpec => []PathDelayRight
  <1>1. Init => DelayInv
    BY DelayInit DEF Init
  <1>2. DelayInv /\ [Next]_allvars => DelayInv'
    <2> SUFFICES ASSUME DelayInv, [Next]_allvars PROVE DelayInv'
      OBVIOUS
    <2>1. [PDNext]_pdvars
      BY DEF Next, allvars
    <2> QED
      BY <2>1, DelayStep
  <1> QED
    BY <1>1, <1>2, DelayImplies, PTL DEF FairSpec, Spec
=============================================================================
