---------------------------- MODULE Phc2sys_proof ----------------------------
(****************************************************************************)
(* Proofs about Phc2sys: the types, the freshness of the UTC offset, that   *)
(* what the program knows of the ports follows what ptp4l does, and the     *)
(* choice of the sources.                                                   *)
(****************************************************************************)
EXTENDS Phc2sys, FiniteSetTheorems, WellFoundedInduction, TLAPS

ClockType == [state : States, new_state : States \cup {None}, phc : Phcs \cup {SysPhc}]

\* struct ptp4l with its queues.
ServerType ==
    [alive : BOOLEAN, state : [Ports -> Reported], phc : [Ports -> Phcs],
     props : 0..MaxChanges, pending : Seq(Requests), inbox : Seq(Notes \cup Answers),
     subscribed : 0..Lifetime]

Polling == pc \in {"renew", "utc", "drain", "force"}
Reiniting == pc \in {"properties", "hwclock"}
Places == {"renew", "utc", "drain", "force", "properties", "hwclock", "reconfigure",
           "reconfigure_domain", "select", "update", "sleep"}

\* The types, and where the program can be with which domain and clock in hand.
TypeInv ==
    /\ conf \in Confs
    /\ ptp \in [Instances -> ServerType]
    /\ dom \in [Doms -> DomainType]
    /\ pc \in Places /\ at \in 1..RT /\ clk \in Clocks \cup {AboveAll} /\ changed \in BOOLEAN
    /\ changes \in 0..MaxChanges
    /\ unheard \subseteq Instances /\ found \subseteq Instances /\ missed \subseteq Instances
    /\ Waiting \/ pc \in {"reconfigure", "reconfigure_domain"} => at \in Instances
    /\ Reiniting => clk \in Devices /\ dom[at].clock[clk].new_state # None
    /\ \A d \in Instances : ptp[d].props <= changes /\ Len(ptp[d].inbox) <= MaxInbox

-----------------------------------------------------------------------------
\* What the constants are.
LEMMA Constants ==
    /\ NDomains \in Nat /\ NDomains >= 1 /\ RT = NDomains + 1 /\ Instances = 1..NDomains
    /\ Lifetime \in Nat /\ Never = Lifetime + 1 /\ Interval \in Nat
    /\ MaxChanges \in Nat /\ MaxInbox \in Nat /\ MaxInbox >= 1
  <1>1. Interval \in Nat /\ UPDATES_PER_SUBSCRIPTION \in Nat
    BY Phc2sysAssumption
  <1>2. Lifetime \in Nat
    BY <1>1 DEF Lifetime
  <1> QED
    BY <1>1, <1>2, Phc2sysAssumption DEF RT, Instances, Never

\* A set of numbers that is not empty has a smallest.
LEMMA Smallest ==
    ASSUME NEW S \in SUBSET Nat, S # {}
    PROVE  Min(S) \in S /\ \A y \in S : Min(S) <= y
  <1> DEFINE R == OpToRel(<, Nat)
  <1>w. IsWellFoundedOn(R, Nat)
    BY NatLessThanWellFounded
  <1> HIDE DEF R
  <1>1. PICK x \in S : \A y \in S : ~(<<y, x>> \in R)
    BY <1>w, WFMin, Zenon
  <1>2. \A y \in S : x =< y
    <2> TAKE y \in S
    <2>1. y < x => <<y, x>> \in R
      <3>1. R = {ss \in Nat \X Nat : ss[1] < ss[2]}
        BY DEF OpToRel, R
      <3> QED
        BY <3>1
    <2> QED
      BY <1>1, <2>1
  <1> QED
    BY <1>2 DEF Min

\* A set of states has one of the highest rank, so a clock has a state.
LEMMA Highest ==
    ASSUME NEW S \in SUBSET States, S # {}
    PROVE  (CHOOSE s \in S : \A t \in S : Rank(s) >= Rank(t)) \in S
  <1>1. Rank("DISABLED") = 3 /\ Rank("MASTER") = 6 /\ Rank("UNCALIBRATED") = 8 /\ Rank("SLAVE") = 9
    BY DEF Rank
  <1>2. \E s \in S : \A t \in S : Rank(s) >= Rank(t)
    <2>1. CASE "SLAVE" \in S
      BY <2>1, <1>1 DEF States
    <2>2. CASE "SLAVE" \notin S /\ "UNCALIBRATED" \in S
      BY <2>2, <1>1 DEF States
    <2>3. CASE "SLAVE" \notin S /\ "UNCALIBRATED" \notin S /\ "MASTER" \in S
      BY <2>3, <1>1 DEF States
    <2>4. CASE "SLAVE" \notin S /\ "UNCALIBRATED" \notin S /\ "MASTER" \notin S
      <3>1. S = {"DISABLED"}
        BY <2>4 DEF States
      <3> QED
        BY <3>1, <1>1
    <2> QED
      BY <2>1, <2>2, <2>3, <2>4
  <1> QED
    BY <1>2

\* clock_compute_state() returns a state.
LEMMA Computed ==
    ASSUME NEW port \in [Ports -> States], NEW c
    PROVE  clock_compute_state(port, c) \in States
  <1> DEFINE mine == {"DISABLED"} \cup {port[p] : p \in {q \in Ports : conf.clockOf[q] = c}}
  <1>1. mine \in SUBSET States /\ mine # {}
    BY DEF States
  <1>2. clock_compute_state(port, c) = CHOOSE s \in mine : \A t \in mine : Rank(s) >= Rank(t)
    BY DEF clock_compute_state
  <1> HIDE DEF mine
  <1> QED
    BY <1>1, <1>2, Highest

\* port_state_normalize() returns the states a clock may have.
LEMMA Normalized == ASSUME NEW s \in Reported PROVE port_state_normalize(s) \in States
  BY DEF Reported, States, port_state_normalize

\* A configuration is what Phc2sysAssumption says.
LEMMA Configured ==
    ASSUME conf \in Confs
    PROVE  /\ conf.clockOf \in [Ports -> Ports] /\ conf.phc \in [Ports -> Phcs]
           /\ Devices \subseteq Ports /\ Devices \subseteq Clocks
  BY Phc2sysAssumption DEF ConfType, Devices, Clocks

\* The port that speaks for a clock is one of its ports.
LEMMA Spokesman ==
    ASSUME conf \in Confs, NEW c \in Devices
    PROVE  PortOf(c) \in Ports /\ conf.clockOf[PortOf(c)] = c
  <1> DEFINE S == {p \in Ports : conf.clockOf[p] = c}
  <1>1. S # {} /\ S \subseteq 1..2
    BY DEF Devices, Ports
  <1>2. \E x \in S : \A y \in S : x >= y
    <2>1. CASE 2 \in S
      BY <2>1, <1>1
    <2>2. CASE 2 \notin S
      BY <2>2, <1>1
    <2> QED
      BY <2>1, <2>2
  <1>3. Max(S) \in S
    BY <1>2 DEF Max
  <1> QED
    BY <1>3 DEF PortOf

-----------------------------------------------------------------------------
\* The state that a clock has, or will have once it is applied.
Meant(D, c) ==
    IF D.clock[c].new_state # None THEN D.clock[c].new_state ELSE D.clock[c].state

\* The clocks of a domain mean what follows from the states of its ports.
Meaningful(D) == \A c \in Devices : clock_compute_state(D.port, c) = Meant(D, c)

\* What recv_subscribed() does with a domain: whenever a state is to be applied,
\* or another version of the properties wanted, state_changed says so.
LEMMA Received ==
    ASSUME conf \in Confs, NEW D \in DomainType, NEW m \in Notes
    PROVE  LET R == recv_subscribed(D, m)
           IN  /\ R \in DomainType
               /\ R.port = [D.port EXCEPT ![m.port] = port_state_normalize(m.state)]
               /\ R.offset = D.offset /\ R.age = D.age
               /\ R.agent_subscribed = D.agent_subscribed
               /\ D.state_changed => R.state_changed
               /\ R.want = D.want \/ (R.want = m.props /\ R.state_changed)
               /\ \A c \in Devices :
                      R.clock[c].new_state = D.clock[c].new_state
                      \/ (R.clock[c].new_state # None /\ R.state_changed)
               /\ Meaningful(D) => Meaningful(R)
  <1> DEFINE s == port_state_normalize(m.state)
             c == conf.clockOf[m.port]
             port == [D.port EXCEPT ![m.port] = s]
             new == clock_compute_state(port, c)
             K == [D.clock EXCEPT ![c] = [D.clock[c] EXCEPT !.new_state = new]]
             R == recv_subscribed(D, m)
  <1>1. m.port \in Ports /\ m.state \in Reported /\ m.props \in 0..MaxChanges /\ s \in States
    BY Normalized DEF Notes
  <1>2. c \in Ports /\ c \in Clocks /\ c \in Devices /\ conf.clockOf \in [Ports -> Ports]
    BY <1>1, Configured DEF Devices, Clocks
  <1>3. D.port \in [Ports -> States] /\ D.clock \in [Clocks -> ClockType]
    BY DEF DomainType, ClockType
  <1>4. port \in [Ports -> States]
    BY <1>1, <1>3
  <1>5. new \in States /\ new # None
    BY <1>4, Computed, NoneAssumption
  <1>6. K \in [Clocks -> ClockType] /\ K[c].new_state = new /\ K[c].state = D.clock[c].state
        /\ \A e \in Clocks : e # c => K[e] = D.clock[e]
    BY <1>2, <1>3, <1>5 DEF ClockType
  <1>7. R = IF D.port[m.port] = s THEN D
            ELSE IF D.clock[c].state = new /\ D.clock[c].new_state = None
            THEN [D EXCEPT !.port = port]
            ELSE [D EXCEPT !.port = port, !.clock = K, !.state_changed = TRUE, !.want = m.props]
    <2>1. [D EXCEPT !.port = port, !.clock[c].new_state = new, !.state_changed = TRUE,
                    !.want = m.props]
          = [D EXCEPT !.port = port, !.clock = K, !.state_changed = TRUE, !.want = m.props]
      BY <1>2 DEF DomainType
    <2> QED
      BY <2>1 DEF recv_subscribed
  <1>8. ASSUME NEW e \in Devices, e # c
        PROVE  clock_compute_state(port, e) = clock_compute_state(D.port, e)
    <2>1. \A q \in Ports : conf.clockOf[q] = e => port[q] = D.port[q]
      BY <1>8, <1>1, <1>3
    <2>2. {port[p] : p \in {q \in Ports : conf.clockOf[q] = e}}
            = {D.port[p] : p \in {q \in Ports : conf.clockOf[q] = e}}
      BY <2>1
    <2> HIDE DEF port
    <2> QED
      BY <2>2 DEF clock_compute_state
  <1>9. D.port[m.port] = s => port = D.port
    BY <1>3, <1>1
  <1>d. \A e \in Devices : e \in Clocks
    BY Configured
  <1> HIDE DEF s, c, port, new, K, R
  <1> SUFFICES /\ R \in DomainType
               /\ R.port = port
               /\ R.offset = D.offset /\ R.age = D.age
               /\ R.agent_subscribed = D.agent_subscribed
               /\ D.state_changed => R.state_changed
               /\ R.want = D.want \/ (R.want = m.props /\ R.state_changed)
               /\ \A e \in Devices :
                      R.clock[e].new_state = D.clock[e].new_state
                      \/ (R.clock[e].new_state # None /\ R.state_changed)
               /\ Meaningful(D) => Meaningful(R)
    BY DEF R, port, s
  <1>10. CASE D.port[m.port] = s
    BY <1>10, <1>7, <1>9
  <1>11. CASE D.port[m.port] # s /\ D.clock[c].state = new /\ D.clock[c].new_state = None
    <2>1. R = [D EXCEPT !.port = port]
      BY <1>11, <1>7
    <2>2. /\ R \in DomainType /\ R.port = port /\ R.clock = D.clock
          /\ R.offset = D.offset /\ R.age = D.age /\ R.want = D.want
          /\ R.agent_subscribed = D.agent_subscribed /\ R.state_changed = D.state_changed
      BY <2>1, <1>4 DEF DomainType
    <2>3. Meaningful(D) => Meaningful(R)
      BY <2>2, <1>8, <1>11 DEF Meaningful, Meant, new
    <2> QED
      BY <2>2, <2>3
  <1>12. CASE D.port[m.port] # s /\ ~(D.clock[c].state = new /\ D.clock[c].new_state = None)
    <2>1. R = [D EXCEPT !.port = port, !.clock = K, !.state_changed = TRUE, !.want = m.props]
      BY <1>12, <1>7
    <2>2. /\ R \in DomainType /\ R.port = port /\ R.clock = K
          /\ R.offset = D.offset /\ R.age = D.age /\ R.want = m.props
          /\ R.agent_subscribed = D.agent_subscribed /\ R.state_changed
      BY <2>1, <1>4, <1>6, <1>1 DEF DomainType, ClockType
    <2>3. Meaningful(D) => Meaningful(R)
      BY <2>2, <1>8, <1>6, <1>5, <1>d DEF Meaningful, Meant, new
    <2>4. \A e \in Devices :
             R.clock[e].new_state = D.clock[e].new_state
             \/ (R.clock[e].new_state # None /\ R.state_changed)
      BY <2>2, <1>5, <1>6, <1>d
    <2> QED
      BY <2>2, <2>3, <2>4
  <1> QED
    BY <1>10, <1>11, <1>12

\* clock_reinit() and what follows apply the state that was meant.
LEMMA ReinitApplies ==
    ASSUME conf \in Confs, NEW D \in DomainType, NEW phc \in Phcs \cup {SysPhc},
           clk \in Devices, D.clock[clk].new_state # None
    PROVE  LET R == Reinited(D, phc)
           IN  /\ R \in DomainType
               /\ R.port = D.port /\ R.want = D.want /\ R.offset = D.offset /\ R.age = D.age
               /\ R.agent_subscribed = D.agent_subscribed /\ R.state_changed = D.state_changed
               /\ R.clock[clk].new_state = None
               /\ \A c \in Devices : c # clk => R.clock[c] = D.clock[c]
               /\ Meaningful(D) => Meaningful(R)
  <1> DEFINE E == clock_reinit(D, clk, phc)
             k == [state |-> D.clock[clk].new_state, new_state |-> None, phc |-> phc]
             K == [D.clock EXCEPT ![clk] = k]
             R == Reinited(D, phc)
  <1>1. clk \in Clocks /\ D.clock \in [Clocks -> ClockType] /\ \A e \in Devices : e \in Clocks
    BY Configured DEF DomainType, ClockType
  <1>2. k \in ClockType /\ k.new_state = None /\ k.state = Meant(D, clk)
    BY <1>1 DEF ClockType, Meant
  <1>3. K \in [Clocks -> ClockType] /\ K[clk] = k /\ \A e \in Clocks : e # clk => K[e] = D.clock[e]
    BY <1>1, <1>2
  <1>4. R = [D EXCEPT !.clock = K]
    <2> DEFINE J == [D.clock EXCEPT ![clk] = [D.clock[clk] EXCEPT !.phc = phc]]
               l == [E.clock[clk] EXCEPT !.state = E.clock[clk].new_state, !.new_state = None]
    <2>1. E = [D EXCEPT !.clock = J]
      BY DEF clock_reinit, DomainType
    <2> HIDE DEF E
    <2>2. E.clock = J
      BY <2>1 DEF DomainType
    <2>3. R = [E EXCEPT !.clock = [E.clock EXCEPT ![clk] = l]]
      BY <2>1 DEF Reinited, TakeState, E, DomainType
    <2>4. E.clock[clk] = [D.clock[clk] EXCEPT !.phc = phc]
      BY <2>2, <1>1
    <2>5. l = k
      <3> DEFINE r == D.clock[clk]
                 t == E.clock[clk]
      <3>1. r \in ClockType /\ t = [r EXCEPT !.phc = phc]
        BY <2>4, <1>1
      <3>2. l = [t EXCEPT !.state = t.new_state, !.new_state = None]
        OBVIOUS
      <3>3. k = [state |-> r.new_state, new_state |-> None, phc |-> phc]
        OBVIOUS
      <3> HIDE DEF r, t, l, k
      <3>4. t = [state |-> r.state, new_state |-> r.new_state, phc |-> phc]
        BY <3>1 DEF ClockType
      <3>5. t \in ClockType /\ t.new_state = r.new_state /\ t.phc = phc
        BY <3>1, <3>4 DEF ClockType
      <3>6. l = [state |-> t.new_state, new_state |-> None, phc |-> t.phc]
        BY <3>2, <3>5 DEF ClockType
      <3> QED
        BY <3>3, <3>5, <3>6
    <2>6. [E.clock EXCEPT ![clk] = l] = K
      BY <2>2, <2>5, <1>1
    <2> HIDE DEF K, R, J, l
    <2> QED
      BY <2>1, <2>3, <2>6 DEF DomainType
  <1> HIDE DEF K, R, k
  <1>5. /\ R \in DomainType
        /\ R.port = D.port /\ R.want = D.want /\ R.offset = D.offset /\ R.age = D.age
        /\ R.agent_subscribed = D.agent_subscribed /\ R.state_changed = D.state_changed
        /\ R.clock = K
    BY <1>3, <1>4 DEF DomainType, ClockType
  <1>6. Meaningful(D) => Meaningful(R)
    BY <1>5, <1>3, <1>2, <1>1 DEF Meaningful, Meant
  <1>7. R.clock[clk].new_state = None /\ \A c \in Devices : c # clk => R.clock[c] = D.clock[c]
    BY <1>5, <1>3, <1>2, <1>1
  <1> QED
    BY <1>5, <1>6, <1>7 DEF R

-----------------------------------------------------------------------------
\* What an answer to the present call carries.
LEMMA AnswerFits ==
    ASSUME TypeInv, NEW m \in Answers, m.to = Asks, Waiting
    PROVE  /\ m.kind = "ANSWER" /\ m # None
           /\ pc \in {"utc", "force"} => m.to[1] = "UTC" /\ m.props \in 0..MaxChanges
           /\ pc = "properties" => m.to = <<"PROPERTIES", PortOf(clk)>> /\ m.state \in Reported
           /\ pc = "hwclock" => m.phc \in Phcs
  <1>1. m.kind = "ANSWER" /\ m # None
    BY NoneAssumption DEF Answers
  <1>2. ASSUME pc \in {"utc", "force"} PROVE m.to[1] = "UTC" /\ m.props \in 0..MaxChanges
    <2>1. m.to = <<"UTC", 0>>
      BY <1>2 DEF Asks
    <2> QED
      BY <2>1 DEF Answers
  <1>3. ASSUME pc = "properties"
        PROVE  m.to = <<"PROPERTIES", PortOf(clk)>> /\ m.state \in Reported
    <2>1. m.to = <<"PROPERTIES", PortOf(clk)>>
      BY <1>3 DEF Asks
    <2>2. m.to[1] = "PROPERTIES"
      BY <2>1
    <2> QED
      BY <2>1, <2>2 DEF Answers
  <1>4. ASSUME pc = "hwclock" PROVE m.phc \in Phcs
    <2>1. m.to = <<"HWCLOCK", PortOf(clk)>>
      BY <1>4 DEF Asks
    <2>2. m.to[1] = "HWCLOCK"
      BY <2>1
    <2> QED
      BY <2>2 DEF Answers
  <1> QED
    BY <1>1, <1>2, <1>3, <1>4

\* The turn goes on with the next domain, or with what follows the last.
LEMMA Onward ==
    ASSUME TypeInv, at \in Instances, NEW flag \in BOOLEAN, NextDomain(flag)
    PROVE  /\ changed' = flag
           /\ \/ at' = at + 1 /\ at' \in Instances /\ pc' \in {"renew", "drain"}
              \/ at = NDomains /\ at' = 1 /\ pc' \in {"reconfigure", "update"}
  <1>1. at + 1 \notin Instances => at = NDomains
    BY Constants
  <1> QED
    BY <1>1 DEF NextDomain, Goto

\* The domain in hand becomes N; what most returns leave alone.
Effect(N) == dom' = [dom EXCEPT ![at] = N]
Stays == UNCHANGED <<clk, changed, found, missed>>

\* What the end of run_pmc() does, place by place.
LEMMA Returns ==
    ASSUME TypeInv, Waiting, NEW E, NEW m, m = None \/ (m \in Answers /\ m.to = Asks),
           E.clock[clk].phc \in Phcs \cup {SysPhc} \/ ~Reiniting, Return(E, m)
    PROVE  \/ pc = "renew" /\ pc' = "utc" /\ at' = at /\ Stays /\ Effect(E)
           \/ /\ pc = "utc" /\ pc' = "drain" /\ at' = at /\ Stays
              /\ \/ Effect(E)
                 \/ /\ m \in Answers /\ m.to[1] = "UTC" /\ m.props \in 0..MaxChanges
                    /\ Effect([E EXCEPT !.offset = m.props, !.age = 0])
           \/ pc = "drain" /\ AfterDrain(E)
           \/ /\ pc = "force" /\ NextDomain(TRUE) /\ UNCHANGED <<clk, found>>
              /\ \/ Effect(E) /\ missed' = missed \cup {at}
                 \/ /\ m \in Answers /\ m.to[1] = "UTC" /\ m.props \in 0..MaxChanges
                    /\ Effect([E EXCEPT !.offset = m.props]) /\ missed' = missed \ {at}
           \/ /\ pc = "properties" /\ pc' = "hwclock" /\ at' = at /\ Stays
              /\ m \in Answers /\ m.to = <<"PROPERTIES", PortOf(clk)>> /\ m.state \in Reported
              /\ Effect([E EXCEPT !.port[PortOf(clk)] = port_state_normalize(m.state)])
           \/ /\ Reiniting /\ pc' = "reconfigure_domain" /\ at' = at /\ Stays
              /\ \E phc \in Phcs \cup {SysPhc} : Effect(Reinited(E, phc))
  <1>1. m # None => m \in Answers
    OBVIOUS
  <1>2. CASE pc = "renew"
    BY <1>2 DEF Return, Effect, Stays, Goto
  <1>3. CASE pc = "utc"
    <2>1. /\ pc' = "drain" /\ at' = at /\ Stays
          /\ Effect(IF m = None THEN E ELSE [SetOffset(E, m) EXCEPT !.age = 0])
      BY <1>3 DEF Return, Effect, Stays, Goto
    <2>2. CASE m = None
      BY <1>3, <2>1, <2>2
    <2>3. CASE m # None
      <3>1. m \in Answers /\ m.to[1] = "UTC" /\ m.props \in 0..MaxChanges
        BY <2>3, <1>3, AnswerFits
      <3>2. Effect([E EXCEPT !.offset = m.props, !.age = 0])
        BY <2>1, <2>3 DEF SetOffset
      <3> QED
        BY <3>1, <3>2, <2>1, <1>3
    <2> QED
      BY <2>2, <2>3
  <1>4. CASE pc = "drain"
    BY <1>4 DEF Return
  <1>5. CASE pc = "force"
    <2>1. /\ NextDomain(TRUE) /\ UNCHANGED <<clk, found>>
          /\ Effect(IF m = None THEN E ELSE SetOffset(E, m))
          /\ missed' = IF m = None THEN missed \cup {at} ELSE missed \ {at}
      BY <1>5 DEF Return, Effect
    <2>2. CASE m = None
      BY <1>5, <2>1, <2>2
    <2>3. CASE m # None
      <3>1. m \in Answers /\ m.to[1] = "UTC" /\ m.props \in 0..MaxChanges
        BY <2>3, <1>5, AnswerFits
      <3>2. Effect([E EXCEPT !.offset = m.props]) /\ missed' = missed \ {at}
        BY <2>1, <2>3 DEF SetOffset
      <3> QED
        BY <3>1, <3>2, <2>1, <1>5
    <2> QED
      BY <2>2, <2>3
  <1>6. CASE pc = "properties" /\ m # None
    <2>1. /\ pc' = "hwclock" /\ at' = at /\ Stays
          /\ Effect([E EXCEPT !.port[PortOf(clk)] = port_state_normalize(m.state)])
      BY <1>6 DEF Return, Effect, Stays, Goto
    <2>2. m \in Answers /\ m.to = <<"PROPERTIES", PortOf(clk)>> /\ m.state \in Reported
      BY <1>6, AnswerFits
    <2> QED
      BY <1>6, <2>1, <2>2
  <1>7. CASE pc = "hwclock" \/ (pc = "properties" /\ m = None)
    <2> DEFINE phc == IF m = None THEN E.clock[clk].phc ELSE m.phc
    <2>1. pc' = "reconfigure_domain" /\ at' = at /\ Stays /\ Effect(Reinited(E, phc))
      BY <1>7 DEF Return, Effect, Stays, Goto
    <2>2. phc \in Phcs \cup {SysPhc}
      BY <1>7, AnswerFits DEF Reiniting
    <2> QED
      BY <1>7, <2>1, <2>2 DEF Reiniting
  <1> QED
    BY <1>2, <1>3, <1>4, <1>5, <1>6, <1>7 DEF Waiting

\* A message is a notification, an answer to another call, or the answer.
LEMMA Reads ==
    ASSUME TypeInv, Read
    PROVE  LET m == Head(ptp[at].inbox)
           IN  \/ /\ m \in Notes
                  /\ Effect(recv_subscribed(dom[at], m))
                  /\ UNCHANGED <<pc, at, clk, changed, found, missed>>
               \/ m \in Answers /\ dom' = dom /\ UNCHANGED <<pc, at, clk, changed, found, missed>>
               \/ /\ m \in Answers /\ m.to = Asks
                  /\ Return([dom[at] EXCEPT !.requested = FALSE], m)
  <1> DEFINE m == Head(ptp[at].inbox)
  <1>1. at \in Instances /\ ptp[at].inbox \in Seq(Notes \cup Answers) /\ ptp[at].inbox # <<>>
    BY DEF Read, TypeInv, ServerType
  <1>2. m \in Notes \cup Answers
    BY <1>1
  <1>3. dom \in [Doms -> DomainType] /\ at \in Doms
    BY <1>1 DEF TypeInv, Doms
  <1>4. IF m.kind = "ANSWER" /\ m.to = Asks
        THEN Return([(IF m.kind = "NOTIFY" THEN recv_subscribed(dom[at], m) ELSE dom[at])
                        EXCEPT !.requested = FALSE], m)
        ELSE /\ dom' = [dom EXCEPT ![at] = IF m.kind = "NOTIFY" THEN recv_subscribed(dom[at], m)
                                           ELSE dom[at]]
             /\ UNCHANGED <<pc, at, clk, changed, found, missed>>
    BY DEF Read
  <1>5. m \in Notes => m.kind = "NOTIFY"
    BY DEF Notes
  <1>6. m \in Answers => m.kind = "ANSWER"
    BY DEF Answers
  <1> HIDE DEF m
  <1>7. CASE m \in Notes
    BY <1>4, <1>5, <1>7 DEF Effect, m
  <1>8. CASE m \in Answers /\ m.to = Asks
    BY <1>4, <1>6, <1>8 DEF m
  <1>9. CASE m \in Answers /\ m.to # Asks
    <2>1. dom' = [dom EXCEPT ![at] = dom[at]] /\ UNCHANGED <<pc, at, clk, changed, found, missed>>
      BY <1>4, <1>6, <1>9
    <2>2. dom' = dom
      BY <2>1, <1>3
    <2> QED
      BY <2>1, <2>2, <1>9 DEF m
  <1> QED
    BY <1>2, <1>7, <1>8, <1>9

-----------------------------------------------------------------------------
\* A step that changes only the domain in hand.
LEMMA Within ==
    ASSUME TypeInv, at \in Instances, NEW N \in DomainType, Effect(N), conf' = conf
    PROVE  /\ dom' \in [Doms' -> DomainType] /\ dom'[at] = N
           /\ \A d \in Doms : d # at => dom'[d] = dom[d]
           /\ \A d \in Instances : d # at => dom'[d] = dom[d]
  <1>1. at \in Doms /\ dom \in [Doms -> DomainType] /\ Instances \subseteq Doms /\ Doms' = Doms
    BY DEF TypeInv, Doms
  <1> QED
    BY <1>1 DEF Effect

\* The domain in hand, once the call has returned.
LEMMA InHand ==
    ASSUME TypeInv, at \in Instances
    PROVE  LET D == dom[at]
               E == [D EXCEPT !.requested = FALSE]
           IN  /\ D \in DomainType /\ E \in DomainType
               /\ E.port = D.port /\ E.clock = D.clock /\ E.state_changed = D.state_changed
               /\ E.agent_subscribed = D.agent_subscribed /\ E.age = D.age
               /\ E.offset = D.offset /\ E.want = D.want
  <1> DEFINE D == dom[at]
  <1>1. D \in DomainType
    BY DEF TypeInv, Doms
  <1> HIDE DEF D
  <1> SUFFICES LET E == [D EXCEPT !.requested = FALSE]
           IN  /\ D \in DomainType /\ E \in DomainType
               /\ E.port = D.port /\ E.clock = D.clock /\ E.state_changed = D.state_changed
               /\ E.agent_subscribed = D.agent_subscribed /\ E.age = D.age
               /\ E.offset = D.offset /\ E.want = D.want
    BY DEF D
  <1> QED
    BY <1>1 DEF DomainType

\* The message that is read leaves the socket; nothing else of ptp4l changes.
LEMMA Dequeues ==
    ASSUME TypeInv, Read
    PROVE  /\ at \in Instances /\ ptp[at].inbox # <<>>
           /\ ptp' \in [Instances -> ServerType]
           /\ ptp'[at].inbox = Tail(ptp[at].inbox)
           /\ \A d \in Instances : /\ d # at => ptp'[d] = ptp[d]
                                   /\ ptp'[d].props = ptp[d].props
                                   /\ ptp'[d].state = ptp[d].state
                                   /\ Len(ptp'[d].inbox) <= MaxInbox
  <1>1. at \in Instances /\ ptp \in [Instances -> ServerType] /\ ptp[at].inbox # <<>>
    BY DEF Read, TypeInv
  <1> DEFINE P == ptp[at]
             Q == [P EXCEPT !.inbox = Tail(P.inbox)]
  <1>2. ptp' = [ptp EXCEPT ![at] = Q]
    BY <1>1 DEF Read, ServerType
  <1>3. P \in ServerType /\ P.inbox \in Seq(Notes \cup Answers) /\ P.inbox # <<>>
    BY <1>1 DEF ServerType
  <1>4. Tail(P.inbox) \in Seq(Notes \cup Answers) /\ Len(Tail(P.inbox)) <= Len(P.inbox)
    BY <1>3
  <1> HIDE DEF P
  <1>5. /\ Q \in ServerType /\ Q.inbox = Tail(P.inbox) /\ Q.props = P.props
        /\ Q.state = P.state
    BY <1>3, <1>4 DEF ServerType
  <1> HIDE DEF Q
  <1>6. \A d \in Instances : Len(ptp[d].inbox) <= MaxInbox /\ Len(ptp[d].inbox) \in Nat
    BY <1>1 DEF TypeInv, ServerType
  <1>7. Len(Q.inbox) <= MaxInbox
    BY <1>4, <1>5, <1>6, <1>1, <1>3, Constants DEF P
  <1> QED
    BY <1>1, <1>2, <1>5, <1>6, <1>7 DEF P

\* ptp4l drops the messages that do not fit, the last ones.
LEMMA Fits ==
    ASSUME NEW S, NEW s \in Seq(S)
    PROVE  /\ Fit(s) \in Seq(S) /\ Len(Fit(s)) <= MaxInbox /\ Len(Fit(s)) <= Len(s)
           /\ Len(s) <= MaxInbox => Len(Fit(s)) = Len(s)
           /\ Len(s) > MaxInbox => Len(Fit(s)) = MaxInbox
           /\ \A i \in 1..Len(Fit(s)) : Fit(s)[i] = s[i]
  <1> DEFINE n == Min({MaxInbox, Len(s)})
  <1>1. Len(s) \in Nat /\ MaxInbox \in Nat
    BY Constants
  <1>2. n = IF MaxInbox <= Len(s) THEN MaxInbox ELSE Len(s)
    <2>1. \E x \in {MaxInbox, Len(s)} : \A y \in {MaxInbox, Len(s)} : x =< y
      BY <1>1
    <2>2. n \in {MaxInbox, Len(s)} /\ n <= MaxInbox /\ n <= Len(s)
      BY <2>1 DEF Min
    <2> HIDE DEF n
    <2> QED
      BY <2>2, <1>1
  <1> HIDE DEF n
  <1>3. Fit(s) = SubSeq(s, 1, n) /\ n \in 0..Len(s)
    BY <1>1, <1>2 DEF Fit, n
  <1>4. SubSeq(s, 1, n) \in Seq(S) /\ Len(SubSeq(s, 1, n)) = n
        /\ \A i \in 1..n : SubSeq(s, 1, n)[i] = s[i]
    BY <1>3
  <1> QED
    BY <1>1, <1>2, <1>3, <1>4

\* What an answer says is what ptp4l has at that moment.
LEMMA Tells ==
    ASSUME TypeInv, NEW d \in Instances, NEW r \in Requests
    PROVE  /\ AnswerOne(d, r) \in Answers /\ AnswerOne(d, r).kind = "ANSWER"
           /\ AnswerOne(d, r).to = r
           /\ r[1] = "UTC" => AnswerOne(d, r).props = ptp[d].props
           /\ r[1] = "PROPERTIES" => r[2] \in Ports /\ AnswerOne(d, r).state = ptp[d].state[r[2]]
  <1>1. /\ ptp[d].props \in 0..MaxChanges /\ ptp[d].state \in [Ports -> Reported]
        /\ ptp[d].phc \in [Ports -> Phcs]
    BY DEF TypeInv, ServerType
  <1>2. CASE r = <<"SUBSCRIBE", 0>>
    BY <1>2 DEF AnswerOne, Answers
  <1>3. CASE r = <<"UTC", 0>>
    BY <1>1, <1>3 DEF AnswerOne, Answers
  <1>4. ASSUME NEW p \in Ports, r = <<"PROPERTIES", p>>
        PROVE  /\ AnswerOne(d, r) \in Answers /\ AnswerOne(d, r).kind = "ANSWER"
               /\ AnswerOne(d, r).to = r
               /\ AnswerOne(d, r).state = ptp[d].state[p]
    <2>1. AnswerOne(d, r) = [kind |-> "ANSWER", to |-> r, state |-> ptp[d].state[p]]
      BY <1>4 DEF AnswerOne
    <2>2. ptp[d].state[p] \in Reported
      BY <1>1
    <2> QED
      BY <1>4, <2>1, <2>2 DEF Answers
  <1>5. ASSUME NEW p \in Ports, r = <<"HWCLOCK", p>>
        PROVE  /\ AnswerOne(d, r) \in Answers /\ AnswerOne(d, r).kind = "ANSWER"
               /\ AnswerOne(d, r).to = r
    <2>1. AnswerOne(d, r) = [kind |-> "ANSWER", to |-> r, phc |-> ptp[d].phc[p]]
      BY <1>5 DEF AnswerOne
    <2>2. ptp[d].phc[p] \in Phcs
      BY <1>1
    <2> QED
      BY <1>5, <2>1, <2>2 DEF Answers
  <1>6. \/ r = <<"SUBSCRIBE", 0>> \/ r = <<"UTC", 0>>
        \/ \E p \in Ports : r = <<"PROPERTIES", p>> \/ r = <<"HWCLOCK", p>>
    BY DEF Requests
  <1>7. CASE \E p \in Ports : r = <<"PROPERTIES", p>>
    BY <1>7, <1>4
  <1>8. CASE \E p \in Ports : r = <<"HWCLOCK", p>>
    BY <1>8, <1>5
  <1> QED
    BY <1>2, <1>3, <1>6, <1>7, <1>8

\* ptp4l answers: the answers follow what is in the socket already.
LEMMA AnswersFollow ==
    ASSUME TypeInv, NEW d \in Instances, Answer(d)
    PROVE  /\ ptp' \in [Instances -> ServerType]
           /\ \A e \in Instances : e # d => ptp'[e] = ptp[e]
           /\ ptp'[d].props = ptp[d].props /\ ptp'[d].state = ptp[d].state
           /\ Len(ptp'[d].inbox) <= MaxInbox /\ Len(ptp[d].inbox) <= Len(ptp'[d].inbox)
           /\ \A i \in 1..Len(ptp[d].inbox) : ptp'[d].inbox[i] = ptp[d].inbox[i]
           /\ \A i \in (Len(ptp[d].inbox) + 1)..Len(ptp'[d].inbox) :
                  \E r \in Requests : ptp'[d].inbox[i] = AnswerOne(d, r)
  <1> DEFINE P == ptp[d]
             asked == {P.pending[k] : k \in DOMAIN P.pending}
             answers == [k \in DOMAIN P.pending |-> AnswerOne(d, P.pending[k])]
             all == P.inbox \o answers
             n == IF <<"SUBSCRIBE", 0>> \in asked THEN Lifetime ELSE P.subscribed
             Q == [P EXCEPT !.inbox = Fit(all), !.pending = <<>>, !.subscribed = n]
  <1>1. P \in ServerType /\ ptp \in [Instances -> ServerType]
    BY DEF TypeInv
  <1>2. P.pending \in Seq(Requests) /\ P.inbox \in Seq(Notes \cup Answers)
        /\ P.subscribed \in 0..Lifetime
    BY <1>1 DEF ServerType
  <1>3. ptp' = [ptp EXCEPT ![d] = Q]
    BY <1>1 DEF Answer, ServerType
  <1>4. \A k \in 1..Len(P.pending) : P.pending[k] \in Requests /\ answers[k] \in Answers
    BY <1>2, Tells
  <1>5. answers \in Seq(Answers) /\ Len(answers) = Len(P.pending)
    <2>1. DOMAIN P.pending = 1..Len(P.pending) /\ Len(P.pending) \in Nat
      BY <1>2
    <2> DEFINE l == Len(P.pending)
    <2>2. answers \in [1..l -> Answers] /\ l \in Nat
      BY <2>1, <1>4
    <2> HIDE DEF answers, l
    <2>3. answers \in Seq(Answers) /\ Len(answers) = l
      BY <2>2
    <2> QED
      BY <2>3 DEF l
  <1>6. \A k \in 1..Len(answers) : \E r \in Requests : answers[k] = AnswerOne(d, r)
    BY <1>4, <1>5, <1>2
  <1>7. answers \in Seq(Notes \cup Answers)
    BY <1>5
  <1> HIDE DEF answers, P
  <1>8. /\ all \in Seq(Notes \cup Answers) /\ Len(all) = Len(P.inbox) + Len(answers)
        /\ \A i \in 1..Len(P.inbox) : all[i] = P.inbox[i]
        /\ \A i \in (Len(P.inbox) + 1)..Len(all) : all[i] = answers[i - Len(P.inbox)]
    BY <1>2, <1>7
  <1>9. Len(P.inbox) <= MaxInbox /\ Len(P.inbox) \in Nat /\ Len(answers) \in Nat
    BY <1>2, <1>7 DEF TypeInv, P
  <1>10. n \in 0..Lifetime
    BY <1>2, Constants
  <1> HIDE DEF all, n
  <1>11. /\ Fit(all) \in Seq(Notes \cup Answers) /\ Len(Fit(all)) <= MaxInbox
         /\ Len(Fit(all)) <= Len(all) /\ Len(Fit(all)) \in Nat /\ Len(P.inbox) <= Len(Fit(all))
         /\ \A i \in 1..Len(Fit(all)) : Fit(all)[i] = all[i]
    BY <1>8, <1>9, Fits, Constants
  <1> DEFINE F == Fit(all)
             e == <<>>
  <1>f. F \in Seq(Notes \cup Answers) /\ e \in Seq(Requests)
        /\ Q = [P EXCEPT !.inbox = F, !.pending = e, !.subscribed = n]
    BY <1>11
  <1> HIDE DEF F, Q, e
  <1>12. /\ Q \in ServerType /\ Q.inbox = Fit(all) /\ Q.props = P.props /\ Q.state = P.state
    <2>1. /\ Q \in ServerType /\ Q.inbox = F /\ Q.props = P.props /\ Q.state = P.state
      BY <1>1, <1>10, <1>f DEF ServerType
    <2> QED
      BY <2>1 DEF F
  <1>13. /\ ptp'[d] = Q /\ ptp' \in [Instances -> ServerType]
         /\ \A o \in Instances : o # d => ptp'[o] = ptp[o]
    BY <1>1, <1>3, <1>12
  <1>14. \A i \in (Len(P.inbox) + 1)..Len(Fit(all)) :
            \E r \in Requests : Fit(all)[i] = AnswerOne(d, r)
    <2> TAKE i \in (Len(P.inbox) + 1)..Len(Fit(all))
    <2>1. i \in 1..Len(Fit(all)) /\ i \in (Len(P.inbox) + 1)..Len(all)
          /\ i - Len(P.inbox) \in 1..Len(answers)
      BY <1>8, <1>9, <1>11
    <2>2. Fit(all)[i] = answers[i - Len(P.inbox)]
      BY <2>1, <1>8, <1>11
    <2> QED
      BY <2>1, <2>2, <1>6
  <1>15. \A i \in 1..Len(P.inbox) : Fit(all)[i] = P.inbox[i]
    <2> TAKE i \in 1..Len(P.inbox)
    <2>1. i \in 1..Len(Fit(all))
      BY <1>9, <1>11
    <2> QED
      BY <2>1, <1>8, <1>11
  <1> QED
    BY <1>11, <1>12, <1>13, <1>14, <1>15 DEF P

\* The notification of a change of port p to the state s.
NoteOf(p, s, version) == [kind |-> "NOTIFY", port |-> p, state |-> s, props |-> version]

\* A port of ptp4l changes its state: the notification comes last, or is not
\* made, which unheard remembers.
LEMMA ChangeNotifies ==
    ASSUME TypeInv, NEW d \in Instances, NEW p \in Ports, NEW s \in Reported,
           NEW props \in BOOLEAN, NEW phc \in Phcs, PortChange(d, p, s, props, phc)
    PROVE  /\ changes' \in 0..MaxChanges /\ changes' = changes + 1
           /\ ptp' \in [Instances -> ServerType]
           /\ \A e \in Instances : e # d => ptp'[e] = ptp[e]
           /\ ptp'[d].props <= changes' /\ ptp[d].props <= ptp'[d].props
           /\ \A q \in Ports : ptp'[d].state[q] = IF q = p THEN s ELSE ptp[d].state[q]
           /\ Len(ptp'[d].inbox) <= MaxInbox
           /\ \/ ptp'[d].inbox = ptp[d].inbox /\ unheard' = unheard \cup {d}
              \/ /\ ptp'[d].inbox = Append(ptp[d].inbox, NoteOf(p, s, ptp'[d].props))
                 /\ NoteOf(p, s, ptp'[d].props) \in Notes /\ unheard' = unheard
  <1> DEFINE P == ptp[d]
             now == P.props + (IF props THEN 1 ELSE 0)
             note == [kind |-> "NOTIFY", port |-> p, state |-> s, props |-> now]
             heard == P.subscribed > 0 /\ Len(P.inbox) < MaxInbox
             box == IF heard THEN P.inbox \o <<note>> ELSE P.inbox
             Q == [P EXCEPT !.state = [P.state EXCEPT ![p] = s], !.props = now,
                            !.phc = [P.phc EXCEPT ![p] = phc], !.inbox = box]
  <1>1. P \in ServerType /\ ptp \in [Instances -> ServerType] /\ P.props <= changes
        /\ changes \in 0..MaxChanges /\ MaxChanges \in Nat
    BY Constants DEF TypeInv
  <1>2. /\ P.state \in [Ports -> Reported] /\ P.phc \in [Ports -> Phcs] /\ P.props \in 0..MaxChanges
        /\ P.inbox \in Seq(Notes \cup Answers)
    BY <1>1 DEF ServerType
  <1>3. changes' = changes + 1 /\ changes < MaxChanges
    BY DEF PortChange, Event
  <1>4. changes' \in 0..MaxChanges /\ now \in 0..MaxChanges /\ now <= changes' /\ P.props <= now
    BY <1>1, <1>2, <1>3
  <1>5. ptp' = [ptp EXCEPT ![d] = Q]
    <2> DEFINE t == IF props THEN P.props + 1 ELSE P.props
    <2>1. t = now
      BY <1>2
    <2>2. ptp' = [ptp EXCEPT ![d].state[p] = s,
                             ![d].props = IF props THEN @ + 1 ELSE @,
                             ![d].phc[p] = phc,
                             ![d].inbox = IF heard THEN @ \o <<note>> ELSE @]
      BY DEF PortChange
    <2>3. ptp'[d] = [P EXCEPT !.state[p] = s, !.props = t, !.phc[p] = phc, !.inbox = box]
      BY <2>2, <1>1 DEF ServerType
    <2>4. ptp'[d] = Q
      BY <2>1, <2>3, <1>1, <1>2 DEF ServerType
    <2> QED
      BY <2>2, <2>4, <1>1
  <1>6. unheard' = IF heard THEN unheard ELSE unheard \cup {d}
    BY DEF PortChange
  <1>7. note \in Notes
    BY <1>4 DEF Notes
  <1>8. Len(P.inbox) <= MaxInbox /\ Len(P.inbox) \in Nat /\ MaxInbox \in Nat
    BY <1>2, Constants DEF TypeInv
  <1> HIDE DEF P, note, now
  <1>9. /\ box \in Seq(Notes \cup Answers) /\ Len(box) <= MaxInbox
        /\ heard => box = Append(P.inbox, note)
    <2>1. CASE heard
      <3>1. P.inbox \o <<note>> = Append(P.inbox, note)
        BY <1>2
      <3>2. Append(P.inbox, note) \in Seq(Notes \cup Answers)
            /\ Len(Append(P.inbox, note)) = Len(P.inbox) + 1
        BY <1>2, <1>7
      <3>3. Len(P.inbox) + 1 <= MaxInbox
        BY <2>1, <1>8
      <3>4. box = Append(P.inbox, note)
        BY <2>1, <3>1
      <3> QED
        BY <3>2, <3>3, <3>4
    <2>2. CASE ~heard
      BY <2>2, <1>2, <1>8
    <2> QED
      BY <2>1, <2>2
  <1>10. ~heard => box = P.inbox
    OBVIOUS
  <1> HIDE DEF box, heard
  <1>11. /\ Q \in ServerType /\ Q.inbox = box /\ Q.props = now
         /\ Q.state = [P.state EXCEPT ![p] = s]
    BY <1>1, <1>2, <1>4, <1>9 DEF ServerType
  <1> HIDE DEF Q
  <1>12. /\ ptp'[d] = Q /\ ptp' \in [Instances -> ServerType]
         /\ \A e \in Instances : e # d => ptp'[e] = ptp[e]
    BY <1>1, <1>5, <1>11
  <1>13. \/ ptp'[d].inbox = P.inbox /\ unheard' = unheard \cup {d}
         \/ ptp'[d].inbox = Append(P.inbox, note) /\ note \in Notes /\ unheard' = unheard
    BY <1>6, <1>7, <1>9, <1>10, <1>11, <1>12
  <1>14. \A q \in Ports : ptp'[d].state[q] = IF q = p THEN s ELSE P.state[q]
    BY <1>2, <1>11, <1>12
  <1> QED
    BY <1>3, <1>4, <1>9, <1>11, <1>12, <1>13, <1>14 DEF P, note, NoteOf

\* The other steps leave the messages alone.
LEMMA Quiet ==
    ASSUME TypeInv, \/ Request \/ Wake
                    \/ \E d \in Instances : Stall(d) \/ Resume(d)
    PROVE  /\ ptp' \in [Instances -> ServerType]
           /\ changes' \in 0..MaxChanges /\ changes <= changes'
           /\ \A d \in Instances : /\ ptp'[d].props = ptp[d].props
                                   /\ ptp'[d].state = ptp[d].state
                                   /\ ptp'[d].inbox = ptp[d].inbox
  <1>1. ptp \in [Instances -> ServerType] /\ changes \in 0..MaxChanges /\ MaxChanges \in Nat
    BY Constants DEF TypeInv
  <1>2. CASE Request
    <2> DEFINE q == ptp[at].pending
               new == IF Len(q) < MaxInbox THEN Append(q, Asks) ELSE q
    <2>1. at \in Instances /\ ptp[at] \in ServerType /\ q \in Seq(Requests)
      BY <1>1, <1>2 DEF Request, TypeInv, ServerType
    <2>2. Asks \in Requests
      <3>1. Asks # None /\ (Reiniting => clk \in Devices) /\ conf \in Confs
        BY <1>2 DEF Request, TypeInv
      <3>2. Reiniting => PortOf(clk) \in Ports
        BY <3>1, Spokesman
      <3> QED
        BY <3>1, <3>2 DEF Asks, Requests, Reiniting
    <2>3. new \in Seq(Requests)
      BY <2>1, <2>2
    <2>4. ptp' = [ptp EXCEPT ![at] = [ptp[at] EXCEPT !.pending = new]] /\ changes' = changes
      BY <1>2, <2>1, <1>1 DEF Request, hist, ServerType
    <2> HIDE DEF new
    <2> DEFINE P == ptp[at]
               Q == [P EXCEPT !.pending = new]
    <2>5. P \in ServerType
      BY <2>1
    <2> HIDE DEF P
    <2>6. Q \in ServerType /\ Q.props = P.props /\ Q.state = P.state /\ Q.inbox = P.inbox
      BY <2>5, <2>3 DEF ServerType
    <2>7. ptp' = [ptp EXCEPT ![at] = Q]
      BY <2>4 DEF P
    <2> HIDE DEF Q
    <2> QED
      BY <2>6, <2>7, <2>4, <2>1, <1>1 DEF P
  <1>3. CASE Wake
    <2>1. ptp' = [d \in Instances |-> IF ptp[d].subscribed > 0
                                      THEN [ptp[d] EXCEPT !.subscribed = @ - 1] ELSE ptp[d]]
          /\ changes' = changes
      BY <1>3 DEF Wake
    <2>2. ASSUME NEW P \in ServerType, P.subscribed > 0
          PROVE  LET Q == [P EXCEPT !.subscribed = @ - 1]
                 IN  Q \in ServerType /\ Q.props = P.props /\ Q.state = P.state /\ Q.inbox = P.inbox
      <3>1. P.subscribed - 1 \in 0..Lifetime
        BY <2>2, Constants DEF ServerType
      <3> DEFINE n == P.subscribed - 1
                 Q == [P EXCEPT !.subscribed = n]
      <3> HIDE DEF n
      <3>2. Q \in ServerType /\ Q.props = P.props /\ Q.state = P.state /\ Q.inbox = P.inbox
        BY <3>1 DEF ServerType, n
      <3> QED
        BY <3>2 DEF n
    <2> QED
      BY <2>1, <2>2, <1>1
  <1>4. ASSUME NEW d \in Instances, Stall(d) \/ Resume(d)
        PROVE  /\ ptp' \in [Instances -> ServerType]
               /\ changes' \in 0..MaxChanges /\ changes <= changes'
               /\ \A e \in Instances : /\ ptp'[e].props = ptp[e].props
                                       /\ ptp'[e].state = ptp[e].state
                                       /\ ptp'[e].inbox = ptp[e].inbox
    <2>1. PICK b \in BOOLEAN : ptp' = [ptp EXCEPT ![d] = [ptp[d] EXCEPT !.alive = b]]
      BY <1>4, <1>1 DEF Stall, Resume, ServerType
    <2>2. changes' \in 0..MaxChanges /\ changes <= changes'
      BY <1>4, <1>1 DEF Stall, Resume, Event, hist
    <2> DEFINE P == ptp[d]
               Q == [P EXCEPT !.alive = b]
    <2>3. P \in ServerType
      BY <1>1
    <2> HIDE DEF P
    <2>4. Q \in ServerType /\ Q.props = P.props /\ Q.state = P.state /\ Q.inbox = P.inbox
      BY <2>3 DEF ServerType
    <2>5. ptp' = [ptp EXCEPT ![d] = Q]
      BY <2>1 DEF P
    <2> HIDE DEF Q
    <2> QED
      BY <2>2, <2>4, <2>5, <1>1 DEF P
  <1> QED
    BY <1>2, <1>3, <1>4

-----------------------------------------------------------------------------
\* The two halves of TypeInv: what ptp4l changes, and what the program does.
ServerInv ==
    /\ conf \in Confs
    /\ ptp \in [Instances -> ServerType]
    /\ changes \in 0..MaxChanges /\ unheard \subseteq Instances
    /\ \A d \in Instances : ptp[d].props <= changes /\ Len(ptp[d].inbox) <= MaxInbox

ProgramInv ==
    /\ dom \in [Doms -> DomainType]
    /\ pc \in Places /\ at \in 1..RT /\ clk \in Clocks \cup {AboveAll} /\ changed \in BOOLEAN
    /\ found \subseteq Instances /\ missed \subseteq Instances
    /\ Waiting \/ pc \in {"reconfigure", "reconfigure_domain"} => at \in Instances
    /\ Reiniting => clk \in Devices /\ dom[at].clock[clk].new_state # None

\* Together they are TypeInv.
LEMMA Halves == TypeInv <=> ServerInv /\ ProgramInv
  BY DEF TypeInv, ServerInv, ProgramInv

\* Every step keeps the half of ptp4l.
LEMMA ServerStep == TypeInv /\ [Next]_vars => ServerInv'
  <1> SUFFICES ASSUME TypeInv, [Next]_vars PROVE ServerInv'
    OBVIOUS
  <1>1. ServerInv
    BY Halves
  <1>2. CASE Read
    <2>1. UNCHANGED <<conf, changes, unheard>>
      BY <1>2 DEF Read
    <2> QED
      BY <1>1, <1>2, <2>1, Dequeues DEF ServerInv
  <1>3. CASE TimeOut \/ BeginReconfigure \/ NextReinit \/ EndDomain \/ SelectSource \/ UpdateClocks
    <2>1. UNCHANGED <<conf, ptp, changes, unheard>>
      BY <1>3 DEF TimeOut, BeginReconfigure, NextReinit, EndDomain, SelectSource, UpdateClocks, hist
    <2> QED
      BY <1>1, <2>1 DEF ServerInv
  <1>4. CASE Request \/ Wake \/ \E d \in Instances : Stall(d) \/ Resume(d)
    <2>1. UNCHANGED <<conf, unheard>>
      BY <1>4 DEF Request, Wake, Stall, Resume, hist
    <2>2. /\ ptp' \in [Instances -> ServerType] /\ changes' \in 0..MaxChanges /\ changes <= changes'
          /\ \A d \in Instances : ptp'[d].props = ptp[d].props /\ ptp'[d].inbox = ptp[d].inbox
      BY <1>4, Quiet
    <2>3. \A d \in Instances : ptp'[d].props <= changes'
      <3> TAKE d \in Instances
      <3>1. ptp[d].props \in 0..MaxChanges /\ ptp[d].props <= changes /\ changes \in 0..MaxChanges
        BY <1>1 DEF ServerInv, ServerType
      <3> QED
        BY <3>1, <2>2, Constants
    <2> QED
      BY <1>1, <2>1, <2>2, <2>3 DEF ServerInv
  <1>5. ASSUME NEW d \in Instances, Answer(d) PROVE ServerInv'
    <2>1. UNCHANGED <<conf, changes, unheard>>
      BY <1>5 DEF Answer, hist
    <2> QED
      BY <1>1, <1>5, <2>1, AnswersFollow DEF ServerInv
  <1>6. ASSUME NEW d \in Instances, NEW p \in Ports, NEW s \in Reported, NEW props \in BOOLEAN,
               NEW phc \in Phcs, PortChange(d, p, s, props, phc)
        PROVE  ServerInv'
    <2>1. conf' = conf
      BY <1>6 DEF PortChange
    <2>2. /\ changes' \in 0..MaxChanges /\ changes' = changes + 1
          /\ ptp' \in [Instances -> ServerType]
          /\ \A e \in Instances : e # d => ptp'[e] = ptp[e]
          /\ ptp'[d].props <= changes' /\ Len(ptp'[d].inbox) <= MaxInbox
      BY <1>6, ChangeNotifies
    <2>5. unheard' = unheard \/ unheard' = unheard \cup {d}
      BY <1>6, ChangeNotifies
    <2>4. unheard' \subseteq Instances
      BY <2>5, <1>1 DEF ServerInv
    <2>3. \A e \in Instances : ptp[e].props <= changes + 1
      BY <1>1, Constants DEF ServerInv, ServerType
    <2> QED
      BY <1>1, <2>1, <2>2, <2>3, <2>4 DEF ServerInv
  <1>7. CASE UNCHANGED vars
    BY <1>1, <1>7 DEF vars, ServerInv
  <1> QED
    BY <1>2, <1>3, <1>4, <1>5, <1>6, <1>7 DEF Next, Program

\* The return of run_pmc() keeps the half of the program.
LEMMA ReturnKeeps ==
    ASSUME TypeInv, Waiting, conf' = conf, NEW m, m = None \/ (m \in Answers /\ m.to = Asks),
           Return([dom[at] EXCEPT !.requested = FALSE], m)
    PROVE  ProgramInv'
  <1> DEFINE E == [dom[at] EXCEPT !.requested = FALSE]
  <1>1. at \in Instances /\ ProgramInv /\ conf \in Confs
    BY Halves DEF TypeInv
  <1>2. E \in DomainType /\ E.clock = dom[at].clock /\ E.port = dom[at].port
        /\ dom[at] \in DomainType
    BY <1>1, InHand
  <1>3. Reiniting => clk \in Devices /\ clk \in Clocks /\ E.clock[clk].new_state # None
                     /\ PortOf(clk) \in Ports
    BY <1>1, <1>2, Configured, Spokesman DEF TypeInv
  <1>4. E.clock[clk].phc \in Phcs \cup {SysPhc} \/ ~Reiniting
    BY <1>2, <1>3 DEF DomainType
  <1>5. Return(E, m)
    OBVIOUS
  <1>c. Devices' = Devices /\ Doms' = Doms
    BY DEF Devices, Doms
  <1> HIDE DEF E
  <1>6. CASE pc = "renew" /\ pc' = "utc" /\ at' = at /\ Stays /\ Effect(E)
    <2>1. dom' \in [Doms' -> DomainType]
      BY <1>6, <1>1, <1>2, Within
    <2> QED
      BY <1>1, <1>6, <2>1 DEF ProgramInv, Stays, Places, Waiting, Reiniting
  <1>7. ASSUME pc = "utc", pc' = "drain", at' = at, Stays,
               Effect(E) \/ (m.props \in 0..MaxChanges
                             /\ Effect([E EXCEPT !.offset = m.props, !.age = 0]))
        PROVE  ProgramInv'
    <2>1. m.props \in 0..MaxChanges => [E EXCEPT !.offset = m.props, !.age = 0] \in DomainType
      <3>1. 0 \in 0..Never
        BY Constants
      <3> QED
        BY <1>2, <3>1 DEF DomainType
    <2>2. dom' \in [Doms' -> DomainType]
      BY <1>7, <1>1, <1>2, <2>1, Within
    <2> QED
      BY <1>1, <1>7, <2>2 DEF ProgramInv, Stays, Places, Waiting, Reiniting
  <1>8. CASE pc = "drain" /\ AfterDrain(E)
    <2> DEFINE now == is_subscribed(E)
               N == [E EXCEPT !.agent_subscribed = now]
    <2>1. now \in BOOLEAN
      BY DEF is_subscribed
    <2> HIDE DEF now
    <2>2. N \in DomainType
      BY <1>2, <2>1 DEF DomainType
    <2>3. Effect(N) /\ AfterState(E, now) /\ UNCHANGED <<clk, missed>>
      BY <1>8 DEF AfterDrain, Effect, now
    <2>4. found' \subseteq Instances
      BY <1>8, <1>1 DEF AfterDrain, ProgramInv
    <2>5. dom' \in [Doms' -> DomainType]
      BY <2>2, <2>3, <1>1, <1>2, Within
    <2>6. /\ changed' \in BOOLEAN
          /\ pc' \in {"renew", "drain", "force", "reconfigure", "update"} /\ at' \in Instances
      <3>1. CASE now /\ E.state_changed
        BY <3>1, <2>3, <1>1 DEF AfterState, Goto
      <3>2. CASE ~(now /\ E.state_changed)
        <4> DEFINE flag == changed \/ (~now /\ E.agent_subscribed)
        <4>1. flag \in BOOLEAN
          BY <1>1, <1>2 DEF ProgramInv, DomainType
        <4>2. NextDomain(flag)
          BY <3>2, <2>3 DEF AfterState
        <4> HIDE DEF flag
        <4> QED
          BY <4>1, <4>2, <1>1, Onward, Constants
      <3> QED
        BY <3>1, <3>2
    <2> QED
      BY <1>1, <2>3, <2>4, <2>5, <2>6, Constants DEF ProgramInv, Places, Waiting, Reiniting
  <1>9. ASSUME pc = "force", NextDomain(TRUE), UNCHANGED <<clk, found>>,
               \/ Effect(E) /\ missed' = missed \cup {at}
               \/ m.props \in 0..MaxChanges /\ Effect([E EXCEPT !.offset = m.props])
                  /\ missed' = missed \ {at}
        PROVE  ProgramInv'
    <2>1. m.props \in 0..MaxChanges => [E EXCEPT !.offset = m.props] \in DomainType
      BY <1>2, Constants DEF DomainType
    <2>2. dom' \in [Doms' -> DomainType]
      BY <1>9, <1>1, <1>2, <2>1, Within
    <2>3. /\ changed' \in BOOLEAN
          /\ pc' \in {"renew", "drain", "reconfigure", "update"} /\ at' \in Instances
      <3> DEFINE flag == TRUE
      <3>1. flag \in BOOLEAN /\ NextDomain(flag)
        BY <1>9
      <3> HIDE DEF flag
      <3> QED
        BY <3>1, <1>1, Onward, Constants
    <2>4. missed' \subseteq Instances
      BY <1>9, <1>1 DEF ProgramInv
    <2> QED
      BY <1>1, <1>9, <2>2, <2>3, <2>4, Constants DEF ProgramInv, Places, Waiting, Reiniting
  <1>10. ASSUME pc = "properties", pc' = "hwclock", at' = at, Stays, m.state \in Reported,
                Effect([E EXCEPT !.port[PortOf(clk)] = port_state_normalize(m.state)])
         PROVE  ProgramInv'
    <2> DEFINE s == port_state_normalize(m.state)
               p == PortOf(clk)
               N == [E EXCEPT !.port[p] = s]
    <2>1. s \in States /\ p \in Ports /\ Reiniting
      BY <1>10, <1>3, Normalized DEF Reiniting
    <2> HIDE DEF s, p
    <2>2. N \in DomainType /\ N.clock = E.clock
      BY <2>1, <1>2 DEF DomainType
    <2>3. Effect(N)
      BY <1>10 DEF s, p
    <2> HIDE DEF N
    <2>4. dom' \in [Doms' -> DomainType] /\ dom'[at] = N
      BY <2>2, <2>3, <1>1, Within
    <2> QED
      BY <1>1, <1>3, <1>10, <1>c, <2>1, <2>2, <2>4 DEF ProgramInv, Stays, Places, Waiting, Reiniting
  <1>11. ASSUME Reiniting, pc' = "reconfigure_domain", at' = at, Stays,
                NEW phc \in Phcs \cup {SysPhc}, Effect(Reinited(E, phc))
         PROVE  ProgramInv'
    <2>1. Reinited(E, phc) \in DomainType
      BY <1>1, <1>2, <1>3, <1>11, ReinitApplies
    <2>2. dom' \in [Doms' -> DomainType]
      BY <1>1, <1>11, <2>1, Within
    <2> QED
      BY <1>1, <1>11, <2>2 DEF ProgramInv, Stays, Places, Waiting, Reiniting
  <1> QED
    BY <1>4, <1>5, <1>6, <1>7, <1>8, <1>9, <1>10, <1>11, Returns

-----------------------------------------------------------------------------
\* Two states of a domain that differ at most in its source, its destinations
\* and the request under way.
Alike(N, D) ==
    /\ N.port = D.port /\ N.clock = D.clock /\ N.state_changed = D.state_changed
    /\ N.agent_subscribed = D.agent_subscribed /\ N.age = D.age
    /\ N.offset = D.offset /\ N.want = D.want

\* reconfigure() begins with a domain.
LEMMA Begins ==
    ASSUME TypeInv, BeginReconfigure
    PROVE  /\ at \in Instances /\ dom' \in [Doms' -> DomainType] /\ conf' = conf /\ ptp' = ptp
           /\ \A d \in Instances : d # at => dom'[d] = dom[d]
           /\ ~dom'[at].state_changed
           /\ dom'[at].port = dom[at].port /\ dom'[at].clock = dom[at].clock
           /\ dom'[at].agent_subscribed = dom[at].agent_subscribed /\ dom'[at].age = dom[at].age
           /\ dom'[at].offset = dom[at].offset /\ dom'[at].want = dom[at].want
           /\ UNCHANGED <<changed, found, missed, unheard>> /\ pc = "reconfigure"
           /\ IF dom[at].agent_subscribed
              THEN pc' = "reconfigure_domain" /\ at' = at /\ clk' = AboveAll
              ELSE /\ clk' = clk /\ at' = at + 1
                   /\ \/ pc' = "reconfigure" /\ at' \in Instances
                      \/ pc' = "select" /\ at' = RT
  <1> DEFINE D == dom[at]
             C == [D EXCEPT !.dst = {}, !.state_changed = FALSE]
             B == [C EXCEPT !.src = None]
  <1>1. at \in Instances /\ conf' = conf /\ ptp' = ptp /\ pc = "reconfigure"
        /\ UNCHANGED <<changed, found, missed, unheard>>
    BY DEF TypeInv, BeginReconfigure, hist
  <1>2. D \in DomainType
    BY <1>1, InHand
  <1>3. IF D.agent_subscribed
        THEN Effect(C) /\ pc' = "reconfigure_domain" /\ at' = at /\ clk' = AboveAll
        ELSE /\ Effect(B) /\ clk' = clk /\ at' = at + 1
             /\ pc' = IF at + 1 \in Instances THEN "reconfigure" ELSE "select"
    BY DEF BeginReconfigure, Effect, Goto
  <1>4. at + 1 \notin Instances => at + 1 = RT
    BY <1>1, Constants
  <1> HIDE DEF D
  <1>5. /\ C \in DomainType /\ ~C.state_changed /\ C.port = D.port /\ C.clock = D.clock
        /\ C.agent_subscribed = D.agent_subscribed /\ C.age = D.age
        /\ C.offset = D.offset /\ C.want = D.want
    BY <1>2 DEF DomainType
  <1> HIDE DEF C
  <1>6. /\ B \in DomainType /\ ~B.state_changed /\ B.port = D.port /\ B.clock = D.clock
        /\ B.agent_subscribed = D.agent_subscribed /\ B.age = D.age
        /\ B.offset = D.offset /\ B.want = D.want
    BY <1>5 DEF DomainType
  <1> HIDE DEF B
  <1>7. CASE D.agent_subscribed
    <2>1. Effect(C) /\ pc' = "reconfigure_domain" /\ at' = at /\ clk' = AboveAll
      BY <1>3, <1>7
    <2>2. /\ dom' \in [Doms' -> DomainType] /\ dom'[at] = C
          /\ \A d \in Instances : d # at => dom'[d] = dom[d]
      BY <2>1, <1>1, <1>5, Within
    <2> QED
      BY <1>1, <1>5, <1>7, <2>1, <2>2 DEF D
  <1>8. CASE ~D.agent_subscribed
    <2>1. /\ Effect(B) /\ clk' = clk /\ at' = at + 1
          /\ pc' = IF at + 1 \in Instances THEN "reconfigure" ELSE "select"
      BY <1>3, <1>8
    <2>2. /\ dom' \in [Doms' -> DomainType] /\ dom'[at] = B
          /\ \A d \in Instances : d # at => dom'[d] = dom[d]
      BY <2>1, <1>1, <1>6, Within
    <2> QED
      BY <1>1, <1>4, <1>6, <1>8, <2>1, <2>2 DEF D
  <1> QED
    BY <1>7, <1>8

\* reconfigure_domain() ends: all clocks with a state to be applied were visited.
LEMMA Ends ==
    ASSUME TypeInv, EndDomain
    PROVE  /\ at \in Instances /\ dom' \in [Doms' -> DomainType] /\ conf' = conf /\ ptp' = ptp
           /\ \A d \in Instances : Alike(dom'[d], dom[d])
           /\ UNCHANGED <<clk, changed, found, missed, unheard>> /\ pc = "reconfigure_domain"
           /\ \/ pc' = "update" /\ at' = 1
              \/ pc' = "reconfigure" /\ at' = at + 1 /\ at' \in Instances
              \/ pc' = "select" /\ at' = RT
  <1> DEFINE D == dom[at]
             s == dom'[at].src
             t == Destinations(D)
             N == [D EXCEPT !.dst = t, !.src = s]
  <1>1. at \in Instances /\ conf' = conf /\ ptp' = ptp /\ pc = "reconfigure_domain"
        /\ UNCHANGED <<clk, changed, found, missed, unheard>> /\ conf \in Confs
    BY DEF TypeInv, EndDomain
  <1>2. D \in DomainType /\ at \in Doms /\ dom \in [Doms -> DomainType]
    BY <1>1, InHand DEF TypeInv, Doms
  <1>3. PICK src : /\ dom' = [dom EXCEPT ![at] = [D EXCEPT !.dst = t, !.src = src]]
                   /\ src = None \/ (Slaves(D) # {} /\ src = <<at, CHOOSE c \in Slaves(D) : TRUE>>)
    BY DEF EndDomain
  <1>4. \/ pc' = "update" /\ at' = 1
        \/ pc' = (IF at + 1 \in Instances THEN "reconfigure" ELSE "select") /\ at' = at + 1
    BY DEF EndDomain, Goto
  <1>5. src \in {None} \cup ((1..RT) \X Clocks)
    <2>1. Slaves(D) # {} => (CHOOSE c \in Slaves(D) : TRUE) \in Clocks
      BY <1>1, Configured DEF Slaves
    <2>2. at \in 1..RT
      BY <1>1, Constants
    <2> DEFINE c0 == CHOOSE c \in Slaves(D) : TRUE
    <2>3. src = None \/ (c0 \in Clocks /\ src = <<at, c0>>)
      BY <1>3, <2>1
    <2> HIDE DEF c0
    <2> QED
      BY <2>2, <2>3
  <1>6. t \in SUBSET Clocks
    BY <1>1, Configured DEF Destinations
  <1> DEFINE M == [D EXCEPT !.dst = t, !.src = src]
  <1> HIDE DEF D, t
  <1>7. M \in DomainType /\ Alike(M, D)
    BY <1>2, <1>5, <1>6 DEF DomainType, Alike
  <1>8. Effect(M)
    BY <1>3 DEF Effect
  <1> HIDE DEF M
  <1>9. /\ dom' \in [Doms' -> DomainType] /\ dom'[at] = M
        /\ \A d \in Instances : d # at => dom'[d] = dom[d]
    BY <1>1, <1>7, <1>8, Within
  <1>10. \A d \in Instances : Alike(dom'[d], dom[d])
    BY <1>7, <1>9 DEF Alike, D
  <1>11. at + 1 \notin Instances => at + 1 = RT
    BY <1>1, Constants
  <1> QED
    BY <1>1, <1>4, <1>9, <1>10, <1>11

\* reconfigure() distributes the sources.
LEMMA Selects ==
    ASSUME TypeInv, SelectSource
    PROVE  /\ dom' \in [Doms' -> DomainType] /\ conf' = conf /\ ptp' = ptp
           /\ \A d \in Instances : Alike(dom'[d], dom[d])
           /\ UNCHANGED <<clk, changed, found, missed, unheard>>
           /\ pc = "select" /\ pc' = "update" /\ at' = 1
  <1> DEFINE mine == IF conf.rt = "source" THEN <<RT, 0>> ELSE None
             own == IF RT \in Doms THEN [dom EXCEPT ![RT].dst = {0}, ![RT].src = mine] ELSE dom
             able == {d \in Doms : own[d].src # None}
             best == own[Min(able)].src
             SrcType == {None} \cup ((1..RT) \X Clocks)
  <1>1. /\ conf' = conf /\ ptp' = ptp /\ pc = "select" /\ pc' = "update" /\ at' = 1
        /\ UNCHANGED <<clk, changed, found, missed, unheard>>
    BY DEF SelectSource, Goto, hist
  <1>2. dom' = IF Cardinality(Doms) <= 1 \/ able = {} THEN own ELSE Select(own, best)
    BY DEF SelectSource
  <1>3. dom \in [Doms -> DomainType] /\ Doms' = Doms /\ Doms \subseteq 1..RT
    BY <1>1, Constants DEF TypeInv, Doms
  <1>4. RT \notin Instances /\ RT \in 1..RT /\ 0 \in Clocks
    BY Constants DEF Clocks
  <1>5. mine \in SrcType
    BY <1>4
  <1>6. ASSUME NEW D \in DomainType, NEW S \in SUBSET Clocks, NEW x \in SrcType
        PROVE  [D EXCEPT !.dst = S, !.src = x] \in DomainType
    BY <1>6 DEF DomainType
  <1>7. ASSUME NEW D \in DomainType, NEW x \in SrcType
        PROVE  [D EXCEPT !.src = x] \in DomainType /\ Alike([D EXCEPT !.src = x], D)
    BY <1>7 DEF DomainType, Alike
  <1> HIDE DEF mine, SrcType
  <1>8. own \in [Doms -> DomainType] /\ \A d \in Instances : own[d] = dom[d]
    <2>1. CASE RT \in Doms
      <3> DEFINE R == [dom[RT] EXCEPT !.dst = {0}, !.src = mine]
      <3>1. own = [dom EXCEPT ![RT] = R]
        BY <2>1, <1>3 DEF DomainType
      <3>2. R \in DomainType
        BY <2>1, <1>3, <1>4, <1>5, <1>6
      <3>3. Instances \subseteq Doms
        BY DEF Doms
      <3> HIDE DEF R, own
      <3> QED
        BY <3>1, <3>2, <3>3, <1>3, <1>4
    <2>2. CASE RT \notin Doms
      BY <2>2, <1>3
    <2> QED
      BY <2>1, <2>2
  <1>9. able # {} => best \in SrcType
    <2> SUFFICES ASSUME able # {} PROVE best \in SrcType
      OBVIOUS
    <2>1. able \in SUBSET Nat
      BY <1>3, Constants
    <2>2. Min(able) \in able
      BY <2>1, Smallest
    <2>3. own[Min(able)] \in DomainType
      BY <2>2, <1>8
    <2> QED
      BY <2>3 DEF DomainType, SrcType
  <1> HIDE DEF own, able, best
  <1>10. CASE Cardinality(Doms) <= 1 \/ able = {}
    <2>1. dom' = own
      BY <1>10, <1>2
    <2> QED
      BY <2>1, <1>1, <1>3, <1>8 DEF Alike
  <1>11. CASE ~(Cardinality(Doms) <= 1 \/ able = {})
    <2>1. dom' = [d \in Doms |-> IF own[d].src # None /\ d # RT THEN own[d]
                                 ELSE [own[d] EXCEPT !.src = best]]
      BY <1>11, <1>2 DEF Select
    <2>2. \A d \in Doms : dom'[d] \in DomainType /\ Alike(dom'[d], own[d])
      <3> TAKE d \in Doms
      <3>1. own[d] \in DomainType /\ best \in SrcType
        BY <1>8, <1>9, <1>11
      <3>2. [own[d] EXCEPT !.src = best] \in DomainType /\ Alike([own[d] EXCEPT !.src = best], own[d])
        BY <3>1, <1>7
      <3>3. Alike(own[d], own[d])
        BY DEF Alike
      <3> QED
        BY <2>1, <3>1, <3>2, <3>3
    <2>3. dom' \in [Doms' -> DomainType]
      BY <2>1, <2>2, <1>3
    <2>4. \A d \in Instances : Alike(dom'[d], dom[d])
      BY <2>2, <1>8 DEF Doms
    <2> QED
      BY <2>3, <2>4, <1>1
  <1> QED
    BY <1>10, <1>11

\* The request is noted.
LEMMA RequestNoted ==
    ASSUME TypeInv, Request
    PROVE  /\ dom' \in [Doms' -> DomainType] /\ conf' = conf
           /\ \A d \in Instances : Alike(dom'[d], dom[d])
           /\ UNCHANGED <<pc, at, clk, changed, found, missed, unheard>>
  <1> DEFINE D == dom[at]
             N == [D EXCEPT !.requested = TRUE]
  <1>1. at \in Instances /\ UNCHANGED <<conf, pc, at, clk, changed, found, missed, unheard>>
    BY DEF TypeInv, Request, hist
  <1>2. D \in DomainType
    BY <1>1, InHand
  <1>3. Effect(N)
    BY DEF Request, Effect, TypeInv, DomainType
  <1> HIDE DEF D
  <1>4. N \in DomainType /\ Alike(N, D)
    BY <1>2 DEF DomainType, Alike
  <1> HIDE DEF N
  <1>5. /\ dom' \in [Doms' -> DomainType] /\ dom'[at] = N
        /\ \A d \in Instances : d # at => dom'[d] = dom[d]
    BY <1>1, <1>3, <1>4, Within
  <1>6. \A d \in Instances : Alike(dom'[d], dom[d])
    BY <1>4, <1>5 DEF Alike, D
  <1> QED
    BY <1>1, <1>5, <1>6

\* A new turn begins: the connections have become older.
LEMMA Wakes ==
    ASSUME TypeInv, Wake
    PROVE  /\ dom' \in [Doms' -> DomainType] /\ conf' = conf
           /\ \A d \in Instances :
                  /\ dom'[d].port = dom[d].port /\ dom'[d].clock = dom[d].clock
                  /\ dom'[d].state_changed = dom[d].state_changed
                  /\ dom'[d].agent_subscribed = dom[d].agent_subscribed
                  /\ dom'[d].offset = dom[d].offset /\ dom'[d].want = dom[d].want
                  /\ dom'[d].age >= dom[d].age
           /\ UNCHANGED <<clk, found, missed, unheard>> /\ changed' = FALSE
           /\ pc = "sleep" /\ pc' \in {"renew", "drain"} /\ at' = 1
  <1>1. /\ conf' = conf /\ pc = "sleep" /\ pc' \in {"renew", "drain"} /\ at' = 1
        /\ UNCHANGED <<clk, found, missed, unheard>> /\ changed' = FALSE
    BY DEF Wake, Goto
  <1>2. dom' = [d \in Doms |-> IF d \in Instances /\ dom[d].age < Never
                               THEN [dom[d] EXCEPT !.age = @ + 1] ELSE dom[d]]
    BY DEF Wake
  <1>3. dom \in [Doms -> DomainType] /\ Doms' = Doms /\ Instances \subseteq Doms
    BY <1>1 DEF TypeInv, Doms
  <1>4. ASSUME NEW D \in DomainType, D.age < Never
        PROVE  LET N == [D EXCEPT !.age = D.age + 1]
               IN  /\ N \in DomainType /\ N.port = D.port /\ N.clock = D.clock
                   /\ N.state_changed = D.state_changed
                   /\ N.agent_subscribed = D.agent_subscribed
                   /\ N.offset = D.offset /\ N.want = D.want /\ N.age = D.age + 1
    <2>1. D.age + 1 \in 0..Never
      BY <1>4, Constants DEF DomainType
    <2> DEFINE n == D.age + 1
               N == [D EXCEPT !.age = n]
    <2> HIDE DEF n
    <2>2. /\ N \in DomainType /\ N.port = D.port /\ N.clock = D.clock
          /\ N.state_changed = D.state_changed
          /\ N.agent_subscribed = D.agent_subscribed
          /\ N.offset = D.offset /\ N.want = D.want /\ N.age = n
      BY <2>1 DEF DomainType, n
    <2> QED
      BY <2>2 DEF n
  <1>5. \A D \in DomainType : D.age \in Nat
    BY Constants DEF DomainType
  <1>6. ASSUME NEW d \in Doms
        PROVE  /\ dom'[d] \in DomainType
               /\ dom'[d].port = dom[d].port /\ dom'[d].clock = dom[d].clock
               /\ dom'[d].state_changed = dom[d].state_changed
               /\ dom'[d].agent_subscribed = dom[d].agent_subscribed
               /\ dom'[d].offset = dom[d].offset /\ dom'[d].want = dom[d].want
               /\ dom'[d].age >= dom[d].age
    <2>1. dom[d] \in DomainType /\ dom[d].age \in Nat
      BY <1>3, <1>5
    <2>2. CASE d \in Instances /\ dom[d].age < Never
      <3>1. dom'[d] = [dom[d] EXCEPT !.age = dom[d].age + 1]
        BY <1>2, <2>2, <2>1 DEF DomainType
      <3> QED
        BY <1>4, <2>1, <2>2, <3>1
    <2>3. CASE ~(d \in Instances /\ dom[d].age < Never)
      BY <1>2, <2>1, <2>3
    <2> QED
      BY <2>2, <2>3
  <1>7. dom' \in [Doms' -> DomainType]
    BY <1>2, <1>3, <1>6
  <1> QED
    BY <1>1, <1>3, <1>6, <1>7

\* The clock that is visited next, and those that were passed over.
LEMMA Visits ==
    ASSUME TypeInv, NextReinit
    PROVE  /\ at \in Instances /\ clk' \in Devices /\ clk' < clk
           /\ dom[at].clock[clk'].new_state # None
           /\ \A c \in Devices : c < clk /\ dom[at].clock[c].new_state # None => c <= clk'
           /\ pc = "reconfigure_domain" /\ pc' = "properties" /\ at' = at
           /\ UNCHANGED <<conf, ptp, dom, changed, found, missed, unheard>>
  <1>1. /\ at \in Instances /\ conf \in Confs /\ ToReinit # {} /\ clk' = Max(ToReinit)
        /\ pc = "reconfigure_domain" /\ pc' = "properties" /\ at' = at
        /\ UNCHANGED <<conf, ptp, dom, changed, found, missed, unheard>>
    BY DEF TypeInv, NextReinit, Goto, hist
  <1>2. ToReinit \subseteq 1..2
    BY <1>1, Configured DEF ToReinit, Ports
  <1>3. \E x \in ToReinit : \A y \in ToReinit : x >= y
    <2>1. CASE 2 \in ToReinit
      BY <2>1, <1>2
    <2>2. CASE 2 \notin ToReinit
      <3>1. \A y \in ToReinit : y = 1
        BY <2>2, <1>2
      <3> QED
        BY <3>1, <1>1
    <2> QED
      BY <2>1, <2>2
  <1>4. clk' \in ToReinit /\ \A y \in ToReinit : clk' >= y
    BY <1>1, <1>3 DEF Max
  <1> QED
    BY <1>1, <1>2, <1>4 DEF ToReinit

\* Every step keeps the half of the program.
LEMMA ProgramStep == TypeInv /\ [Next]_vars => ProgramInv'
  <1> SUFFICES ASSUME TypeInv, [Next]_vars PROVE ProgramInv'
    OBVIOUS
  <1>1. ProgramInv /\ conf \in Confs
    BY Halves DEF TypeInv
  <1>c. conf' = conf => Devices' = Devices /\ Doms' = Doms
    BY DEF Devices, Doms
  <1> DEFINE m == Head(ptp[at].inbox)
  <1>2. CASE Read
    <2>1. conf' = conf /\ Waiting /\ at \in Instances
      BY <1>2 DEF Read, TypeInv
    <2>2. CASE m \in Notes /\ Effect(recv_subscribed(dom[at], m))
               /\ UNCHANGED <<pc, at, clk, changed, found, missed>>
      <3> DEFINE D == dom[at]
                 N == recv_subscribed(D, m)
      <3>1. D \in DomainType
        BY <2>1, InHand
      <3>2. N \in DomainType
        BY <1>1, <2>2, <3>1, Received
      <3>3. Reiniting => N.clock[clk].new_state # None
        BY <1>1, <2>2, <3>1, Received DEF ProgramInv
      <3> HIDE DEF m, D, N
      <3>4. dom' \in [Doms' -> DomainType] /\ dom'[at] = N
        BY <2>1, <2>2, <3>2, Within DEF N, D
      <3> QED
        BY <1>1, <1>c, <2>1, <2>2, <3>3, <3>4 DEF ProgramInv, Waiting, Reiniting
    <2>3. CASE dom' = dom /\ UNCHANGED <<pc, at, clk, changed, found, missed>>
      BY <1>1, <1>c, <2>1, <2>3 DEF ProgramInv, Waiting, Reiniting
    <2>4. CASE m \in Answers /\ m.to = Asks /\ Return([dom[at] EXCEPT !.requested = FALSE], m)
      BY <2>1, <2>4, ReturnKeeps
    <2> QED
      BY <1>2, <2>2, <2>3, <2>4, Reads
  <1>3. CASE TimeOut
    <2>1. conf' = conf /\ Waiting /\ Return([dom[at] EXCEPT !.requested = FALSE], None)
      BY <1>3 DEF TimeOut
    <2> QED
      BY <2>1, ReturnKeeps
  <1>4. CASE Request
    <2>1. /\ dom' \in [Doms' -> DomainType] /\ conf' = conf
          /\ \A d \in Instances : Alike(dom'[d], dom[d])
          /\ UNCHANGED <<pc, at, clk, changed, found, missed>>
      BY <1>4, RequestNoted
    <2>2. Reiniting => dom'[at].clock = dom[at].clock
      BY <2>1, <1>1 DEF Alike, ProgramInv, Reiniting, Waiting
    <2> QED
      BY <1>1, <1>c, <2>1, <2>2 DEF ProgramInv, Waiting, Reiniting
  <1>5. CASE BeginReconfigure
    <2>1. /\ dom' \in [Doms' -> DomainType] /\ UNCHANGED <<changed, found, missed>>
          /\ pc' \in {"reconfigure_domain", "reconfigure", "select"} /\ clk' \in {clk, AboveAll}
          /\ at' \in Instances \/ (pc' = "select" /\ at' = RT)
      BY <1>5, Begins
    <2> QED
      BY <1>1, <2>1, Constants DEF ProgramInv, Waiting, Reiniting, Places
  <1>6. CASE NextReinit
    <2>1. /\ at \in Instances /\ clk' \in Devices /\ conf' = conf
          /\ dom[at].clock[clk'].new_state # None
          /\ pc' = "properties" /\ at' = at /\ UNCHANGED <<dom, changed, found, missed>>
      BY <1>6, Visits
    <2>2. clk' \in Clocks
      BY <1>1, <2>1, Configured
    <2> QED
      BY <1>1, <1>c, <2>1, <2>2 DEF ProgramInv, Waiting, Reiniting, Places
  <1>7. CASE EndDomain
    <2>1. /\ dom' \in [Doms' -> DomainType] /\ UNCHANGED <<clk, changed, found, missed>>
          /\ pc' \in {"update", "reconfigure", "select"}
          /\ at' \in Instances \/ (pc' = "select" /\ at' = RT) \/ (pc' = "update" /\ at' = 1)
      BY <1>7, Ends
    <2> QED
      BY <1>1, <2>1, Constants DEF ProgramInv, Waiting, Reiniting, Places
  <1>8. CASE SelectSource
    <2>1. /\ dom' \in [Doms' -> DomainType] /\ UNCHANGED <<clk, changed, found, missed>>
          /\ pc' = "update" /\ at' = 1
      BY <1>8, Selects
    <2> QED
      BY <1>1, <2>1, Constants DEF ProgramInv, Waiting, Reiniting, Places
  <1>9. CASE UpdateClocks
    <2>1. /\ UNCHANGED <<conf, dom, clk, changed, found, missed>> /\ pc' = "sleep" /\ at' = 1
      BY <1>9 DEF UpdateClocks, Goto
    <2> QED
      BY <1>1, <1>c, <2>1, Constants DEF ProgramInv, Waiting, Reiniting, Places
  <1>10. CASE Wake
    <2>1. /\ dom' \in [Doms' -> DomainType] /\ UNCHANGED <<clk, found, missed>> /\ changed' = FALSE
          /\ pc' \in {"renew", "drain"} /\ at' = 1
      BY <1>10, Wakes
    <2>2. at' \in Instances /\ at' \in 1..RT
      BY <2>1, Constants
    <2>3. changed' \in BOOLEAN
      BY <2>1, Zenon
    <2> QED
      BY <1>1, <2>1, <2>2, <2>3 DEF ProgramInv, Waiting, Reiniting, Places
  <1>11. CASE \/ \E d \in Instances : Answer(d) \/ Stall(d) \/ Resume(d)
              \/ \E d \in Instances, p \in Ports, s \in Reported, props \in BOOLEAN, phc \in Phcs :
                     PortChange(d, p, s, props, phc)
              \/ UNCHANGED vars
    <2>1. UNCHANGED <<conf, dom, pc, at, clk, changed, found, missed>>
      <3>1. CASE \E d \in Instances : Answer(d) \/ Stall(d) \/ Resume(d)
        BY <3>1 DEF Answer, Stall, Resume, hist
      <3>2. ASSUME NEW d \in Instances, NEW p \in Ports, NEW s \in Reported, NEW props \in BOOLEAN,
                   NEW phc \in Phcs, PortChange(d, p, s, props, phc)
            PROVE  UNCHANGED <<conf, dom, pc, at, clk, changed, found, missed>>
        BY <3>2 DEF PortChange
      <3>3. CASE UNCHANGED vars
        BY <3>3 DEF vars
      <3> QED
        BY <1>11, <3>1, <3>2, <3>3
    <2> QED
      BY <1>1, <1>c, <2>1 DEF ProgramInv, Waiting, Reiniting
  <1> QED
    BY <1>2, <1>3, <1>4, <1>5, <1>6, <1>7, <1>8, <1>9, <1>10, <1>11 DEF Next, Program

-----------------------------------------------------------------------------
\* auto_init_ports() makes a domain of the right type, in which every clock
\* means what follows from the states of its ports.
LEMMA Opened ==
    ASSUME conf \in Confs, NEW state \in [Ports -> Reported], NEW phc \in [Ports -> Phcs]
    PROVE  LET D == auto_init_ports(state, phc)
           IN  /\ D \in DomainType /\ Meaningful(D) /\ D.state_changed /\ ~D.agent_subscribed
               /\ D.age = Never /\ D.want = 0 /\ D.offset = 0
               /\ D.port = [p \in Ports |-> port_state_normalize(state[p])]
  <1> DEFINE port == [p \in Ports |-> port_state_normalize(state[p])]
             clock == [c \in Clocks |->
                      [state |-> "DISABLED",
                       new_state |-> IF c \in Devices THEN clock_compute_state(port, c) ELSE None,
                       phc |-> IF c = 0 THEN SysPhc ELSE phc[c]]]
             D == auto_init_ports(state, phc)
             none == {}
  <1>1. port \in [Ports -> States]
    BY Normalized
  <1>2. \A c \in Clocks : clock_compute_state(port, c) \in States /\ clock_compute_state(port, c) # None
    BY <1>1, Computed, NoneAssumption
  <1>3. D = [port |-> port, clock |-> clock, state_changed |-> TRUE, agent_subscribed |-> FALSE,
             requested |-> FALSE, age |-> Never, offset |-> 0, want |-> 0, dst |-> none,
             src |-> None]
    BY DEF auto_init_ports
  <1> HIDE DEF port
  <1>4. clock \in [Clocks -> ClockType]
    <2>1. \A c \in Clocks : (IF c = 0 THEN SysPhc ELSE phc[c]) \in Phcs \cup {SysPhc}
      BY DEF Clocks
    <2>2. "DISABLED" \in States
      BY DEF States
    <2> QED
      BY <1>2, <2>1, <2>2 DEF ClockType
  <1>5. \A c \in Devices : c \in Clocks
    BY Configured
  <1>6. \A c \in Devices : clock[c].new_state = clock_compute_state(port, c)
    BY <1>5
  <1>7. Never \in 0..Never /\ 0 \in 0..MaxChanges /\ none \in SUBSET Clocks
    BY Constants
  <1> HIDE DEF clock, D, none
  <1>8. /\ D \in DomainType /\ D.state_changed /\ ~D.agent_subscribed /\ D.age = Never
        /\ D.want = 0 /\ D.offset = 0 /\ D.port = port /\ D.clock = clock
    BY <1>1, <1>3, <1>4, <1>7 DEF DomainType, ClockType
  <1>9. Meaningful(D)
    BY <1>2, <1>5, <1>6, <1>8 DEF Meaningful, Meant
  <1> QED
    BY <1>8, <1>9 DEF D, port

\* The system clock has a domain of the right type.
LEMMA OpenedRt == ASSUME conf \in Confs PROVE auto_init_rt \in DomainType
  <1> DEFINE D == auto_init_ports([p \in Ports |-> "LISTENING"], [p \in Ports |-> 0])
             K == [c \in Clocks |-> [D.clock[c] EXCEPT !.new_state = None]]
  <1>1. [p \in Ports |-> "LISTENING"] \in [Ports -> Reported] /\ [p \in Ports |-> 0] \in [Ports -> Phcs]
    BY DEF Reported, Phcs
  <1>2. D \in DomainType
    BY <1>1, Opened
  <1>3. auto_init_rt = [D EXCEPT !.state_changed = FALSE, !.clock = K]
    BY <1>2 DEF auto_init_rt, DomainType
  <1> HIDE DEF D
  <1>4. K \in [Clocks -> ClockType]
    BY <1>2 DEF DomainType, ClockType
  <1> HIDE DEF K
  <1> QED
    BY <1>2, <1>3, <1>4 DEF DomainType, ClockType

\* The start of the program, domain by domain.
LEMMA Starts ==
    ASSUME Init
    PROVE  /\ TypeInv /\ pc = "sleep" /\ unheard = {} /\ found = {} /\ missed = {}
           /\ \A d \in Instances :
                  /\ ptp[d].inbox = <<>> /\ ptp[d].props = 0
                  /\ dom[d].port = [p \in Ports |-> port_state_normalize(ptp[d].state[p])]
                  /\ Meaningful(dom[d]) /\ dom[d].state_changed /\ ~dom[d].agent_subscribed
                  /\ dom[d].age = Never /\ dom[d].want = 0
  <1> DEFINE quiet == [p \in Ports |-> "LISTENING"]
             none == <<>>
             P == [alive |-> TRUE, state |-> quiet, phc |-> conf.phc, props |-> 0,
                   pending |-> none, inbox |-> none, subscribed |-> Lifetime]
  <1>1. /\ conf \in Confs /\ ptp = [d \in Instances |-> P]
        /\ dom = [d \in Doms |-> IF d = RT THEN auto_init_rt
                                 ELSE auto_init_ports(ptp[d].state, conf.phc)]
        /\ pc = "sleep" /\ at = 1 /\ clk = 0 /\ changes = 0
        /\ unheard = {} /\ found = {} /\ missed = {}
    BY DEF Init
  <1>c. changed \in BOOLEAN
    BY Zenon DEF Init
  <1>2. conf.phc \in [Ports -> Phcs] /\ quiet \in [Ports -> Reported]
    BY <1>1, Configured DEF Reported
  <1>3. P \in ServerType /\ P.state = quiet /\ P.inbox = <<>> /\ P.props = 0
    <2>1. none \in Seq(Requests) /\ none \in Seq(Notes \cup Answers)
      OBVIOUS
    <2>2. Lifetime \in 0..Lifetime /\ 0 \in 0..MaxChanges
      BY Constants
    <2> HIDE DEF none, quiet
    <2>3. P \in ServerType /\ P.state = quiet /\ P.inbox = none /\ P.props = 0
      BY <1>2, <2>1, <2>2 DEF ServerType
    <2> QED
      BY <2>3 DEF none
  <1> HIDE DEF P, quiet
  <1>4. ptp \in [Instances -> ServerType] /\ \A d \in Instances : ptp[d] = P
    BY <1>1, <1>3
  <1>5. Doms = Instances \/ Doms = Instances \cup {RT}
    BY DEF Doms
  <1>6. RT \notin Instances /\ 1 \in Instances /\ 1 \in 1..RT /\ 0 <= MaxInbox /\ 0 <= 0 /\ MaxChanges >= 0
    BY Constants
  <1> DEFINE D == auto_init_ports(quiet, conf.phc)
  <1>7. \A d \in Instances : dom[d] = D
    BY <1>1, <1>3, <1>4, <1>5, <1>6
  <1>8. /\ D \in DomainType /\ Meaningful(D) /\ D.state_changed /\ ~D.agent_subscribed
        /\ D.age = Never /\ D.want = 0
        /\ D.port = [p \in Ports |-> port_state_normalize(quiet[p])]
    BY <1>1, <1>2, Opened
  <1> HIDE DEF D
  <1>9. dom \in [Doms -> DomainType]
    <2>1. \A d \in Doms : dom[d] \in DomainType
      BY <1>1, <1>5, <1>6, <1>7, <1>8, OpenedRt
    <2> QED
      BY <1>1, <2>1
  <1>10. TypeInv
    <2>1. Len(P.inbox) = 0
      BY <1>3
    <2>2. \A d \in Instances : ptp[d].props <= changes /\ Len(ptp[d].inbox) <= MaxInbox
      BY <1>1, <1>3, <1>4, <1>6, <2>1
    <2>3. clk \in Clocks /\ changes \in 0..MaxChanges /\ pc \in Places /\ ~Waiting /\ ~Reiniting
      BY <1>1, <1>6, Constants DEF Clocks, Places, Waiting, Reiniting
    <2> QED
      BY <1>1, <1>c, <1>4, <1>6, <1>9, <2>2, <2>3 DEF TypeInv
  <1> QED
    BY <1>1, <1>3, <1>4, <1>7, <1>8, <1>10

\* The types are right.
LEMMA TypesHold == TypeInv => TypeOK
  <1> SUFFICES ASSUME TypeInv PROVE TypeOK
    OBVIOUS
  <1>1. \A d \in Doms : dom[d] \in DomainType
    BY DEF TypeInv
  <1>2. ASSUME NEW d \in Instances
        PROVE  /\ [f \in DOMAIN ptp[d] \ {"inbox", "pending"} |-> ptp[d][f]] \in PtpType
               /\ ptp[d].pending \in Seq(Requests)
               /\ ptp[d].inbox \in Seq(Notes \cup Answers) /\ Len(ptp[d].inbox) <= MaxInbox
    <2> DEFINE P == ptp[d]
    <2>1. P \in ServerType /\ Len(P.inbox) <= MaxInbox
      BY DEF TypeInv
    <2> HIDE DEF P
    <2>2. P.pending \in Seq(Requests) /\ P.inbox \in Seq(Notes \cup Answers)
      BY <2>1 DEF ServerType
    <2>3. DOMAIN P = {"alive", "state", "phc", "props", "pending", "inbox", "subscribed"}
      BY <2>1 DEF ServerType
    <2>4. DOMAIN P \ {"inbox", "pending"} = {"alive", "state", "phc", "props", "subscribed"}
      BY <2>3
    <2> DEFINE R == [alive |-> P.alive, state |-> P.state, phc |-> P.phc, props |-> P.props,
                     subscribed |-> P.subscribed]
    <2>5. R \in PtpType
      BY <2>1 DEF ServerType, PtpType
    <2>6. [f \in {"alive", "state", "phc", "props", "subscribed"} |-> P[f]] = R
      OBVIOUS
    <2> HIDE DEF R
    <2>7. [f \in DOMAIN P \ {"inbox", "pending"} |-> P[f]] \in PtpType
      BY <2>4, <2>5, <2>6
    <2> QED
      BY <2>1, <2>2, <2>7 DEF P
  <1>3. UNION {unheard, found, missed} \subseteq Instances
    BY DEF TypeInv
  <1> QED
    BY <1>1, <1>2, <1>3 DEF TypeOK, TypeInv

-----------------------------------------------------------------------------
\* The next domain, or what follows the last.
Onwards ==
    \/ at' = at + 1 /\ at' \in Instances /\ pc' \in {"renew", "drain"}
    \/ at = NDomains /\ at' = 1 /\ pc' \in {"reconfigure", "update"}

\* What the return of run_pmc() does to the domain in hand, field by field: for
\* pmc_agent_update(), for the messages read, for the forced query and for the
\* two queries of clock_reinit().
ReturnedTo(D, N) ==
    /\ \A d \in Instances : d # at => dom'[d] = dom[d]
    /\ N.want = D.want /\ (N.state_changed <=> D.state_changed)

ReadsUtc(N, m) == m \in Answers /\ m.to[1] = "UTC" /\ N.offset = m.props

UpdateEffect(D, N, m) ==
    /\ pc \in {"renew", "utc"} /\ pc' \in {"utc", "drain"} /\ at' = at /\ Stays
    /\ N.port = D.port /\ N.clock = D.clock /\ (N.agent_subscribed <=> D.agent_subscribed)
    /\ (N.offset = D.offset /\ N.age = D.age) \/ ReadsUtc(N, m)

DrainEffect(D, N) ==
    /\ pc = "drain" /\ N.port = D.port /\ N.clock = D.clock
    /\ N.offset = D.offset /\ N.age = D.age /\ (N.agent_subscribed <=> is_subscribed(D))
    /\ missed' = missed /\ clk' = clk
    /\ \A d \in Instances : d # at => (d \in found' <=> d \in found)
    /\ ~D.state_changed =>
           (at \in found' <=> at \in found \/ (is_subscribed(D) /\ ~D.agent_subscribed))
    /\ \/ is_subscribed(D) /\ D.state_changed /\ pc' = "force" /\ at' = at
       \/ ~(is_subscribed(D) /\ D.state_changed) /\ Onwards

ForceEffect(D, N, m) ==
    /\ pc = "force" /\ N.port = D.port /\ N.clock = D.clock /\ N.age = D.age
    /\ (N.agent_subscribed <=> D.agent_subscribed) /\ Onwards
    /\ found' = found /\ clk' = clk
    /\ \A d \in Instances : d # at => (d \in missed' <=> d \in missed)
    /\ at \in missed' \/ ReadsUtc(N, m)

ReinitEffect(D, N, m) ==
    /\ Reiniting /\ at' = at /\ Stays
    /\ (N.agent_subscribed <=> D.agent_subscribed) /\ N.offset = D.offset /\ N.age = D.age
    /\ \/ /\ pc = "properties" /\ pc' = "hwclock" /\ N.clock = D.clock
          /\ m \in Answers /\ m.to = <<"PROPERTIES", PortOf(clk)>> /\ m.state \in Reported
          /\ \A p \in Ports : N.port[p] = IF p = PortOf(clk) THEN port_state_normalize(m.state)
                                          ELSE D.port[p]
       \/ /\ pc' = "reconfigure_domain" /\ N.port = D.port
          /\ N.clock[clk].new_state = None
          /\ \A c \in Devices : c # clk => N.clock[c] = D.clock[c]
          /\ Meaningful(D) => Meaningful(N)

\* A call that returns has one of these effects.
LEMMA ReturnEffects ==
    ASSUME TypeInv, Waiting, conf' = conf, NEW m, m = None \/ (m \in Answers /\ m.to = Asks),
           Return([dom[at] EXCEPT !.requested = FALSE], m)
    PROVE  LET D == dom[at]
               N == dom'[at]
           IN  /\ ReturnedTo(D, N)
               /\ \/ UpdateEffect(D, N, m) \/ DrainEffect(D, N)
                  \/ ForceEffect(D, N, m) \/ ReinitEffect(D, N, m)
  <1> DEFINE D == dom[at]
             E == [D EXCEPT !.requested = FALSE]
             N == dom'[at]
             Goal == /\ ReturnedTo(D, N)
                     /\ \/ UpdateEffect(D, N, m) \/ DrainEffect(D, N)
                        \/ ForceEffect(D, N, m) \/ ReinitEffect(D, N, m)
  <1> SUFFICES Goal
    OBVIOUS
  <1>1. at \in Instances /\ ProgramInv /\ conf \in Confs
    BY Halves DEF TypeInv
  <1>2. /\ D \in DomainType /\ E \in DomainType
        /\ E.port = D.port /\ E.clock = D.clock /\ (E.state_changed <=> D.state_changed)
        /\ (E.agent_subscribed <=> D.agent_subscribed) /\ E.age = D.age
        /\ E.offset = D.offset /\ E.want = D.want
    BY <1>1, InHand
  <1>3. Reiniting => clk \in Devices /\ clk \in Clocks /\ E.clock[clk].new_state # None
                     /\ PortOf(clk) \in Ports
    BY <1>1, <1>2, Configured, Spokesman DEF TypeInv
  <1>4. E.clock[clk].phc \in Phcs \cup {SysPhc} \/ ~Reiniting
    BY <1>2, <1>3 DEF DomainType
  <1>5. Return(E, m)
    OBVIOUS
  <1>6. (Meaningful(D) => Meaningful(E)) /\ (is_subscribed(E) <=> is_subscribed(D))
    BY <1>2 DEF Meaningful, Meant, is_subscribed
  <1>w. ASSUME NEW M \in DomainType, Effect(M)
        PROVE  N = M /\ \A d \in Instances : d # at => dom'[d] = dom[d]
    BY <1>1, <1>w, Within
  <1> HIDE DEF E, D, N
  <1>7. ASSUME Effect(E), pc \in {"renew", "utc"}, pc' \in {"utc", "drain"}, at' = at, Stays
        PROVE  Goal
    <2>1. N = E /\ \A d \in Instances : d # at => dom'[d] = dom[d]
      BY <1>2, <1>7, <1>w
    <2> QED
      BY <1>2, <1>7, <2>1 DEF ReturnedTo, UpdateEffect
  <1>8. ASSUME pc = "utc", pc' = "drain", at' = at, Stays,
               m \in Answers, m.to[1] = "UTC", m.props \in 0..MaxChanges,
               Effect([E EXCEPT !.offset = m.props, !.age = 0])
        PROVE  Goal
    <2> DEFINE M == [E EXCEPT !.offset = m.props, !.age = 0]
    <2>1. 0 \in 0..Never
      BY Constants
    <2>2. /\ M \in DomainType /\ M.port = E.port /\ M.clock = E.clock
          /\ (M.agent_subscribed <=> E.agent_subscribed) /\ M.want = E.want
          /\ (M.state_changed <=> E.state_changed) /\ M.offset = m.props
      BY <1>2, <1>8, <2>1 DEF DomainType
    <2>3. Effect(M)
      BY <1>8
    <2> HIDE DEF M
    <2>4. N = M /\ \A d \in Instances : d # at => dom'[d] = dom[d]
      BY <2>2, <2>3, <1>w
    <2> QED
      BY <1>2, <1>8, <2>2, <2>4 DEF ReturnedTo, UpdateEffect, ReadsUtc
  <1>9. ASSUME pc = "drain", AfterDrain(E) PROVE Goal
    <2> DEFINE now == is_subscribed(E)
               M == [E EXCEPT !.agent_subscribed = now]
    <2>1. now \in BOOLEAN
      BY DEF is_subscribed
    <2>2. Effect(M) /\ AfterState(E, now) /\ UNCHANGED <<clk, missed>>
      BY <1>9 DEF AfterDrain, Effect
    <2>3. found' = CASE E.state_changed -> found \ {at}
                     [] now /\ ~E.agent_subscribed /\ ~E.state_changed -> found \cup {at}
                     [] OTHER -> found
      BY <1>9 DEF AfterDrain
    <2> HIDE DEF now
    <2>4. /\ M \in DomainType /\ M.port = E.port /\ M.clock = E.clock
          /\ (M.agent_subscribed <=> now) /\ M.want = E.want /\ M.age = E.age
          /\ (M.state_changed <=> E.state_changed) /\ M.offset = E.offset
      BY <1>2, <2>1 DEF DomainType
    <2> HIDE DEF M
    <2>5. N = M /\ \A d \in Instances : d # at => dom'[d] = dom[d]
      BY <2>2, <2>4, <1>w
    <2>6. /\ \A d \in Instances : d # at => (d \in found' <=> d \in found)
          /\ ~D.state_changed => (at \in found' <=> at \in found \/ (now /\ ~D.agent_subscribed))
      BY <2>3, <1>2
    <2>7. \/ now /\ D.state_changed /\ pc' = "force" /\ at' = at
          \/ ~(now /\ D.state_changed) /\ Onwards
      <3>1. CASE now /\ E.state_changed
        BY <3>1, <2>2, <1>2 DEF AfterState, Goto
      <3>2. CASE ~(now /\ E.state_changed)
        <4> DEFINE flag == changed \/ (~now /\ E.agent_subscribed)
        <4>1. flag \in BOOLEAN
          BY <1>1, <1>2 DEF ProgramInv, DomainType
        <4>2. NextDomain(flag)
          BY <3>2, <2>2 DEF AfterState
        <4> HIDE DEF flag
        <4>3. Onwards
          BY <4>1, <4>2, <1>1, Onward DEF Onwards
        <4> QED
          BY <3>2, <4>3, <1>2
      <3> QED
        BY <3>1, <3>2
    <2>8. now <=> is_subscribed(D)
      BY <1>6 DEF now
    <2> QED
      BY <1>2, <1>9, <2>2, <2>4, <2>5, <2>6, <2>7, <2>8 DEF ReturnedTo, DrainEffect
  <1>10. ASSUME pc = "force", NextDomain(TRUE), UNCHANGED <<clk, found>>,
                \/ Effect(E) /\ missed' = missed \cup {at}
                \/ /\ m \in Answers /\ m.to[1] = "UTC" /\ m.props \in 0..MaxChanges
                   /\ Effect([E EXCEPT !.offset = m.props]) /\ missed' = missed \ {at}
         PROVE  Goal
    <2>1. Onwards
      <3> DEFINE flag == TRUE
      <3>1. flag \in BOOLEAN /\ NextDomain(flag)
        BY <1>10
      <3> HIDE DEF flag
      <3> QED
        BY <3>1, <1>1, Onward DEF Onwards
    <2>2. CASE Effect(E) /\ missed' = missed \cup {at}
      <3>1. N = E /\ \A d \in Instances : d # at => dom'[d] = dom[d]
        BY <1>2, <2>2, <1>w
      <3> QED
        BY <1>2, <1>10, <2>1, <2>2, <3>1 DEF ReturnedTo, ForceEffect
    <2>3. CASE /\ m \in Answers /\ m.to[1] = "UTC" /\ m.props \in 0..MaxChanges
               /\ Effect([E EXCEPT !.offset = m.props]) /\ missed' = missed \ {at}
      <3> DEFINE M == [E EXCEPT !.offset = m.props]
      <3>1. /\ M \in DomainType /\ M.port = E.port /\ M.clock = E.clock
            /\ (M.agent_subscribed <=> E.agent_subscribed) /\ M.want = E.want /\ M.age = E.age
            /\ (M.state_changed <=> E.state_changed) /\ M.offset = m.props
        BY <1>2, <2>3 DEF DomainType
      <3>2. Effect(M)
        BY <2>3
      <3> HIDE DEF M
      <3>3. N = M /\ \A d \in Instances : d # at => dom'[d] = dom[d]
        BY <3>1, <3>2, <1>w
      <3> QED
        BY <1>2, <1>10, <2>1, <2>3, <3>1, <3>3 DEF ReturnedTo, ForceEffect, ReadsUtc
    <2> QED
      BY <1>10, <2>2, <2>3
  <1>11. ASSUME pc = "properties", pc' = "hwclock", at' = at, Stays,
                m \in Answers, m.to = <<"PROPERTIES", PortOf(clk)>>, m.state \in Reported,
                Effect([E EXCEPT !.port[PortOf(clk)] = port_state_normalize(m.state)])
         PROVE  Goal
    <2> DEFINE s == port_state_normalize(m.state)
               p == PortOf(clk)
               M == [E EXCEPT !.port[p] = s]
    <2>1. s \in States /\ p \in Ports /\ Reiniting
      BY <1>11, <1>3, Normalized DEF Reiniting
    <2>2. Effect(M)
      BY <1>11
    <2> HIDE DEF s, p
    <2>3. /\ M \in DomainType /\ M.clock = E.clock /\ M.want = E.want /\ M.offset = E.offset
          /\ (M.agent_subscribed <=> E.agent_subscribed) /\ M.age = E.age
          /\ (M.state_changed <=> E.state_changed)
          /\ \A q \in Ports : M.port[q] = IF q = p THEN s ELSE E.port[q]
      BY <1>2, <2>1 DEF DomainType
    <2> HIDE DEF M
    <2>4. N = M /\ \A d \in Instances : d # at => dom'[d] = dom[d]
      BY <2>2, <2>3, <1>w
    <2> QED
      BY <1>2, <1>11, <2>1, <2>3, <2>4 DEF ReturnedTo, ReinitEffect, s, p
  <1>12. ASSUME Reiniting, pc' = "reconfigure_domain", at' = at, Stays,
                NEW phc \in Phcs \cup {SysPhc}, Effect(Reinited(E, phc))
         PROVE  Goal
    <2> DEFINE M == Reinited(E, phc)
    <2>1. /\ M \in DomainType /\ M.port = E.port /\ M.want = E.want /\ M.offset = E.offset
          /\ (M.agent_subscribed <=> E.agent_subscribed) /\ M.age = E.age
          /\ (M.state_changed <=> E.state_changed) /\ M.clock[clk].new_state = None
          /\ \A c \in Devices : c # clk => M.clock[c] = E.clock[c]
          /\ Meaningful(E) => Meaningful(M)
      BY <1>1, <1>2, <1>3, <1>12, ReinitApplies
    <2> HIDE DEF M
    <2>2. N = M /\ \A d \in Instances : d # at => dom'[d] = dom[d]
      BY <2>1, <1>12, <1>w DEF M
    <2> QED
      BY <1>2, <1>6, <1>12, <2>1, <2>2 DEF ReturnedTo, ReinitEffect
  <1> HIDE DEF Goal
  <1> QED
    BY <1>4, <1>5, <1>7, <1>8, <1>9, <1>10, <1>11, <1>12, Returns

-----------------------------------------------------------------------------
\* Messages that tell a version of the time properties.
Carries(m) == m.kind = "NOTIFY" \/ (m.kind = "ANSWER" /\ m.to[1] = "UTC")

\* The versions in a socket are in order, from what is wanted to what is true.
InOrder(want, q, top) ==
    /\ want <= top
    /\ \A i \in 1..Len(q) : Carries(q[i]) => want <= q[i].props /\ q[i].props <= top
    /\ \A i, j \in 1..Len(q) :
           i < j /\ Carries(q[i]) /\ Carries(q[j]) => q[i].props <= q[j].props

Ordered(d) == InOrder(dom[d].want, ptp[d].inbox, ptp[d].props)

\* What carries a version has a number for it.
LEMMA CarriesNumber ==
    ASSUME NEW m \in Notes \cup Answers, Carries(m) PROVE m.props \in 0..MaxChanges
  <1>1. CASE m \in Notes
    BY <1>1 DEF Notes
  <1>2. CASE m \in Answers
    BY <1>2 DEF Answers, Carries
  <1> QED
    BY <1>1, <1>2

\* The order survives the reading of a message, of which the version may be what
\* is wanted from then on.
LEMMA OrderRead ==
    ASSUME NEW q \in Seq(Notes \cup Answers), q # <<>>, NEW w \in 0..MaxChanges,
           NEW t \in 0..MaxChanges, InOrder(w, q, t)
    PROVE  /\ InOrder(w, Tail(q), t)
           /\ Carries(Head(q)) => w <= Head(q).props /\ InOrder(Head(q).props, Tail(q), t)
  <1>1. Len(q) \in Nat /\ Len(q) >= 1 /\ Head(q) = q[1] /\ Len(Tail(q)) = Len(q) - 1
    OBVIOUS
  <1>2. \A i \in 1..Len(Tail(q)) : Tail(q)[i] = q[i + 1] /\ i + 1 \in 1..Len(q)
    BY <1>1
  <1>3. \A i \in 1..Len(q) : q[i] \in Notes \cup Answers
    OBVIOUS
  <1>4. InOrder(w, Tail(q), t)
    <2>1. \A i \in 1..Len(Tail(q)) : Carries(Tail(q)[i]) => w <= Tail(q)[i].props /\ Tail(q)[i].props <= t
      BY <1>2 DEF InOrder
    <2>2. \A i, j \in 1..Len(Tail(q)) :
             i < j /\ Carries(Tail(q)[i]) /\ Carries(Tail(q)[j]) => Tail(q)[i].props <= Tail(q)[j].props
      <3> TAKE i, j \in 1..Len(Tail(q))
      <3> HAVE i < j /\ Carries(Tail(q)[i]) /\ Carries(Tail(q)[j])
      <3>1. i + 1 < j + 1 /\ i + 1 \in 1..Len(q) /\ j + 1 \in 1..Len(q)
        BY <1>1, <1>2
      <3> QED
        BY <1>2, <3>1 DEF InOrder
    <2> QED
      BY <2>1, <2>2 DEF InOrder
  <1>5. ASSUME Carries(Head(q)) PROVE w <= Head(q).props /\ InOrder(Head(q).props, Tail(q), t)
    <2> DEFINE v == q[1].props
    <2>1. 1 \in 1..Len(q) /\ Carries(q[1])
      BY <1>1, <1>5
    <2>2. w <= v /\ v <= t
      BY <2>1 DEF InOrder
    <2>3. \A i \in 1..Len(Tail(q)) : Carries(Tail(q)[i]) => v <= Tail(q)[i].props
      <3> TAKE i \in 1..Len(Tail(q))
      <3> HAVE Carries(Tail(q)[i])
      <3>1. 1 < i + 1 /\ i + 1 \in 1..Len(q) /\ Tail(q)[i] = q[i + 1]
        BY <1>1, <1>2
      <3> QED
        BY <2>1, <3>1 DEF InOrder
    <2> QED
      BY <1>1, <1>4, <2>2, <2>3 DEF InOrder
  <1> QED
    BY <1>4, <1>5

\* It survives messages that tell the present version, at the end.
LEMMA OrderAppend ==
    ASSUME NEW q \in Seq(Notes \cup Answers), NEW r \in Seq(Notes \cup Answers),
           NEW w \in 0..MaxChanges, NEW t \in 0..MaxChanges, NEW u \in 0..MaxChanges,
           InOrder(w, q, t), t <= u, Len(q) <= Len(r),
           \A i \in 1..Len(q) : r[i] = q[i],
           \A i \in (Len(q) + 1)..Len(r) : Carries(r[i]) => r[i].props = u
    PROVE  InOrder(w, r, u)
  <1>1. Len(q) \in Nat /\ Len(r) \in Nat /\ MaxChanges \in Nat
    BY Constants
  <1>2. \A i \in 1..Len(r) : i \in 1..Len(q) \/ i \in (Len(q) + 1)..Len(r)
    BY <1>1
  <1>3. w <= u
    BY <1>1 DEF InOrder
  <1>4. \A i \in 1..Len(r) : Carries(r[i]) => r[i].props \in 0..MaxChanges
    BY CarriesNumber
  <1>5. \A i \in 1..Len(r) : Carries(r[i]) => w <= r[i].props /\ r[i].props <= u
    <2> TAKE i \in 1..Len(r)
    <2> HAVE Carries(r[i])
    <2>1. CASE i \in 1..Len(q)
      <3>1. r[i] = q[i] /\ w <= q[i].props /\ q[i].props <= t
        BY <2>1 DEF InOrder
      <3>2. r[i].props \in 0..MaxChanges
        BY <1>4
      <3> QED
        BY <3>1, <3>2, <1>1
    <2>2. CASE i \in (Len(q) + 1)..Len(r)
      BY <2>2, <1>1, <1>3
    <2> QED
      BY <1>2, <2>1, <2>2
  <1>6. \A i, j \in 1..Len(r) : i < j /\ Carries(r[i]) /\ Carries(r[j]) => r[i].props <= r[j].props
    <2> TAKE i, j \in 1..Len(r)
    <2> HAVE i < j /\ Carries(r[i]) /\ Carries(r[j])
    <2>1. CASE j \in 1..Len(q)
      <3>1. i \in 1..Len(q) /\ r[i] = q[i] /\ r[j] = q[j]
        BY <2>1, <1>1
      <3> QED
        BY <2>1, <3>1 DEF InOrder
    <2>2. CASE j \in (Len(q) + 1)..Len(r)
      BY <2>2, <1>5
    <2> QED
      BY <1>2, <2>1, <2>2
  <1> QED
    BY <1>3, <1>5, <1>6 DEF InOrder

\* The types of what Ordered is about.
LEMMA OrderTypes ==
    ASSUME TypeInv, NEW d \in Instances
    PROVE  /\ dom[d].want \in 0..MaxChanges /\ dom[d].offset \in 0..MaxChanges
           /\ dom[d].age \in 0..Never /\ dom[d] \in DomainType
           /\ ptp[d].props \in 0..MaxChanges /\ ptp[d].inbox \in Seq(Notes \cup Answers)
           /\ ptp[d].state \in [Ports -> Reported] /\ dom[d].port \in [Ports -> States]
  <1>1. dom[d] \in DomainType /\ ptp[d] \in ServerType
    BY DEF TypeInv, Doms
  <1> QED
    BY <1>1 DEF DomainType, ServerType

\* The versions stay in order.
LEMMA OrderStep ==
    ASSUME TypeInv, TypeInv', [Next]_vars, \A d \in Instances : Ordered(d)
    PROVE  \A d \in Instances : Ordered(d)'
  <1> SUFFICES ASSUME NEW d \in Instances PROVE Ordered(d)'
    OBVIOUS
  <1> DEFINE q == ptp[d].inbox
             r == ptp'[d].inbox
  <1>1. /\ dom[d].want \in 0..MaxChanges /\ ptp[d].props \in 0..MaxChanges
        /\ q \in Seq(Notes \cup Answers) /\ InOrder(dom[d].want, q, ptp[d].props)
    BY OrderTypes DEF Ordered
  <1>2. ptp'[d].props \in 0..MaxChanges /\ r \in Seq(Notes \cup Answers)
    BY DEF TypeInv, ServerType
  <1>3. ASSUME dom'[d].want = dom[d].want, ptp'[d].props = ptp[d].props, r = q PROVE Ordered(d)'
    BY <1>1, <1>3 DEF Ordered
  <1>4. CASE Read
    <2>1. /\ at \in Instances /\ conf' = conf /\ Waiting /\ ptp[at].inbox # <<>>
          /\ ptp'[at].inbox = Tail(ptp[at].inbox)
          /\ ptp'[d].props = ptp[d].props /\ (d # at => r = q)
      BY <1>4, Dequeues DEF Read
    <2> DEFINE m == Head(ptp[at].inbox)
    <2>2. CASE m \in Notes /\ Effect(recv_subscribed(dom[at], m))
      <3> DEFINE N == recv_subscribed(dom[at], m)
      <3>1. dom[at] \in DomainType /\ conf \in Confs
        BY <2>1, InHand DEF TypeInv
      <3>2. N \in DomainType /\ (N.want = dom[at].want \/ N.want = m.props)
        BY <2>2, <3>1, Received
      <3>3. Carries(m)
        BY <2>2 DEF Carries, Notes
      <3>4. Effect(N)
        BY <2>2
      <3> HIDE DEF N
      <3>5. dom'[at] = N /\ (d # at => dom'[d] = dom[d])
        BY <2>1, <3>2, <3>4, Within
      <3>6. CASE d = at
        <4>1. InOrder(dom[d].want, Tail(q), ptp[d].props) /\ InOrder(m.props, Tail(q), ptp[d].props)
          BY <1>1, <2>1, <3>3, <3>6, OrderRead
        <4>2. r = Tail(q) /\ (dom'[d].want = dom[d].want \/ dom'[d].want = m.props)
          BY <2>1, <3>2, <3>5, <3>6
        <4> HIDE DEF m
        <4> QED
          BY <2>1, <4>1, <4>2 DEF Ordered
      <3> QED
        BY <1>3, <2>1, <3>5, <3>6
    <2>3. CASE dom' = dom \/ (m \in Answers /\ m.to = Asks
                              /\ Return([dom[at] EXCEPT !.requested = FALSE], m))
      <3>1. dom'[d].want = dom[d].want
        BY <2>1, <2>3, ReturnEffects DEF ReturnedTo
      <3>2. CASE d = at
        <4>1. InOrder(dom[d].want, Tail(q), ptp[d].props) /\ r = Tail(q)
          BY <1>1, <2>1, <3>2, OrderRead
        <4> QED
          BY <2>1, <3>1, <4>1 DEF Ordered
      <3> QED
        BY <1>3, <2>1, <3>1, <3>2
    <2> QED
      BY <1>4, <2>2, <2>3, Reads
  <1>5. CASE TimeOut
    <2>1. ptp' = ptp /\ conf' = conf /\ Waiting
          /\ Return([dom[at] EXCEPT !.requested = FALSE], None)
      BY <1>5 DEF TimeOut
    <2>2. dom'[d].want = dom[d].want
      BY <2>1, ReturnEffects DEF ReturnedTo
    <2> QED
      BY <1>3, <2>1, <2>2
  <1>6. CASE Request \/ Wake \/ \E e \in Instances : Stall(e) \/ Resume(e)
    <2>1. ptp'[d].props = ptp[d].props /\ r = q
      BY <1>6, Quiet
    <2>2. dom'[d].want = dom[d].want
      <3>1. CASE Request
        BY <3>1, RequestNoted DEF Alike
      <3>2. CASE Wake
        BY <3>2, Wakes
      <3>3. CASE \E e \in Instances : Stall(e) \/ Resume(e)
        BY <3>3 DEF Stall, Resume
      <3> QED
        BY <1>6, <3>1, <3>2, <3>3
    <2> QED
      BY <1>3, <2>1, <2>2
  <1>7. CASE BeginReconfigure \/ NextReinit \/ EndDomain \/ SelectSource \/ UpdateClocks
             \/ UNCHANGED vars
    <2>1. ptp' = ptp
      BY <1>7 DEF BeginReconfigure, NextReinit, EndDomain, SelectSource, UpdateClocks, vars
    <2>2. dom'[d].want = dom[d].want
      <3>1. CASE BeginReconfigure
        BY <3>1, Begins
      <3>2. CASE EndDomain
        BY <3>2, Ends DEF Alike
      <3>3. CASE SelectSource
        BY <3>3, Selects DEF Alike
      <3>4. CASE NextReinit \/ UpdateClocks \/ UNCHANGED vars
        BY <3>4 DEF NextReinit, UpdateClocks, vars
      <3> QED
        BY <1>7, <3>1, <3>2, <3>3, <3>4
    <2> QED
      BY <1>3, <2>1, <2>2
  <1>8. ASSUME NEW e \in Instances, Answer(e) PROVE Ordered(d)'
    <2>1. dom' = dom
      BY <1>8 DEF Answer
    <2>2. CASE d # e
      BY <1>3, <1>8, <2>1, <2>2, AnswersFollow
    <2>3. CASE d = e
      <3>1. /\ ptp'[d].props = ptp[d].props /\ Len(q) <= Len(r)
            /\ \A i \in 1..Len(q) : r[i] = q[i]
            /\ \A i \in (Len(q) + 1)..Len(r) : \E x \in Requests : r[i] = AnswerOne(d, x)
        BY <1>8, <2>3, AnswersFollow
      <3>2. \A i \in (Len(q) + 1)..Len(r) : Carries(r[i]) => r[i].props = ptp[d].props
        <4> TAKE i \in (Len(q) + 1)..Len(r)
        <4>1. PICK x \in Requests : r[i] = AnswerOne(d, x)
          BY <3>1
        <4> QED
          BY <4>1, Tells DEF Carries
      <3>3. ptp[d].props <= ptp[d].props
        BY <1>1
      <3> HIDE DEF q, r
      <3>4. InOrder(dom[d].want, r, ptp[d].props)
        BY <1>1, <1>2, <3>1, <3>2, <3>3, OrderAppend
      <3> QED
        BY <2>1, <3>1, <3>4 DEF Ordered, r
    <2> QED
      BY <2>2, <2>3
  <1>9. ASSUME NEW e \in Instances, NEW p \in Ports, NEW s \in Reported, NEW props \in BOOLEAN,
               NEW phc \in Phcs, PortChange(e, p, s, props, phc)
        PROVE  Ordered(d)'
    <2>1. dom' = dom
      BY <1>9 DEF PortChange
    <2>2. CASE d # e
      <3>1. ptp'[d] = ptp[d]
        BY <1>9, <2>2, ChangeNotifies
      <3> QED
        BY <1>3, <2>1, <3>1
    <2>3. CASE d = e
      <3> DEFINE n == NoteOf(p, s, ptp'[d].props)
      <3>1. ptp[d].props <= ptp'[d].props /\ (r = q \/ (n \in Notes /\ r = Append(q, n)))
        BY <1>9, <2>3, ChangeNotifies
      <3>2. n.props = ptp'[d].props
        BY DEF NoteOf
      <3> HIDE DEF n
      <3>3. /\ Len(q) <= Len(r) /\ \A i \in 1..Len(q) : r[i] = q[i]
            /\ \A i \in (Len(q) + 1)..Len(r) : r[i] = n
        <4>1. CASE r = q
          <5> HIDE DEF q, r
          <5> QED
            BY <4>1, <1>1
        <4>2. CASE n \in Notes /\ r = Append(q, n)
          <5> HIDE DEF q, r
          <5> QED
            BY <4>2, <1>1
        <4> QED
          BY <3>1, <4>1, <4>2
      <3>4. \A i \in (Len(q) + 1)..Len(r) : Carries(r[i]) => r[i].props = ptp'[d].props
        BY <3>2, <3>3
      <3> HIDE DEF q, r
      <3>5. InOrder(dom[d].want, r, ptp'[d].props)
        BY <1>1, <1>2, <3>1, <3>3, <3>4, OrderAppend
      <3> QED
        BY <2>1, <3>5 DEF Ordered, r
    <2> QED
      BY <2>2, <2>3
  <1> QED
    BY <1>4, <1>5, <1>6, <1>7, <1>8, <1>9 DEF Next, Program

\* Every step keeps the types.
LEMMA TypeStep == TypeInv /\ [Next]_vars => TypeInv'
  <1> SUFFICES ASSUME TypeInv, [Next]_vars PROVE TypeInv'
    OBVIOUS
  <1>1. ServerInv' /\ ProgramInv'
    BY ServerStep, ProgramStep
  <1> QED
    BY <1>1 DEF TypeInv, ServerInv, ProgramInv

\* The types hold of every behaviour: no notification, answer or timeout leaves
\* a domain, a clock or a queue that the code has no case for.
THEOREM TypeCorrect == Spec => []TypeOK
  <1>1. Init => TypeInv
    BY Starts
  <1>2. TypeInv /\ [Next]_vars => TypeInv'
    BY TypeStep
  <1> QED
    BY <1>1, <1>2, TypesHold, PTL DEF Spec

-----------------------------------------------------------------------------
\* pmc_agent_update() has run for d in this turn, or none runs now.
Passed(d) == Polling => d < at

\* The states of d are about to be applied.
Due(d) ==
    \/ Polling /\ d < at
    \/ pc = "reconfigure" /\ d >= at
    \/ (Reiniting \/ pc = "reconfigure_domain") /\ d > at

Fresh(d) == dom[d].offset >= dom[d].want \/ d \in missed

\* An instance that is heard of has its offset from after the last change of a
\* state, unless the change is to be applied in a later turn or the query that
\* do_loop() forces is being made.
Sound(d) ==
    /\ Passed(d) => (dom[d].agent_subscribed <=> is_subscribed(dom[d]))
    /\ is_subscribed(dom[d]) /\ (Due(d) \/ ~dom[d].state_changed) => Fresh(d)
    /\ pc = "force" /\ at = d => dom[d].state_changed /\ is_subscribed(dom[d])
                                  /\ dom[d].agent_subscribed

\* A step that does nothing to d leaves it sound, if d is not due because of it.
LEMMA Untouched ==
    ASSUME TypeInv, TypeInv', NEW d \in Instances, Sound(d),
           dom'[d].agent_subscribed <=> dom[d].agent_subscribed, dom'[d].age = dom[d].age,
           dom'[d].want = dom[d].want, dom'[d].offset = dom[d].offset,
           dom'[d].state_changed <=> dom[d].state_changed, d \in missed => d \in missed',
           Passed(d)' => Passed(d), Due(d)' => Due(d),
           pc' = "force" /\ at' = d => pc = "force" /\ at = d
    PROVE  Sound(d)'
  BY DEF Sound, Fresh, is_subscribed

\* What is not in hand is untouched by a call that returns.
LEMMA OtherReturn ==
    ASSUME TypeInv, TypeInv', Waiting, conf' = conf,
           NEW m, m = None \/ (m \in Answers /\ m.to = Asks),
           Return([dom[at] EXCEPT !.requested = FALSE], m),
           NEW d \in Instances, d # at, Sound(d)
    PROVE  Sound(d)'
  <1>1. at \in Instances /\ at \in Nat /\ d \in Nat /\ d <= NDomains /\ at <= NDomains /\ d >= 1
    BY Constants DEF TypeInv
  <1>2. ReturnedTo(dom[at], dom'[at])
        /\ (\/ UpdateEffect(dom[at], dom'[at], m) \/ DrainEffect(dom[at], dom'[at])
            \/ ForceEffect(dom[at], dom'[at], m) \/ ReinitEffect(dom[at], dom'[at], m))
    BY ReturnEffects
  <1>3. dom'[d] = dom[d]
    BY <1>2 DEF ReturnedTo
  <1>4. d \in missed => d \in missed'
    BY <1>2 DEF UpdateEffect, DrainEffect, ForceEffect, ReinitEffect, Stays
  <1>5. /\ Passed(d)' => Passed(d)
        /\ Due(d)' => Due(d)
        /\ ~(pc' = "force" /\ at' = d)
    BY <1>1, <1>2
       DEF UpdateEffect, DrainEffect, ForceEffect, ReinitEffect, Onwards, Passed, Due, Polling,
           Reiniting
  <1> QED
    BY <1>3, <1>4, <1>5, Untouched

\* A call that returns leaves the domain in hand sound; the version that an answer
\* carries is not below the wanted one.
LEMMA OwnReturn ==
    ASSUME TypeInv, TypeInv', Waiting, conf' = conf,
           NEW m, m = None \/ (m \in Answers /\ m.to = Asks),
           Return([dom[at] EXCEPT !.requested = FALSE], m),
           m \in Answers /\ m.to[1] = "UTC" => dom[at].want <= m.props,
           Sound(at)
    PROVE  \A d \in Instances : d = at => Sound(d)'
  <1> SUFFICES ASSUME NEW d \in Instances, d = at PROVE Sound(d)'
    OBVIOUS
  <1> DEFINE D == dom[d]
             N == dom'[d]
  <1>1. d \in Nat /\ d <= NDomains /\ d >= 1
    BY Constants
  <1>2. /\ N.want = D.want /\ (N.state_changed <=> D.state_changed)
        /\ \/ UpdateEffect(D, N, m) \/ DrainEffect(D, N) \/ ForceEffect(D, N, m)
           \/ ReinitEffect(D, N, m)
    BY ReturnEffects DEF ReturnedTo
  <1>3. ReadsUtc(N, m) => Fresh(d)'
    <2>1. N.want \in 0..MaxChanges
      BY OrderTypes, <1>2
    <2> QED
      BY <1>2, <2>1 DEF ReadsUtc, Fresh
  <1>4. CASE UpdateEffect(D, N, m)
    <2>1. Polling /\ Polling' /\ ~Passed(d)' /\ ~Due(d)' /\ pc' # "force" /\ missed' = missed
      BY <1>1, <1>4 DEF UpdateEffect, Polling, Passed, Due, Stays, Reiniting
    <2>2. (N.offset = D.offset /\ N.age = D.age) \/ Fresh(d)'
      BY <1>3, <1>4 DEF UpdateEffect
    <2> HIDE DEF D, N
    <2> QED
      BY <1>2, <2>1, <2>2 DEF Sound, Fresh, is_subscribed, D, N
  <1>5. CASE DrainEffect(D, N)
    <2>1. /\ N.offset = D.offset /\ N.age = D.age /\ (N.agent_subscribed <=> is_subscribed(D))
          /\ missed' = missed
          /\ \/ is_subscribed(D) /\ D.state_changed /\ pc' = "force" /\ at' = at
             \/ ~(is_subscribed(D) /\ D.state_changed) /\ pc' # "force"
      BY <1>5 DEF DrainEffect, Onwards
    <2>2. pc' = "force" => ~Due(d)'
      BY <1>1, <2>1 DEF Due, Polling, Reiniting
    <2>3. is_subscribed(D) /\ ~D.state_changed => Fresh(d)
      BY DEF Sound
    <2> HIDE DEF D, N
    <2> QED
      BY <1>2, <2>1, <2>2, <2>3 DEF Sound, Fresh, is_subscribed, D, N
  <1>6. CASE ForceEffect(D, N, m)
    <2>1. N.age = D.age /\ (N.agent_subscribed <=> D.agent_subscribed) /\ pc = "force"
          /\ pc' # "force"
      BY <1>6 DEF ForceEffect, Onwards
    <2>2. Fresh(d)'
      BY <1>3, <1>6 DEF ForceEffect, Fresh
    <2> HIDE DEF D, N
    <2> QED
      BY <1>2, <2>1, <2>2 DEF Sound, is_subscribed, D, N
  <1>7. CASE ReinitEffect(D, N, m)
    <2>1. N.age = D.age /\ (N.agent_subscribed <=> D.agent_subscribed) /\ N.offset = D.offset
          /\ missed' = missed /\ at' = at /\ Reiniting /\ pc' \in {"hwclock", "reconfigure_domain"}
      BY <1>7 DEF ReinitEffect, Stays
    <2>2. Passed(d) /\ ~Due(d)' /\ pc' # "force"
      BY <1>1, <2>1 DEF Passed, Due, Polling, Reiniting
    <2> HIDE DEF D, N
    <2> QED
      BY <1>2, <2>1, <2>2 DEF Sound, Fresh, is_subscribed, D, N
  <1> QED
    BY <1>2, <1>4, <1>5, <1>6, <1>7

\* A notification that changes a state of a clock has it applied with a version of
\* its own in a later turn, or after the query in this one.
LEMMA OwnNotice ==
    ASSUME TypeInv, TypeInv', Waiting, conf' = conf, UNCHANGED <<pc, at, missed>>,
           NEW m \in Notes, Effect(recv_subscribed(dom[at], m)),
           NEW d \in Instances, Sound(d)
    PROVE  Sound(d)'
  <1> DEFINE D == dom[at]
             N == recv_subscribed(D, m)
  <1>1. D \in DomainType /\ conf \in Confs /\ at \in Instances
    BY InHand DEF TypeInv
  <1>2. /\ N \in DomainType /\ N.offset = D.offset /\ N.age = D.age
        /\ N.agent_subscribed = D.agent_subscribed /\ (D.state_changed => N.state_changed)
        /\ N.want = D.want \/ N.state_changed
    BY <1>1, Received
  <1>3. Effect(N)
    OBVIOUS
  <1> HIDE DEF N
  <1>4. dom'[at] = N /\ (d # at => dom'[d] = dom[d])
    BY <1>1, <1>2, <1>3, Within
  <1>5. (Passed(d)' <=> Passed(d)) /\ (Due(d)' <=> Due(d)) /\ (pc' = "force" <=> pc = "force")
    BY DEF Passed, Due, Polling, Reiniting
  <1>6. CASE d = at
    <2>1. ~Due(d)
      BY <1>1, <1>6, Constants DEF Due, Polling, Reiniting, Waiting
    <2> QED
      BY <1>2, <1>4, <1>5, <1>6, <2>1 DEF Sound, Fresh, is_subscribed
  <1>7. CASE d # at
    BY <1>4, <1>5, <1>7, Untouched
  <1> QED
    BY <1>6, <1>7

\* Every step leaves every instance sound.
LEMMA SoundStep ==
    ASSUME TypeInv, TypeInv', [Next]_vars, \A d \in Instances : Ordered(d) /\ Sound(d)
    PROVE  \A d \in Instances : Sound(d)'
  <1> SUFFICES ASSUME NEW d \in Instances PROVE Sound(d)'
    OBVIOUS
  <1>1. d \in Nat /\ d >= 1 /\ d <= NDomains /\ Sound(d)
    BY Constants
  <1>2. CASE Read
    <2>1. /\ at \in Instances /\ conf' = conf /\ Waiting /\ ptp[at].inbox # <<>>
      BY <1>2, Dequeues DEF Read
    <2> DEFINE m == Head(ptp[at].inbox)
    <2>2. CASE m \in Notes /\ Effect(recv_subscribed(dom[at], m))
               /\ UNCHANGED <<pc, at, clk, changed, found, missed>>
      BY <1>1, <2>1, <2>2, OwnNotice
    <2>3. CASE dom' = dom /\ UNCHANGED <<pc, at, clk, changed, found, missed>>
      BY <1>1, <2>3 DEF Sound, Passed, Due, Polling, Reiniting, Fresh
    <2>4. CASE m \in Answers /\ m.to = Asks /\ Return([dom[at] EXCEPT !.requested = FALSE], m)
      <3>1. m \in Answers /\ m.to[1] = "UTC" => dom[at].want <= m.props
        <4>1. /\ dom[at].want \in 0..MaxChanges /\ ptp[at].props \in 0..MaxChanges
              /\ ptp[at].inbox \in Seq(Notes \cup Answers)
              /\ InOrder(dom[at].want, ptp[at].inbox, ptp[at].props)
          BY <2>1, OrderTypes DEF Ordered
        <4>2. m \in Answers /\ m.to[1] = "UTC" => Carries(m)
          BY DEF Carries, Answers
        <4> QED
          BY <2>1, <4>1, <4>2, OrderRead
      <3> HIDE DEF m
      <3>2. CASE d = at
        BY <1>1, <2>1, <2>4, <3>1, <3>2, OwnReturn
      <3>3. CASE d # at
        BY <1>1, <2>1, <2>4, <3>3, OtherReturn
      <3> QED
        BY <3>2, <3>3
    <2> QED
      BY <1>2, <2>2, <2>3, <2>4, Reads
  <1>3. CASE TimeOut
    <2>1. conf' = conf /\ Waiting /\ Return([dom[at] EXCEPT !.requested = FALSE], None)
      BY <1>3 DEF TimeOut
    <2>2. None \notin Answers
      BY NoneAssumption
    <2>3. CASE d = at
      BY <1>1, <2>1, <2>2, <2>3, OwnReturn
    <2>4. CASE d # at
      BY <1>1, <2>1, <2>4, OtherReturn
    <2> QED
      BY <2>3, <2>4
  <1>4. CASE Request
    <2>1. Alike(dom'[d], dom[d]) /\ UNCHANGED <<pc, at, clk, changed, found, missed, unheard>>
      BY <1>4, RequestNoted
    <2> QED
      BY <1>1, <2>1 DEF Alike, Sound, Passed, Due, Polling, Reiniting, Fresh, is_subscribed
  <1>5. CASE BeginReconfigure
    <2>1. /\ at \in Nat /\ pc = "reconfigure" /\ missed' = missed
          /\ dom'[d].agent_subscribed = dom[d].agent_subscribed /\ dom'[d].age = dom[d].age
          /\ dom'[d].offset = dom[d].offset /\ dom'[d].want = dom[d].want
          /\ d # at => dom'[d].state_changed = dom[d].state_changed
          /\ \/ pc' = "reconfigure_domain" /\ at' = at
             \/ pc' \in {"reconfigure", "select"} /\ at' = at + 1
      BY <1>5, Begins, Constants
    <2>2. Passed(d) /\ (Due(d)' => Due(d)) /\ pc' # "force" /\ (d = at => Due(d))
      BY <1>1, <2>1 DEF Passed, Due, Polling, Reiniting
    <2> QED
      BY <1>1, <2>1, <2>2 DEF Sound, Fresh, is_subscribed
  <1>6. CASE NextReinit
    <2>1. /\ pc = "reconfigure_domain" /\ pc' = "properties" /\ at' = at
          /\ dom' = dom /\ missed' = missed
      BY <1>6, Visits
    <2>2. Passed(d) /\ (Due(d)' => Due(d)) /\ pc' # "force"
      BY <2>1 DEF Passed, Due, Polling, Reiniting
    <2> QED
      BY <1>1, <2>1, <2>2, Untouched
  <1>7. CASE EndDomain
    <2>1. /\ at \in Nat /\ pc = "reconfigure_domain" /\ missed' = missed
          /\ Alike(dom'[d], dom[d])
          /\ \/ pc' = "update" /\ at' = 1
             \/ pc' = "reconfigure" /\ at' = at + 1
             \/ pc' = "select"
      BY <1>7, Ends, Constants
    <2>2. Passed(d) /\ (Due(d)' => Due(d)) /\ pc' # "force"
      BY <1>1, <2>1 DEF Passed, Due, Polling, Reiniting
    <2> QED
      BY <1>1, <2>1, <2>2, Untouched DEF Alike
  <1>8. CASE SelectSource
    <2>1. pc = "select" /\ pc' = "update" /\ missed' = missed /\ Alike(dom'[d], dom[d])
      BY <1>8, Selects
    <2>2. Passed(d) /\ ~Due(d)' /\ pc' # "force"
      BY <2>1 DEF Passed, Due, Polling, Reiniting
    <2> QED
      BY <1>1, <2>1, <2>2, Untouched DEF Alike
  <1>9. CASE UpdateClocks
    <2>1. pc = "update" /\ pc' = "sleep" /\ missed' = missed /\ dom' = dom
      BY <1>9 DEF UpdateClocks, Goto
    <2>2. Passed(d) /\ ~Due(d)' /\ pc' # "force"
      BY <2>1 DEF Passed, Due, Polling, Reiniting
    <2> QED
      BY <1>1, <2>1, <2>2, Untouched
  <1>10. CASE Wake
    <2>1. /\ dom'[d].state_changed = dom[d].state_changed
          /\ dom'[d].offset = dom[d].offset /\ dom'[d].want = dom[d].want
          /\ dom'[d].age >= dom[d].age /\ missed' = missed
          /\ pc' \in {"renew", "drain"} /\ at' = 1
      BY <1>10, Wakes
    <2>2. ~Passed(d)' /\ ~Due(d)' /\ pc' # "force"
      BY <1>1, <2>1 DEF Passed, Due, Polling, Reiniting
    <2>3. is_subscribed(dom'[d]) => is_subscribed(dom[d])
      <3>1. dom[d].age \in 0..Never /\ dom'[d].age \in 0..Never /\ Lifetime \in Nat /\ Never \in Nat
        <4>1. dom'[d] \in DomainType
          BY DEF TypeInv, Doms
        <4>2. dom[d].age \in 0..Never
          BY OrderTypes
        <4>3. dom'[d].age \in 0..Never
          BY <4>1 DEF DomainType
        <4> QED
          BY <4>2, <4>3, Constants
      <3> QED
        BY <2>1, <3>1 DEF is_subscribed
    <2> QED
      BY <1>1, <2>1, <2>2, <2>3 DEF Sound, Fresh
  <1>11. CASE \/ \E e \in Instances : Answer(e) \/ Stall(e) \/ Resume(e)
              \/ \E e \in Instances, p \in Ports, s \in Reported, props \in BOOLEAN, phc \in Phcs :
                     PortChange(e, p, s, props, phc)
              \/ UNCHANGED vars
    <2>1. UNCHANGED <<conf, dom, pc, at, clk, changed, found, missed>>
      <3>1. CASE \E e \in Instances : Answer(e) \/ Stall(e) \/ Resume(e)
        BY <3>1 DEF Answer, Stall, Resume, hist
      <3>2. ASSUME NEW e \in Instances, NEW p \in Ports, NEW s \in Reported, NEW props \in BOOLEAN,
                   NEW phc \in Phcs, PortChange(e, p, s, props, phc)
            PROVE  UNCHANGED <<conf, dom, pc, at, clk, changed, found, missed>>
        BY <3>2 DEF PortChange
      <3>3. CASE UNCHANGED vars
        BY <3>3 DEF vars
      <3> QED
        BY <1>11, <3>1, <3>2, <3>3
    <2> QED
      BY <1>1, <2>1 DEF Sound, Passed, Due, Polling, Reiniting, Fresh
  <1> QED
    BY <1>2, <1>3, <1>4, <1>5, <1>6, <1>7, <1>8, <1>9, <1>10, <1>11 DEF Next, Program

\* The versions are in order and every instance is sound.
FreshInv == TypeInv /\ \A d \in Instances : Ordered(d) /\ Sound(d)

\* No change of the states is applied with a UTC offset that was read before it,
\* unless ptp4l did not answer the query that do_loop() forces: notifications and
\* late answers in any order do not make phc2sys believe an older offset is new.
THEOREM OffsetAlwaysFresh == Spec => []OffsetIsFresh
  <1>1. Init => FreshInv
    <2> SUFFICES ASSUME Init, NEW d \in Instances PROVE Ordered(d) /\ Sound(d)
      BY Starts DEF FreshInv
    <2>1. /\ TypeInv /\ pc = "sleep" /\ ptp[d].inbox = <<>> /\ ptp[d].props = 0
          /\ dom[d].state_changed /\ ~dom[d].agent_subscribed
          /\ dom[d].age = Never /\ dom[d].want = 0
      BY Starts
    <2>2. Ordered(d)
      BY <2>1 DEF Ordered, InOrder
    <2>3. Sound(d)
      BY <2>1, Constants DEF Sound, Passed, Due, Polling, Reiniting, is_subscribed
    <2> QED
      BY <2>2, <2>3
  <1>2. FreshInv /\ [Next]_vars => FreshInv'
    <2> SUFFICES ASSUME FreshInv, [Next]_vars PROVE FreshInv'
      OBVIOUS
    <2>1. TypeInv /\ TypeInv' /\ \A d \in Instances : Ordered(d) /\ Sound(d)
      BY TypeStep DEF FreshInv
    <2>2. \A d \in Instances : Ordered(d)'
      BY <2>1, OrderStep
    <2>3. \A d \in Instances : Sound(d)'
      BY <2>1, SoundStep
    <2> QED
      BY <2>1, <2>2, <2>3 DEF FreshInv
  <1>3. FreshInv => OffsetIsFresh
    BY DEF FreshInv, Sound, Passed, Polling, Fresh, OffsetIsFresh
  <1> QED
    BY <1>1, <1>2, <1>3, PTL DEF Spec

-----------------------------------------------------------------------------
\* What a reader of message m makes of the states of the ports: a notification
\* says one of them, an answer repeats what the notifications before it said.
Told(old, m, new) ==
    /\ \A p \in Ports :
           new[p] = IF m.kind = "NOTIFY" /\ p = m.port THEN port_state_normalize(m.state)
                    ELSE old[p]
    /\ m.kind = "ANSWER" /\ m.to[1] = "PROPERTIES" =>
           old[m.to[2]] = port_state_normalize(m.state)

\* The messages of queue q lead from the states in port to those in now.
Leads(q, port, now) ==
    \E v \in [0..Len(q) -> [Ports -> States]] :
        /\ v[0] = port /\ v[Len(q)] = now
        /\ \A k \in 1..Len(q) : Told(v[k - 1], q[k], v[k])

\* An empty queue says nothing.
LEMMA LeadsNowhere ==
    ASSUME NEW port \in [Ports -> States], NEW now \in [Ports -> States]
    PROVE  Leads(<<>>, port, now) <=> port = now
  <1>1. Len(<<>>) = 0
    OBVIOUS
  <1>2. Leads(<<>>, port, now) => port = now
    BY <1>1 DEF Leads
  <1>3. ASSUME port = now PROVE Leads(<<>>, port, now)
    <2> DEFINE v == [k \in 0..Len(<<>>) |-> port]
    <2>1. v \in [0..Len(<<>>) -> [Ports -> States]] /\ v[0] = port /\ v[Len(<<>>)] = now
      BY <1>1, <1>3
    <2>2. \A k \in 1..Len(<<>>) : Told(v[k - 1], <<>>[k], v[k])
      BY <1>1
    <2> HIDE DEF v
    <2> QED
      BY <2>1, <2>2 DEF Leads
  <1> QED
    BY <1>2, <1>3

\* The first message takes its reader one step along.
LEMMA LeadsRead ==
    ASSUME NEW q \in Seq(Notes \cup Answers), q # <<>>, NEW port \in [Ports -> States],
           NEW now \in [Ports -> States], Leads(q, port, now)
    PROVE  \E new \in [Ports -> States] : Told(port, Head(q), new) /\ Leads(Tail(q), new, now)
  <1>1. Len(q) \in Nat /\ Len(q) >= 1 /\ Head(q) = q[1] /\ Len(Tail(q)) = Len(q) - 1
    OBVIOUS
  <1>2. \A i \in 1..Len(Tail(q)) : Tail(q)[i] = q[i + 1] /\ i + 1 \in 1..Len(q)
    BY <1>1
  <1>3. PICK v \in [0..Len(q) -> [Ports -> States]] :
           /\ v[0] = port /\ v[Len(q)] = now
           /\ \A k \in 1..Len(q) : Told(v[k - 1], q[k], v[k])
    BY DEF Leads
  <1> DEFINE w == [k \in 0..Len(Tail(q)) |-> v[k + 1]]
  <1>4. w \in [0..Len(Tail(q)) -> [Ports -> States]] /\ w[0] = v[1] /\ w[Len(Tail(q))] = now
    BY <1>1, <1>3
  <1>5. \A k \in 1..Len(Tail(q)) : Told(w[k - 1], Tail(q)[k], w[k])
    <2> TAKE k \in 1..Len(Tail(q))
    <2>1. w[k] = v[k + 1] /\ w[k - 1] = v[k] /\ k + 1 \in 1..Len(q) /\ (k + 1) - 1 = k
      BY <1>1
    <2>2. Told(v[(k + 1) - 1], q[k + 1], v[k + 1])
      BY <1>3, <2>1
    <2> QED
      BY <1>2, <2>1, <2>2
  <1> HIDE DEF w
  <1>6. Leads(Tail(q), v[1], now)
    BY <1>4, <1>5 DEF Leads
  <1>7. v[1] \in [Ports -> States] /\ 1 \in 1..Len(q) /\ 1 - 1 = 0
    BY <1>1
  <1>8. Told(port, Head(q), v[1])
    BY <1>1, <1>3, <1>7
  <1> QED
    BY <1>6, <1>7, <1>8

\* Messages that follow lead on: the first to what is said by then, the others
\* say what is known.
LEMMA LeadsOn ==
    ASSUME NEW q \in Seq(Notes \cup Answers), NEW r \in Seq(Notes \cup Answers),
           NEW port \in [Ports -> States], NEW now \in [Ports -> States],
           NEW new \in [Ports -> States], Leads(q, port, now), Len(q) <= Len(r),
           \A i \in 1..Len(q) : r[i] = q[i],
           Len(r) = Len(q) => new = now,
           Len(r) > Len(q) => Told(now, r[Len(q) + 1], new),
           \A i \in (Len(q) + 2)..Len(r) : Told(new, r[i], new)
    PROVE  Leads(r, port, new)
  <1>1. Len(q) \in Nat /\ Len(r) \in Nat
    OBVIOUS
  <1>2. PICK v \in [0..Len(q) -> [Ports -> States]] :
           /\ v[0] = port /\ v[Len(q)] = now
           /\ \A k \in 1..Len(q) : Told(v[k - 1], q[k], v[k])
    BY DEF Leads
  <1> DEFINE w == [k \in 0..Len(r) |-> IF k <= Len(q) THEN v[k] ELSE new]
  <1>3. w \in [0..Len(r) -> [Ports -> States]] /\ w[0] = port /\ w[Len(r)] = new
    BY <1>1, <1>2
  <1>4. ASSUME NEW k \in 1..Len(r) PROVE Told(w[k - 1], r[k], w[k])
    <2>1. CASE k <= Len(q)
      <3>1. k \in 1..Len(q) /\ w[k] = v[k] /\ w[k - 1] = v[k - 1]
        BY <1>1, <2>1
      <3> QED
        BY <1>2, <3>1
    <2>2. CASE k = Len(q) + 1
      <3>1. w[k] = new /\ w[k - 1] = now /\ Len(r) > Len(q)
        BY <1>1, <1>2, <2>2
      <3> QED
        BY <2>2, <3>1
    <2>3. CASE k > Len(q) + 1
      <3>1. w[k] = new /\ w[k - 1] = new /\ k \in (Len(q) + 2)..Len(r)
        BY <1>1, <2>3
      <3> QED
        BY <3>1
    <2> QED
      BY <1>1, <2>1, <2>2, <2>3
  <1> HIDE DEF w
  <1> QED
    BY <1>3, <1>4 DEF Leads

\* The states of the ports of instance d, as phc2sys keeps them.
Current(d) == [p \in Ports |-> port_state_normalize(ptp[d].state[p])]

\* As long as every change was notified, the messages lead from what the program
\* knows to what is, and the clocks follow from what it knows.
Known(d) ==
    d \notin unheard =>
        Leads(ptp[d].inbox, dom[d].port, Current(d)) /\ Meaningful(dom[d])

\* The states are of their type.
LEMMA KnownTypes ==
    ASSUME TypeInv, NEW d \in Instances
    PROVE  /\ Current(d) \in [Ports -> States] /\ dom[d].port \in [Ports -> States]
           /\ ptp[d].inbox \in Seq(Notes \cup Answers) /\ ptp[d].state \in [Ports -> Reported]
  BY OrderTypes, Normalized DEF Current

\* The meaning rests on the ports and the clocks only.
LEMMA SameMeaning ==
    ASSUME conf' = conf, NEW d, Meaningful(dom[d]),
           dom'[d].port = dom[d].port, dom'[d].clock = dom[d].clock
    PROVE  Meaningful(dom[d])'
  BY DEF Meaningful, Meant, clock_compute_state, Devices

\* A step that brings instance d no message, takes none and changes no state.
LEMMA StillKnown ==
    ASSUME conf' = conf, NEW d \in Instances, Known(d), unheard \subseteq unheard',
           ptp'[d].inbox = ptp[d].inbox, ptp'[d].state = ptp[d].state,
           dom'[d].port = dom[d].port, dom'[d].clock = dom[d].clock
    PROVE  Known(d)'
  <1>1. Current(d)' = Current(d)
    BY DEF Current
  <1> QED
    BY <1>1, SameMeaning DEF Known

\* A call that returns changes what is known of the ports to what the answer
\* says, if that is the same.
LEMMA ReturnKnown ==
    ASSUME TypeInv, TypeInv', Waiting, conf' = conf,
           NEW m, m = None \/ (m \in Answers /\ m.to = Asks),
           Return([dom[at] EXCEPT !.requested = FALSE], m),
           m \in Answers /\ m.to[1] = "PROPERTIES" =>
               dom[at].port[m.to[2]] = port_state_normalize(m.state),
           Meaningful(dom[at])
    PROVE  \A d \in Instances : d = at => dom'[d].port = dom[d].port /\ Meaningful(dom[d])'
  <1> SUFFICES ASSUME NEW d \in Instances, d = at
               PROVE  dom'[d].port = dom[d].port /\ Meaningful(dom[d])'
    OBVIOUS
  <1> DEFINE D == dom[d]
             N == dom'[d]
  <1>1. D.port \in [Ports -> States] /\ N.port \in [Ports -> States]
    <2>1. dom[d] \in DomainType /\ dom'[d] \in DomainType
      BY DEF TypeInv, Doms
    <2> QED
      BY <2>1 DEF DomainType
  <1>2. \/ UpdateEffect(D, N, m) \/ DrainEffect(D, N)
        \/ ForceEffect(D, N, m) \/ ReinitEffect(D, N, m)
    BY ReturnEffects
  <1>3. CASE UpdateEffect(D, N, m) \/ DrainEffect(D, N) \/ ForceEffect(D, N, m)
    <2>1. N.port = D.port /\ N.clock = D.clock
      BY <1>3 DEF UpdateEffect, DrainEffect, ForceEffect
    <2>2. Meaningful(dom[d])'
      BY <2>1, SameMeaning
    <2> QED
      BY <2>1, <2>2
  <1>4. CASE ReinitEffect(D, N, m)
    <2>1. CASE /\ m \in Answers /\ m.to = <<"PROPERTIES", PortOf(clk)>> /\ N.clock = D.clock
               /\ \A p \in Ports : N.port[p] = IF p = PortOf(clk) THEN port_state_normalize(m.state)
                                               ELSE D.port[p]
      <3>1. m.to[1] = "PROPERTIES" /\ m.to[2] = PortOf(clk)
        BY <2>1
      <3>2. D.port[PortOf(clk)] = port_state_normalize(m.state)
        BY <2>1, <3>1
      <3>3. \A p \in Ports : N.port[p] = D.port[p]
        BY <2>1, <3>2
      <3>4. N.port = D.port
        BY <1>1, <3>3
      <3> QED
        BY <2>1, <3>4, SameMeaning
    <2>2. CASE N.port = D.port /\ (Meaningful(D) => Meaningful(N))
      <3>1. Meaningful(N) => Meaningful(dom[d])'
        BY DEF Meaningful, Meant, clock_compute_state, Devices
      <3> QED
        BY <2>2, <3>1
    <2> QED
      BY <1>4, <2>1, <2>2 DEF ReinitEffect
  <1> QED
    BY <1>2, <1>3, <1>4

\* Reading a message keeps what is known.
LEMMA ReadKnown ==
    ASSUME TypeInv, TypeInv', Read, NEW d \in Instances, Known(d)
    PROVE  Known(d)'
  <1>1. /\ at \in Instances /\ conf' = conf /\ Waiting /\ ptp[at].inbox # <<>>
        /\ ptp'[at].inbox = Tail(ptp[at].inbox) /\ unheard' = unheard
        /\ ptp'[d].state = ptp[d].state /\ (d # at => ptp'[d] = ptp[d])
    BY Dequeues DEF Read
  <1> DEFINE m == Head(ptp[at].inbox)
  <1>2. /\ dom[at] \in DomainType /\ conf \in Confs /\ m \in Notes \cup Answers
        /\ ptp[d].inbox \in Seq(Notes \cup Answers) /\ Current(d) \in [Ports -> States]
        /\ dom[d].port \in [Ports -> States] /\ Current(d)' = Current(d)
    <2>1. dom[at] \in DomainType /\ conf \in Confs
      BY <1>1, InHand DEF TypeInv
    <2>2. ptp[at].inbox \in Seq(Notes \cup Answers)
      BY <1>1, KnownTypes
    <2>3. m \in Notes \cup Answers
      BY <1>1, <2>2
    <2>4. Current(d)' = Current(d)
      BY <1>1 DEF Current
    <2> QED
      BY <2>1, <2>3, <2>4, KnownTypes
  <1>3. CASE d # at
    <2>1. dom'[d] = dom[d]
      <3>1. CASE m \in Notes /\ Effect(recv_subscribed(dom[at], m))
        <4>1. recv_subscribed(dom[at], m) \in DomainType
          BY <1>2, <3>1, Received
        <4> QED
          BY <1>1, <1>3, <3>1, <4>1, Within
      <3>2. CASE m \in Answers /\ m.to = Asks /\ Return([dom[at] EXCEPT !.requested = FALSE], m)
        BY <1>1, <1>3, <3>2, ReturnEffects DEF ReturnedTo
      <3> QED
        BY <3>1, <3>2, Reads
    <2> QED
      BY <1>1, <1>3, <2>1, StillKnown
  <1>4. CASE d = at
    <2> SUFFICES ASSUME d \notin unheard
                 PROVE  /\ Leads(Tail(ptp[d].inbox), dom'[d].port, Current(d))
                        /\ Meaningful(dom[d])'
      BY <1>1, <1>2, <1>4 DEF Known
    <2>1. Leads(ptp[d].inbox, dom[d].port, Current(d)) /\ Meaningful(dom[d])
      BY DEF Known
    <2>2. PICK new \in [Ports -> States] :
              Told(dom[d].port, m, new) /\ Leads(Tail(ptp[d].inbox), new, Current(d))
      BY <1>1, <1>2, <1>4, <2>1, LeadsRead
    <2>3. CASE m \in Notes /\ Effect(recv_subscribed(dom[at], m))
      <3> DEFINE N == recv_subscribed(dom[at], m)
      <3>1. /\ N \in DomainType /\ Meaningful(N)
            /\ N.port = [dom[d].port EXCEPT ![m.port] = port_state_normalize(m.state)]
        BY <1>2, <1>4, <2>1, <2>3, Received
      <3>2. dom'[d] = N
        BY <1>1, <1>4, <2>3, <3>1, Within
      <3> HIDE DEF N
      <3>3. m.kind = "NOTIFY" /\ m.port \in Ports
        BY <2>3 DEF Notes
      <3> HIDE DEF m
      <3>4. N.port \in [Ports -> States]
        BY <3>1 DEF DomainType
      <3>5. \A p \in Ports : N.port[p] = new[p]
        BY <1>2, <2>2, <3>1, <3>3 DEF Told
      <3>6. N.port = new
        BY <3>4, <3>5
      <3>7. Meaningful(dom[d])'
        <4>1. Meaningful(N) /\ N = dom'[d] /\ conf' = conf
          BY <1>1, <3>1, <3>2
        <4> QED
          BY <4>1 DEF Meaningful, Meant, clock_compute_state, Devices
      <3> QED
        BY <2>2, <3>2, <3>6, <3>7
    <2>4. CASE m \in Answers
      <3>1. m.kind = "ANSWER"
        BY <2>4 DEF Answers
      <3> HIDE DEF m
      <3>2. \A p \in Ports : new[p] = dom[d].port[p]
        BY <2>2, <3>1 DEF Told
      <3>3. new = dom[d].port
        BY <1>2, <3>2
      <3>4. m.to[1] = "PROPERTIES" => dom[d].port[m.to[2]] = port_state_normalize(m.state)
        BY <2>2, <3>1 DEF Told
      <3>5. CASE dom' = dom
        <4>1. Meaningful(dom[d])'
          BY <1>1, <2>1, <3>5, SameMeaning
        <4> QED
          BY <2>2, <3>3, <3>5, <4>1
      <3>6. CASE m \in Answers /\ m.to = Asks /\ Return([dom[at] EXCEPT !.requested = FALSE], m)
        <4>1. dom'[d].port = dom[d].port /\ Meaningful(dom[d])'
          BY <1>1, <1>4, <2>1, <3>4, <3>6, ReturnKnown
        <4> QED
          BY <2>2, <3>3, <4>1
      <3>7. m \notin Notes
        BY <3>1 DEF Notes
      <3> QED
        BY <3>5, <3>6, <3>7, Reads DEF m
    <2> QED
      BY <1>2, <2>3, <2>4, Reads
  <1> QED
    BY <1>3, <1>4

\* Answers say what is, and lead nowhere else.
LEMMA AnswerKnown ==
    ASSUME TypeInv, TypeInv', NEW e \in Instances, Answer(e), NEW d \in Instances, Known(d)
    PROVE  Known(d)'
  <1>1. conf' = conf /\ dom' = dom /\ unheard' = unheard
    BY DEF Answer, hist
  <1>2. CASE d # e
    BY <1>1, <1>2, AnswersFollow, StillKnown
  <1>3. CASE d = e
    <2> DEFINE q == ptp[d].inbox
               r == ptp'[d].inbox
               now == Current(d)
    <2>1. /\ ptp'[d].state = ptp[d].state /\ Len(q) <= Len(r)
          /\ \A i \in 1..Len(q) : r[i] = q[i]
          /\ \A i \in (Len(q) + 1)..Len(r) : \E x \in Requests : r[i] = AnswerOne(d, x)
      BY <1>3, AnswersFollow
    <2>2. Current(d)' = now
      BY <2>1 DEF Current
    <2>3. /\ now \in [Ports -> States] /\ dom[d].port \in [Ports -> States]
          /\ q \in Seq(Notes \cup Answers)
      BY KnownTypes
    <2>4. r \in Seq(Notes \cup Answers)
      BY DEF TypeInv, ServerType
    <2>5. \A i \in (Len(q) + 1)..Len(r) : Told(now, r[i], now)
      <3> TAKE i \in (Len(q) + 1)..Len(r)
      <3>1. PICK x \in Requests : r[i] = AnswerOne(d, x)
        BY <2>1
      <3>2. /\ r[i].kind = "ANSWER" /\ r[i].to = x
            /\ x[1] = "PROPERTIES" => x[2] \in Ports /\ r[i].state = ptp[d].state[x[2]]
        BY <3>1, Tells
      <3> HIDE DEF r
      <3> QED
        BY <3>2 DEF Told, Current
    <2> SUFFICES ASSUME d \notin unheard PROVE Leads(r, dom[d].port, now) /\ Meaningful(dom[d])'
      BY <1>1, <2>2 DEF Known
    <2>6. Leads(q, dom[d].port, now) /\ Meaningful(dom[d])
      BY DEF Known
    <2>7. Meaningful(dom[d])'
      BY <1>1, <2>6, SameMeaning
    <2>8. Leads(r, dom[d].port, now)
      <3>1. \A i \in 1..Len(q) : r[i] = q[i]
        BY <2>1
      <3> HIDE DEF q, r, now
      <3>2. Len(q) \in Nat /\ Len(r) \in Nat /\ Len(q) <= Len(r)
        BY <2>1, <2>3, <2>4 DEF q, r
      <3>3. Len(r) > Len(q) => Told(now, r[Len(q) + 1], now)
        BY <2>5, <3>2
      <3>4. \A i \in (Len(q) + 2)..Len(r) : Told(now, r[i], now)
        BY <2>5, <3>2
      <3> QED
        BY <2>3, <2>4, <2>6, <3>1, <3>2, <3>3, <3>4, LeadsOn
    <2> QED
      BY <2>7, <2>8
  <1> QED
    BY <1>2, <1>3

\* A notification leads to the new state; a change that is not notified is counted.
LEMMA ChangeKnown ==
    ASSUME TypeInv, TypeInv', NEW e \in Instances, NEW p \in Ports, NEW s \in Reported,
           NEW props \in BOOLEAN, NEW phc \in Phcs, PortChange(e, p, s, props, phc),
           NEW d \in Instances, Known(d)
    PROVE  Known(d)'
  <1>1. conf' = conf /\ dom' = dom
    BY DEF PortChange
  <1>2. CASE d # e
    <2>1. ptp'[d] = ptp[d] /\ unheard \subseteq unheard'
      BY <1>2, ChangeNotifies
    <2> QED
      BY <1>1, <2>1, StillKnown
  <1>3. CASE d = e
    <2> DEFINE q == ptp[d].inbox
               r == ptp'[d].inbox
               n == NoteOf(p, s, ptp'[d].props)
               now == Current(d)
               new == Current(d)'
    <2>1. /\ \A x \in Ports : ptp'[d].state[x] = IF x = p THEN s ELSE ptp[d].state[x]
          /\ \/ unheard' = unheard \cup {d}
             \/ r = Append(q, n) /\ n \in Notes /\ unheard' = unheard
      BY <1>3, ChangeNotifies
    <2> SUFFICES ASSUME d \notin unheard' PROVE Leads(r, dom[d].port, new) /\ Meaningful(dom[d])'
      BY <1>1 DEF Known
    <2>2. r = Append(q, n) /\ n \in Notes /\ unheard' = unheard
      BY <2>1
    <2>3. Leads(q, dom[d].port, now) /\ Meaningful(dom[d])
      BY <2>2 DEF Known
    <2>4. Meaningful(dom[d])'
      BY <1>1, <2>3, SameMeaning
    <2>5. /\ now \in [Ports -> States] /\ dom[d].port \in [Ports -> States]
          /\ q \in Seq(Notes \cup Answers)
      BY KnownTypes
    <2>6. r \in Seq(Notes \cup Answers) /\ ptp'[d].state \in [Ports -> Reported]
      BY DEF TypeInv, ServerType
    <2>7. new \in [Ports -> States]
      BY <2>6, Normalized DEF Current
    <2>8. Told(now, n, new)
      <3>1. n.kind = "NOTIFY" /\ n.port = p /\ n.state = s
        BY DEF NoteOf
      <3> HIDE DEF n
      <3>2. \A x \in Ports : new[x] = IF x = p THEN port_state_normalize(s) ELSE now[x]
        BY <2>1 DEF Current
      <3> HIDE DEF now, new
      <3> QED
        BY <3>1, <3>2 DEF Told
    <2>9. Leads(r, dom[d].port, new)
      <3> HIDE DEF q, r, n, now, new
      <3>1. Len(q) \in Nat /\ Len(r) = Len(q) + 1 /\ r[Len(q) + 1] = n
            /\ \A i \in 1..Len(q) : r[i] = q[i]
        BY <2>2, <2>5
      <3>2. Told(now, r[Len(q) + 1], new)
        BY <2>8, <3>1
      <3>3. ~(Len(r) = Len(q)) /\ Len(q) <= Len(r) /\ (Len(q) + 2)..Len(r) = {}
        BY <3>1
      <3> QED
        BY <2>3, <2>5, <2>6, <2>7, <3>1, <3>2, <3>3, LeadsOn
    <2> QED
      BY <2>4, <2>9
  <1> QED
    BY <1>2, <1>3

\* Every step keeps what is known.
LEMMA KnownStep ==
    ASSUME TypeInv, TypeInv', [Next]_vars, NEW d \in Instances, Known(d)
    PROVE  Known(d)'
  <1>1. CASE TimeOut
    <2>1. /\ ptp' = ptp /\ conf' = conf /\ unheard' = unheard /\ Waiting
          /\ Return([dom[at] EXCEPT !.requested = FALSE], None)
      BY <1>1 DEF TimeOut
    <2>2. CASE d # at
      <3>1. dom'[d] = dom[d]
        BY <2>1, <2>2, ReturnEffects DEF ReturnedTo
      <3> QED
        BY <2>1, <3>1, StillKnown
    <2>3. CASE d = at
      <3>1. None \notin Answers /\ Current(d)' = Current(d)
        BY <2>1, NoneAssumption DEF Current
      <3> SUFFICES ASSUME d \notin unheard
                   PROVE  Leads(ptp[d].inbox, dom'[d].port, Current(d)) /\ Meaningful(dom[d])'
        BY <2>1, <3>1 DEF Known
      <3>2. Leads(ptp[d].inbox, dom[d].port, Current(d)) /\ Meaningful(dom[d])
        BY DEF Known
      <3>3. dom'[d].port = dom[d].port /\ Meaningful(dom[d])'
        BY <2>1, <2>3, <3>1, <3>2, ReturnKnown
      <3> QED
        BY <3>2, <3>3
    <2> QED
      BY <2>2, <2>3
  <1>2. CASE Request \/ Wake \/ \E e \in Instances : Stall(e) \/ Resume(e)
    <2>1. ptp'[d].state = ptp[d].state /\ ptp'[d].inbox = ptp[d].inbox
      BY <1>2, Quiet
    <2>2. conf' = conf /\ dom'[d].port = dom[d].port /\ dom'[d].clock = dom[d].clock
          /\ unheard' = unheard
      <3>1. CASE Request
        BY <3>1, RequestNoted DEF Alike
      <3>2. CASE Wake
        BY <3>2, Wakes
      <3>3. CASE \E e \in Instances : Stall(e) \/ Resume(e)
        BY <3>3 DEF Stall, Resume, hist
      <3> QED
        BY <1>2, <3>1, <3>2, <3>3
    <2> QED
      BY <2>1, <2>2, StillKnown
  <1>3. CASE BeginReconfigure \/ NextReinit \/ EndDomain \/ SelectSource \/ UpdateClocks
             \/ UNCHANGED vars
    <2>1. ptp' = ptp /\ conf' = conf /\ unheard' = unheard
      BY <1>3
         DEF BeginReconfigure, NextReinit, EndDomain, SelectSource, UpdateClocks, vars, hist
    <2>2. dom'[d].port = dom[d].port /\ dom'[d].clock = dom[d].clock
      <3>1. CASE BeginReconfigure
        BY <3>1, Begins
      <3>2. CASE EndDomain
        BY <3>2, Ends DEF Alike
      <3>3. CASE SelectSource
        BY <3>3, Selects DEF Alike
      <3>4. CASE NextReinit \/ UpdateClocks \/ UNCHANGED vars
        BY <3>4 DEF NextReinit, UpdateClocks, vars
      <3> QED
        BY <1>3, <3>1, <3>2, <3>3, <3>4
    <2> QED
      BY <2>1, <2>2, StillKnown
  <1> QED
    BY <1>1, <1>2, <1>3, ReadKnown, AnswerKnown, ChangeKnown DEF Next, Program

\* A new state of a clock of d is going to be applied: in a later turn, or by the
\* reconfigure_domain() that runs, or when another one changes.
Applied(d) ==
    \A c \in Devices : dom[d].clock[c].new_state # None =>
        \/ dom[d].state_changed \/ ~dom[d].agent_subscribed \/ d \in found
        \/ at = d /\ pc = "reconfigure_domain" /\ c < clk
        \/ at = d /\ Reiniting /\ c <= clk

\* A step that does not touch the clocks of d, nor what will apply them.
LEMMA StillApplied ==
    ASSUME conf' = conf, NEW d \in Instances, Applied(d), dom'[d].clock = dom[d].clock,
           dom[d].state_changed => dom'[d].state_changed,
           dom'[d].agent_subscribed => dom[d].agent_subscribed, d \in found => d \in found',
           \/ at # d \/ UNCHANGED <<pc, at, clk>> \/ ~(Reiniting \/ pc = "reconfigure_domain")
    PROVE  Applied(d)'
  <1>1. Devices' = Devices
    BY DEF Devices
  <1> QED
    BY <1>1 DEF Applied, Reiniting

\* A call that returns keeps what is going to be applied.
LEMMA ReturnApplied ==
    ASSUME TypeInv, TypeInv', Waiting, conf' = conf,
           NEW m, m = None \/ (m \in Answers /\ m.to = Asks),
           Return([dom[at] EXCEPT !.requested = FALSE], m),
           NEW d \in Instances, Applied(d)
    PROVE  Applied(d)'
  <1> DEFINE D == dom[at]
             N == dom'[at]
  <1>1. /\ ReturnedTo(D, N)
        /\ \/ UpdateEffect(D, N, m) \/ DrainEffect(D, N)
           \/ ForceEffect(D, N, m) \/ ReinitEffect(D, N, m)
    BY ReturnEffects
  <1>2. CASE d # at
    <2>1. dom'[d] = dom[d] /\ (d \in found => d \in found')
      BY <1>1, <1>2 DEF ReturnedTo, UpdateEffect, DrainEffect, ForceEffect, ReinitEffect, Stays
    <2> QED
      BY <1>2, <2>1, StillApplied
  <1>3. CASE d = at
    <2>0. N.state_changed <=> D.state_changed
      BY <1>1 DEF ReturnedTo
    <2>1. CASE UpdateEffect(D, N, m) \/ ForceEffect(D, N, m)
      <3>1. /\ N.clock = D.clock /\ (N.agent_subscribed <=> D.agent_subscribed) /\ found' = found
            /\ ~(Reiniting \/ pc = "reconfigure_domain")
        BY <2>1 DEF UpdateEffect, ForceEffect, Stays, Reiniting
      <3> QED
        BY <1>3, <2>0, <3>1, StillApplied
    <2>2. CASE DrainEffect(D, N)
      <3>1. /\ N.clock = D.clock /\ (N.agent_subscribed <=> is_subscribed(D))
            /\ ~D.state_changed =>
                   (at \in found' <=> at \in found \/ (is_subscribed(D) /\ ~D.agent_subscribed))
            /\ ~(Reiniting \/ pc = "reconfigure_domain")
        BY <2>2 DEF DrainEffect, Reiniting
      <3>2. Devices' = Devices
        BY DEF Devices
      <3> HIDE DEF D, N
      <3> QED
        BY <1>3, <2>0, <3>1, <3>2 DEF Applied, Reiniting, D, N
    <2>3. CASE ReinitEffect(D, N, m)
      <3>1. /\ (N.agent_subscribed <=> D.agent_subscribed) /\ found' = found /\ at' = at
            /\ clk' = clk /\ Reiniting
            /\ \/ pc' = "hwclock" /\ N.clock = D.clock
               \/ /\ pc' = "reconfigure_domain" /\ N.clock[clk].new_state = None
                  /\ \A c \in Devices : c # clk => N.clock[c] = D.clock[c]
        BY <2>3 DEF ReinitEffect, Stays
      <3>2. Devices' = Devices
        BY DEF Devices
      <3>3. Devices \subseteq Nat /\ clk \in Nat
        BY <3>1, Configured DEF TypeInv, Ports
      <3>4. ASSUME NEW c \in Devices, N.clock[c].new_state # None
            PROVE  \/ N.state_changed \/ ~N.agent_subscribed \/ d \in found'
                   \/ at' = d /\ pc' = "reconfigure_domain" /\ c < clk'
                   \/ at' = d /\ Reiniting' /\ c <= clk'
        <4>1. D.clock[c].new_state # None /\ (pc' = "hwclock" \/ c # clk)
          BY <3>1, <3>4
        <4>2. D.state_changed \/ ~D.agent_subscribed \/ d \in found \/ c <= clk
          BY <1>3, <4>1, <3>1, <3>3 DEF Applied
        <4>3. c \in Nat
          BY <3>3
        <4> HIDE DEF D, N
        <4> QED
          BY <1>3, <2>0, <3>1, <3>3, <4>1, <4>2, <4>3 DEF Reiniting
      <3> HIDE DEF D, N
      <3> QED
        BY <1>3, <3>2, <3>4 DEF Applied, D, N
    <2> QED
      BY <1>1, <2>1, <2>2, <2>3
  <1> QED
    BY <1>2, <1>3

\* Every step keeps what is going to be applied.
LEMMA AppliedStep ==
    ASSUME TypeInv, TypeInv', [Next]_vars, NEW d \in Instances, Applied(d)
    PROVE  Applied(d)'
  <1>c. conf' = conf => Devices' = Devices
    BY DEF Devices
  <1>1. CASE Read
    <2>1. at \in Instances /\ conf' = conf /\ Waiting
      BY <1>1, Dequeues DEF Read
    <2> DEFINE m == Head(ptp[at].inbox)
    <2>2. CASE m \in Notes /\ Effect(recv_subscribed(dom[at], m))
               /\ UNCHANGED <<pc, at, clk, changed, found, missed>>
      <3> DEFINE N == recv_subscribed(dom[at], m)
      <3>1. dom[at] \in DomainType /\ conf \in Confs
        BY <2>1, InHand DEF TypeInv
      <3>2. /\ N \in DomainType /\ N.agent_subscribed = dom[at].agent_subscribed
            /\ dom[at].state_changed => N.state_changed
            /\ \A c \in Devices : N.clock[c].new_state = dom[at].clock[c].new_state
                                  \/ (N.clock[c].new_state # None /\ N.state_changed)
        BY <2>2, <3>1, Received
      <3>3. Effect(N)
        BY <2>2
      <3> HIDE DEF N
      <3>4. dom'[at] = N /\ (d # at => dom'[d] = dom[d])
        BY <2>1, <3>2, <3>3, Within
      <3>5. CASE d = at
        BY <1>c, <2>1, <2>2, <3>2, <3>4, <3>5 DEF Applied, Reiniting
      <3>6. CASE d # at
        BY <2>1, <2>2, <3>4, <3>6, StillApplied
      <3> QED
        BY <3>5, <3>6
    <2>3. CASE dom' = dom /\ UNCHANGED <<pc, at, clk, changed, found, missed>>
      BY <2>1, <2>3, StillApplied
    <2>4. CASE m \in Answers /\ m.to = Asks /\ Return([dom[at] EXCEPT !.requested = FALSE], m)
      BY <2>1, <2>4, ReturnApplied
    <2> QED
      BY <1>1, <2>2, <2>3, <2>4, Reads
  <1>2. CASE TimeOut
    <2>1. conf' = conf /\ Waiting /\ Return([dom[at] EXCEPT !.requested = FALSE], None)
      BY <1>2 DEF TimeOut
    <2> QED
      BY <2>1, ReturnApplied
  <1>3. CASE Request
    <2>1. /\ Alike(dom'[d], dom[d]) /\ UNCHANGED <<pc, at, clk, changed, found, missed, unheard>>
          /\ conf' = conf
      BY <1>3, RequestNoted
    <2> QED
      BY <2>1, StillApplied DEF Alike
  <1>4. CASE BeginReconfigure
    <2>1. /\ conf' = conf /\ found' = found /\ pc = "reconfigure" /\ dom'[d].clock = dom[d].clock
          /\ dom'[d].agent_subscribed = dom[d].agent_subscribed
          /\ d # at => dom'[d] = dom[d]
          /\ dom[at].agent_subscribed => pc' = "reconfigure_domain" /\ at' = at /\ clk' = AboveAll
      BY <1>4, Begins
    <2>2. CASE d # at
      BY <2>1, <2>2, StillApplied
    <2>3. CASE d = at
      <3>1. \A c \in Devices : c < AboveAll
        BY Configured DEF TypeInv, Ports, AboveAll
      <3> QED
        BY <1>c, <2>1, <2>3, <3>1 DEF Applied, Reiniting
    <2> QED
      BY <2>2, <2>3
  <1>5. CASE NextReinit
    <2>1. /\ conf' = conf /\ found' = found /\ dom' = dom /\ at' = at
          /\ pc = "reconfigure_domain" /\ pc' = "properties"
          /\ \A c \in Devices : c < clk /\ dom[at].clock[c].new_state # None => c <= clk'
      BY <1>5, Visits
    <2> QED
      BY <1>c, <2>1 DEF Applied, Reiniting
  <1>6. CASE EndDomain
    <2>1. conf' = conf /\ found' = found /\ pc = "reconfigure_domain" /\ Alike(dom'[d], dom[d])
      BY <1>6, Ends
    <2>2. CASE d # at
      BY <2>1, <2>2, StillApplied DEF Alike
    <2>3. CASE d = at
      <3>1. \A c \in Devices : c < clk => dom[d].clock[c].new_state = None
        BY <1>6, <2>3 DEF EndDomain, ToReinit
      <3>2. \A c \in Devices : dom[d].clock[c].new_state # None =>
               dom[d].state_changed \/ ~dom[d].agent_subscribed \/ d \in found
        BY <2>1, <3>1 DEF Applied, Reiniting
      <3> QED
        BY <1>c, <2>1, <3>2 DEF Applied, Alike
    <2> QED
      BY <2>2, <2>3
  <1>7. CASE SelectSource
    <2>1. conf' = conf /\ found' = found /\ pc = "select" /\ Alike(dom'[d], dom[d])
      BY <1>7, Selects
    <2>2. ~(Reiniting \/ pc = "reconfigure_domain")
      BY <2>1 DEF Reiniting
    <2> QED
      BY <2>1, <2>2, StillApplied DEF Alike
  <1>8. CASE UpdateClocks
    <2>1. conf' = conf /\ found' = found /\ dom' = dom /\ ~(Reiniting \/ pc = "reconfigure_domain")
      BY <1>8 DEF UpdateClocks, Reiniting
    <2> QED
      BY <2>1, StillApplied
  <1>9. CASE Wake
    <2>1. /\ conf' = conf /\ found' = found /\ dom'[d].clock = dom[d].clock
          /\ dom'[d].state_changed = dom[d].state_changed
          /\ dom'[d].agent_subscribed = dom[d].agent_subscribed /\ pc = "sleep"
      BY <1>9, Wakes
    <2>2. ~(Reiniting \/ pc = "reconfigure_domain")
      BY <2>1 DEF Reiniting
    <2> QED
      BY <2>1, <2>2, StillApplied
  <1>10. CASE \/ \E e \in Instances : Answer(e) \/ Stall(e) \/ Resume(e)
              \/ \E e \in Instances, p \in Ports, s \in Reported, props \in BOOLEAN, phc \in Phcs :
                     PortChange(e, p, s, props, phc)
              \/ UNCHANGED vars
    <2>1. UNCHANGED <<conf, dom, pc, at, clk, found>>
      <3>1. CASE \E e \in Instances : Answer(e) \/ Stall(e) \/ Resume(e)
        BY <3>1 DEF Answer, Stall, Resume, hist
      <3>2. ASSUME NEW e \in Instances, NEW p \in Ports, NEW s \in Reported, NEW props \in BOOLEAN,
                   NEW phc \in Phcs, PortChange(e, p, s, props, phc)
            PROVE  UNCHANGED <<conf, dom, pc, at, clk, found>>
        BY <3>2 DEF PortChange
      <3>3. CASE UNCHANGED vars
        BY <3>3 DEF vars
      <3> QED
        BY <1>10, <3>1, <3>2, <3>3
    <2> QED
      BY <2>1, StillApplied
  <1> QED
    BY <1>1, <1>2, <1>3, <1>4, <1>5, <1>6, <1>7, <1>8, <1>9, <1>10 DEF Next, Program

\* What is known and what is going to be applied.
StepInv == TypeInv /\ \A d \in Instances : Known(d) /\ Applied(d)

\* Once its messages are read the program knows the states of the ports, the
\* clocks have the states that follow or are going to be given them, whatever the
\* order of notifications, answers and the steps of do_loop().
THEOREM AlwaysInStep == Spec => []InStep
  <1>1. Init => StepInv
    <2> SUFFICES ASSUME Init, NEW d \in Instances PROVE Known(d) /\ Applied(d)
      BY Starts DEF StepInv
    <2>1. /\ TypeInv /\ ptp[d].inbox = <<>> /\ dom[d].port = Current(d)
          /\ Meaningful(dom[d]) /\ dom[d].state_changed
      BY Starts DEF Current
    <2>2. Known(d)
      BY <2>1, KnownTypes, LeadsNowhere DEF Known
    <2>3. Applied(d)
      BY <2>1 DEF Applied
    <2> QED
      BY <2>2, <2>3
  <1>2. StepInv /\ [Next]_vars => StepInv'
    <2> SUFFICES ASSUME StepInv, [Next]_vars PROVE StepInv'
      OBVIOUS
    <2>1. TypeInv /\ TypeInv' /\ \A d \in Instances : Known(d) /\ Applied(d)
      BY TypeStep DEF StepInv
    <2>2. \A d \in Instances : Known(d)'
      BY <2>1, KnownStep
    <2>3. \A d \in Instances : Applied(d)'
      BY <2>1, AppliedStep
    <2> QED
      BY <2>1, <2>2, <2>3 DEF StepInv
  <1>3. StepInv => InStep
    <2> SUFFICES ASSUME StepInv, NEW d \in Instances, d \notin unheard, ptp[d].inbox = <<>>
                 PROVE  /\ dom[d].port = Current(d)
                        /\ \A c \in Devices :
                               /\ clock_compute_state(dom[d].port, c) = Meant(dom[d], c)
                               /\ dom[d].clock[c].new_state # None =>
                                      \/ dom[d].state_changed \/ pc \notin {"sleep", "update"}
                                      \/ ~dom[d].agent_subscribed \/ d \in found
      BY DEF InStep, Meant, Current
    <2>1. TypeInv /\ Leads(<<>>, dom[d].port, Current(d)) /\ Meaningful(dom[d]) /\ Applied(d)
      BY DEF StepInv, Known
    <2>2. dom[d].port = Current(d)
      BY <2>1, KnownTypes, LeadsNowhere
    <2> QED
      BY <2>1, <2>2 DEF Meaningful, Applied, Reiniting
  <1> QED
    BY <1>1, <1>2, <1>3, PTL DEF Spec

-----------------------------------------------------------------------------
Reconfiguring == Reiniting \/ pc \in {"reconfigure", "reconfigure_domain", "select"}

\* The source of d, if it has one, is a slave or the system clock.
Good(d) ==
    \/ dom[d].src = None \/ dom[d].src = <<RT, 0>>
    \/ \E e \in Instances, c \in Clocks :
           dom[d].src = <<e, c>> /\ dom[e].clock[c].state = "SLAVE"

\* reconfigure() is done with instance d.
OwnSource(d) ==
    \/ dom[d].src = None
    \/ \E c \in Clocks : dom[d].src = <<d, c>> /\ dom[d].clock[c].state = "SLAVE"

\* There is one source for all.
Agree == \A d, e \in Doms : dom[d].src # None /\ dom[e].src # None => dom[d].src = dom[e].src

\* What was synchronized is driven by the source that its domain has.
Driven ==
    /\ synced # {} => pc = "sleep"
    /\ \A x \in synced :
           \E d \in Doms, c \in Clocks :
               /\ x.dst = <<d, c>> /\ x.src = dom[d].src /\ dom[d].src # None
               /\ PhcOf(d, c) # PhcOf(dom[d].src[1], dom[d].src[2])

\* Outside of reconfigure() the sources are good, unless it gave up.
SourceInv ==
    /\ ~Reconfiguring /\ ~postponed => \A d \in Doms : Good(d)
    /\ Reconfiguring => \A d \in Instances : d < at => OwnSource(d)
    /\ pc = "select" => at = RT
    /\ NDomains = 1 /\ ~Reconfiguring => Agree
    /\ Driven

\* A step changes neither the source of d nor the states of its clocks.
Still(d) ==
    dom'[d].src = dom[d].src /\ \A c \in Clocks : dom'[d].clock[c].state = dom[d].clock[c].state

\* Steps that leave the sources and the states as they are.
LEMMA StillGood ==
    ASSUME TypeInv, SourceInv, conf' = conf, postponed' = postponed,
           \A d \in Doms : Still(d),
           Reconfiguring' => (Reconfiguring /\ at' = at) \/ at' = 1,
           ~Reconfiguring' => ~Reconfiguring, pc' = "select" => UNCHANGED <<pc, at>>,
           synced' = {} \/ UNCHANGED <<synced, dom, pc>>
    PROVE  SourceInv'
  <1>1. Doms' = Doms /\ Instances \subseteq Doms
    BY DEF Doms
  <1>2. \A d \in Doms : Good(d) => Good(d)'
    BY <1>1 DEF Good, Still
  <1>3. \A d \in Instances : OwnSource(d) => OwnSource(d)'
    BY <1>1 DEF OwnSource, Still
  <1>4. Agree => Agree'
    BY <1>1 DEF Agree, Still
  <1>5. Driven'
    <2>1. CASE synced' = {}
      BY <2>1 DEF Driven
    <2>2. CASE UNCHANGED <<synced, dom, pc>>
      BY <1>1, <2>2 DEF Driven, SourceInv, PhcOf
    <2> QED
      BY <2>1, <2>2
  <1>6. Reconfiguring' => \A d \in Instances : d < at' => OwnSource(d)'
    <2> SUFFICES ASSUME Reconfiguring', NEW d \in Instances, d < at' PROVE OwnSource(d)'
      OBVIOUS
    <2>1. ~(at' = 1)
      BY Constants
    <2> QED
      BY <1>3, <2>1 DEF SourceInv
  <1> QED
    BY <1>1, <1>2, <1>4, <1>5, <1>6 DEF SourceInv

\* An effect on the domain in hand that is not about its source.
LEMMA EffectStill ==
    ASSUME TypeInv, at \in Instances, NEW N, Effect(N), N.src = dom[at].src
    PROVE  \A d \in Doms :
               /\ dom'[d].src = dom[d].src
               /\ d # at \/ (\A c \in Clocks : N.clock[c].state = dom[at].clock[c].state) => Still(d)
  <1>1. at \in Doms /\ dom \in [Doms -> DomainType]
    BY DEF TypeInv, Doms
  <1>2. dom'[at] = N /\ \A d \in Doms : d # at => dom'[d] = dom[d]
    BY <1>1 DEF Effect
  <1> QED
    BY <1>2 DEF Still

\* A notification sets what a clock is to become.
LEMMA ReceivedStill ==
    ASSUME conf \in Confs, NEW D \in DomainType, NEW m \in Notes
    PROVE  LET R == recv_subscribed(D, m)
           IN  R.src = D.src /\ \A c \in Clocks : R.clock[c].state = D.clock[c].state
  <1> DEFINE s == port_state_normalize(m.state)
             b == conf.clockOf[m.port]
             port == [D.port EXCEPT ![m.port] = s]
             new == clock_compute_state(port, b)
             K == [D.clock EXCEPT ![b] = [D.clock[b] EXCEPT !.new_state = new]]
             R == recv_subscribed(D, m)
             Goal == R.src = D.src /\ \A c \in Clocks : R.clock[c].state = D.clock[c].state
  <1> SUFFICES Goal
    OBVIOUS
  <1>1. m.port \in Ports /\ b \in Clocks
    BY Configured DEF Notes, Clocks
  <1>2. D.clock \in [Clocks -> ClockType]
    BY DEF DomainType, ClockType
  <1>3. \A c \in Clocks : K[c].state = D.clock[c].state
    <2> HIDE DEF new, b
    <2> QED
      BY <1>1, <1>2 DEF ClockType
  <1>4. R = IF D.port[m.port] = s THEN D
            ELSE IF D.clock[b].state = new /\ D.clock[b].new_state = None
            THEN [D EXCEPT !.port = port]
            ELSE [D EXCEPT !.port = port, !.clock = K, !.state_changed = TRUE, !.want = m.props]
    <2>1. [D EXCEPT !.port = port, !.clock[b].new_state = new, !.state_changed = TRUE,
                    !.want = m.props]
          = [D EXCEPT !.port = port, !.clock = K, !.state_changed = TRUE, !.want = m.props]
      BY <1>1 DEF DomainType
    <2> QED
      BY <2>1 DEF recv_subscribed
  <1> HIDE DEF K, R, new, port, s
  <1> QED
    BY <1>3, <1>4 DEF DomainType

\* A call that returns gives a clock its state only in clock_reinit(), and
\* chooses no source.
LEMMA ReturnStill ==
    ASSUME TypeInv, Waiting, NEW m, m = None \/ (m \in Answers /\ m.to = Asks),
           Return([dom[at] EXCEPT !.requested = FALSE], m)
    PROVE  \A d \in Doms : dom'[d].src = dom[d].src /\ (d # at \/ ~Reiniting => Still(d))
  <1> DEFINE D == dom[at]
             E == [D EXCEPT !.requested = FALSE]
             Goal == \A d \in Doms : dom'[d].src = dom[d].src /\ (d # at \/ ~Reiniting => Still(d))
  <1> SUFFICES Goal
    OBVIOUS
  <1>1. at \in Instances
    BY DEF TypeInv
  <1>2. D \in DomainType /\ E \in DomainType /\ E.clock = D.clock
    BY <1>1, InHand
  <1>3. E.src = D.src
    BY <1>2 DEF DomainType
  <1>4. Reiniting => clk \in Clocks
    BY Configured DEF TypeInv
  <1>5. E.clock[clk].phc \in Phcs \cup {SysPhc} \/ ~Reiniting
    BY <1>2, <1>4 DEF DomainType
  <1>6. Return(E, m)
    OBVIOUS
  <1>w. ASSUME NEW M, Effect(M), M.src = D.src, M.clock = D.clock \/ Reiniting PROVE Goal
    BY <1>1, <1>w, EffectStill
  <1> HIDE DEF E, D, Goal
  <1>7. CASE Effect(E)
    BY <1>2, <1>3, <1>7, <1>w
  <1>8. CASE Effect([E EXCEPT !.offset = m.props, !.age = 0])
    <2> DEFINE M == [E EXCEPT !.offset = m.props, !.age = 0]
    <2>1. M.src = D.src /\ M.clock = D.clock
      BY <1>2, <1>3 DEF DomainType
    <2>2. Effect(M)
      BY <1>8
    <2> HIDE DEF M
    <2> QED
      BY <2>1, <2>2, <1>w
  <1>9. CASE AfterDrain(E)
    <2> DEFINE now == is_subscribed(E)
               M == [E EXCEPT !.agent_subscribed = now]
    <2>1. Effect(M)
      BY <1>9 DEF AfterDrain, Effect
    <2> HIDE DEF now
    <2>2. M.src = D.src /\ M.clock = D.clock
      BY <1>2, <1>3 DEF DomainType
    <2> HIDE DEF M
    <2> QED
      BY <2>1, <2>2, <1>w
  <1>10. CASE Effect([E EXCEPT !.offset = m.props])
    <2> DEFINE M == [E EXCEPT !.offset = m.props]
    <2>1. M.src = D.src /\ M.clock = D.clock
      BY <1>2, <1>3 DEF DomainType
    <2>2. Effect(M)
      BY <1>10
    <2> HIDE DEF M
    <2> QED
      BY <2>1, <2>2, <1>w
  <1>11. CASE Effect([E EXCEPT !.port[PortOf(clk)] = port_state_normalize(m.state)])
    <2> DEFINE M == [E EXCEPT !.port[PortOf(clk)] = port_state_normalize(m.state)]
    <2>1. M.src = D.src /\ M.clock = D.clock
      BY <1>2, <1>3 DEF DomainType
    <2>2. Effect(M)
      BY <1>11
    <2> HIDE DEF M
    <2> QED
      BY <2>1, <2>2, <1>w
  <1>12. ASSUME Reiniting, NEW phc \in Phcs \cup {SysPhc}, Effect(Reinited(E, phc)) PROVE Goal
    <2> DEFINE C == clock_reinit(E, clk, phc)
               M == Reinited(E, phc)
    <2>1. C.src = D.src
      BY <1>2, <1>3 DEF clock_reinit, DomainType
    <2>2. DOMAIN C = DOMAIN E
      BY <1>2 DEF clock_reinit, DomainType
    <2> HIDE DEF C
    <2>3. M = TakeState(C, clk)
      BY DEF Reinited, C
    <2>4. M.src = C.src
      BY <1>2, <2>2, <2>3 DEF TakeState, DomainType
    <2>5. Effect(M)
      BY <1>12
    <2> HIDE DEF M
    <2> QED
      BY <1>12, <2>1, <2>4, <2>5, <1>w
  <1> QED
    BY <1>5, <1>6, <1>7, <1>8, <1>9, <1>10, <1>11, <1>12, Returns

\* Where a call that returns leads to.
LEMMA ReturnPlaces ==
    ASSUME TypeInv, Waiting, conf' = conf, NEW m, m = None \/ (m \in Answers /\ m.to = Asks),
           Return([dom[at] EXCEPT !.requested = FALSE], m)
    PROVE  IF Reiniting THEN pc' \in {"hwclock", "reconfigure_domain"} /\ at' = at
           ELSE (Polling' \/ pc' = "update") \/ (pc' = "reconfigure" /\ at' = 1)
  <1>1. \/ UpdateEffect(dom[at], dom'[at], m) \/ DrainEffect(dom[at], dom'[at])
        \/ ForceEffect(dom[at], dom'[at], m) \/ ReinitEffect(dom[at], dom'[at], m)
    BY ReturnEffects
  <1> QED
    BY <1>1 DEF UpdateEffect, DrainEffect, ForceEffect, ReinitEffect, Onwards, Polling, Reiniting

\* Reading, asking and waiting in vain keep the sources good.
LEMMA WaitGood ==
    ASSUME TypeInv, TypeInv', SourceInv, Read \/ TimeOut \/ Request
    PROVE  SourceInv'
  <1>1. Waiting /\ conf' = conf /\ at \in Instances /\ postponed' = postponed /\ synced' = synced
    BY DEF Read, TimeOut, Request, TypeInv, hist
  <1>2. synced = {} /\ (Reiniting \/ Polling) /\ ~(Reiniting /\ Polling)
    BY <1>1 DEF SourceInv, Driven, Waiting, Reiniting, Polling
  <1> DEFINE Kept == \A d \in Doms : dom'[d].src = dom[d].src /\ (d # at \/ ~Reiniting => Still(d))
             Places0 == IF Reiniting THEN Reiniting' \/ pc' = "reconfigure_domain"
                        ELSE (Polling' \/ pc' = "update") \/ (pc' = "reconfigure" /\ at' = 1)
  <1>3. Kept /\ Places0 /\ (Reiniting => at' = at)
    <2> DEFINE m == Head(ptp[at].inbox)
    <2>1. CASE Read /\ m \in Notes /\ Effect(recv_subscribed(dom[at], m))
               /\ UNCHANGED <<pc, at, clk, changed, found, missed>>
      <3>1. dom[at] \in DomainType /\ conf \in Confs
        BY <1>1, InHand DEF TypeInv
      <3> DEFINE N == recv_subscribed(dom[at], m)
      <3>2. N.src = dom[at].src /\ \A c \in Clocks : N.clock[c].state = dom[at].clock[c].state
        BY <2>1, <3>1, ReceivedStill
      <3>3. Effect(N)
        BY <2>1
      <3> HIDE DEF N
      <3>4. Kept
        BY <1>1, <3>2, <3>3, EffectStill
      <3> QED
        BY <1>2, <2>1, <3>4 DEF Reiniting, Polling
    <2>2. CASE dom' = dom /\ UNCHANGED <<pc, at, clk, changed, found, missed>>
      BY <1>2, <2>2 DEF Reiniting, Polling, Still
    <2>3. ASSUME NEW x, x = None \/ (x \in Answers /\ x.to = Asks),
                 Return([dom[at] EXCEPT !.requested = FALSE], x)
          PROVE  Kept /\ Places0 /\ (Reiniting => at' = at)
      <3>1. Kept
        BY <1>1, <2>3, ReturnStill
      <3>2. IF Reiniting THEN pc' \in {"hwclock", "reconfigure_domain"} /\ at' = at
            ELSE (Polling' \/ pc' = "update") \/ (pc' = "reconfigure" /\ at' = 1)
        BY <1>1, <2>3, ReturnPlaces
      <3> QED
        BY <3>1, <3>2 DEF Reiniting
    <2>4. CASE Request
      <3> DEFINE N == [dom[at] EXCEPT !.requested = TRUE]
      <3>1. dom[at] \in DomainType /\ dom \in [Doms -> DomainType] /\ at \in Doms
        BY <1>1, InHand DEF TypeInv, Doms
      <3>2. N.src = dom[at].src /\ N.clock = dom[at].clock
        BY <3>1 DEF DomainType
      <3>3. Effect(N) /\ UNCHANGED <<pc, at>>
        BY <2>4, <3>1 DEF Request, Effect
      <3> HIDE DEF N
      <3>4. Kept
        BY <1>1, <3>2, <3>3, EffectStill
      <3> QED
        BY <1>2, <3>3, <3>4 DEF Reiniting, Polling
    <2>5. CASE Read
      BY <2>1, <2>2, <2>3, <2>5, Reads
    <2>6. CASE TimeOut
      BY <2>3, <2>6 DEF TimeOut
    <2> QED
      BY <2>4, <2>5, <2>6
  <1>4. CASE ~Reiniting
    <2>1. /\ Reconfiguring' => at' = 1
          /\ ~Reconfiguring /\ pc' # "select"
      BY <1>2, <1>3, <1>4 DEF Reconfiguring, Reiniting, Polling
    <2>2. \A d \in Doms : Still(d)
      BY <1>3, <1>4
    <2> QED
      BY <1>1, <1>2, <2>1, <2>2, StillGood
  <1>5. CASE Reiniting
    <2>1. Reconfiguring /\ Reconfiguring' /\ at' = at /\ pc' # "select"
      BY <1>3, <1>5 DEF Reconfiguring, Reiniting
    <2>2. ASSUME NEW d \in Instances, d < at PROVE OwnSource(d)'
      <3>1. d # at /\ d \in Doms /\ OwnSource(d)
        BY <2>1, <2>2, Constants DEF Doms, SourceInv
      <3> QED
        BY <1>3, <3>1 DEF OwnSource, Still
    <2> QED
      BY <1>1, <1>2, <2>1, <2>2 DEF SourceInv, Driven
  <1> QED
    BY <1>4, <1>5

\* reconfigure() comes to a domain.
LEMMA BeginGood ==
    ASSUME TypeInv, SourceInv, BeginReconfigure
    PROVE  SourceInv'
  <1>1. /\ at \in Instances /\ at \in Nat /\ pc = "reconfigure" /\ conf' = conf
        /\ \A d \in Instances : d # at => dom'[d] = dom[d]
        /\ \/ pc' = "reconfigure_domain" /\ at' = at
           \/ /\ ~dom[at].agent_subscribed /\ at' = at + 1
              /\ pc' = "reconfigure" \/ (pc' = "select" /\ at' = RT)
    BY Begins, Constants
  <1>2. synced' = synced /\ synced = {}
    BY <1>1 DEF BeginReconfigure, hist, SourceInv, Driven
  <1>3. ~dom[at].agent_subscribed => dom'[at].src = None
    <2> SUFFICES ASSUME ~dom[at].agent_subscribed PROVE dom'[at].src = None
      OBVIOUS
    <2> DEFINE C == [dom[at] EXCEPT !.dst = {}, !.state_changed = FALSE]
    <2>1. at \in Doms /\ dom[at] \in DomainType /\ dom \in [Doms -> DomainType]
      BY <1>1 DEF TypeInv, Doms
    <2>2. dom' = [dom EXCEPT ![at] = [C EXCEPT !.src = None]]
      BY DEF BeginReconfigure
    <2>3. "src" \in DOMAIN C
      BY <2>1 DEF DomainType
    <2> HIDE DEF C
    <2> QED
      BY <2>1, <2>2, <2>3
  <1>4. Reconfiguring /\ Reconfiguring'
    BY <1>1 DEF Reconfiguring
  <1>5. ASSUME NEW d \in Instances, d < at' PROVE OwnSource(d)'
    <2>1. d \in Nat
      BY Constants
    <2>2. CASE d < at
      BY <1>1, <1>4, <2>1, <2>2 DEF SourceInv, OwnSource
    <2>3. CASE d = at /\ ~dom[at].agent_subscribed
      BY <1>3, <2>3 DEF OwnSource
    <2> QED
      BY <1>1, <1>5, <2>1, <2>2, <2>3
  <1> QED
    BY <1>1, <1>2, <1>4, <1>5 DEF SourceInv, Driven

\* reconfigure_domain() chooses a slave of the domain, or reconfigure() gives up.
LEMMA EndGood ==
    ASSUME TypeInv, SourceInv, EndDomain
    PROVE  SourceInv'
  <1> DEFINE D == dom[at]
             c0 == CHOOSE c \in Slaves(D) : TRUE
             s == IF Postpone(D) \/ Slaves(D) = {} THEN None ELSE <<at, c0>>
             N == [D EXCEPT !.dst = Destinations(D), !.src = s]
  <1>1. /\ at \in Instances /\ at \in Nat /\ pc = "reconfigure_domain" /\ conf' = conf
        /\ conf \in Confs /\ \A d \in Instances : Alike(dom'[d], dom[d])
    BY Ends, Constants DEF TypeInv
  <1>2. /\ Effect(N) /\ postponed' = Postpone(D) /\ synced' = synced
        /\ Postpone(D) => pc' = "update"
        /\ ~Postpone(D) => at' = at + 1
                           /\ pc' = IF at + 1 \in Instances THEN "reconfigure" ELSE "select"
    BY DEF EndDomain, Effect, Goto
  <1>3. synced = {}
    BY <1>1 DEF SourceInv, Driven
  <1>4. at \in Doms /\ D \in DomainType /\ dom \in [Doms -> DomainType] /\ Doms' = Doms
    BY <1>1 DEF TypeInv, Doms
  <1>5. N.src = s
    <2> HIDE DEF s
    <2> QED
      BY <1>4 DEF DomainType
  <1>6. dom'[at].src = s /\ \A d \in Doms : d # at => dom'[d] = dom[d]
    <2> HIDE DEF N
    <2> QED
      BY <1>2, <1>4, <1>5 DEF Effect
  <1>7. CASE Postpone(D)
    <2>1. ~Reconfiguring' /\ postponed' /\ dom'[at].src = None
      BY <1>2, <1>6, <1>7 DEF Reconfiguring, Reiniting
    <2>2. ASSUME NDomains = 1 PROVE Agree'
      <3>1. at = 1 /\ \A d \in Doms : d = at \/ d = RT
        BY <1>1, <2>2, Constants DEF Doms
      <3>2. \A d, e \in Doms : d = at \/ e = at \/ d = e
        BY <3>1
      <3> QED
        BY <1>4, <2>1, <3>2 DEF Agree
    <2>3. pc' # "select"
      BY <1>2, <1>7
    <2> QED
      BY <1>2, <1>3, <2>1, <2>2, <2>3 DEF SourceInv, Driven
  <1>8. CASE ~Postpone(D)
    <2>1. /\ Reconfiguring /\ Reconfiguring' /\ at' = at + 1
          /\ pc' = "select" => at' = RT
      BY <1>1, <1>2, <1>8, Constants DEF Reconfiguring
    <2>3. ASSUME NEW d \in Instances, d < at' PROVE OwnSource(d)'
      <3>1. d \in Nat /\ d \in Doms
        BY Constants DEF Doms
      <3>2. CASE d < at
        <4>1. dom'[d] = dom[d] /\ OwnSource(d)
          BY <1>1, <1>6, <2>1, <3>1, <3>2 DEF SourceInv
        <4> QED
          BY <4>1 DEF OwnSource
      <3>3. CASE d = at
        <4>1. CASE Slaves(D) = {}
          BY <1>6, <3>3, <4>1 DEF OwnSource
        <4>2. CASE Slaves(D) # {}
          <5>1. c0 \in Slaves(D)
            BY <4>2
          <5>2. c0 \in Clocks /\ D.clock[c0].state = "SLAVE"
            BY <1>1, <5>1, Configured DEF Slaves
          <5>3. dom'[d].src = <<d, c0>> /\ dom'[d].clock = D.clock
            BY <1>1, <1>6, <1>8, <3>3, <4>2 DEF Alike
          <5> HIDE DEF c0
          <5> QED
            BY <3>3, <5>2, <5>3 DEF OwnSource
        <4> QED
          BY <4>1, <4>2
      <3> QED
        BY <1>1, <2>1, <2>3, <3>1, <3>2, <3>3
    <2> QED
      BY <1>2, <1>3, <2>1, <2>3 DEF SourceInv, Driven
  <1> QED
    BY <1>7, <1>8

\* One instance and the system clock are two domains.
LEMMA TwoDomains ==
    ASSUME NDomains = 1, RT \in Doms
    PROVE  Cardinality(Doms) = 2 /\ Doms = {1, RT} /\ RT = 2
  <1>1. Instances = {1} /\ RT = 2
    BY Constants
  <1>2. Doms = {1} \cup {RT} /\ RT \notin {1}
    BY <1>1 DEF Doms
  <1>3. IsFiniteSet({1}) /\ Cardinality({1}) = 1
    BY FS_Singleton
  <1>4. Cardinality({1} \cup {RT}) = 2
    BY <1>1, <1>3, FS_AddElement
  <1> QED
    BY <1>1, <1>2, <1>4

\* reconfigure() gives the domains without a source, and the system clock, the
\* source of the first that has one.
LEMMA SelectGood ==
    ASSUME TypeInv, SourceInv, SelectSource
    PROVE  SourceInv'
  <1> DEFINE mine == IF conf.rt = "source" THEN <<RT, 0>> ELSE None
             own == IF RT \in Doms THEN [dom EXCEPT ![RT].dst = {0}, ![RT].src = mine] ELSE dom
             able == {d \in Doms : own[d].src # None}
             best == own[Min(able)].src
             Fine(x) == \/ x = None \/ x = <<RT, 0>>
                        \/ \E e \in Instances, c \in Clocks :
                               x = <<e, c>> /\ dom[e].clock[c].state = "SLAVE"
  <1>1. /\ pc = "select" /\ pc' = "update" /\ conf' = conf /\ synced' = synced /\ synced = {}
        /\ at = RT /\ postponed' = postponed
        /\ \A d \in Instances : Alike(dom'[d], dom[d])
    BY Selects DEF SelectSource, hist, SourceInv, Driven
  <1>2. dom' = IF Cardinality(Doms) <= 1 \/ able = {} THEN own ELSE Select(own, best)
    BY DEF SelectSource
  <1>3. dom \in [Doms -> DomainType] /\ Doms' = Doms /\ Doms \subseteq 1..RT
        /\ RT \notin Instances /\ Instances \subseteq Doms /\ \A d \in Doms : d = RT \/ d \in Instances
    BY <1>1, Constants DEF TypeInv, Doms
  <1>4. \A d \in Instances : OwnSource(d)
    BY <1>1, Constants DEF SourceInv, Reconfiguring
  <1> HIDE DEF mine
  <1>5. /\ DOMAIN own = Doms /\ \A d \in Instances : own[d] = dom[d]
        /\ RT \in Doms => own[RT].src = mine
        /\ \A d \in Doms : "src" \in DOMAIN own[d]
    <2>1. CASE RT \in Doms
      <3> DEFINE R == [dom[RT] EXCEPT !.dst = {0}, !.src = mine]
      <3>1. own = [dom EXCEPT ![RT] = R]
        BY <2>1, <1>3 DEF DomainType
      <3>2. R.src = mine /\ "src" \in DOMAIN R
        BY <2>1, <1>3 DEF DomainType
      <3>3. \A d \in Doms : "src" \in DOMAIN dom[d]
        BY <1>3 DEF DomainType
      <3> HIDE DEF R, own
      <3> QED
        BY <1>3, <2>1, <3>1, <3>2, <3>3
    <2>2. CASE RT \notin Doms
      BY <2>2, <1>3 DEF DomainType
    <2> QED
      BY <2>1, <2>2
  <1>6. \A d \in Doms : Fine(own[d].src)
    <2> TAKE d \in Doms
    <2>1. CASE d \in Instances
      <3>1. own[d].src = dom[d].src /\ OwnSource(d)
        BY <1>4, <1>5, <2>1
      <3> HIDE DEF own
      <3> QED
        BY <2>1, <3>1 DEF OwnSource
    <2>2. CASE d = RT
      <3>1. own[d].src = mine
        BY <1>5, <2>2
      <3> HIDE DEF own
      <3> QED
        BY <3>1 DEF mine
    <2> QED
      BY <1>3, <2>1, <2>2
  <1>7. able # {} => Min(able) \in able /\ \A y \in able : Min(able) <= y
    <2>1. able \in SUBSET Nat
      BY <1>3, Constants
    <2> QED
      BY <2>1, Smallest
  <1>8. able \subseteq Doms /\ \A d \in Doms : d \in able <=> own[d].src # None
    OBVIOUS
  <1> DEFINE taken == ~(Cardinality(Doms) <= 1 \/ able = {})
  <1> HIDE DEF own, able
  <1>9. \A d \in Doms : dom'[d].src = IF taken /\ (own[d].src = None \/ d = RT) THEN best
                                      ELSE own[d].src
    <2> TAKE d \in Doms
    <2>1. CASE taken
      <3>1. dom' = [x \in Doms |-> IF own[x].src # None /\ x # RT THEN own[x]
                                   ELSE [own[x] EXCEPT !.src = best]]
        BY <1>2, <2>1 DEF Select
      <3> HIDE DEF best
      <3> QED
        BY <1>5, <2>1, <3>1
    <2>2. CASE ~taken
      BY <1>2, <2>2
    <2> QED
      BY <2>1, <2>2
  <1>10. \A d \in Doms : Fine(dom'[d].src)
    <2>1. taken => Fine(best)
      BY <1>6, <1>7, <1>8
    <2> HIDE DEF best, Fine
    <2> QED
      BY <1>6, <1>9, <2>1
  <1>11. \A d \in Doms : Good(d)'
    <2> TAKE d \in Doms
    <2>1. Fine(dom'[d].src)
      BY <1>10
    <2>2. \A e \in Instances : dom'[e].clock = dom[e].clock
      BY <1>1 DEF Alike
    <2> QED
      BY <2>1, <2>2 DEF Good
  <1>12. ASSUME NDomains = 1 PROVE Agree'
    <2>1. CASE RT \notin Doms
      <3>1. \A d, e \in Doms : d = e
        BY <1>12, <1>3, <2>1, Constants
      <3> QED
        BY <1>3, <3>1 DEF Agree
    <2>2. CASE RT \in Doms /\ able = {}
      BY <1>3, <1>8, <1>9, <2>2 DEF Agree
    <2>3. CASE RT \in Doms /\ able # {}
      <3>1. taken /\ Doms = {1, RT} /\ RT = 2
        BY <1>12, <2>3, TwoDomains
      <3>2. own[1].src # None => best = own[1].src
        <4> SUFFICES ASSUME own[1].src # None PROVE Min(able) = 1
          OBVIOUS
        <4>1. 1 \in able /\ able \subseteq {1, 2}
          BY <1>8, <3>1
        <4>2. Min(able) \in {1, 2} /\ Min(able) <= 1
          BY <1>7, <2>3, <4>1
        <4> QED
          BY <4>2
      <3> HIDE DEF best, taken
      <3>3. \A d \in Doms : dom'[d].src = best
        BY <1>9, <3>1, <3>2
      <3> QED
        BY <1>3, <3>3 DEF Agree
    <2> QED
      BY <2>1, <2>2, <2>3
  <1>13. ~Reconfiguring' /\ pc' # "select"
    BY <1>1 DEF Reconfiguring, Reiniting
  <1> QED
    BY <1>1, <1>3, <1>11, <1>12, <1>13 DEF SourceInv, Driven

\* What update_domain_clocks() synchronizes is driven by another device.
LEMMA UpdateGood ==
    ASSUME TypeInv, SourceInv, UpdateClocks
    PROVE  SourceInv'
  <1>1. /\ UNCHANGED <<conf, dom, postponed>> /\ pc = "update" /\ pc' = "sleep"
        /\ synced' = UNION {{[dst |-> <<d, c>>, src |-> dom[d].src] : c \in Targets(d)} : d \in Doms}
    BY DEF UpdateClocks, Goto
  <1>2. Doms' = Doms /\ ~Reconfiguring /\ ~Reconfiguring'
    BY <1>1 DEF Doms, Reconfiguring, Reiniting
  <1>3. ASSUME NEW x \in synced'
        PROVE  \E d \in Doms, c \in Clocks :
                   /\ x.dst = <<d, c>> /\ x.src = dom[d].src /\ dom[d].src # None
                   /\ PhcOf(d, c) # PhcOf(dom[d].src[1], dom[d].src[2])
    <2>0. PICK d \in Doms : x \in {[dst |-> <<d, c>>, src |-> dom[d].src] : c \in Targets(d)}
      BY <1>1, <1>3
    <2>1. PICK c \in Targets(d) : x = [dst |-> <<d, c>>, src |-> dom[d].src]
      BY <2>0
    <2>2. dom[d].src # None /\ c \in dom[d].dst /\ PhcOf(d, c) # PhcOf(dom[d].src[1], dom[d].src[2])
      BY <2>1 DEF Targets
    <2>3. dom[d] \in DomainType
      BY <2>1 DEF TypeInv
    <2>4. c \in Clocks
      BY <2>2, <2>3 DEF DomainType
    <2> QED
      BY <2>1, <2>2, <2>4
  <1>4. Driven'
    BY <1>1, <1>2, <1>3 DEF Driven, PhcOf
  <1>5. (\A d \in Doms : Good(d)) => \A d \in Doms : Good(d)'
    BY <1>1 DEF Good
  <1>6. Agree => Agree'
    BY <1>1, <1>2 DEF Agree
  <1> QED
    BY <1>1, <1>2, <1>4, <1>5, <1>6 DEF SourceInv

\* Every step keeps the sources good.
LEMMA SourceStep ==
    ASSUME TypeInv, TypeInv', [Next]_vars, SourceInv
    PROVE  SourceInv'
  <1>1. CASE Wake
    <2>1. /\ conf' = conf /\ postponed' = postponed /\ synced' = {} /\ pc = "sleep"
          /\ pc' \in {"renew", "drain"}
      BY <1>1, Wakes DEF Wake
    <2>2. ASSUME NEW d \in Doms PROVE Still(d)
      <3>1. dom'[d] = IF d \in Instances /\ dom[d].age < Never
                      THEN [dom[d] EXCEPT !.age = @ + 1] ELSE dom[d]
        BY <1>1 DEF Wake
      <3>2. dom[d] \in DomainType
        BY DEF TypeInv
      <3>3. dom'[d].src = dom[d].src /\ dom'[d].clock = dom[d].clock
        BY <3>1, <3>2 DEF DomainType
      <3> QED
        BY <3>3 DEF Still
    <2>3. ~Reconfiguring /\ ~Reconfiguring' /\ pc' # "select"
      BY <2>1 DEF Reconfiguring, Reiniting
    <2> QED
      BY <2>1, <2>2, <2>3, StillGood
  <1>2. CASE NextReinit
    <2>1. /\ UNCHANGED <<conf, dom, at, postponed, synced>> /\ pc = "reconfigure_domain"
          /\ pc' = "properties"
      BY <1>2, Visits DEF NextReinit, hist
    <2>2. Reconfiguring /\ Reconfiguring' /\ pc' # "select" /\ synced' = {}
      BY <2>1 DEF Reconfiguring, Reiniting, SourceInv, Driven
    <2>3. \A d \in Doms : Still(d)
      BY <2>1 DEF Still
    <2> QED
      BY <2>1, <2>2, <2>3, StillGood
  <1>3. CASE \/ \E e \in Instances : Answer(e) \/ Stall(e) \/ Resume(e)
             \/ \E e \in Instances, p \in Ports, s \in Reported, props \in BOOLEAN, phc \in Phcs :
                    PortChange(e, p, s, props, phc)
             \/ UNCHANGED vars
    <2>1. UNCHANGED <<conf, dom, pc, at, synced, postponed>>
      <3>1. CASE \E e \in Instances : Answer(e) \/ Stall(e) \/ Resume(e)
        BY <3>1 DEF Answer, Stall, Resume, hist
      <3>2. ASSUME NEW e \in Instances, NEW p \in Ports, NEW s \in Reported, NEW props \in BOOLEAN,
                   NEW phc \in Phcs, PortChange(e, p, s, props, phc)
            PROVE  UNCHANGED <<conf, dom, pc, at, synced, postponed>>
        BY <3>2 DEF PortChange
      <3>3. CASE UNCHANGED vars
        BY <3>3 DEF vars
      <3> QED
        BY <1>3, <3>1, <3>2, <3>3
    <2>2. (Reconfiguring' <=> Reconfiguring) /\ \A d \in Doms : Still(d)
      BY <2>1 DEF Reconfiguring, Reiniting, Still
    <2> QED
      BY <2>1, <2>2, StillGood
  <1> QED
    BY <1>1, <1>2, <1>3, WaitGood, BeginGood, EndGood, SelectGood, UpdateGood DEF Next, Program

\* The sources are good in every state.
LEMMA SourcesGood == Spec => [](TypeInv /\ SourceInv)
  <1>1. Init => TypeInv /\ SourceInv
    <2> SUFFICES ASSUME Init PROVE SourceInv
      BY Starts
    <2>1. TypeInv /\ pc = "sleep" /\ synced = {}
      BY Starts DEF Init
    <2>2. \A d \in Doms : dom[d].src = None
      <3> TAKE d \in Doms
      <3>1. dom[d] = IF d = RT THEN auto_init_rt ELSE auto_init_ports(ptp[d].state, conf.phc)
        BY DEF Init
      <3>2. \A state, phc : auto_init_ports(state, phc).src = None
        BY DEF auto_init_ports
      <3>3. auto_init_rt.src = None
        BY DEF auto_init_rt, auto_init_ports
      <3> QED
        BY <3>1, <3>2, <3>3
    <2>3. ~Reconfiguring /\ pc # "select"
      BY <2>1 DEF Reconfiguring, Reiniting
    <2> QED
      BY <2>1, <2>2, <2>3 DEF SourceInv, Good, Agree, Driven
  <1>2. (TypeInv /\ SourceInv) /\ [Next]_vars => (TypeInv /\ SourceInv)'
    BY TypeStep, SourceStep
  <1> QED
    BY <1>1, <1>2, PTL DEF Spec

\* What is synchronized has a slave or the system clock as its source, with any
\* number of instances, unless reconfigure() gave up: no state that a clock had
\* before, and no source chosen before, is still followed.
THEOREM DirectionAlwaysFollows == Spec => []DirectionFollows
  <1>1. TypeInv /\ SourceInv => DirectionFollows
    <2> SUFFICES ASSUME TypeInv, SourceInv, NEW x \in synced, ~postponed
                 PROVE  x.src = <<RT, 0>> \/ dom[x.src[1]].clock[x.src[2]].state = "SLAVE"
      BY DEF DirectionFollows
    <2>1. ~Reconfiguring
      BY DEF SourceInv, Driven, Reconfiguring, Reiniting
    <2>2. PICK d \in Doms : x.src = dom[d].src /\ dom[d].src # None
      BY DEF SourceInv, Driven
    <2>3. Good(d)
      BY <2>1, <2>2 DEF SourceInv
    <2> QED
      BY <2>2, <2>3 DEF Good
  <1> QED
    BY <1>1, SourcesGood, PTL

\* With one instance all that is synchronized follows one source, so that no two
\* clocks discipline each other.
THEOREM SourcesAlwaysSound == Spec => [](NDomains = 1 => SourcesSound)
  <1>1. TypeInv /\ SourceInv => (NDomains = 1 => NoCycle)
    <2> SUFFICES ASSUME TypeInv, SourceInv, NDomains = 1, NEW x \in synced, NEW y \in synced,
                        Drives(x).dst = Drives(y).src, Drives(y).dst = Drives(x).src
                 PROVE  FALSE
      BY DEF NoCycle
    <2>1. Agree
      BY DEF SourceInv, Driven, Reconfiguring, Reiniting
    <2>2. PICK d \in Doms, c \in Clocks :
              /\ x.dst = <<d, c>> /\ x.src = dom[d].src /\ dom[d].src # None
              /\ PhcOf(d, c) # PhcOf(dom[d].src[1], dom[d].src[2])
      BY DEF SourceInv, Driven
    <2>3. PICK e \in Doms : y.src = dom[e].src /\ dom[e].src # None
      BY DEF SourceInv, Driven
    <2>4. x.src = y.src
      BY <2>1, <2>2, <2>3 DEF Agree
    <2>5. Drives(x).dst = PhcOf(d, c) /\ Drives(x).src = PhcOf(dom[d].src[1], dom[d].src[2])
      BY <2>2 DEF Drives
    <2>6. Drives(y).src = Drives(x).src
      BY <2>4 DEF Drives
    <2> QED
      BY <2>2, <2>5, <2>6
  <1> QED
    BY <1>1, SourcesGood, TypeCorrect, DirectionAlwaysFollows, PTL DEF SourcesSound
=============================================================================
