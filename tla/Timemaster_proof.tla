-------------------------- MODULE Timemaster_proof ---------------------------
(****************************************************************************)
(* The theorems about timemaster, and about the configuration that it and a *)
(* user write, for every value of the constants: the script is sound,       *)
(* programs are never forgotten nor restarted one without the other, every  *)
(* option has the value that precedence gives it, and addresses belong to   *)
(* the table that was named.                                                *)
(****************************************************************************)
EXTENDS MCTimemaster, FiniteSetTheorems, SequenceTheorems, TLAPS

\* timemaster: the script.
Clocks == 0..1
Marks == {Used, NoPhc} \cup Clocks

CommandType ==
    [program : {"ntp", "ptp4l", "phc2sys"}, group : Nat, interfaces : SUBSET Interfaces,
     phc : {NoPhc} \cup Clocks, vclock : Int, refclock_id : Int]

ScriptType ==
    [commands : Seq(CommandType), vclocks : [Clocks -> Nat], allocated : SUBSET Clocks,
     refclock_id : Nat, command_group : Nat, ok : BOOLEAN, source : Nat \ {0}, i : Nat,
     phcs : Seq(Marks)]

\* What a command has is no longer free: its group, its socket, its clock.
Taken(c, s, a) ==
    a.program # "ntp" =>
        /\ a.group < s.command_group /\ a.refclock_id < s.refclock_id
        /\ a.phc # NoPhc => IF c.use_vclocks THEN a.vclock < s.vclocks[a.phc]
                            ELSE a.phc \in s.allocated

\* Two commands that share nothing.
Apart(c, a, b) ==
    a.program = b.program /\ a.program # "ntp" =>
        /\ a.refclock_id # b.refclock_id /\ a.group # b.group
        /\ a.phc = b.phc /\ a.phc # NoPhc => c.use_vclocks /\ a.vclock # b.vclock

AllTaken(c, s) == \A k \in DOMAIN s.commands : Taken(c, s, s.commands[k])
AllApart(c, s) ==
    \A j, k \in DOMAIN s.commands : j # k => Apart(c, s.commands[j], s.commands[k])

\* In the loop of add_ptp_source(): the clocks still to be used are free.
InLoop(c, s) ==
    /\ s.i >= 1 /\ s.source \in DOMAIN c.sources
    /\ DOMAIN s.phcs = DOMAIN c.sources[s.source]
    /\ \A j \in DOMAIN s.phcs : j >= s.i /\ ~c.use_vclocks => s.phcs[j] \notin s.allocated

ScriptOK(c, s) == s \in ScriptType /\ Len(s.commands) >= 1 /\ AllTaken(c, s) /\ AllApart(c, s)

-----------------------------------------------------------------------------
MarkedPhcs(s) ==
    [j \in DOMAIN s.phcs |->
        IF s.phcs[s.i] # NoPhc /\ j > s.i /\ s.phcs[j] = s.phcs[s.i] THEN Used ELSE s.phcs[j]]

NewCommand(c, s, a) ==
    /\ a \in CommandType
    /\ a.group = s.command_group /\ a.refclock_id = s.refclock_id /\ a.phc = s.phcs[s.i]
    /\ a.phc # NoPhc /\ c.use_vclocks => a.vclock = s.vclocks[a.phc]

\* What AddOne() makes of the script.
Added(c, s, p, q, r) ==
    /\ r \in ScriptType
    /\ r.commands = IF s.phcs[s.i] = NoPhc THEN Append(s.commands, p)
                    ELSE Append(Append(s.commands, p), q)
    /\ r.command_group = s.command_group + 1 /\ r.refclock_id = s.refclock_id + 1
    /\ r.phcs = MarkedPhcs(s) /\ r.i = s.i /\ r.source = s.source
    /\ r.allocated = IF s.phcs[s.i] # NoPhc /\ ~c.use_vclocks
                     THEN s.allocated \cup {s.phcs[s.i]} ELSE s.allocated
    /\ \A d \in Clocks : r.vclocks[d] >= s.vclocks[d]
    /\ s.phcs[s.i] # NoPhc /\ c.use_vclocks =>
           r.vclocks[s.phcs[s.i]] = s.vclocks[s.phcs[s.i]] + 1

\* Marking interfaces as used changes nothing else.
LEMMA MarkedTyped ==
    ASSUME NEW s \in ScriptType
    PROVE  MarkedPhcs(s) \in Seq(Marks) /\ DOMAIN MarkedPhcs(s) = DOMAIN s.phcs
  <1>1. s.phcs \in Seq(Marks)
    BY DEF ScriptType
  <1>2. DOMAIN s.phcs = 1..Len(s.phcs) /\ Len(s.phcs) \in Nat /\ \A j \in DOMAIN s.phcs : s.phcs[j] \in Marks
    BY <1>1
  <1>3. MarkedPhcs(s) \in [1..Len(s.phcs) -> Marks]
    BY <1>2 DEF MarkedPhcs, Marks
  <1> QED
    BY <1>2, <1>3 DEF MarkedPhcs

\* Two scripts that agree but for their commands, or but for their clocks.
SameCounters(r, s) ==
    /\ r.i = s.i /\ r.source = s.source /\ r.command_group = s.command_group
    /\ r.refclock_id = s.refclock_id

\* add_command() appends, and changes nothing else.
LEMMA CommandAdded ==
    ASSUME NEW s \in ScriptType, NEW a \in CommandType
    PROVE  /\ add_command(s, a) \in ScriptType
           /\ add_command(s, a).commands = Append(s.commands, a)
           /\ add_command(s, a).allocated = s.allocated /\ add_command(s, a).vclocks = s.vclocks
           /\ SameCounters(add_command(s, a), s)
  <1>1. s.commands \in Seq(CommandType)
    BY DEF ScriptType
  <1> DEFINE cs == Append(s.commands, a)
             r == [s EXCEPT !.commands = cs]
  <1>2. cs \in Seq(CommandType)
    BY <1>1
  <1>3. add_command(s, a) = r
    BY DEF add_command
  <1> HIDE DEF cs
  <1>4. r \in ScriptType
    BY <1>2 DEF ScriptType
  <1>5. r.commands = cs /\ r.allocated = s.allocated /\ r.vclocks = s.vclocks
    BY DEF ScriptType
  <1>6. SameCounters(r, s)
    BY DEF ScriptType, SameCounters
  <1> QED
    BY <1>3, <1>4, <1>5, <1>6 DEF cs

\* A clock is claimed for a source, or a virtual clock of it is made.
LEMMA ClaimClaims ==
    ASSUME NEW c, NEW s \in ScriptType, NEW phc \in Clocks
    PROVE  /\ Claim(c, s, phc) \in ScriptType /\ Claim(c, s, phc).commands = s.commands
           /\ SameCounters(Claim(c, s, phc), s)
           /\ Claim(c, s, phc).allocated =
                  IF c.use_vclocks THEN s.allocated ELSE s.allocated \cup {phc}
           /\ \A d \in Clocks : Claim(c, s, phc).vclocks[d] >= s.vclocks[d]
           /\ c.use_vclocks => Claim(c, s, phc).vclocks[phc] = s.vclocks[phc] + 1
  <1>1. s.vclocks \in [Clocks -> Nat] /\ s.allocated \subseteq Clocks
    BY DEF ScriptType
  <1>2. CASE c.use_vclocks
    <2> DEFINE v == [s.vclocks EXCEPT ![phc] = @ + 1]
               r == [s EXCEPT !.vclocks = v]
    <2>1. v \in [Clocks -> Nat] /\ v[phc] = s.vclocks[phc] + 1 /\ \A d \in Clocks : v[d] >= s.vclocks[d]
      BY <1>1
    <2>2. Claim(c, s, phc) = r
      BY <1>2 DEF Claim, add_vclock
    <2> HIDE DEF v
    <2>3. r \in ScriptType
      BY <2>1 DEF ScriptType
    <2>4. r.commands = s.commands /\ r.allocated = s.allocated /\ r.vclocks = v /\ SameCounters(r, s)
      BY DEF ScriptType, SameCounters
    <2> HIDE DEF r
    <2> QED
      BY <1>2, <2>1, <2>2, <2>3, <2>4
  <1>3. CASE ~c.use_vclocks
    <2> DEFINE r == [s EXCEPT !.allocated = @ \cup {phc}]
    <2>2. Claim(c, s, phc) = r
      BY <1>3 DEF Claim
    <2>3. r \in ScriptType
      BY <1>1 DEF ScriptType
    <2>4. /\ r.commands = s.commands /\ r.allocated = s.allocated \cup {phc} /\ r.vclocks = s.vclocks
          /\ SameCounters(r, s)
      BY DEF ScriptType, SameCounters
    <2>5. \A d \in Clocks : s.vclocks[d] >= s.vclocks[d]
      BY <1>1
    <2> HIDE DEF r
    <2> QED
      BY <1>3, <2>2, <2>3, <2>4, <2>5
  <1> QED
    BY <1>2, <1>3

\* The body of the loop of add_ptp_source(), put together.
LEMMA AddOneAdds ==
    ASSUME NEW c \in ConfigType, NEW s \in ScriptType, InLoop(c, s), s.i \in DOMAIN s.phcs,
           s.phcs[s.i] # Used
    PROVE  \E p, q : /\ NewCommand(c, s, p) /\ p.program = "ptp4l"
                     /\ NewCommand(c, s, q) /\ q.program = "phc2sys"
                     /\ Added(c, s, p, q, AddOne(c, s))
  <1> DEFINE phc == s.phcs[s.i]
             sharing == IF phc = NoPhc THEN {} ELSE {j \in DOMAIN s.phcs : j > s.i /\ s.phcs[j] = phc}
             mine == {c.sources[s.source][j] : j \in sharing \cup {s.i}}
             vclock == IF phc # NoPhc /\ c.use_vclocks THEN s.vclocks[phc] ELSE NoPhc
             p == Command("ptp4l", s.command_group, mine, phc, vclock, s.refclock_id)
             q == Command("phc2sys", s.command_group, {}, phc, vclock, s.refclock_id)
             marked == [j \in DOMAIN s.phcs |-> IF j \in sharing THEN Used ELSE s.phcs[j]]
             ptp4l == add_command(s, p)
             claimed == Claim(c, ptp4l, phc)
             both == add_command(claimed, q)
             one == IF phc = NoPhc THEN ptp4l ELSE both
  <1>1. AddOne(c, s) = [one EXCEPT !.command_group = @ + 1, !.refclock_id = @ + 1, !.phcs = marked]
    BY DEF AddOne
  <1>2. phc \in {NoPhc} \cup Clocks
    BY DEF ScriptType, Marks
  <1>3. marked = MarkedPhcs(s)
    BY DEF MarkedPhcs
  <1>4. mine \subseteq Interfaces
    <2>1. c.sources \in Seq(Seq(Interfaces))
      BY DEF ConfigType
    <2>2. c.sources[s.source] \in Seq(Interfaces)
      BY <2>1 DEF InLoop
    <2>3. \A j \in DOMAIN s.phcs : c.sources[s.source][j] \in Interfaces
      BY <2>2 DEF InLoop
    <2> QED
      BY <2>3
  <1>5. vclock \in Int
    BY <1>2 DEF ScriptType, NoPhc
  <1>6. NewCommand(c, s, p) /\ p.program = "ptp4l"
    BY <1>2, <1>4, <1>5 DEF Command, CommandType, NewCommand, ScriptType
  <1>7. NewCommand(c, s, q) /\ q.program = "phc2sys"
    BY <1>2, <1>5 DEF Command, CommandType, NewCommand, ScriptType
  <1> HIDE DEF p, q, mine, vclock, sharing, marked
  <1>8. p \in CommandType /\ q \in CommandType
    BY <1>6, <1>7 DEF NewCommand
  <1>9. marked \in Seq(Marks)
    BY <1>3, MarkedTyped
  <1>10. /\ ptp4l \in ScriptType /\ ptp4l.commands = Append(s.commands, p)
         /\ ptp4l.allocated = s.allocated /\ ptp4l.vclocks = s.vclocks /\ SameCounters(ptp4l, s)
    BY <1>8, CommandAdded
  <1> HIDE DEF ptp4l, phc
  <1>11. ASSUME phc # NoPhc
         PROVE  /\ claimed \in ScriptType /\ claimed.commands = ptp4l.commands
                /\ SameCounters(claimed, ptp4l)
                /\ claimed.allocated = IF c.use_vclocks THEN s.allocated ELSE s.allocated \cup {phc}
                /\ \A d \in Clocks : claimed.vclocks[d] >= s.vclocks[d]
                /\ c.use_vclocks => claimed.vclocks[phc] = s.vclocks[phc] + 1
    <2>1. phc \in Clocks
      BY <1>2, <1>11
    <2>2. /\ claimed \in ScriptType /\ claimed.commands = ptp4l.commands
          /\ SameCounters(claimed, ptp4l)
          /\ claimed.allocated = IF c.use_vclocks THEN ptp4l.allocated ELSE ptp4l.allocated \cup {phc}
          /\ \A d \in Clocks : claimed.vclocks[d] >= ptp4l.vclocks[d]
          /\ c.use_vclocks => claimed.vclocks[phc] = ptp4l.vclocks[phc] + 1
      BY <2>1, <1>10, ClaimClaims
    <2> HIDE DEF claimed
    <2> QED
      BY <2>2, <1>10
  <1> HIDE DEF claimed
  <1>12. ASSUME phc # NoPhc
         PROVE  /\ both \in ScriptType /\ both.commands = Append(Append(s.commands, p), q)
                /\ both.allocated = claimed.allocated /\ both.vclocks = claimed.vclocks
                /\ SameCounters(both, claimed)
    BY <1>8, <1>10, <1>11, <1>12, CommandAdded
  <1> HIDE DEF both
  <1>13. /\ one \in ScriptType
         /\ one.commands = IF phc = NoPhc THEN Append(s.commands, p) ELSE Append(Append(s.commands, p), q)
         /\ SameCounters(one, s)
         /\ one.allocated = IF phc # NoPhc /\ ~c.use_vclocks THEN s.allocated \cup {phc} ELSE s.allocated
         /\ \A d \in Clocks : one.vclocks[d] >= s.vclocks[d]
         /\ phc # NoPhc /\ c.use_vclocks => one.vclocks[phc] = s.vclocks[phc] + 1
    <2>1. CASE phc = NoPhc
      <3>1. \A d \in Clocks : s.vclocks[d] >= s.vclocks[d]
        BY DEF ScriptType
      <3>2. one = ptp4l
        BY <2>1
      <3> HIDE DEF one
      <3> QED
        BY <2>1, <3>1, <3>2, <1>10
    <2>2. CASE phc # NoPhc
      <3>1. one = both
        BY <2>2
      <3> HIDE DEF one
      <3>2. SameCounters(one, s)
        BY <2>2, <3>1, <1>12, <1>11, <1>10 DEF SameCounters
      <3> QED
        BY <2>2, <3>1, <3>2, <1>12, <1>11
    <2> QED
      BY <2>1, <2>2
  <1> HIDE DEF one
  <1>14. Added(c, s, p, q, AddOne(c, s))
    <2> DEFINE r == [one EXCEPT !.command_group = @ + 1, !.refclock_id = @ + 1, !.phcs = marked]
    <2>1. r \in ScriptType
      <3>1. one.command_group + 1 \in Nat /\ one.refclock_id + 1 \in Nat
        BY <1>13 DEF ScriptType
      <3> QED
        BY <3>1, <1>9, <1>13 DEF ScriptType
    <2>2. /\ r.commands = one.commands /\ r.command_group = one.command_group + 1
          /\ r.refclock_id = one.refclock_id + 1 /\ r.phcs = marked /\ r.i = one.i
          /\ r.source = one.source /\ r.allocated = one.allocated /\ r.vclocks = one.vclocks
      BY <1>13 DEF ScriptType
    <2> HIDE DEF r
    <2>3. Added(c, s, p, q, r)
      BY <2>1, <2>2, <1>3, <1>13 DEF Added, phc, SameCounters
    <2> QED
      BY <2>3, <1>1 DEF r
  <1> QED
    BY <1>6, <1>7, <1>14

-----------------------------------------------------------------------------
\* The commands of the longer script.
LEMMA CommandsAdded ==
    ASSUME NEW s \in ScriptType, NEW p \in CommandType, NEW q \in CommandType, NEW r,
           r.commands = IF s.phcs[s.i] = NoPhc THEN Append(s.commands, p)
                        ELSE Append(Append(s.commands, p), q)
    PROVE  /\ Len(r.commands) >= Len(s.commands)
           /\ \A k \in DOMAIN s.commands : k \in DOMAIN r.commands /\ r.commands[k] = s.commands[k]
           /\ \A k \in DOMAIN r.commands :
                 \/ k \in DOMAIN s.commands
                 \/ k = Len(s.commands) + 1 /\ r.commands[k] = p
                 \/ k = Len(s.commands) + 2 /\ r.commands[k] = q /\ s.phcs[s.i] # NoPhc
  <1> DEFINE n == Len(s.commands)
             one == Append(s.commands, p)
             two == Append(one, q)
  <1>1. s.commands \in Seq(CommandType)
    BY DEF ScriptType
  <1>2. n \in Nat /\ DOMAIN s.commands = 1..n
    BY <1>1
  <1>3. /\ one \in Seq(CommandType) /\ Len(one) = n + 1 /\ DOMAIN one = 1..(n + 1)
        /\ one[n + 1] = p /\ \A k \in 1..n : one[k] = s.commands[k]
    BY <1>1
  <1> HIDE DEF one
  <1>4. /\ Len(two) = n + 2 /\ DOMAIN two = 1..(n + 2)
        /\ two[n + 2] = q /\ two[n + 1] = p /\ \A k \in 1..n : two[k] = s.commands[k]
    BY <1>2, <1>3
  <1> HIDE DEF two
  <1>5. CASE s.phcs[s.i] = NoPhc
    <2>1. r.commands = one
      BY <1>5 DEF one
    <2> QED
      BY <1>2, <1>3, <2>1
  <1>6. CASE s.phcs[s.i] # NoPhc
    <2>1. r.commands = two
      BY <1>6 DEF one, two
    <2> QED
      BY <1>2, <1>4, <1>6, <2>1
  <1> QED
    BY <1>5, <1>6

\* What is taken stays so.
LEMMA TakenStays ==
    ASSUME NEW c, NEW s \in ScriptType, NEW p, NEW q, NEW r, NEW a \in CommandType,
           Added(c, s, p, q, r), Taken(c, s, a)
    PROVE  Taken(c, r, a)
  <1>1. SUFFICES ASSUME a.program # "ntp" PROVE Taken(c, r, a)
    BY DEF Taken
  <1>2. a.group \in Nat /\ a.refclock_id \in Int /\ a.vclock \in Int /\ a.phc \in {NoPhc} \cup Clocks
    BY DEF CommandType
  <1>3. s.command_group \in Nat /\ s.refclock_id \in Nat /\ \A d \in Clocks : s.vclocks[d] \in Nat
    BY DEF ScriptType
  <1>4. /\ r.command_group = s.command_group + 1 /\ r.refclock_id = s.refclock_id + 1
        /\ s.allocated \subseteq r.allocated /\ \A d \in Clocks : r.vclocks[d] >= s.vclocks[d]
        /\ r \in ScriptType
    BY DEF Added
  <1>5. \A d \in Clocks : r.vclocks[d] \in Nat
    BY <1>4 DEF ScriptType
  <1>6. a.group < r.command_group /\ a.refclock_id < r.refclock_id
    BY <1>1, <1>2, <1>3, <1>4 DEF Taken
  <1>7. ASSUME a.phc # NoPhc, c.use_vclocks PROVE a.vclock < r.vclocks[a.phc]
    <2>1. a.vclock < s.vclocks[a.phc] /\ a.phc \in Clocks
      BY <1>1, <1>2, <1>7 DEF Taken
    <2> QED
      BY <2>1, <1>2, <1>3, <1>4, <1>5
  <1>8. ASSUME a.phc # NoPhc, ~c.use_vclocks PROVE a.phc \in r.allocated
    BY <1>1, <1>4, <1>8 DEF Taken
  <1> QED
    BY <1>6, <1>7, <1>8 DEF Taken

\* What a new command has is taken.
LEMMA NewTaken ==
    ASSUME NEW c, NEW s \in ScriptType, NEW p, NEW q, NEW r, NEW a,
           Added(c, s, p, q, r), NewCommand(c, s, a)
    PROVE  Taken(c, r, a)
  <1>1. a \in CommandType
    BY DEF NewCommand
  <1>2. a.phc \in {NoPhc} \cup Clocks
    BY <1>1 DEF CommandType
  <1>3. s.command_group \in Nat /\ s.refclock_id \in Nat /\ \A d \in Clocks : s.vclocks[d] \in Nat
    BY DEF ScriptType
  <1>4. a.group < r.command_group /\ a.refclock_id < r.refclock_id
    BY <1>3 DEF Added, NewCommand
  <1>5. ASSUME a.phc # NoPhc, c.use_vclocks PROVE a.vclock < r.vclocks[a.phc]
    <2>1. a.vclock = s.vclocks[a.phc] /\ r.vclocks[a.phc] = s.vclocks[a.phc] + 1
      BY <1>5 DEF Added, NewCommand
    <2> QED
      BY <1>2, <1>3, <1>5, <2>1
  <1>6. ASSUME a.phc # NoPhc, ~c.use_vclocks PROVE a.phc \in r.allocated
    BY <1>6 DEF Added, NewCommand
  <1> QED
    BY <1>4, <1>5, <1>6 DEF Taken

\* What a command of the script has, a new one does not get.
LEMMA NewApart ==
    ASSUME NEW c, NEW s \in ScriptType, NEW a \in CommandType, NEW b,
           InLoop(c, s), s.i \in DOMAIN s.phcs, Taken(c, s, a), NewCommand(c, s, b)
    PROVE  Apart(c, a, b) /\ Apart(c, b, a)
  <1>1. s.command_group \in Nat /\ s.refclock_id \in Nat /\ \A d \in Clocks : s.vclocks[d] \in Nat
    BY DEF ScriptType
  <1>2. a.group \in Nat /\ a.refclock_id \in Int /\ a.vclock \in Int /\ a.phc \in {NoPhc} \cup Clocks
    BY DEF CommandType
  <1>3. b.group = s.command_group /\ b.refclock_id = s.refclock_id /\ b.phc = s.phcs[s.i]
    BY DEF NewCommand
  <1>4. ASSUME a.program # "ntp" PROVE a.group # b.group /\ a.refclock_id # b.refclock_id
    BY <1>1, <1>2, <1>3, <1>4 DEF Taken
  <1>5. ASSUME a.program # "ntp", a.phc = b.phc, a.phc # NoPhc
        PROVE  c.use_vclocks /\ a.vclock # b.vclock
    <2>1. a.phc \in Clocks
      BY <1>2, <1>5
    <2>2. CASE c.use_vclocks
      <3>1. a.vclock < s.vclocks[a.phc] /\ b.vclock = s.vclocks[a.phc]
        BY <1>5, <2>2 DEF Taken, NewCommand
      <3> QED
        BY <1>1, <1>2, <2>1, <2>2, <3>1
    <2>3. CASE ~c.use_vclocks
      <3>1. a.phc \in s.allocated
        BY <1>5, <2>3 DEF Taken
      <3>2. s.phcs[s.i] \notin s.allocated
        <4>1. s.i \in Nat
          BY DEF ScriptType
        <4>2. s.i >= s.i
          BY <4>1
        <4> QED
          BY <2>3, <4>2 DEF InLoop
      <3> QED
        BY <1>3, <1>5, <3>1, <3>2
    <2> QED
      BY <2>2, <2>3
  <1> QED
    BY <1>4, <1>5 DEF Apart

\* The body of the loop keeps the script sound, and the other clocks free.
LEMMA AddOneSound ==
    ASSUME NEW c \in ConfigType, NEW s, ScriptOK(c, s), InLoop(c, s), s.i \in DOMAIN s.phcs,
           s.phcs[s.i] # Used
    PROVE  /\ ScriptOK(c, AddOne(c, s))
           /\ AddOne(c, s).i = s.i /\ AddOne(c, s).source = s.source
           /\ DOMAIN AddOne(c, s).phcs = DOMAIN s.phcs
           /\ \A j \in DOMAIN s.phcs : j >= s.i + 1 /\ ~c.use_vclocks =>
                  AddOne(c, s).phcs[j] \notin AddOne(c, s).allocated
  <1>1. s \in ScriptType /\ AllTaken(c, s) /\ AllApart(c, s) /\ Len(s.commands) >= 1
    BY DEF ScriptOK
  <1>2. PICK p, q : /\ NewCommand(c, s, p) /\ p.program = "ptp4l"
                    /\ NewCommand(c, s, q) /\ q.program = "phc2sys"
                    /\ Added(c, s, p, q, AddOne(c, s))
    BY <1>1, AddOneAdds
  <1> DEFINE r == AddOne(c, s)
             n == Len(s.commands)
  <1>3. Added(c, s, p, q, r)
    BY <1>2
  <1> HIDE DEF r
  <1>4. p \in CommandType /\ q \in CommandType
    BY <1>2 DEF NewCommand
  <1>5. s.commands \in Seq(CommandType)
    BY <1>1 DEF ScriptType
  <1>6. DOMAIN s.commands = 1..n /\ n \in Nat /\ \A k \in DOMAIN s.commands : s.commands[k] \in CommandType
    BY <1>5
  <1>7. /\ Len(r.commands) >= n
        /\ \A k \in DOMAIN s.commands : k \in DOMAIN r.commands /\ r.commands[k] = s.commands[k]
        /\ \A k \in DOMAIN r.commands :
              \/ k \in DOMAIN s.commands
              \/ k = n + 1 /\ r.commands[k] = p
              \/ k = n + 2 /\ r.commands[k] = q /\ s.phcs[s.i] # NoPhc
    <2>1. r.commands = IF s.phcs[s.i] = NoPhc THEN Append(s.commands, p)
                       ELSE Append(Append(s.commands, p), q)
      BY <1>3 DEF Added
    <2> QED
      BY <1>1, <1>4, <2>1, CommandsAdded
  <1>8. r \in ScriptType
    BY <1>3 DEF Added
  <1>9. Len(r.commands) \in Nat
    <2>1. r.commands \in Seq(CommandType)
      BY <1>8 DEF ScriptType
    <2> QED
      BY <2>1
  <1>10. AllTaken(c, r)
    <2>1. \A k \in DOMAIN s.commands : Taken(c, s, s.commands[k])
      BY <1>1 DEF AllTaken
    <2>2. \A k \in DOMAIN s.commands : Taken(c, r, s.commands[k])
      BY <1>1, <1>3, <1>6, <2>1, TakenStays
    <2>3. Taken(c, r, p) /\ Taken(c, r, q)
      BY <1>1, <1>2, <1>3, NewTaken
    <2> QED
      BY <1>7, <2>2, <2>3 DEF AllTaken
  <1>11. AllApart(c, r)
    <2>1. \A k \in DOMAIN s.commands : Taken(c, s, s.commands[k])
      BY <1>1 DEF AllTaken
    <2>2. \A k \in DOMAIN s.commands : Apart(c, s.commands[k], p) /\ Apart(c, p, s.commands[k])
      BY <1>1, <1>2, <1>6, <2>1, NewApart
    <2>3. \A k \in DOMAIN s.commands : Apart(c, s.commands[k], q) /\ Apart(c, q, s.commands[k])
      BY <1>1, <1>2, <1>6, <2>1, NewApart
    <2>4. Apart(c, p, q) /\ Apart(c, q, p)
      BY <1>2 DEF Apart
    <2>5. \A j, k \in DOMAIN s.commands : j # k => Apart(c, s.commands[j], s.commands[k])
      BY <1>1 DEF AllApart
    <2> SUFFICES ASSUME NEW j \in DOMAIN r.commands, NEW k \in DOMAIN r.commands, j # k
                 PROVE  Apart(c, r.commands[j], r.commands[k])
      BY DEF AllApart
    <2>6. CASE j \in DOMAIN s.commands
      BY <1>7, <2>2, <2>3, <2>5, <2>6
    <2>7. CASE j = n + 1 /\ r.commands[j] = p
      BY <1>7, <2>2, <2>4, <2>7
    <2>8. CASE j = n + 2 /\ r.commands[j] = q
      BY <1>7, <2>3, <2>4, <2>8
    <2> QED
      BY <1>7, <2>6, <2>7, <2>8
  <1>12. ScriptOK(c, r)
    BY <1>1, <1>6, <1>7, <1>8, <1>9, <1>10, <1>11 DEF ScriptOK
  <1>13. r.i = s.i /\ r.source = s.source /\ DOMAIN r.phcs = DOMAIN s.phcs
    BY <1>1, <1>3, MarkedTyped DEF Added
  <1>14. ASSUME NEW j \in DOMAIN s.phcs, j >= s.i + 1, ~c.use_vclocks
         PROVE  r.phcs[j] \notin r.allocated
    <2>1. s.i \in Nat /\ s.allocated \subseteq Clocks /\ s.phcs \in Seq(Marks)
      BY <1>1 DEF ScriptType
    <2>2. j \in Nat /\ j > s.i /\ j >= s.i
      BY <2>1, <1>14
    <2>3. s.phcs[j] \notin s.allocated
      BY <2>2, <1>14 DEF InLoop
    <2>4. Used \notin Clocks /\ Used # NoPhc
      BY DEF Used, Clocks, NoPhc
    <2>5. r.phcs[j] = IF s.phcs[s.i] # NoPhc /\ s.phcs[j] = s.phcs[s.i] THEN Used ELSE s.phcs[j]
      BY <1>3, <2>2 DEF Added, MarkedPhcs
    <2>6. r.allocated = IF s.phcs[s.i] # NoPhc THEN s.allocated \cup {s.phcs[s.i]} ELSE s.allocated
      BY <1>3, <1>14 DEF Added
    <2> QED
      BY <2>1, <2>3, <2>4, <2>5, <2>6
  <1> QED
    BY <1>12, <1>13, <1>14 DEF r

-----------------------------------------------------------------------------
\* The loop variables do not matter to the commands.
SameScript(r, s) ==
    /\ r.commands = s.commands /\ r.vclocks = s.vclocks /\ r.allocated = s.allocated
    /\ r.refclock_id = s.refclock_id /\ r.command_group = s.command_group

\* Only the loop variables change.
LEMMA SameScriptOK ==
    ASSUME NEW c, NEW s, NEW r \in ScriptType, SameScript(r, s), ScriptOK(c, s)
    PROVE  ScriptOK(c, r)
  BY DEF SameScript, ScriptOK, AllTaken, AllApart, Taken

\* The clocks of a source are free when its loop begins.
LEMMA PhcsOfTyped ==
    ASSUME NEW c \in ConfigType, NEW k \in DOMAIN c.sources, NEW s \in ScriptType
    PROVE  /\ PhcsOf(c, c.sources[k], s) \in Seq(Marks)
           /\ DOMAIN PhcsOf(c, c.sources[k], s) = DOMAIN c.sources[k]
           /\ \A j \in DOMAIN c.sources[k] : PhcsOf(c, c.sources[k], s)[j] \notin s.allocated
  <1> DEFINE f == c.sources[k]
  <1>1. c.sources \in Seq(Seq(Interfaces)) /\ c.phcOf \in [Interfaces -> NoPhc..1]
    BY DEF ConfigType
  <1>2. f \in Seq(Interfaces)
    BY <1>1
  <1> HIDE DEF f
  <1>3. DOMAIN f = 1..Len(f) /\ Len(f) \in Nat /\ \A j \in DOMAIN f : f[j] \in Interfaces
    BY <1>2
  <1>4. \A j \in DOMAIN f : c.phcOf[f[j]] \in NoPhc..1
    BY <1>1, <1>3
  <1>5. \A x \in NoPhc..1 : x \in Marks
    BY DEF NoPhc, Marks, Clocks
  <1>6. s.allocated \subseteq Clocks /\ NoPhc \notin Clocks /\ NoPhc \in Marks
    BY DEF ScriptType, NoPhc, Clocks, Marks
  <1> DEFINE g == PhcsOf(c, f, s)
  <1>7. DOMAIN g = DOMAIN f /\ \A j \in DOMAIN f : g[j] \in Marks /\ g[j] \notin s.allocated
    BY <1>4, <1>5, <1>6 DEF PhcsOf
  <1>8. g = [j \in DOMAIN f |-> g[j]]
    BY DEF PhcsOf
  <1> HIDE DEF g
  <1>9. g \in [1..Len(f) -> Marks]
    BY <1>3, <1>7, <1>8
  <1> QED
    BY <1>3, <1>7, <1>9 DEF f, g

ScriptInv ==
    /\ config \in Scripts /\ ScriptOK(config, script)
    /\ step = "interface" => InLoop(config, script)

\* Configurations have their type.
LEMMA ConfigIs ==
    ASSUME NEW c \in Scripts
    PROVE  c \in ConfigType
  BY TimemasterAssumption

\* The script of the NTP daemon alone is sound.
LEMMA ScriptInit == Init => ScriptInv
  <1> SUFFICES ASSUME Init PROVE ScriptInv
    OBVIOUS
  <1> DEFINE ntp == Command("ntp", 0, {}, NoPhc, NoPhc, -1)
             v == [p \in 0..1 |-> 0]
             a == add_command(EmptyScript, ntp)
  <1>1. ntp \in CommandType /\ ntp.program = "ntp"
    BY DEF Command, CommandType, NoPhc
  <1>2. v \in [Clocks -> Nat]
    BY DEF Clocks
  <1>3. EmptyScript \in ScriptType
    <2>1. <<>> \in Seq(CommandType) /\ <<>> \in Seq(Marks)
      OBVIOUS
    <2> HIDE DEF v
    <2>2. EmptyScript = [commands |-> <<>>, vclocks |-> v, allocated |-> {}, refclock_id |-> 0,
                         command_group |-> 0, ok |-> TRUE, source |-> 1, i |-> 0, phcs |-> <<>>]
      BY DEF EmptyScript, v
    <2> QED
      BY <1>2, <2>1, <2>2 DEF ScriptType
  <1>4. EmptyScript.commands = <<>>
    BY DEF EmptyScript
  <1> HIDE DEF ntp, v
  <1>5. a \in ScriptType /\ a.commands = Append(<<>>, ntp)
    BY <1>1, <1>3, <1>4, CommandAdded
  <1> HIDE DEF a
  <1>6. script = [a EXCEPT !.command_group = 1]
    BY DEF Init, add_ntp_program, a, ntp
  <1>7. script \in ScriptType /\ script.commands = <<ntp>>
    <2>1. script \in ScriptType
      BY <1>5, <1>6 DEF ScriptType
    <2>2. script.commands = a.commands
      BY <1>5, <1>6 DEF ScriptType
    <2>3. Append(<<>>, ntp) = <<ntp>>
      BY <1>1
    <2> QED
      BY <1>5, <2>1, <2>2, <2>3
  <1>8. Len(script.commands) = 1 /\ DOMAIN script.commands = {1} /\ script.commands[1] = ntp
    BY <1>7
  <1>9. ScriptOK(config, script)
    BY <1>1, <1>7, <1>8 DEF ScriptOK, AllTaken, AllApart, Taken
  <1> QED
    BY <1>9 DEF Init, ScriptInv

\* Every step keeps the script sound.
LEMMA ScriptNext ==
    ASSUME ScriptInv, [Next]_vars
    PROVE  ScriptInv'
  <1>1. config \in Scripts /\ ScriptOK(config, script) /\ script \in ScriptType
    BY DEF ScriptInv, ScriptOK
  <1>2. config \in ConfigType
    BY <1>1, ConfigIs
  <1>3. script.source \in Nat \ {0} /\ script.i \in Nat /\ Len(script.phcs) \in Nat
        /\ DOMAIN script.phcs = 1..Len(script.phcs)
    <2>1. script.phcs \in Seq(Marks) /\ script.source \in Nat \ {0} /\ script.i \in Nat
      BY <1>1 DEF ScriptType
    <2> QED
      BY <2>1
  <1>4. Len(config.sources) \in Nat /\ DOMAIN config.sources = 1..Len(config.sources)
    <2>1. config.sources \in Seq(Seq(Interfaces))
      BY <1>2 DEF ConfigType
    <2> QED
      BY <2>1
  <1>5. CASE BeginSource
    <2> DEFINE interfaces == config.sources[script.source]
    <2>1. CASE Useless(interfaces)
      <3>1. script' = [script EXCEPT !.ok = FALSE, !.source = @ + 1] /\ config' = config /\ step' = "source"
        BY <1>5, <2>1 DEF BeginSource, Builds
      <3>2. script.source + 1 \in Nat \ {0}
        BY <1>3
      <3>3. script' \in ScriptType
        BY <1>1, <3>1, <3>2 DEF ScriptType
      <3>4. SameScript(script', script)
        BY <1>1, <3>1 DEF ScriptType, SameScript
      <3>5. ScriptOK(config, script')
        BY <1>1, <3>3, <3>4, SameScriptOK
      <3> QED
        BY <1>1, <3>1, <3>5 DEF ScriptInv
    <2>2. CASE ~Useless(interfaces)
      <3> DEFINE phcs == PhcsOf(config, interfaces, script)
      <3>1. script' = [script EXCEPT !.phcs = phcs, !.i = 1] /\ config' = config /\ step' = "interface"
        BY <1>5, <2>2 DEF BeginSource, Builds
      <3>2. script.source <= Len(config.sources)
        BY <1>5 DEF BeginSource
      <3>3. script.source \in DOMAIN config.sources
        BY <1>3, <1>4, <3>2
      <3>4. /\ phcs \in Seq(Marks) /\ DOMAIN phcs = DOMAIN interfaces
            /\ \A j \in DOMAIN interfaces : phcs[j] \notin script.allocated
        BY <1>1, <1>2, <3>3, PhcsOfTyped
      <3> HIDE DEF phcs
      <3>5. script' \in ScriptType
        BY <1>1, <3>1, <3>4 DEF ScriptType
      <3>6. SameScript(script', script)
        BY <1>1, <3>1 DEF ScriptType, SameScript
      <3>7. script'.phcs = phcs /\ script'.i = 1 /\ script'.source = script.source
        BY <1>1, <3>1 DEF ScriptType
      <3>8. ScriptOK(config, script')
        BY <1>1, <3>5, <3>6, SameScriptOK
      <3>9. InLoop(config, script')
        BY <3>3, <3>4, <3>6, <3>7 DEF InLoop, SameScript
      <3> QED
        BY <1>1, <3>1, <3>8, <3>9 DEF ScriptInv
    <2> QED
      BY <2>1, <2>2
  <1>6. CASE AddInterface
    <2> DEFINE s == IF script.phcs[script.i] = Used THEN script ELSE AddOne(config, script)
    <2>1. InLoop(config, script) /\ step' = "interface" /\ config' = config
          /\ script' = [s EXCEPT !.i = @ + 1] /\ script.i <= Len(script.phcs)
      BY <1>6 DEF AddInterface, ScriptInv, Builds
    <2>2. script.i \in DOMAIN script.phcs /\ script.i + 1 \in Nat /\ script.i >= 1
      BY <1>3, <2>1 DEF InLoop
    <2>3. /\ ScriptOK(config, s) /\ s.i = script.i /\ s.source = script.source
          /\ DOMAIN s.phcs = DOMAIN script.phcs
          /\ \A j \in DOMAIN s.phcs : j >= script.i + 1 /\ ~config.use_vclocks => s.phcs[j] \notin s.allocated
      <3>1. CASE script.phcs[script.i] = Used
        <4>1. \A j \in DOMAIN script.phcs : j >= script.i + 1 => j >= script.i
          BY <1>3
        <4> QED
          BY <1>1, <2>1, <3>1, <4>1 DEF InLoop
      <3>2. CASE script.phcs[script.i] # Used
        BY <1>1, <1>2, <2>1, <2>2, <3>2, AddOneSound
      <3> QED
        BY <3>1, <3>2
    <2> HIDE DEF s
    <2>4. s \in ScriptType
      BY <2>3 DEF ScriptOK
    <2>5. script' \in ScriptType
      BY <2>1, <2>2, <2>3, <2>4 DEF ScriptType
    <2>6. SameScript(script', s)
      BY <2>1, <2>4 DEF ScriptType, SameScript
    <2>7. script'.phcs = s.phcs /\ script'.i = script.i + 1 /\ script'.source = script.source
      BY <2>1, <2>3, <2>4 DEF ScriptType
    <2>8. ScriptOK(config, script')
      BY <2>3, <2>5, <2>6, SameScriptOK
    <2>9. InLoop(config, script')
      <3>1. script.i + 1 >= 1
        BY <1>3
      <3> QED
        BY <2>1, <2>3, <2>6, <2>7, <3>1 DEF InLoop, SameScript
    <2> QED
      BY <1>1, <2>1, <2>8, <2>9 DEF ScriptInv
  <1>7. CASE EndSource
    <2>1. script' = [script EXCEPT !.source = @ + 1] /\ config' = config /\ step' = "source"
      BY <1>7 DEF EndSource, Builds
    <2>2. script.source + 1 \in Nat \ {0}
      BY <1>3
    <2>3. script' \in ScriptType
      BY <1>1, <2>1, <2>2 DEF ScriptType
    <2>4. SameScript(script', script)
      BY <1>1, <2>1 DEF ScriptType, SameScript
    <2>5. ScriptOK(config, script')
      BY <1>1, <2>3, <2>4, SameScriptOK
    <2> QED
      BY <1>1, <2>1, <2>5 DEF ScriptInv
  <1>8. ASSUME script' = script, config' = config, step' # "interface"
        PROVE  ScriptInv'
    BY <1>1, <1>8 DEF ScriptInv
  <1>9. CASE Created
    BY <1>8, <1>9 DEF Created, Builds
  <1>10. ASSUME NEW ok \in BOOLEAN, CreateFiles(ok) \/ CreateVclocks(ok) \/ Start(ok) \/ Clean(ok)
         PROVE  ScriptInv'
    BY <1>8, <1>10 DEF CreateFiles, CreateVclocks, Start, Clean
  <1>11. CASE Terminate \/ ChildEnds
    BY <1>8, <1>11 DEF Terminate, ChildEnds
  <1>12. CASE GroupComplete \/ GroupGivesUp \/ GroupTerminates
    BY <1>8, <1>12 DEF GroupComplete, GroupGivesUp, GroupTerminates, NextGroup
  <1>13. ASSUME NEW failed \in SUBSET Commands, GroupRestarts(failed)
         PROVE  ScriptInv'
    BY <1>8, <1>13 DEF GroupRestarts, NextGroup
  <1>14. CASE Stop \/ Grow \/ (\E k \in Commands : Ends(k)) \/ UNCHANGED vars
    <2>1. script' = script /\ config' = config /\ step' = step
      BY <1>14 DEF Stop, Grow, Ends, vars
    <2> QED
      BY <2>1 DEF ScriptInv
  <1> QED
    BY <1>5, <1>6, <1>7, <1>9, <1>10, <1>11, <1>12, <1>13, <1>14 DEF Next, Program

\* The invariant says enough.
LEMMA ScriptInvSound == ScriptInv => ScriptIsSound
  BY DEF ScriptInv, ScriptOK, AllApart, Apart, ScriptIsSound, Commands

\* script_create() and add_ptp_source() of timemaster.c: the commands of the script
\* share no clock, no virtual clock, no socket and no group, whatever the sources and
\* interfaces of the configuration are, and in the middle of making it.
THEOREM ScriptAlwaysSound == Spec => []ScriptIsSound
  <1>1. Init => ScriptInv
    BY ScriptInit
  <1>2. ScriptInv /\ [Next]_vars => ScriptInv'
    BY ScriptNext
  <1>3. ScriptInv => ScriptIsSound
    BY ScriptInvSound
  <1> QED
    BY <1>1, <1>2, <1>3, PTL DEF Spec

-----------------------------------------------------------------------------
\* The children.
ProcStates == {"none", "up", "told", "ended"}
Building == {"source", "interface", "files", "vclocks"}
Watching == {"wait", "groups"}

Plain ==
    /\ step \in {"source", "interface", "files", "vclocks", "start", "wait", "groups", "clean", "exit"}
    /\ left \subseteq {"files", "vclocks"} /\ pending \subseteq {"CHLD", "TERM"}
    /\ {quit, age, aged} \subseteq BOOLEAN /\ ret \in 0..1

Shape ==
    /\ next \in 0..Len(script.commands) /\ pids \subseteq Commands
    /\ proc \in [Commands -> ProcStates] /\ gen \in [Commands -> Nat]
    /\ deaths \in 0..MaxDeaths

\* A process that is there is known, and only such.
Known == \A k \in Commands : k \in pids <=> proc[k] # "none"

\* The loop of run_script() that starts the commands: those before the next run, unless
\* something ended, and the others are not there yet.
Starting ==
    /\ next >= 1
    /\ \A k \in Commands :
           /\ k < next => gen[k] = 1 /\ (proc[k] # "up" => deaths >= 1)
           /\ k >= next => gen[k] = 0 /\ proc[k] = "none"

NoneThere == \A k \in Commands : proc[k] = "none"

Phases ==
    /\ step \in Building => ~quit /\ NoneThere /\ \A k \in Commands : gen[k] = 0
    /\ step \in {"source", "interface", "files"} => next = 0
    /\ step \in {"clean", "exit"} => NoneThere
    /\ step \in {"start", "groups"} => ~quit
    /\ step = "exit" /\ quit => left = {} \/ ret = 1
    /\ step = "start" => Starting

\* Every start but the first is paid for by an end that nobody asked for.
Paid ==
    /\ \A k \in Commands : gen[k] <= deaths + 1
    /\ ~quit /\ step \in Watching =>
        \A j, k \in Commands : GroupOf(j) = GroupOf(k) /\ proc[j] # "up" => gen[k] <= deaths

\* No start of the group was missed: neither before SIGTERM is on its way, nor before
\* the group's turn comes.
Whole(g) == "TERM" \notin pending \/ (step = "groups" /\ g >= next)

Together ==
    ~quit /\ step \in Watching => \A j, k \in Commands :
        GroupOf(j) = GroupOf(k) /\ Whole(GroupOf(k)) => gen[j] = gen[k]

ChildInv == Shape /\ Known /\ Phases /\ Paid /\ Together /\ RestartsTogether

TMInv == ScriptInv /\ Plain /\ ChildInv

\* The commands are numbered.
LEMMA CommandsAre ==
    ASSUME ScriptInv
    PROVE  /\ Len(script.commands) \in Nat /\ Len(script.commands) >= 1
           /\ Commands = 1..Len(script.commands) /\ \A k \in Commands : GroupOf(k) \in Nat
  <1>1. script \in ScriptType /\ Len(script.commands) >= 1
    BY DEF ScriptInv, ScriptOK
  <1>2. script.commands \in Seq(CommandType)
    BY <1>1 DEF ScriptType
  <1>3. Commands = 1..Len(script.commands) /\ \A k \in Commands : script.commands[k] \in CommandType
    BY <1>2 DEF Commands
  <1> QED
    BY <1>1, <1>2, <1>3 DEF GroupOf, CommandType

\* The types follow: the generations are bounded by the ends that were paid for.
LEMMA ChildTypes ==
    ASSUME TMInv
    PROVE  TypeOK
  <1>1. config \in Scripts
    BY DEF TMInv, ScriptInv
  <1>2. gen \in [Commands -> Nat] /\ deaths \in 0..MaxDeaths /\ \A k \in Commands : gen[k] <= deaths + 1
    BY DEF TMInv, ChildInv, Shape, Paid
  <1>3. \A k \in Commands : gen[k] \in 0..(MaxDeaths + 2)
    BY <1>2, TimemasterAssumption
  <1>4. gen \in [Commands -> 0..(MaxDeaths + 2)]
    BY <1>2, <1>3
  <1> QED
    BY <1>1, <1>4 DEF TMInv, ChildInv, Shape, Plain, TypeOK, ProcStates

\* The invariant says enough.
LEMMA ChildOrder ==
    ASSUME TMInv
    PROVE  ChildrenInOrder
  BY ChildTypes DEF TMInv, ChildInv, Phases, NoneThere, ChildrenInOrder, NoOrphans

\* Before anything is started.
LEMMA ChildInit == Init => TMInv
  <1> SUFFICES ASSUME Init PROVE TMInv
    OBVIOUS
  <1>1. ScriptInv
    BY ScriptInit
  <1>2. Plain
    <2>1. {quit, age, aged} \subseteq BOOLEAN
      BY Zenon DEF Init
    <2>2. left \subseteq {"files", "vclocks"} /\ pending \subseteq {"CHLD", "TERM"}
      BY Zenon DEF Init
    <2> QED
      BY <2>1, <2>2 DEF Init, Plain
  <1>3. Len(script.commands) \in Nat /\ Commands = 1..Len(script.commands)
    BY <1>1, CommandsAre
  <1>4. \A k \in Commands : proc[k] = "none" /\ gen[k] = 0
    BY DEF Init
  <1>5. Shape
    BY <1>3, TimemasterAssumption DEF Init, Shape, ProcStates
  <1>6. Known
    BY <1>4 DEF Init, Known
  <1>7. Phases
    BY <1>4 DEF Init, Phases, NoneThere
  <1>8. Paid
    BY <1>4 DEF Init, Paid, Watching
  <1>9. Together /\ RestartsTogether
    BY <1>4 DEF Init, Together, Watching, RestartsTogether
  <1> QED
    BY <1>1, <1>2, <1>5, <1>6, <1>7, <1>8, <1>9 DEF TMInv, ChildInv

\* The variables of a plain type.
LEMMA PlainNext ==
    ASSUME Plain, [Next]_vars
    PROVE  Plain'
  <1>1. CASE BeginSource
    BY <1>1 DEF Plain, BeginSource, Builds
  <1>2. CASE AddInterface
    BY <1>2 DEF Plain, AddInterface, Builds
  <1>3. CASE EndSource
    BY <1>3 DEF Plain, EndSource, Builds
  <1>4. CASE Created
    BY <1>4 DEF Plain, Created, Builds
  <1>5. ASSUME NEW ok \in BOOLEAN, CreateFiles(ok) PROVE Plain'
    BY <1>5 DEF Plain, CreateFiles
  <1>6. ASSUME NEW ok \in BOOLEAN, CreateVclocks(ok) PROVE Plain'
    BY <1>6 DEF Plain, CreateVclocks
  <1>7. ASSUME NEW ok \in BOOLEAN, Start(ok) PROVE Plain'
    BY <1>7 DEF Plain, Start, start_program
  <1>8. ASSUME NEW ok \in BOOLEAN, Clean(ok) PROVE Plain'
    <2>1. left' \subseteq {"files", "vclocks"}
      BY <1>8, Zenon DEF Plain, Clean
    <2>2. ret' \in 0..1
      BY <1>8 DEF Plain, Clean
    <2> QED
      BY <1>8, <2>1, <2>2 DEF Plain, Clean
  <1>9. CASE Terminate
    BY <1>9 DEF Plain, Terminate
  <1>10. CASE ChildEnds
    BY <1>10 DEF Plain, ChildEnds
  <1>11. CASE GroupComplete
    BY <1>11 DEF Plain, GroupComplete, NextGroup
  <1>12. CASE GroupGivesUp
    BY <1>12 DEF Plain, GroupGivesUp
  <1>13. CASE GroupTerminates
    BY <1>13 DEF Plain, GroupTerminates, NextGroup
  <1>14. ASSUME NEW failed \in SUBSET Commands, GroupRestarts(failed) PROVE Plain'
    BY <1>14 DEF Plain, GroupRestarts, NextGroup
  <1>15. CASE Stop
    BY <1>15 DEF Plain, Stop
  <1>16. CASE Grow
    BY <1>16 DEF Plain, Grow
  <1>17. ASSUME NEW k \in Commands, Ends(k) PROVE Plain'
    BY <1>17 DEF Plain, Ends
  <1>18. CASE UNCHANGED vars
    BY <1>18 DEF Plain, vars
  <1> QED
    BY <1>1, <1>2, <1>3, <1>4, <1>5, <1>6, <1>7, <1>8, <1>9, <1>10, <1>11, <1>12, <1>13, <1>14,
       <1>15, <1>16, <1>17, <1>18 DEF Next, Program

\* While the script is made nothing runs.
LEMMA BuildNext ==
    ASSUME TMInv, ScriptInv', BeginSource \/ AddInterface \/ EndSource \/ Created
    PROVE  ChildInv'
  <1>1. step \in {"source", "interface"}
    BY DEF BeginSource, AddInterface, EndSource, Created
  <1>2. step' \in {"source", "interface", "files", "exit"}
    BY <1>1 DEF BeginSource, AddInterface, EndSource, Created
  <1>3. PICK s : Builds(s)
    BY DEF BeginSource, AddInterface, EndSource, Created
  <1>4. /\ script' = s /\ proc' = [k \in DOMAIN s.commands |-> "none"]
        /\ gen' = [k \in DOMAIN s.commands |-> 0]
        /\ next' = next /\ pids' = pids /\ quit' = quit /\ deaths' = deaths
    BY <1>3 DEF Builds
  <1>5. next = 0 /\ ~quit /\ NoneThere
    BY <1>1 DEF TMInv, ChildInv, Phases, Building
  <1>6. pids = {}
    BY <1>5 DEF TMInv, ChildInv, Shape, Known, NoneThere
  <1>7. Commands' = DOMAIN s.commands
    BY <1>4 DEF Commands
  <1>8. Len(script'.commands) \in Nat
    <2>1. script' \in ScriptType
      BY DEF ScriptInv, ScriptOK
    <2>2. script'.commands \in Seq(CommandType)
      BY <2>1 DEF ScriptType
    <2> QED
      BY <2>2
  <1>9. \A k \in Commands' : proc'[k] = "none" /\ gen'[k] = 0
    BY <1>4, <1>7
  <1>10. Shape'
    BY <1>4, <1>5, <1>6, <1>7, <1>8 DEF TMInv, ChildInv, Shape, ProcStates
  <1>11. deaths \in Nat
    BY TimemasterAssumption DEF TMInv, ChildInv, Shape
  <1>12. Known' /\ NoneThere'
    BY <1>4, <1>6, <1>9 DEF Known, NoneThere
  <1>13. Phases'
    BY <1>2, <1>4, <1>5, <1>9, <1>12 DEF Phases
  <1>14. Paid' /\ Together' /\ RestartsTogether'
    BY <1>2, <1>4, <1>9, <1>11 DEF Paid, Together, RestartsTogether, Watching
  <1> QED
    BY <1>10, <1>12, <1>13, <1>14 DEF ChildInv

\* Where neither a process nor what is known of it changes.
Still == UNCHANGED <<config, script, pids, proc, gen>>

\* Then what only depends on them is as before.
LEMMA StillSame ==
    ASSUME Still
    PROVE  /\ Commands' = Commands /\ (\A k : GroupOf(k)' = GroupOf(k))
           /\ (Known' <=> Known) /\ (NoneThere' <=> NoneThere)
           /\ (RestartsTogether' <=> RestartsTogether)
  BY DEF Still, Commands, GroupOf, Known, NoneThere, RestartsTogether

\* create_config_files() and create_vclocks().
LEMMA PrepareNext ==
    ASSUME TMInv, NEW ok \in BOOLEAN, CreateFiles(ok) \/ CreateVclocks(ok)
    PROVE  ChildInv'
  <1>1. Still /\ quit' = quit /\ step \in Building
    BY DEF CreateFiles, CreateVclocks, Still, Procs, Building
  <1>2. /\ Commands' = Commands /\ (\A k : GroupOf(k)' = GroupOf(k))
        /\ (Known' <=> Known) /\ (NoneThere' <=> NoneThere)
        /\ (RestartsTogether' <=> RestartsTogether)
    BY <1>1, StillSame
  <1>3. ~quit /\ NoneThere /\ \A k \in Commands : gen[k] = 0
    BY <1>1 DEF TMInv, ChildInv, Phases
  <1>4. ~quit' /\ NoneThere' /\ \A k \in Commands' : gen'[k] = 0 /\ proc'[k] = "none"
    BY <1>1, <1>2, <1>3 DEF Still, NoneThere
  <1>5. deaths \in 0..MaxDeaths /\ deaths' \in 0..MaxDeaths
    BY TimemasterAssumption DEF TMInv, ChildInv, Shape, CreateFiles, CreateVclocks
  <1>6. /\ next' \in {next, 1}
        /\ step' \in {"vclocks", "start", "exit"} /\ (step' = "start" => next' = 1)
    BY DEF CreateFiles, CreateVclocks
  <1>7. Len(script.commands) \in Nat /\ Len(script.commands) >= 1 /\ Commands = 1..Len(script.commands)
    BY CommandsAre DEF TMInv
  <1>8. Shape'
    <2>1. next' \in 0..Len(script.commands)
      BY <1>6, <1>7 DEF TMInv, ChildInv, Shape
    <2> QED
      BY <1>1, <1>2, <1>5, <2>1 DEF TMInv, ChildInv, Shape, Still
  <1>9. Starting' \/ step' # "start"
    BY <1>2, <1>4, <1>6, <1>7 DEF Starting
  <1>10. Phases'
    BY <1>4, <1>6, <1>9 DEF Phases
  <1>11. Paid' /\ Together'
    BY <1>4, <1>5, <1>6 DEF Paid, Together, Watching
  <1> QED
    BY <1>2, <1>8, <1>10, <1>11 DEF TMInv, ChildInv

\* remove_vclocks() and remove_config_files().
LEMMA CleanNext ==
    ASSUME TMInv, Plain', NEW ok \in BOOLEAN, Clean(ok)
    PROVE  ChildInv'
  <1>1. Still /\ next' = next /\ step = "clean" /\ step' = "exit" /\ (left' = {} \/ ret' = 1)
    BY DEF Clean, Still, Procs
  <1>2. /\ Commands' = Commands /\ (\A k : GroupOf(k)' = GroupOf(k))
        /\ (Known' <=> Known) /\ (NoneThere' <=> NoneThere)
        /\ (RestartsTogether' <=> RestartsTogether)
    BY <1>1, StillSame
  <1>3. deaths \in Nat /\ deaths' \in 0..MaxDeaths /\ deaths' >= deaths
    BY TimemasterAssumption DEF TMInv, ChildInv, Shape, Clean
  <1>4. Shape'
    BY <1>1, <1>2, <1>3 DEF TMInv, ChildInv, Shape, Still
  <1>5. Phases'
    BY <1>1, <1>2 DEF TMInv, ChildInv, Phases, Building
  <1>6. Paid'
    <2>1. \A k \in Commands : gen[k] \in Nat /\ gen[k] <= deaths + 1
      BY DEF TMInv, ChildInv, Shape, Paid
    <2>2. \A k \in Commands' : gen'[k] <= deaths' + 1
      BY <1>1, <1>2, <1>3, <2>1 DEF Still
    <2> QED
      BY <1>1, <2>2 DEF Paid, Watching
  <1>7. Together'
    BY <1>1 DEF Together, Watching
  <1> QED
    BY <1>2, <1>4, <1>5, <1>6, <1>7 DEF TMInv, ChildInv

\* A signal comes, or time passes.
LEMMA QuietNext ==
    ASSUME TMInv, Stop \/ Grow \/ UNCHANGED vars
    PROVE  ChildInv'
  <1>1. /\ Still /\ next' = next /\ step' = step /\ deaths' = deaths /\ quit' = quit
        /\ left' = left /\ ret' = ret /\ pending \subseteq pending'
    BY DEF Stop, Grow, vars, Still, Procs
  <1>2. /\ Commands' = Commands /\ (\A k : GroupOf(k)' = GroupOf(k))
        /\ (Known' <=> Known) /\ (NoneThere' <=> NoneThere)
        /\ (RestartsTogether' <=> RestartsTogether)
    BY <1>1, StillSame
  <1>3. Shape' /\ (Starting' <=> Starting)
    BY <1>1, <1>2 DEF TMInv, ChildInv, Shape, Starting, Still
  <1>4. Phases'
    BY <1>1, <1>2, <1>3 DEF TMInv, ChildInv, Phases, Still
  <1>5. Paid'
    BY <1>1, <1>2 DEF TMInv, ChildInv, Paid, Still
  <1>6. Together'
    BY <1>1, <1>2 DEF TMInv, ChildInv, Together, Whole, Still
  <1> QED
    BY <1>2, <1>3, <1>4, <1>5, <1>6 DEF TMInv, ChildInv

\* What an action keeps: the script, and so who is with whom.
LEMMA ScriptSame ==
    ASSUME script' = script
    PROVE  Commands' = Commands /\ \A k : GroupOf(k)' = GroupOf(k)
  BY DEF Commands, GroupOf

\* start_program() in the first loop.
LEMMA StartNext ==
    ASSUME TMInv, NEW ok \in BOOLEAN, Start(ok)
    PROVE  ChildInv'
  <1> DEFINE n == Len(script.commands)
  <1>1. /\ step = "start" /\ ~quit /\ Starting /\ ~quit' /\ script' = script
    BY DEF TMInv, ChildInv, Phases, Start
  <1>2. Commands' = Commands /\ \A k : GroupOf(k)' = GroupOf(k)
    BY <1>1, ScriptSame
  <1>3. n \in Nat /\ n >= 1 /\ Commands = 1..n
    BY CommandsAre DEF TMInv
  <1>4. /\ next \in 0..n /\ pids \subseteq Commands /\ proc \in [Commands -> ProcStates]
        /\ gen \in [Commands -> Nat] /\ deaths \in 0..MaxDeaths
    BY DEF TMInv, ChildInv, Shape
  <1>5. next \in Commands
    BY <1>1, <1>3, <1>4 DEF Starting
  <1>6. MaxDeaths \in Nat
    BY TimemasterAssumption
  <1>7. Known
    BY DEF TMInv, ChildInv
  <1>8. CASE ok
    <2>1. /\ proc' = [proc EXCEPT ![next] = "up"] /\ pids' = pids \cup {next}
          /\ gen' = [gen EXCEPT ![next] = @ + 1] /\ deaths' = deaths
      BY <1>8 DEF Start, start_program
    <2>2. \A k \in Commands : k # next => proc'[k] = proc[k] /\ gen'[k] = gen[k]
      BY <1>4, <2>1
    <2>3. proc'[next] = "up" /\ gen'[next] = 1
      BY <1>1, <1>3, <1>4, <1>5, <2>1 DEF Starting
    <2>4. proc' \in [Commands -> ProcStates] /\ gen' \in [Commands -> Nat] /\ pids' \subseteq Commands
      BY <1>4, <1>5, <2>1 DEF ProcStates
    <2>5. Known'
      BY <1>2, <1>7, <2>1, <2>2, <2>3 DEF Known
    <2>6. \A k \in Commands : /\ k <= next => gen'[k] = 1 /\ (proc'[k] # "up" => deaths >= 1)
                              /\ k > next => gen'[k] = 0 /\ proc'[k] = "none"
      BY <1>1, <1>3, <1>4, <2>2, <2>3 DEF Starting
    <2>7. CASE MoreToStart
      <3>1. next' = next + 1 /\ step' = "start" /\ next < n
        BY <1>1, <1>8, <2>7 DEF Start, MoreToStart
      <3>2. Starting'
        BY <1>2, <1>3, <1>4, <2>1, <2>6, <3>1 DEF Starting
      <3>3. next' \in 0..n
        BY <1>3, <1>4, <3>1
      <3>4. Shape'
        BY <1>1, <1>2, <1>4, <2>1, <2>4, <3>3 DEF Shape
      <3>5. Phases'
        BY <1>1, <3>1, <3>2 DEF Phases, Building
      <3>6. Paid'
        BY <1>2, <1>3, <1>4, <2>1, <2>6, <3>1 DEF Paid, Watching
      <3>7. Together'
        BY <3>1 DEF Together, Watching
      <3>8. RestartsTogether'
        BY <1>2, <1>3, <1>4, <2>6 DEF RestartsTogether
      <3> QED
        BY <2>5, <3>4, <3>5, <3>6, <3>7, <3>8 DEF ChildInv
    <2>8. CASE ~MoreToStart
      <3>1. next' = 0 /\ step' = "wait" /\ next = n
        BY <1>3, <1>4, <2>8 DEF Start, MoreToStart
      <3>2. \A k \in Commands : gen'[k] = 1 /\ (proc'[k] # "up" => deaths >= 1)
        BY <1>3, <2>6, <3>1
      <3>3. Shape'
        BY <1>1, <1>2, <1>3, <1>4, <2>1, <2>4, <3>1 DEF Shape
      <3>4. Phases'
        BY <1>1, <3>1 DEF Phases, Building
      <3>5. Paid'
        BY <1>2, <1>4, <2>1, <3>2 DEF Paid
      <3>6. Together' /\ RestartsTogether'
        BY <1>2, <3>2 DEF Together, RestartsTogether
      <3> QED
        BY <2>5, <3>3, <3>4, <3>5, <3>6 DEF ChildInv
    <2> QED
      BY <2>7, <2>8
  <1>9. CASE ~ok
    <2>1. /\ proc' = proc /\ pids' = pids /\ gen' = gen /\ deaths < MaxDeaths /\ deaths' = deaths + 1
          /\ "TERM" \in pending' /\ next' = 0 /\ step' = "wait"
      BY <1>9 DEF Start, start_program, Procs
    <2>2. \A k \in Commands : gen[k] <= 1 /\ (proc[k] = "up" => gen[k] = 1)
      BY <1>1, <1>3, <1>4 DEF Starting
    <2>3. Shape'
      BY <1>1, <1>2, <1>3, <1>4, <1>6, <2>1 DEF Shape
    <2>4. Known'
      BY <1>2, <1>7, <2>1 DEF Known
    <2>5. Phases'
      BY <1>1, <2>1 DEF Phases, Building
    <2>6. Paid'
      BY <1>2, <1>4, <1>6, <2>1, <2>2 DEF Paid
    <2>7. Together' /\ RestartsTogether'
      BY <1>2, <2>1, <2>2 DEF Together, Whole, RestartsTogether
    <2> QED
      BY <2>3, <2>4, <2>5, <2>6, <2>7 DEF ChildInv
  <1> QED
    BY <1>8, <1>9

\* All are told to terminate.
LEMMA TerminateNext ==
    ASSUME TMInv, Terminate
    PROVE  ChildInv'
  <1>1. /\ script' = script /\ step = "wait" /\ step' = "wait" /\ quit' /\ next' = next
        /\ pids' = pids /\ gen' = gen /\ deaths' = deaths
    BY DEF Terminate
  <1>2. Commands' = Commands /\ \A k : GroupOf(k)' = GroupOf(k)
    BY <1>1, ScriptSame
  <1>3. /\ proc \in [Commands -> ProcStates] /\ Known /\ RestartsTogether /\ Shape
    BY DEF TMInv, ChildInv, Shape
  <1>4. /\ proc' \in [Commands -> ProcStates]
        /\ \A k \in Commands : /\ proc'[k] = "up" => proc[k] = "up"
                               /\ proc'[k] = "none" <=> proc[k] = "none"
    BY <1>3 DEF Terminate, ProcStates
  <1>5. Shape'
    BY <1>1, <1>2, <1>3, <1>4 DEF Shape
  <1>6. Known'
    BY <1>1, <1>2, <1>3, <1>4 DEF Known
  <1>7. Phases'
    BY <1>1 DEF Phases, Building
  <1>8. Paid' /\ Together'
    BY <1>1, <1>2 DEF TMInv, ChildInv, Paid, Together
  <1>9. RestartsTogether'
    BY <1>1, <1>2, <1>3, <1>4 DEF RestartsTogether
  <1> QED
    BY <1>5, <1>6, <1>7, <1>8, <1>9 DEF ChildInv

\* Those that ended are reaped.
LEMMA ChildEndsNext ==
    ASSUME TMInv, ChildEnds
    PROVE  ChildInv'
  <1>1. /\ script' = script /\ step = "wait" /\ quit' = quit /\ gen' = gen /\ deaths' = deaths
        /\ "TERM" \notin pending /\ "TERM" \notin pending' /\ pids' = pids \ Ended
        /\ proc' = [k \in Commands |-> IF k \in Ended THEN "none" ELSE proc[k]]
    BY DEF ChildEnds, Reap
  <1>2. Commands' = Commands /\ \A k : GroupOf(k)' = GroupOf(k)
    BY <1>1, ScriptSame
  <1>3. Shape /\ Known /\ RestartsTogether /\ Paid /\ Together
    BY DEF TMInv, ChildInv
  <1>4. /\ proc' \in [Commands -> ProcStates]
        /\ \A k \in Commands : proc'[k] = "up" <=> proc[k] = "up"
    BY <1>1, <1>3 DEF Shape, ProcStates, Ended
  <1>5. Known'
    BY <1>1, <1>2, <1>3 DEF Known, Ended
  <1>6. /\ step' \in {"groups", "clean", "wait"} /\ next' \in {0, next}
        /\ step' = "groups" => ~quit
        /\ quit => step' # "groups"
        /\ step' = "clean" => pids' = {}
        /\ ~quit => step' = "groups"
    BY <1>1 DEF ChildEnds, AllGone
  <1>7. Len(script.commands) \in Nat
    BY CommandsAre DEF TMInv
  <1>8. Shape'
    <2>1. next' \in 0..Len(script.commands)
      BY <1>3, <1>6, <1>7 DEF Shape
    <2>2. pids' \subseteq Commands
      BY <1>1, <1>3 DEF Shape
    <2> QED
      BY <1>1, <1>2, <1>3, <1>4, <2>1, <2>2 DEF Shape
  <1>9. Phases'
    <2>1. step' = "clean" => NoneThere'
      BY <1>5, <1>6 DEF Known, NoneThere
    <2> QED
      BY <1>1, <1>6, <2>1 DEF Phases, Building
  <1>10. Paid'
    BY <1>1, <1>2, <1>3, <1>4, <1>6 DEF Paid, Watching
  <1>11. Together'
    BY <1>1, <1>2, <1>3 DEF Together, Whole, Watching
  <1>12. RestartsTogether'
    BY <1>1, <1>2, <1>3, <1>4 DEF RestartsTogether
  <1> QED
    BY <1>5, <1>8, <1>9, <1>10, <1>11, <1>12 DEF ChildInv

\* A process ends.
LEMMA EndsNext ==
    ASSUME TMInv, NEW k \in Commands, Ends(k)
    PROVE  ChildInv'
  <1>1. /\ script' = script /\ step' = step /\ quit' = quit /\ next' = next /\ pids' = pids
        /\ gen' = gen /\ left' = left /\ ret' = ret /\ pending' = pending \cup {"CHLD"}
        /\ proc' = [proc EXCEPT ![k] = "ended"] /\ proc[k] \in {"up", "told"}
    BY DEF Ends
  <1>2. Commands' = Commands /\ \A j : GroupOf(j)' = GroupOf(j)
    BY <1>1, ScriptSame
  <1>3. Shape /\ Known /\ Phases /\ RestartsTogether /\ Paid /\ Together
    BY DEF TMInv, ChildInv
  <1>4. deaths \in Nat /\ deaths' \in 0..MaxDeaths /\ deaths' >= deaths /\ deaths' \in Nat
        /\ (proc[k] = "up" => deaths' = deaths + 1)
    BY <1>3, TimemasterAssumption DEF Ends, Shape
  <1>5. /\ proc' \in [Commands -> ProcStates] /\ proc'[k] = "ended"
        /\ \A j \in Commands : j # k => proc'[j] = proc[j]
    BY <1>1, <1>3 DEF Shape, ProcStates
  <1>6. Shape'
    BY <1>1, <1>2, <1>3, <1>4, <1>5 DEF Shape
  <1>7. Known'
    BY <1>1, <1>2, <1>3, <1>5 DEF Known
  <1>8. ~NoneThere
    BY <1>1 DEF NoneThere
  <1>9. ASSUME step = "start" PROVE Starting'
    <2>1. Starting
      BY <1>3, <1>9 DEF Phases
    <2>2. next \in Nat /\ \A j \in Commands : j \in Nat
      BY <1>3, CommandsAre DEF Shape, TMInv
    <2>3. k < next
      BY <1>1, <2>1, <2>2 DEF Starting
    <2>4. deaths' >= 1
      BY <1>1, <1>4, <2>1, <2>3 DEF Starting
    <2> QED
      BY <1>1, <1>2, <1>4, <1>5, <2>1, <2>3, <2>2, <2>4 DEF Starting
  <1>10. Phases'
    BY <1>1, <1>3, <1>8, <1>9 DEF Phases, Building
  <1>11. Paid'
    <2>1. \A j \in Commands : gen[j] \in Nat /\ gen[j] <= deaths + 1
      BY <1>3 DEF Shape, Paid
    <2>2. \A j \in Commands : gen[j] <= deaths' + 1
      BY <1>4, <2>1
    <2>3. ASSUME ~quit, step \in Watching, NEW i \in Commands, NEW j \in Commands,
                 GroupOf(i) = GroupOf(j), proc'[i] # "up"
          PROVE  gen[j] <= deaths'
      <3>1. CASE proc[i] # "up"
        <4>1. gen[j] <= deaths
          BY <1>3, <2>3, <3>1 DEF Paid
        <4> QED
          BY <1>4, <2>1, <4>1
      <3>2. CASE proc[i] = "up"
        <4>1. i = k
          BY <1>5, <2>3, <3>2
        <4> QED
          BY <1>4, <2>1, <3>2, <4>1
      <3> QED
        BY <3>1, <3>2
    <2> QED
      BY <1>1, <1>2, <2>2, <2>3 DEF Paid
  <1>12. Together'
    BY <1>1, <1>2, <1>3 DEF Together, Whole
  <1>13. RestartsTogether'
    BY <1>1, <1>2, <1>3, <1>5 DEF RestartsTogether
  <1> QED
    BY <1>6, <1>7, <1>10, <1>11, <1>12, <1>13 DEF ChildInv

\* The loop over the groups goes on, or ends.
LEMMA NextGroupGoes ==
    ASSUME TMInv, NextGroup, step = "groups"
    PROVE  /\ step' \in Watching /\ next' \in 0..Len(script.commands)
           /\ step' = "groups" => next' = next + 1
  <1>1. Len(script.commands) \in Nat /\ next \in 0..Len(script.commands)
    BY CommandsAre DEF TMInv, ChildInv, Shape
  <1> QED
    BY <1>1 DEF NextGroup, Watching

\* A group that is whole afterwards was so before, and if SIGTERM is on its way its turn
\* has yet to come.
LEMMA WholeBefore ==
    ASSUME TMInv, NEW k \in Commands, script' = script, step = "groups",
           pending \subseteq pending', step' = "groups" => next' = next + 1, Whole(GroupOf(k))'
    PROVE  Whole(GroupOf(k)) /\ ("TERM" \in pending' => GroupOf(k) > next)
  <1> DEFINE g == GroupOf(k)
  <1>1. g' = g /\ g \in Nat
    BY ScriptSame, CommandsAre DEF TMInv
  <1>2. Whole(g)'
    OBVIOUS
  <1>3. "TERM" \notin pending' \/ (step' = "groups" /\ g >= next')
    BY <1>1, <1>2 DEF Whole
  <1>4. next \in Nat
    BY CommandsAre DEF TMInv, ChildInv, Shape
  <1> HIDE DEF g
  <1>5. Whole(g) /\ ("TERM" \in pending' => g > next)
    BY <1>1, <1>3, <1>4 DEF Whole
  <1> QED
    BY <1>5 DEF g

\* A group that is complete, and one that is given up.
LEMMA GroupQuietNext ==
    ASSUME TMInv, GroupComplete \/ GroupGivesUp
    PROVE  ChildInv'
  <1>1. /\ Still /\ step = "groups" /\ deaths' = deaths /\ quit' = quit
        /\ pending \subseteq pending' /\ script' = script
    BY DEF GroupComplete, GroupGivesUp, Still, Procs
  <1>2. /\ Commands' = Commands /\ (\A k : GroupOf(k)' = GroupOf(k))
        /\ (Known' <=> Known) /\ (NoneThere' <=> NoneThere)
        /\ (RestartsTogether' <=> RestartsTogether)
    BY <1>1, StillSame
  <1>3. Shape /\ Known /\ Phases /\ RestartsTogether /\ Paid /\ Together
    BY DEF TMInv, ChildInv
  <1>4. Len(script.commands) \in Nat /\ \A k \in Commands : GroupOf(k) \in Nat
    BY CommandsAre DEF TMInv
  <1>5. /\ step' \in Watching /\ next' \in 0..Len(script.commands)
        /\ GroupGivesUp \/ (step' = "groups" => next' = next + 1)
    BY <1>1, <1>4, NextGroupGoes DEF GroupComplete, GroupGivesUp, Watching
  <1>6. Shape'
    BY <1>1, <1>2, <1>3, <1>5 DEF Shape, Still
  <1>7. ~quit
    BY <1>1, <1>3 DEF Phases
  <1>8. Phases'
    BY <1>1, <1>5, <1>7 DEF Phases, Watching, Building
  <1>9. Paid'
    BY <1>1, <1>2, <1>3, <1>5 DEF Paid, Watching, Still
  <1>10. Together'
    <2> SUFFICES ASSUME NEW j \in Commands, NEW k \in Commands, GroupOf(j) = GroupOf(k),
                        Whole(GroupOf(k))'
                 PROVE  gen'[j] = gen'[k]
      BY <1>2 DEF Together
    <2>1. Whole(GroupOf(k))
      <3>1. CASE GroupGivesUp
        BY <1>2, <3>1 DEF GroupGivesUp, Whole
      <3>2. CASE ~GroupGivesUp
        BY <1>1, <1>5, <3>2, WholeBefore
      <3> QED
        BY <3>1, <3>2
    <2>2. gen[j] = gen[k]
      BY <1>1, <1>3, <1>7, <2>1 DEF Together, Watching
    <2> QED
      BY <1>1, <2>2 DEF Still
  <1> QED
    BY <1>2, <1>3, <1>6, <1>8, <1>9, <1>10 DEF ChildInv

\* The rest of a group is told to terminate.
LEMMA GroupTerminatesNext ==
    ASSUME TMInv, GroupTerminates
    PROVE  ChildInv'
  <1>1. /\ step = "groups" /\ deaths' = deaths /\ quit' = quit /\ pids' = pids /\ gen' = gen
        /\ pending' = pending /\ script' = script /\ NextGroup
        /\ proc' = [k \in Commands |-> IF k \in Members \cap pids /\ proc[k] = "up"
                                        THEN "told" ELSE proc[k]]
    BY DEF GroupTerminates
  <1>2. Commands' = Commands /\ \A k : GroupOf(k)' = GroupOf(k)
    BY <1>1, ScriptSame
  <1>3. Shape /\ Known /\ Phases /\ RestartsTogether /\ Paid /\ Together
    BY DEF TMInv, ChildInv
  <1>4. /\ step' \in Watching /\ next' \in 0..Len(script.commands)
        /\ step' = "groups" => next' = next + 1
    BY <1>1, NextGroupGoes
  <1>5. ~quit
    BY <1>1, <1>3 DEF Phases
  <1>6. /\ proc' \in [Commands -> ProcStates]
        /\ \A k \in Commands : proc'[k] = "up" => proc[k] = "up"
        /\ \A k \in Commands : proc'[k] = "none" <=> proc[k] = "none"
        /\ \A k \in Commands : proc'[k] # "up" => proc[k] # "up" \/ GroupOf(k) = next
    BY <1>1, <1>3 DEF Shape, ProcStates, Members
  <1>7. PICK m \in Commands : GroupOf(m) = next /\ proc[m] # "up"
    <2>1. PICK m \in Members : m \notin pids
      BY DEF GroupTerminates
    <2> QED
      BY <1>3, <2>1 DEF Known, Members
  <1>8. Shape'
    BY <1>1, <1>2, <1>3, <1>4, <1>6 DEF Shape
  <1>9. Known'
    BY <1>1, <1>2, <1>3, <1>6 DEF Known
  <1>10. Phases'
    BY <1>1, <1>4, <1>5 DEF Phases, Watching, Building
  <1>11. Paid'
    <2>1. ASSUME NEW j \in Commands, NEW k \in Commands, GroupOf(j) = GroupOf(k), proc'[j] # "up"
          PROVE  gen[k] <= deaths
      BY <1>1, <1>3, <1>5, <1>6, <1>7, <2>1 DEF Paid, Watching
    <2> QED
      BY <1>1, <1>2, <1>3, <2>1 DEF Paid
  <1>12. Together'
    <2> SUFFICES ASSUME NEW j \in Commands, NEW k \in Commands, GroupOf(j) = GroupOf(k),
                        Whole(GroupOf(k))'
                 PROVE  gen'[j] = gen'[k]
      BY <1>2 DEF Together
    <2>1. Whole(GroupOf(k))
      BY <1>1, <1>4, WholeBefore
    <2> QED
      BY <1>1, <1>3, <1>5, <2>1 DEF Together, Watching
  <1>13. RestartsTogether'
    BY <1>1, <1>2, <1>3, <1>6 DEF RestartsTogether
  <1> QED
    BY <1>8, <1>9, <1>10, <1>11, <1>12, <1>13 DEF ChildInv

\* A group is started again, and some starts may fail.
LEMMA GroupRestartsNext ==
    ASSUME TMInv, NEW failed \in SUBSET Commands, GroupRestarts(failed)
    PROVE  ChildInv'
  <1> DEFINE started == (Members \ pids) \ failed
             d == Cardinality(failed)
  <1>1. /\ step = "groups" /\ quit' = quit /\ script' = script /\ NextGroup
        /\ pids' = pids \cup started /\ failed \subseteq Members
        /\ proc' = [k \in Commands |-> IF k \in started THEN "up" ELSE proc[k]]
        /\ gen' = [k \in Commands |-> IF k \in started THEN gen[k] + 1 ELSE gen[k]]
        /\ pending' = IF failed = {} THEN pending ELSE pending \cup {"TERM"}
        /\ deaths' = deaths + d /\ deaths + d <= MaxDeaths /\ Members \cap pids = {}
    BY DEF GroupRestarts, RestartNow
  <1>2. Commands' = Commands /\ \A k : GroupOf(k)' = GroupOf(k)
    BY <1>1, ScriptSame
  <1>3. Shape /\ Known /\ Phases /\ RestartsTogether /\ Paid /\ Together
    BY DEF TMInv, ChildInv
  <1>4. /\ step' \in Watching /\ next' \in 0..Len(script.commands)
        /\ step' = "groups" => next' = next + 1
    BY <1>1, NextGroupGoes
  <1>5. ~quit
    BY <1>1, <1>3 DEF Phases
  <1>6. d \in Nat /\ (failed # {} => d >= 1)
    <2>1. Len(script.commands) \in Nat /\ Commands = 1..Len(script.commands)
      BY CommandsAre DEF TMInv
    <2>2. IsFiniteSet(Commands)
      BY <2>1, FS_Interval
    <2>3. IsFiniteSet(failed)
      BY <2>2, FS_Subset
    <2> QED
      BY <2>3, FS_CardinalityType, FS_EmptySet
  <1> HIDE DEF d
  <1>7. deaths \in Nat /\ deaths' \in 0..MaxDeaths /\ deaths' \in Nat /\ deaths' >= deaths
        /\ (failed # {} => deaths' >= deaths + 1)
    BY <1>1, <1>3, <1>6, TimemasterAssumption DEF Shape
  <1>8. \A k \in Commands : k \in started <=> GroupOf(k) = next /\ k \notin failed
    BY <1>1 DEF Members
  <1>9. \A k \in Commands : GroupOf(k) = next => proc[k] = "none"
    BY <1>1, <1>3 DEF Known, Members
  <1>10. started \subseteq Commands
    BY DEF Members
  <1> HIDE DEF started
  <1>11. /\ proc' \in [Commands -> ProcStates] /\ gen' \in [Commands -> Nat]
         /\ pids' \subseteq Commands
    BY <1>1, <1>3, <1>10 DEF Shape, ProcStates
  <1>12. \A k \in Commands : IF k \in started THEN proc'[k] = "up" /\ gen'[k] = gen[k] + 1
                             ELSE proc'[k] = proc[k] /\ gen'[k] = gen[k]
    BY <1>1
  <1>13. Shape'
    BY <1>1, <1>2, <1>4, <1>7, <1>11 DEF Shape
  <1>14. Known'
    BY <1>1, <1>2, <1>3, <1>12 DEF Known
  <1>15. Phases'
    BY <1>1, <1>4, <1>5 DEF Phases, Watching, Building
  <1>16. \A k \in Commands : gen[k] \in Nat /\ gen[k] <= deaths + 1
    BY <1>3 DEF Shape, Paid
  <1>17. \A k \in Commands : GroupOf(k) = next => gen[k] <= deaths
    BY <1>1, <1>3, <1>5, <1>9 DEF Paid, Watching
  <1>18. Paid'
    <2>1. ASSUME NEW k \in Commands PROVE gen'[k] <= deaths' + 1
      BY <1>7, <1>8, <1>12, <1>16, <1>17
    <2>2. ASSUME NEW j \in Commands, NEW k \in Commands, GroupOf(j) = GroupOf(k), proc'[j] # "up"
          PROVE  gen'[k] <= deaths'
      <3>1. CASE GroupOf(k) = next
        <4>1. failed # {}
          BY <1>8, <1>12, <2>2, <3>1
        <4>2. gen[k] <= deaths /\ gen[k] \in Nat /\ gen'[k] \in {gen[k], gen[k] + 1}
          BY <1>12, <1>16, <1>17, <3>1
        <4> QED
          BY <1>7, <4>1, <4>2
      <3>2. CASE GroupOf(k) # next
        <4>1. proc[j] # "up" /\ gen'[k] = gen[k]
          BY <1>8, <1>12, <2>2, <3>2
        <4>2. gen[k] <= deaths
          BY <1>1, <1>3, <1>5, <2>2, <4>1 DEF Paid, Watching
        <4> QED
          BY <1>7, <1>16, <4>1, <4>2
      <3> QED
        BY <3>1, <3>2
    <2> QED
      BY <1>2, <2>1, <2>2 DEF Paid
  <1>19. Together'
    <2> SUFFICES ASSUME NEW j \in Commands, NEW k \in Commands, GroupOf(j) = GroupOf(k),
                        Whole(GroupOf(k))'
                 PROVE  gen'[j] = gen'[k]
      BY <1>2 DEF Together
    <2>1. pending \subseteq pending'
      BY <1>1
    <2>2. Whole(GroupOf(k)) /\ ("TERM" \in pending' => GroupOf(k) > next)
      BY <1>1, <1>4, <2>1, WholeBefore
    <2>3. gen[j] = gen[k]
      BY <1>1, <1>3, <1>5, <2>2 DEF Together, Watching
    <2>4. GroupOf(k) = next => failed = {}
      <3>1. next \in Nat
        BY <1>3, CommandsAre DEF Shape, TMInv
      <3> QED
        BY <1>1, <2>2, <3>1
    <2> QED
      BY <1>8, <1>12, <2>3, <2>4
  <1>20. RestartsTogether'
    <2> SUFFICES ASSUME NEW j \in Commands, NEW k \in Commands, GroupOf(j) = GroupOf(k),
                        proc'[j] = "up", proc'[k] = "up"
                 PROVE  gen'[j] = gen'[k]
      BY <1>2 DEF RestartsTogether
    <2>1. CASE GroupOf(k) = next
      <3>1. next \in Nat
        BY <1>3, CommandsAre DEF Shape, TMInv
      <3>2. Whole(GroupOf(k))
        BY <1>1, <2>1, <3>1 DEF Whole
      <3>3. gen[j] = gen[k]
        BY <1>1, <1>3, <1>5, <3>2 DEF Together, Watching
      <3>4. j \in started /\ k \in started
        BY <1>9, <1>12, <2>1
      <3> QED
        BY <1>12, <3>3, <3>4
    <2>2. CASE GroupOf(k) # next
      <3>1. j \notin started /\ k \notin started
        BY <1>8, <2>2
      <3> QED
        BY <1>3, <1>12, <3>1 DEF RestartsTogether
    <2> QED
      BY <2>1, <2>2
  <1> QED
    BY <1>13, <1>14, <1>15, <1>18, <1>19, <1>20 DEF ChildInv

\* Every step.
LEMMA TMNext ==
    ASSUME TMInv, [Next]_vars
    PROVE  TMInv'
  <1>1. ScriptInv' /\ Plain'
    BY ScriptNext, PlainNext DEF TMInv
  <1>2. ASSUME BeginSource \/ AddInterface \/ EndSource \/ Created PROVE ChildInv'
    BY <1>1, <1>2, BuildNext DEF TMInv
  <1>3. ASSUME NEW ok \in BOOLEAN, CreateFiles(ok) \/ CreateVclocks(ok)
        PROVE  ChildInv'
    BY <1>3, PrepareNext
  <1>4. ASSUME NEW ok \in BOOLEAN, Start(ok) PROVE ChildInv'
    BY <1>4, StartNext
  <1>5. ASSUME NEW ok \in BOOLEAN, Clean(ok) PROVE ChildInv'
    BY <1>1, <1>5, CleanNext
  <1>6. ASSUME Terminate PROVE ChildInv'
    BY <1>6, TerminateNext
  <1>7. ASSUME ChildEnds PROVE ChildInv'
    BY <1>7, ChildEndsNext
  <1>8. ASSUME GroupComplete \/ GroupGivesUp PROVE ChildInv'
    BY <1>8, GroupQuietNext
  <1>9. ASSUME GroupTerminates PROVE ChildInv'
    BY <1>9, GroupTerminatesNext
  <1>10. ASSUME NEW failed \in SUBSET Commands, GroupRestarts(failed) PROVE ChildInv'
    BY <1>10, GroupRestartsNext
  <1>11. ASSUME Stop \/ Grow \/ UNCHANGED vars PROVE ChildInv'
    BY <1>11, QuietNext
  <1>12. ASSUME NEW k \in Commands, Ends(k) PROVE ChildInv'
    BY <1>12, EndsNext
  <1>13. ChildInv'
    BY <1>1, <1>2, <1>3, <1>4, <1>5, <1>6, <1>7, <1>8, <1>9, <1>10, <1>11, <1>12 DEF Next, Program, TMInv
  <1> QED
    BY <1>1, <1>13 DEF TMInv

\* script_run(): whatever programs end, fail to start or are stopped, and however signals
\* are merged, timemaster leaves no program running or unreaped, leaves nothing behind
\* when it ends through its loop, and never lets programs of a group go on that were not
\* started together.
THEOREM ChildrenAlwaysInOrder == Spec => []ChildrenInOrder
  <1>1. Init => TMInv
    BY ChildInit
  <1>2. TMInv /\ [Next]_vars => TMInv'
    BY TMNext
  <1>3. TMInv => ChildrenInOrder
    BY ChildOrder
  <1> QED
    BY <1>1, <1>2, <1>3, PTL DEF Spec

-----------------------------------------------------------------------------
\* The configuration: the options and their types.
OptionNames == {"clientOnly", "domainNumber", "fault_reset_interval", "logSyncInterval",
                "time_stamping", "twoStepFlag"}

\* The options that are modelled.
LEMMA OptionsAre == Options = OptionNames
  BY DEF Options, OptionNames, config_tab

\* What the table of the options says of each.
LEMMA TabFacts ==
    ASSUME NEW o \in Options
    PROVE  /\ config_tab[o].type \in {"INT", "ENUM"}
           /\ config_tab[o].type = "ENUM" <=> o = "time_stamping"
           /\ config_tab[o].default \in -128..255
           /\ config_tab[o].min \in -128..255 /\ config_tab[o].max \in -128..255
           /\ config_tab[o].port \in BOOLEAN
  <1>1. CASE o = "clientOnly"
    <2>1. config_tab["clientOnly"] = Item("INT", FALSE, 0, 0, 1)
      BY DEF config_tab
    <2>2. config_tab[o] = Item("INT", FALSE, 0, 0, 1)
      BY <1>1, <2>1
    <2>3. config_tab[o].port \in BOOLEAN
      BY <2>2 DEF Item
    <2> QED
      BY <1>1, <2>2, <2>3 DEF Item
  <1>2. CASE o = "domainNumber"
    <2>1. config_tab["domainNumber"] = Item("INT", FALSE, 0, 0, 255)
      BY DEF config_tab
    <2>2. config_tab[o] = Item("INT", FALSE, 0, 0, 255)
      BY <1>2, <2>1
    <2>3. config_tab[o].port \in BOOLEAN
      BY <2>2 DEF Item
    <2> QED
      BY <1>2, <2>2, <2>3 DEF Item
  <1>3. CASE o = "fault_reset_interval"
    <2>1. config_tab["fault_reset_interval"] = Item("INT", TRUE, 4, -128, 127)
      BY DEF config_tab
    <2>2. config_tab[o] = Item("INT", TRUE, 4, -128, 127)
      BY <1>3, <2>1
    <2>3. config_tab[o].port \in BOOLEAN
      BY <2>2 DEF Item
    <2> QED
      BY <1>3, <2>2, <2>3 DEF Item
  <1>4. CASE o = "logSyncInterval"
    <2>1. config_tab["logSyncInterval"] = Item("INT", TRUE, 0, -128, 127)
      BY DEF config_tab
    <2>2. config_tab[o] = Item("INT", TRUE, 0, -128, 127)
      BY <1>4, <2>1
    <2>3. config_tab[o].port \in BOOLEAN
      BY <2>2 DEF Item
    <2> QED
      BY <1>4, <2>2, <2>3 DEF Item
  <1>5. CASE o = "time_stamping"
    <2>1. config_tab["time_stamping"] = Item("ENUM", FALSE, 1, 0, 4)
      BY DEF config_tab
    <2>2. config_tab[o] = Item("ENUM", FALSE, 1, 0, 4)
      BY <1>5, <2>1
    <2>3. config_tab[o].port \in BOOLEAN
      BY <2>2 DEF Item
    <2> QED
      BY <1>5, <2>2, <2>3 DEF Item
  <1>6. CASE o = "twoStepFlag"
    <2>1. config_tab["twoStepFlag"] = Item("INT", FALSE, 1, 0, 1)
      BY DEF config_tab
    <2>2. config_tab[o] = Item("INT", FALSE, 1, 0, 1)
      BY <1>6, <2>1
    <2>3. config_tab[o].port \in BOOLEAN
      BY <2>2 DEF Item
    <2> QED
      BY <1>6, <2>2, <2>3 DEF Item
  <1> QED
    BY OptionsAre, <1>1, <1>2, <1>3, <1>4, <1>5, <1>6 DEF OptionNames

Values == -128..255

\* The ranges of the one-step options.
Permitted(o, x) == (o = "twoStepFlag" => x \in 0..1) /\ (o = "time_stamping" => x \in 0..4)

\* A value that is in order is in the range of its option.
LEMMA ParsedTyped ==
    ASSUME NEW o \in Options, NEW v, v.n \in Int, Verdict(o, v) = "PARSED_OK"
    PROVE  Parsed(o, v) \in Values /\ Permitted(o, Parsed(o, v))
  <1>1. CASE o = "time_stamping"
    <2>1. config_tab[o].type = "ENUM"
      BY <1>1, TabFacts
    <2>2. v.word \in DOMAIN timestamping_enu
      BY <2>1 DEF Verdict
    <2>3. v.word \in {"software", "hardware", "legacy", "onestep", "p2p1step"}
      BY <2>2 DEF timestamping_enu
    <2>4. timestamping_enu[v.word] \in 0..4
      BY <2>3 DEF timestamping_enu
    <2>5. Parsed(o, v) = timestamping_enu[v.word]
      BY <2>1 DEF Parsed
    <2>6. \A n \in 0..4 : n \in Values
      BY DEF Values
    <2> QED
      BY <1>1, <2>4, <2>5, <2>6 DEF Permitted
  <1>2. CASE o # "time_stamping"
    <2>1. config_tab[o].type = "INT" /\ config_tab[o].min \in Values /\ config_tab[o].max \in Values
      BY <1>2, TabFacts DEF Values
    <2>2. v.n \in Int /\ ~ (v.n < config_tab[o].min) /\ ~ (v.n > config_tab[o].max)
      BY <2>1 DEF Verdict, get_ranged_int
    <2>3. \A n \in Int, a, b \in Values : ~ (n < a) /\ ~ (n > b) => n \in Values
      BY DEF Values
    <2>4. Parsed(o, v) = v.n
      BY <2>1 DEF Parsed
    <2>5. CASE o = "twoStepFlag"
      <3>1. config_tab["twoStepFlag"] = Item("INT", FALSE, 1, 0, 1)
        BY DEF config_tab
      <3>2. config_tab[o].min = 0 /\ config_tab[o].max = 1
        BY <2>5, <3>1 DEF Item
      <3>3. v.n \in 0..1
        BY <2>2, <3>2
      <3> QED
        BY <2>1, <2>2, <2>3, <2>4, <2>5, <3>3 DEF Permitted
    <2>6. CASE o # "twoStepFlag"
      BY <1>2, <2>1, <2>2, <2>3, <2>4, <2>6 DEF Permitted
    <2> QED
      BY <2>5, <2>6
  <1> QED
    BY <1>1, <1>2

TableType == [id : Int, addrs : Seq(Int), peer : Int, lqi : Int]

CfgType ==
    [items : [Sections -> ItemType], locked : SUBSET Options, interfaces : Seq(PortNames),
     tables : Seq(TableType), section : Sections \cup {"unknown", "unicast_master_table"},
     table : Nat, ok : BOOLEAN]

SameTables(c, d) == d.tables = c.tables /\ d.table = c.table

\* A value that is stored, and the options that are locked then.
Stored(c, section, option, x, locks) ==
    [c EXCEPT !.items[section][option] = x, !.locked = locks]

\* What storing a value does, section by section and option by option.
LEMMA Stores ==
    ASSUME NEW c \in CfgType, NEW section \in Sections, NEW option \in Options,
           NEW x \in Values, NEW locks \in SUBSET Options
    PROVE  LET d == Stored(c, section, option, x, locks) IN
           /\ d \in CfgType /\ SameTables(c, d)
           /\ d.section = c.section /\ d.interfaces = c.interfaces /\ d.ok = c.ok
           /\ d.locked = locks /\ d.items[section][option] = x
           /\ \A s \in Sections, o \in Options :
                  s # section \/ o # option => d.items[s][o] = c.items[s][o]
  <1> DEFINE d == [c EXCEPT !.items[section][option] = x, !.locked = locks]
  <1>1. /\ c.items \in [Sections -> ItemType] /\ c.items[section] \in ItemType
        /\ x \in Values \cup {Unset}
    BY DEF CfgType
  <1>2. d.items = [c.items EXCEPT ![section] = [c.items[section] EXCEPT ![option] = x]]
    BY DEF CfgType
  <1>3. /\ d.section = c.section /\ d.interfaces = c.interfaces /\ d.ok = c.ok
        /\ d.locked = locks /\ d.tables = c.tables /\ d.table = c.table
    BY DEF CfgType
  <1>4. [c.items[section] EXCEPT ![option] = x] \in ItemType
    BY <1>1 DEF ItemType, Values
  <1>5. d.items \in [Sections -> ItemType]
    BY <1>1, <1>2, <1>4
  <1> DEFINE e == [c EXCEPT !.items = d.items]
  <1>6. e \in CfgType /\ d = [e EXCEPT !.locked = locks]
    <2> DEFINE new == d.items
    <2>1. d = [[c EXCEPT !.items = new] EXCEPT !.locked = locks]
      BY <1>2 DEF CfgType
    <2>2. new \in [Sections -> ItemType]
      BY <1>5
    <2> HIDE DEF new
    <2>3. [c EXCEPT !.items = new] \in CfgType
      BY <2>2 DEF CfgType
    <2> QED
      BY <2>1, <2>3 DEF new
  <1>7. d \in CfgType
    <2> HIDE DEF d, e
    <2> QED
      BY <1>6 DEF CfgType
  <1>8. d.items[section] = [c.items[section] EXCEPT ![option] = x]
    BY <1>1, <1>2
  <1>9. d.items[section][option] = x
    BY <1>1, <1>8 DEF ItemType
  <1>10. ASSUME NEW s \in Sections, NEW o \in Options, s # section \/ o # option
         PROVE  d.items[s][o] = c.items[s][o]
    BY <1>1, <1>2, <1>10 DEF ItemType
  <1> QED
    BY <1>3, <1>7, <1>9, <1>10 DEF SameTables, Stored

\* What parse_item() makes of an option: it stores the value where it belongs and
\* nothing else, except that a locked option is spared.
ParsedInto(c, commandline, section, option, v, d) ==
    /\ d \in CfgType /\ SameTables(c, d)
    /\ d.section = c.section /\ d.interfaces = c.interfaces
    /\ d.ok =>
         /\ option \in Options /\ c.ok
         /\ ValueOf(option, v) \in Values /\ Permitted(option, ValueOf(option, v))
         /\ \A s \in Sections, o \in Options :
               s # section \/ o # option => d.items[s][o] = c.items[s][o]
         /\ IF section = "global" /\ ~commandline /\ option \in c.locked
                 /\ ~IsAsap(option, v)
            THEN d.items = c.items /\ d.locked = c.locked
            ELSE /\ d.items[section][option] = ValueOf(option, v)
                 /\ d.locked = IF commandline \/ (IsAsap(option, v) /\ section = "global")
                               THEN c.locked \cup {option} ELSE c.locked

\* parse_item() does that.
LEMMA ParseItem ==
    ASSUME NEW c \in CfgType, NEW commandline \in BOOLEAN, NEW section \in Sections,
           NEW option, NEW v, v.n \in Int, commandline => section = "global"
    PROVE  ParsedInto(c, commandline, section, option, v, parse_item(c, commandline, section, option, v))
  <1> SUFFICES ASSUME NEW d, d = parse_item(c, commandline, section, option, v)
               PROVE  ParsedInto(c, commandline, section, option, v, d)
    OBVIOUS
  <1> USE DEF ParsedInto
  <1>1. CASE IsAsap(option, v)
    <2>0. /\ option \in Options /\ ValueOf(option, v) = -128 /\ -128 \in Values
          /\ Permitted(option, ValueOf(option, v))
      BY <1>1, OptionsAre DEF IsAsap, OptionNames, ValueOf, FRI_ASAP, Values, Permitted
    <2> DEFINE locks == IF section = "global" THEN c.locked \cup {option} ELSE c.locked
    <2>1. d = Stored(c, section, option, -128, locks)
      BY <1>1 DEF parse_item, config_set, FRI_ASAP, Stored
    <2>2. locks \in SUBSET Options
      BY <2>0 DEF CfgType
    <2> HIDE DEF locks
    <2>4. /\ d \in CfgType /\ SameTables(c, d)
          /\ d.section = c.section /\ d.interfaces = c.interfaces /\ d.ok = c.ok
          /\ d.locked = locks /\ d.items[section][option] = -128
          /\ \A s \in Sections, o \in Options :
                 s # section \/ o # option => d.items[s][o] = c.items[s][o]
      BY <2>0, <2>1, <2>2, Stores
    <2> QED
      BY <1>1, <2>0, <2>4 DEF locks
  <1>2. CASE ~IsAsap(option, v) /\ (\/ option \notin Options
                                    \/ Verdict(option, v) # "PARSED_OK"
                                    \/ section # "global" /\ ~config_tab[option].port)
    <2>1. d = [c EXCEPT !.ok = FALSE]
      BY <1>2 DEF parse_item, Fail
    <2> QED
      BY <2>1 DEF CfgType, SameTables
  <1>3. CASE ~IsAsap(option, v) /\ ~ (\/ option \notin Options
                                      \/ Verdict(option, v) # "PARSED_OK"
                                      \/ section # "global" /\ ~config_tab[option].port)
    <2>0. /\ option \in Options /\ ValueOf(option, v) \in Values /\ ValueOf(option, v) = Parsed(option, v)
          /\ Permitted(option, ValueOf(option, v))
      BY <1>3, ParsedTyped DEF ValueOf
    <2>1. CASE section = "global" /\ ~commandline /\ option \in c.locked
      <3>1. d = c
        BY <1>3, <2>1 DEF parse_item
      <3> QED
        BY <1>3, <2>0, <2>1, <3>1 DEF SameTables
    <2>2. CASE ~ (section = "global" /\ ~commandline /\ option \in c.locked)
      <3> DEFINE locks == IF commandline THEN c.locked \cup {option} ELSE c.locked
      <3>1. d = Stored(c, section, option, ValueOf(option, v), locks)
        BY <1>3, <2>0, <2>2 DEF parse_item, Stored
      <3>2. locks \in SUBSET Options
        BY <2>0 DEF CfgType
      <3> HIDE DEF locks
      <3>3. /\ d \in CfgType /\ SameTables(c, d)
            /\ d.section = c.section /\ d.interfaces = c.interfaces /\ d.ok = c.ok
            /\ d.locked = locks /\ d.items[section][option] = ValueOf(option, v)
            /\ \A s \in Sections, o \in Options :
                   s # section \/ o # option => d.items[s][o] = c.items[s][o]
        <4> DEFINE x == ValueOf(option, v)
        <4>1. x \in Values /\ option \in Options /\ d = Stored(c, section, option, x, locks)
          BY <2>0, <3>1
        <4> HIDE DEF x
        <4>2. /\ d \in CfgType /\ SameTables(c, d)
              /\ d.section = c.section /\ d.interfaces = c.interfaces /\ d.ok = c.ok
              /\ d.locked = locks /\ d.items[section][option] = x
              /\ \A s \in Sections, o \in Options :
                    s # section \/ o # option => d.items[s][o] = c.items[s][o]
          BY <4>1, <3>2, Stores
        <4> QED
          BY <4>2 DEF x
      <3> QED
        BY <1>3, <2>0, <2>2, <3>3 DEF locks
    <2> QED
      BY <2>1, <2>2
  <1> QED
    BY <1>1, <1>2, <1>3

-----------------------------------------------------------------------------
IsLine(line) ==
    \/ line.kind = "setting" /\ line.value.n \in Int
    \/ line \in TableLineType
    \/ line.kind = "section" /\ line.name \in Sections \cup {"unicast_master_table"}

\* A line of a unicast master table changes the current table alone, or names a new
\* one.
LEMMA TableLineRight ==
    ASSUME NEW c \in CfgType, c.table <= Len(c.tables), NEW line,
           line.kind = "setting" \/ line \in TableLineType,
           NEW d, d = parse_unicast_mtab_line(c, line)
    PROVE  /\ d \in CfgType /\ d.table <= Len(d.tables)
           /\ d.items = c.items /\ d.locked = c.locked /\ d.section = c.section
           /\ d.ok => /\ line.kind = "table"
                      /\ line.what = "table_id" => d.table # 0 /\ d.tables[d.table].id = line.n
                      /\ line.what # "table_id" =>
                            /\ d.table = c.table
                            /\ d.table # 0 => d.tables[d.table].id = c.tables[c.table].id
           /\ \A t \in DOMAIN c.tables :
                 /\ t \in DOMAIN d.tables
                 /\ d.tables[t] # c.tables[t] => t = c.table
  <1> USE DEF CfgType
  <1>0. /\ c.tables \in Seq(TableType) /\ c.table \in Nat /\ Len(c.tables) \in Nat
        /\ DOMAIN c.tables = 1..Len(c.tables)
    OBVIOUS
  <1>1. CASE d = Fail(c)
    BY <1>0, <1>1 DEF Fail
  <1>2. CASE /\ line.kind = "table" /\ line.what = "table_id" /\ line.n \in Int
             /\ d = [c EXCEPT !.tables = Append(c.tables, [id |-> line.n, addrs |-> <<>>, peer |-> 0, lqi |-> 0]),
                              !.table = Len(c.tables) + 1]
    <2> DEFINE new == [id |-> line.n, addrs |-> <<>>, peer |-> 0, lqi |-> 0]
    <2> DEFINE ts == Append(c.tables, new)
    <2>0. <<>> \in Seq(Int)
      OBVIOUS
    <2>1. new \in TableType
      BY <1>2, <2>0 DEF TableType
    <2>2. new.id = line.n
      OBVIOUS
    <2> HIDE DEF new
    <2>3. /\ ts \in Seq(TableType) /\ Len(ts) = Len(c.tables) + 1 /\ DOMAIN ts = 1..Len(ts)
          /\ ts[Len(c.tables) + 1] = new
          /\ \A t \in DOMAIN c.tables : t \in DOMAIN ts /\ ts[t] = c.tables[t]
      BY <1>0, <2>1
    <2>4. d = [c EXCEPT !.tables = ts, !.table = Len(c.tables) + 1]
      BY <1>2 DEF new
    <2> DEFINE last == Len(c.tables) + 1
    <2>6. last \in Nat /\ d = [c EXCEPT !.tables = ts, !.table = last]
      BY <1>0, <2>4
    <2>7. ts \in Seq(TableType)
      BY <2>3
    <2> HIDE DEF ts, last
    <2>8. d \in CfgType
      BY <2>6, <2>7
    <2>9. /\ d.tables = ts /\ d.table = last /\ d.ok = c.ok
          /\ d.items = c.items /\ d.locked = c.locked /\ d.section = c.section
      BY <2>6
    <2>5. /\ d.tables = ts /\ d.table = Len(c.tables) + 1 /\ d \in CfgType /\ d.ok = c.ok
          /\ d.items = c.items /\ d.locked = c.locked /\ d.section = c.section
      BY <2>8, <2>9 DEF last
    <2> QED
      BY <1>0, <1>2, <2>2, <2>3, <2>5
  <1>3. CASE /\ line.kind = "table" /\ line.what # "table_id" /\ c.table # 0
             /\ \E new \in TableType : /\ new.id = c.tables[c.table].id
                                       /\ d = [c EXCEPT !.tables[c.table] = new]
    <2> PICK new \in TableType : new.id = c.tables[c.table].id /\ d = [c EXCEPT !.tables[c.table] = new]
      BY <1>3
    <2> DEFINE ts == [c.tables EXCEPT ![c.table] = new]
    <2>1. /\ ts \in Seq(TableType) /\ Len(ts) = Len(c.tables) /\ DOMAIN ts = DOMAIN c.tables
          /\ \A t \in DOMAIN c.tables : ts[t] = IF t = c.table THEN new ELSE c.tables[t]
      <3>1. c.table \in 1..Len(c.tables)
        BY <1>0, <1>3
      <3> QED
        BY <1>0, <3>1, ExceptSeq
    <2>2. d = [c EXCEPT !.tables = ts]
      OBVIOUS
    <2>3. c.table \in DOMAIN c.tables
      BY <1>0, <1>3
    <2> HIDE DEF ts
    <2>4. /\ d.tables = ts /\ d.table = c.table /\ d \in CfgType /\ d.ok = c.ok
          /\ d.items = c.items /\ d.locked = c.locked /\ d.section = c.section
      BY <1>0, <2>1, <2>2
    <2> QED
      BY <1>0, <1>3, <2>1, <2>3, <2>4
  <1>4. CASE line.kind # "table"
    BY <1>4, <1>1 DEF parse_unicast_mtab_line
  <1>5. CASE line.kind = "table"
    <2>0. line \in TableLineType
      BY <1>5
    <2>00. line.n \in Int /\ line.what \in {"table_id", "logQueryInterval", "peer_address", "address"}
      BY <2>0 DEF TableLineType
    <2>1. CASE line.what = "table_id"
      <3>1. d = config_switch_unicast_mtab(c, line.n)
        BY <1>5, <2>1 DEF parse_unicast_mtab_line
      <3> QED
        BY <1>1, <1>2, <1>5, <2>1, <2>00, <3>1 DEF config_switch_unicast_mtab
    <2>2. CASE line.what = "logQueryInterval"
      <3>1. d = config_unicast_mtab_query_interval(c, line.n)
        BY <1>5, <2>2 DEF parse_unicast_mtab_line
      <3>2. CASE c.table = 0 \/ line.n \notin -128..127
        BY <1>1, <3>1, <3>2 DEF config_unicast_mtab_query_interval
      <3>3. CASE ~ (c.table = 0 \/ line.n \notin -128..127)
        <4> DEFINE new == [c.tables[c.table] EXCEPT !.lqi = line.n]
        <4>1. c.tables[c.table] \in TableType
          BY <1>0, <3>3
        <4>2. new \in TableType /\ new.id = c.tables[c.table].id
          BY <4>1, <2>00 DEF TableType
        <4>3. d = [c EXCEPT !.tables[c.table] = new]
          BY <3>1, <3>3 DEF config_unicast_mtab_query_interval
        <4> QED
          BY <1>3, <1>5, <2>2, <3>3, <4>2, <4>3
      <3> QED
        BY <3>2, <3>3
    <2>3. CASE line.what = "peer_address"
      <3>1. d = config_unicast_mtab_peer(c, line.n)
        BY <1>5, <2>3 DEF parse_unicast_mtab_line
      <3>2. CASE c.table = 0
        BY <1>1, <3>1, <3>2 DEF config_unicast_mtab_peer
      <3>3. CASE c.table # 0
        <4> DEFINE new == [c.tables[c.table] EXCEPT !.peer = line.n]
        <4>1. c.tables[c.table] \in TableType
          BY <1>0, <3>3
        <4>2. new \in TableType /\ new.id = c.tables[c.table].id
          BY <4>1, <2>00 DEF TableType
        <4>3. d = [c EXCEPT !.tables[c.table] = new]
          BY <3>1, <3>3 DEF config_unicast_mtab_peer
        <4> QED
          BY <1>3, <1>5, <2>3, <3>3, <4>2, <4>3
      <3> QED
        BY <3>2, <3>3
    <2>4. CASE line.what = "address"
      <3>1. d = config_unicast_mtab_address(c, line.n)
        BY <1>5, <2>4 DEF parse_unicast_mtab_line
      <3>2. CASE c.table = 0
        BY <1>1, <3>1, <3>2 DEF config_unicast_mtab_address
      <3>3. CASE c.table # 0
        <4> DEFINE new == [c.tables[c.table] EXCEPT !.addrs = Append(@, line.n)]
        <4>1. c.tables[c.table] \in TableType
          BY <1>0, <3>3
        <4>5. c.tables[c.table].addrs \in Seq(Int)
          BY <4>1 DEF TableType
        <4>6. Append(c.tables[c.table].addrs, line.n) \in Seq(Int)
          BY <4>5, <2>00
        <4>2. new \in TableType /\ new.id = c.tables[c.table].id
          BY <4>1, <4>6 DEF TableType
        <4>3. d = [c EXCEPT !.tables[c.table] = new]
          BY <3>1, <3>3 DEF config_unicast_mtab_address
        <4> QED
          BY <1>3, <1>5, <2>4, <3>3, <4>2, <4>3
      <3> QED
        BY <3>2, <3>3
    <2> QED
      BY <2>1, <2>2, <2>3, <2>4, <2>00
  <1> QED
    BY <1>4, <1>5

\* A section line leaves values and tables alone, and closes the table.
LEMMA SectionLineRight ==
    ASSUME NEW c \in CfgType, NEW name \in Sections \cup {"unicast_master_table"},
           NEW d, d = parse_section_line(c, name)
    PROVE  /\ d \in CfgType /\ d.tables = c.tables /\ d.table \in {c.table, 0}
           /\ d.items = c.items /\ d.locked = c.locked /\ d.section = name /\ d.ok = c.ok
           /\ name = "unicast_master_table" => d.table = 0
  <1> DEFINE e == IF name \in PortNames THEN config_create_interface(c, name) ELSE c
  <1>1. /\ e \in CfgType /\ e.tables = c.tables /\ e.table = c.table /\ e.items = c.items
        /\ e.locked = c.locked /\ e.ok = c.ok
    <2>1. CASE e = c
      BY <2>1
    <2>2. CASE name \in PortNames /\ e = [c EXCEPT !.interfaces = Append(@, name)]
      <3> DEFINE new == Append(c.interfaces, name)
      <3>1. new \in Seq(PortNames)
        BY <2>2 DEF CfgType
      <3>2. e = [c EXCEPT !.interfaces = new]
        BY <2>2
      <3> HIDE DEF new, e
      <3> QED
        BY <3>1, <3>2 DEF CfgType
    <2> QED
      BY <2>1, <2>2 DEF config_create_interface
  <1>2. d = [e EXCEPT !.section = name, !.table = IF name = "unicast_master_table" THEN 0 ELSE @]
    BY DEF parse_section_line
  <1> HIDE DEF e
  <1> DEFINE table == IF name = "unicast_master_table" THEN 0 ELSE e.table
  <1>3. d = [e EXCEPT !.section = name, !.table = table]
    BY <1>2
  <1>4. table \in Nat /\ table \in {c.table, 0} /\ (name = "unicast_master_table" => table = 0)
    BY <1>1 DEF CfgType
  <1> HIDE DEF table
  <1> QED
    BY <1>1, <1>3, <1>4 DEF CfgType

\* config_create_interface() leaves everything else alone.
LEMMA InterfaceRight ==
    ASSUME NEW c \in CfgType, NEW name \in PortNames
    PROVE  LET d == config_create_interface(c, name) IN
           /\ d \in CfgType /\ d.tables = c.tables /\ d.table = c.table
           /\ d.items = c.items /\ d.locked = c.locked /\ d.section = c.section /\ d.ok = c.ok
  <1> DEFINE d == config_create_interface(c, name)
  <1>1. CASE d = c
    BY <1>1
  <1>2. CASE d = [c EXCEPT !.interfaces = Append(@, name)]
    <2> DEFINE new == Append(c.interfaces, name)
    <2>1. new \in Seq(PortNames)
      BY DEF CfgType
    <2>2. d = [c EXCEPT !.interfaces = new]
      BY <1>2
    <2> HIDE DEF new, d
    <2>3. /\ d \in CfgType /\ d.tables = c.tables /\ d.table = c.table
           /\ d.items = c.items /\ d.locked = c.locked /\ d.section = c.section /\ d.ok = c.ok
      BY <2>1, <2>2 DEF CfgType
    <2> QED
      BY <2>3 DEF d
  <1> QED
    BY <1>1, <1>2 DEF config_create_interface

-----------------------------------------------------------------------------
FRI == "fault_reset_interval"

Settable == Options \ Harmonized

\* The types, in full.
CTypeInv ==
    /\ cfg \in CfgType /\ cfg.table <= Len(cfg.tables)
    /\ phase \in {"args", "file", "rest", "done"} /\ named \in Int
    /\ args \in Nat /\ lines \in Nat
    /\ cli \in ItemType /\ said \in [Sections -> ItemType]

\* What the global section is to have.
Expected(o) ==
    IF cli[o] # Unset THEN cli[o]
    ELSE IF said["global"][o] # Unset THEN said["global"][o] ELSE config_tab[o].default

\* The command line locks its options; ASAP in a file locks itself.
Locks ==
    \A o \in Settable :
        /\ cli[o] # Unset => o \in cfg.locked
        /\ o \in cfg.locked => cli[o] # Unset \/ (o = FRI /\ AsapSaid)

GlobalRight ==
    \A o \in Settable : \/ cfg.items["global"][o] = Expected(o)
                        \/ o = FRI /\ AsapSaid /\ o \in cfg.locked

PortsRight == \A p \in PortNames, o \in Options : cfg.items[p][o] = said[p][o]

\* The current table is the one that was named, as long as its section goes on.
TableNamed ==
    cfg.section = "unicast_master_table" /\ cfg.table # 0 => cfg.tables[cfg.table].id = named

Permits == \A o \in Options : Permitted(o, cfg.items["global"][o])

Settled == cfg.ok => Locks /\ GlobalRight /\ PortsRight /\ TableNamed /\ Permits

\* Precedence follows.
LEMMA SettledPrecedence == CTypeInv /\ Settled => Precedence
  <1> SUFFICES ASSUME CTypeInv, Settled, cfg.ok, NEW p \in PortNames, NEW o \in Options \ Harmonized,
                      ~ (o = "fault_reset_interval" /\ AsapSaid)
               PROVE  config_get(cfg, p, o) =
                        CASE said[p][o] # Unset -> said[p][o]
                          [] said[p][o] = Unset /\ cli[o] # Unset -> cli[o]
                          [] said[p][o] = Unset /\ cli[o] = Unset /\ said["global"][o] # Unset ->
                                said["global"][o]
                          [] OTHER -> config_tab[o].default
    BY DEF Precedence
  <1>1. p # "global"
    BY ConfigAssumption
  <1>2. cfg.items[p][o] = said[p][o]
    BY DEF Settled, PortsRight
  <1>3. cfg.items["global"][o] = Expected(o)
    BY DEF Settled, GlobalRight, Settable, FRI
  <1>4. config_get(cfg, p, o) = IF said[p][o] # Unset THEN said[p][o] ELSE Expected(o)
    BY <1>1, <1>2, <1>3 DEF config_get
  <1> QED
    BY <1>4 DEF Expected

\* config_read() takes a line, and the history follows.
LEMMA ReadKeeps ==
    ASSUME CTypeInv, Settled, phase' \in {"args", "file", "rest", "done"}, lines' \in Nat,
           args' = args, cli' = cli, NEW line, IsLine(line), Read(line)
    PROVE  CTypeInv' /\ Settled'
  <1> USE DEF CTypeInv
  <1>0. cfg.ok /\ cfg' = config_line(cfg, line) /\ "global" \in Sections
    BY DEF Read, Sections
  <1>1. CASE line.kind = "section"
    <2>1. line.name \in Sections \cup {"unicast_master_table"}
      BY <1>1 DEF IsLine, TableLineType
    <2>2. cfg' = parse_section_line(cfg, line.name)
      BY <1>0, <1>1 DEF config_line
    <2>3. /\ cfg' \in CfgType /\ cfg'.tables = cfg.tables /\ cfg'.table \in {cfg.table, 0}
          /\ cfg'.items = cfg.items /\ cfg'.locked = cfg.locked /\ cfg'.section = line.name
          /\ (line.name = "unicast_master_table" => cfg'.table = 0)
      BY <2>1, <2>2, SectionLineRight
    <2>4. said' = said /\ named' = 0
      BY <1>1 DEF Read
    <2>5. cfg.tables \in Seq(TableType) /\ cfg.table \in Nat
      BY DEF CfgType
    <2>6. CTypeInv'
      BY <2>3, <2>4, <2>5
    <2>7. Locks' /\ GlobalRight' /\ PortsRight' /\ Permits'
      BY <1>0, <2>3, <2>4 DEF Settled, Locks, GlobalRight, PortsRight, AsapSaid, Expected, Permits
    <2>8. TableNamed'
      BY <2>3 DEF TableNamed
    <2> QED
      BY <2>6, <2>7, <2>8 DEF Settled
  <1>2. CASE line.kind # "section" /\ cfg.section = "unicast_master_table"
    <2>1. /\ cfg' = parse_unicast_mtab_line(cfg, line)
          /\ line.kind = "setting" \/ line \in TableLineType
      BY <1>0, <1>2 DEF config_line, IsLine
    <2>2. /\ cfg' \in CfgType /\ cfg'.table <= Len(cfg'.tables)
          /\ cfg'.items = cfg.items /\ cfg'.locked = cfg.locked /\ cfg'.section = cfg.section
          /\ cfg'.ok => /\ line.kind = "table"
                        /\ line.what = "table_id" => cfg'.table # 0 /\ cfg'.tables[cfg'.table].id = line.n
                        /\ line.what # "table_id" =>
                              /\ cfg'.table = cfg.table
                              /\ cfg'.table # 0 => cfg'.tables[cfg'.table].id = cfg.tables[cfg.table].id
      BY <2>1, TableLineRight
    <2>3. said' = said
      <3>1. cfg.section \notin Sections
        BY <1>2, ConfigAssumption DEF Sections
      <3> QED
        BY <3>1 DEF Read
    <2>4. named' = IF line.kind = "table" /\ line.what = "table_id" THEN line.n ELSE named
      BY <1>2 DEF Read
    <2>5. named' \in Int
      BY <2>1, <2>4 DEF TableLineType
    <2>6. CTypeInv'
      BY <2>2, <2>3, <2>5
    <2>7. Locks' /\ GlobalRight' /\ PortsRight' /\ Permits'
      BY <1>0, <2>2, <2>3 DEF Settled, Locks, GlobalRight, PortsRight, AsapSaid, Expected, Permits
    <2>8. cfg'.ok => TableNamed'
      BY <1>0, <1>2, <2>2, <2>4 DEF Settled, TableNamed
    <2> QED
      BY <2>6, <2>7, <2>8 DEF Settled
  <1>3. CASE /\ line.kind # "section" /\ cfg.section # "unicast_master_table"
             /\ (cfg.section = "unknown" \/ line.kind # "setting")
    <2>1. cfg' = [cfg EXCEPT !.ok = FALSE]
      BY <1>0, <1>3 DEF config_line, Fail
    <2>2. /\ cfg' \in CfgType /\ cfg'.table = cfg.table /\ cfg'.tables = cfg.tables /\ ~cfg'.ok
      BY <2>1 DEF CfgType
    <2>3. said' = said
      BY <2>2 DEF Read
    <2>4. named' = IF line.kind = "table" /\ line.what = "table_id" THEN line.n ELSE named
      BY <1>3 DEF Read
    <2>5. named' \in Int
      BY <1>3, <2>4 DEF IsLine, TableLineType
    <2> QED
      BY <2>2, <2>3, <2>5 DEF Settled
  <1>4. CASE /\ line.kind = "setting" /\ cfg.section # "unicast_master_table" /\ cfg.section # "unknown"
    <2> DEFINE option == check_deprecated_options(line.option)
    <2> DEFINE section == cfg.section
    <2>1. line.value.n \in Int
      BY <1>4 DEF IsLine, TableLineType
    <2>2. section \in Sections
      BY <1>4 DEF CfgType
    <2>3. cfg' = parse_item(cfg, FALSE, section, option, line.value)
      BY <1>0, <1>4 DEF config_line
    <2>4. said' = IF ~cfg'.ok THEN said
                  ELSE [said EXCEPT ![section][option] = ValueOf(option, line.value)]
      BY <1>4, <2>2 DEF Read
    <2>5. named' = named
      BY <1>4 DEF Read
    <2>15. ParsedInto(cfg, FALSE, section, option, line.value, cfg')
      BY <2>1, <2>2, <2>3, ParseItem
    <2> HIDE DEF option, section
    <2>6. /\ cfg' \in CfgType /\ cfg'.tables = cfg.tables /\ cfg'.table = cfg.table
          /\ cfg'.section = cfg.section
      BY <2>15 DEF ParsedInto, SameTables
    <2>7. CASE ~cfg'.ok
      BY <2>4, <2>5, <2>6, <2>7 DEF Settled
    <2>8. CASE cfg'.ok
      <3> DEFINE x == ValueOf(option, line.value)
      <3> DEFINE asap == IsAsap(option, line.value)
      <3>1. /\ option \in Options /\ x \in Values /\ Permitted(option, x)
            /\ \A s \in Sections, o \in Options :
                   s # section \/ o # option => cfg'.items[s][o] = cfg.items[s][o]
            /\ IF section = "global" /\ option \in cfg.locked /\ ~asap
               THEN cfg'.items = cfg.items /\ cfg'.locked = cfg.locked
               ELSE /\ cfg'.items[section][option] = x
                    /\ cfg'.locked = IF asap /\ section = "global"
                                     THEN cfg.locked \cup {option} ELSE cfg.locked
        BY <2>15, <2>8 DEF ParsedInto
      <3>2. asap => option = FRI /\ x = FRI_ASAP
        BY DEF IsAsap, FRI, ValueOf
      <3> HIDE DEF x, asap
      <3>3. x # Unset /\ x \in Values \cup {Unset}
        BY <3>1 DEF Values, Unset
      <3>4. said' = [said EXCEPT ![section] = [said[section] EXCEPT ![option] = x]]
        BY <2>4, <2>8 DEF x
      <3>5. said[section] \in ItemType
        BY <2>2
      <3>6. [said[section] EXCEPT ![option] = x] \in ItemType
        BY <3>1, <3>3, <3>5 DEF ItemType, Values
      <3>7. said' \in [Sections -> ItemType]
        BY <2>2, <3>4, <3>6
      <3>8. said'[section] = [said[section] EXCEPT ![option] = x]
        BY <2>2, <3>4
      <3>9. said'[section][option] = x
        BY <3>1, <3>5, <3>8 DEF ItemType
      <3>10. \A s \in Sections, o \in Options : s # section \/ o # option => said'[s][o] = said[s][o]
        BY <2>2, <3>4, <3>5, <3>8 DEF ItemType
      <3>11. CTypeInv'
        BY <2>5, <2>6, <3>7
      <3>12. TableNamed'
        BY <1>4, <2>6 DEF TableNamed
      <3>13. PortsRight'
        <4> SUFFICES ASSUME NEW p \in PortNames, NEW o \in Options PROVE cfg'.items[p][o] = said'[p][o]
          BY DEF PortsRight
        <4>1. p \in Sections /\ p # "global" /\ cfg.items[p][o] = said[p][o]
          BY <1>0, ConfigAssumption DEF Sections, Settled, PortsRight
        <4> QED
          BY <4>1, <3>1, <3>9, <3>10
      <3>14. Locks' /\ GlobalRight'
        <4> SUFFICES ASSUME NEW o \in Settable
                     PROVE  /\ cli[o] # Unset => o \in cfg'.locked
                            /\ o \in cfg'.locked => cli[o] # Unset \/ (o = FRI /\ AsapSaid')
                            /\ \/ cfg'.items["global"][o] = Expected(o)'
                               \/ o = FRI /\ AsapSaid' /\ o \in cfg'.locked
          BY DEF Locks, GlobalRight
        <4>1. /\ o \in Options
              /\ cli[o] # Unset => o \in cfg.locked
              /\ o \in cfg.locked => cli[o] # Unset \/ (o = FRI /\ cfg.items["global"][o] = FRI_ASAP)
              /\ \/ cfg.items["global"][o] = Expected(o)
                 \/ o = FRI /\ cfg.items["global"][o] = FRI_ASAP /\ o \in cfg.locked
          BY <1>0 DEF Settled, Locks, GlobalRight, AsapSaid, FRI, Settable
        <4>2. AsapSaid' <=> cfg'.items["global"][FRI] = FRI_ASAP
          BY DEF AsapSaid, FRI
        <4>3. CASE section # "global" \/ o # option
          <5>1. cfg'.items["global"][o] = cfg.items["global"][o] /\ said'["global"][o] = said["global"][o]
            BY <1>0, <3>1, <3>10, <4>1, <4>3
          <5>2. o \in cfg'.locked <=> o \in cfg.locked
            BY <3>1, <4>3
          <5>3. Expected(o)' = Expected(o)
            BY <5>1 DEF Expected
          <5> QED
            BY <4>1, <4>2, <5>1, <5>2, <5>3
        <4>4. CASE section = "global" /\ o = option /\ option \in cfg.locked /\ ~asap
          <5>1. cfg'.items = cfg.items /\ cfg'.locked = cfg.locked
            BY <3>1, <4>4
          <5>2. CASE cli[o] # Unset
            BY <4>1, <4>2, <5>1, <5>2 DEF Expected
          <5>3. CASE cli[o] = Unset
            BY <4>1, <4>2, <4>4, <5>1, <5>3
          <5> QED
            BY <5>2, <5>3
        <4>5. CASE section = "global" /\ o = option /\ asap
          BY <3>1, <3>2, <4>1, <4>2, <4>5
        <4>6. CASE section = "global" /\ o = option /\ ~asap /\ option \notin cfg.locked
          <5>1. cfg'.items["global"][o] = x /\ cfg'.locked = cfg.locked /\ said'["global"][o] = x
            BY <3>1, <3>9, <4>6
          <5>2. cli[o] = Unset
            BY <4>1, <4>6
          <5>3. Expected(o)' = x
            BY <5>1, <5>2, <3>3 DEF Expected
          <5> QED
            BY <4>1, <4>6, <5>1, <5>2, <5>3
        <4> QED
          BY <4>3, <4>4, <4>5, <4>6
      <3>15. Permits'
        <4> SUFFICES ASSUME NEW o \in Options PROVE Permitted(o, cfg'.items["global"][o])
          BY DEF Permits
        <4>1. Permitted(o, cfg.items["global"][o])
          BY <1>0 DEF Settled, Permits
        <4>2. CASE section # "global" \/ o # option
          <5>1. cfg'.items["global"][o] = cfg.items["global"][o]
            BY <1>0, <3>1, <4>2
          <5> QED
            BY <4>1, <5>1
        <4>3. CASE section = "global" /\ o = option
          BY <3>1, <4>1, <4>3
        <4> QED
          BY <4>2, <4>3
      <3> QED
        BY <3>11, <3>12, <3>13, <3>14, <3>15 DEF Settled
    <2> QED
      BY <2>7, <2>8
  <1> QED
    BY <1>1, <1>2, <1>3, <1>4

\* An argument sets an option for good.
LEMMA ArgumentSets ==
    ASSUME CTypeInv, Settled, cfg.ok, NEW option \in Options, NEW x \in Values, Permitted(option, x),
           cfg' \in CfgType, SameTables(cfg, cfg'), cfg'.section = cfg.section,
           \A s \in Sections, o \in Options :
              s # "global" \/ o # option => cfg'.items[s][o] = cfg.items[s][o],
           cfg'.items["global"][option] = x, cfg'.locked = cfg.locked \cup {option},
           cli' = [cli EXCEPT ![option] = x],
           UNCHANGED <<phase, lines, said, named>>, args' \in Nat
    PROVE  CTypeInv' /\ Settled'
  <1> USE DEF CTypeInv
  <1>0. "global" \in Sections /\ x # Unset /\ x \in Values \cup {Unset}
    BY DEF Sections, Values, Unset
  <1>1. cli' \in ItemType
    BY <1>0 DEF ItemType, Values
  <1>2. CTypeInv'
    BY <1>1 DEF SameTables
  <1>3. TableNamed'
    BY DEF TableNamed, Settled, SameTables
  <1>4. PortsRight'
    <2> SUFFICES ASSUME NEW p \in PortNames, NEW o \in Options PROVE cfg'.items[p][o] = said'[p][o]
      BY DEF PortsRight
    <2>1. p \in Sections /\ p # "global" /\ cfg.items[p][o] = said[p][o]
      BY ConfigAssumption DEF Sections, Settled, PortsRight
    <2> QED
      BY <2>1
  <1>5. /\ cli'[option] = x
        /\ \A o \in Options : o # option => cli'[o] = cli[o]
    BY DEF ItemType
  <1>6. \A o \in Options : o # option => cfg'.items["global"][o] = cfg.items["global"][o]
    BY <1>0
  <1>7. Permits'
    BY <1>6 DEF Permits, Settled
  <1>8. Locks' /\ GlobalRight'
    <2> SUFFICES ASSUME NEW o \in Settable
                 PROVE  /\ cli'[o] # Unset => o \in cfg'.locked
                        /\ o \in cfg'.locked => cli'[o] # Unset \/ (o = FRI /\ AsapSaid')
                        /\ \/ cfg'.items["global"][o] = Expected(o)'
                           \/ o = FRI /\ AsapSaid' /\ o \in cfg'.locked
      BY DEF Locks, GlobalRight
    <2>1. /\ o \in Options
          /\ cli[o] # Unset => o \in cfg.locked
          /\ o \in cfg.locked => cli[o] # Unset \/ (o = FRI /\ cfg.items["global"][o] = FRI_ASAP)
          /\ \/ cfg.items["global"][o] = Expected(o)
             \/ o = FRI /\ cfg.items["global"][o] = FRI_ASAP /\ o \in cfg.locked
      BY DEF Settled, Locks, GlobalRight, AsapSaid, FRI, Settable
    <2>2. AsapSaid' <=> cfg'.items["global"][FRI] = FRI_ASAP
      BY DEF AsapSaid, FRI
    <2>3. CASE o = option
      <3>1. Expected(o)' = x
        BY <1>0, <1>5, <2>3 DEF Expected
      <3> QED
        BY <1>0, <1>5, <2>3, <3>1
    <2>4. CASE o # option
      <3>1. Expected(o)' = Expected(o) /\ cli'[o] = cli[o]
        BY <1>5, <2>1, <2>4 DEF Expected
      <3> QED
        BY <1>6, <2>1, <2>2, <2>4, <3>1
    <2> QED
      BY <2>3, <2>4
  <1> QED
    BY <1>2, <1>3, <1>4, <1>7, <1>8 DEF Settled

\* So does the action.
LEMMA ArgumentKeeps ==
    ASSUME CTypeInv, Settled, Argument
    PROVE  CTypeInv' /\ Settled'
  <1>0. /\ cfg.ok /\ args' = args + 1 /\ UNCHANGED <<phase, lines, rest, said, named>>
        /\ cfg \in CfgType /\ args' \in Nat /\ "global" \in Sections
    BY DEF Argument, CTypeInv, Sections
  <1>1. ASSUME NEW s \in Settings, LongOption(s)
        PROVE  CTypeInv' /\ Settled'
    <2> DEFINE option == check_deprecated_options(s.option)
    <2>1. s.value.n \in Int
      BY ConfigAssumption DEF SettingType
    <2>2. cfg' = parse_item(cfg, TRUE, "global", option, s.value)
      BY <1>1 DEF LongOption, config_parse_option
    <2>3. ParsedInto(cfg, TRUE, "global", option, s.value, cfg')
      BY <1>0, <2>1, <2>2, ParseItem
    <2>4. cli' = IF ~cfg'.ok THEN cli ELSE [cli EXCEPT ![option] = ValueOf(option, s.value)]
      BY <1>1 DEF LongOption
    <2> HIDE DEF option
    <2>5. CASE ~cfg'.ok
      BY <1>0, <2>3, <2>4, <2>5 DEF Settled, CTypeInv, ParsedInto, SameTables
    <2>6. CASE cfg'.ok
      <3> DEFINE x == ValueOf(option, s.value)
      <3>1. /\ option \in Options /\ x \in Values /\ Permitted(option, x)
            /\ cfg' \in CfgType /\ SameTables(cfg, cfg') /\ cfg'.section = cfg.section
            /\ \A t \in Sections, o \in Options :
                  t # "global" \/ o # option => cfg'.items[t][o] = cfg.items[t][o]
            /\ cfg'.items["global"][option] = x /\ cfg'.locked = cfg.locked \cup {option}
        BY <2>3, <2>6 DEF ParsedInto
      <3>2. cli' = [cli EXCEPT ![option] = x]
        BY <2>4, <2>6
      <3> HIDE DEF x
      <3> QED
        BY <1>0, <3>1, <3>2, ArgumentSets
    <2> QED
      BY <2>5, <2>6
  <1>2. ASSUME NEW p \in PortNames, cfg' = config_create_interface(cfg, p), UNCHANGED cli
        PROVE  CTypeInv' /\ Settled'
    <2>1. /\ cfg' \in CfgType /\ cfg'.tables = cfg.tables /\ cfg'.table = cfg.table
          /\ cfg'.items = cfg.items /\ cfg'.locked = cfg.locked /\ cfg'.section = cfg.section
      BY <1>0, <1>2, InterfaceRight
    <2>2. CTypeInv'
      BY <1>0, <1>2, <2>1 DEF CTypeInv
    <2>3. Settled'
      BY <1>0, <1>2, <2>1 DEF Settled, Locks, GlobalRight, PortsRight, AsapSaid, Expected, Permits,
                              TableNamed
    <2> QED
      BY <2>2, <2>3
  <1>3. ASSUME NEW option \in Options, NEW x \in Values, Permitted(option, x), Switch(option, x)
        PROVE  CTypeInv' /\ Settled'
    <2> DEFINE locks == cfg.locked \cup {option}
    <2>1. cfg' = Stored(cfg, "global", option, x, locks) /\ cli' = [cli EXCEPT ![option] = x]
      BY <1>3 DEF Switch, config_set, Stored
    <2>2. locks \in SUBSET Options
      BY <1>0 DEF CfgType
    <2> HIDE DEF locks
    <2>3. /\ cfg' \in CfgType /\ SameTables(cfg, cfg') /\ cfg'.section = cfg.section
          /\ cfg'.locked = locks /\ cfg'.items["global"][option] = x
          /\ \A s \in Sections, o \in Options :
                s # "global" \/ o # option => cfg'.items[s][o] = cfg.items[s][o]
      BY <1>0, <2>1, <2>2, Stores
    <2>4. cfg'.locked = cfg.locked \cup {option}
      BY <2>3 DEF locks
    <2> QED
      BY <1>0, <1>3, <2>1, <2>3, <2>4, ArgumentSets
  <1>4. /\ timestamping_enu.hardware = 1 /\ timestamping_enu.software = 0
        /\ {0, 1} \subseteq Values /\ {"time_stamping", "clientOnly"} \subseteq Options
        /\ Permitted("time_stamping", 0) /\ Permitted("time_stamping", 1) /\ Permitted("clientOnly", 1)
    BY OptionsAre DEF timestamping_enu, Values, OptionNames, Permitted
  <1>5. CASE \E s \in Settings : LongOption(s)
    BY <1>1, <1>5
  <1>6. CASE \E p \in PortNames : cfg' = config_create_interface(cfg, p) /\ UNCHANGED cli
    BY <1>2, <1>6
  <1>7. CASE \/ Switch("time_stamping", timestamping_enu.hardware)
             \/ Switch("time_stamping", timestamping_enu.software)
             \/ Switch("clientOnly", 1)
    BY <1>3, <1>4, <1>7
  <1> QED
    BY <1>5, <1>6, <1>7 DEF Argument

-----------------------------------------------------------------------------
\* The lines that timemaster adds.
Global == SectionLine("global")
Client == Setting("clientOnly", Num(1))
Domain == Setting("domainNumber", Num(3))

\* An option of the global section is as timemaster meant it.
As(o) == cli[o] = Unset => cfg.items["global"][o] = Meant[o]

\* What is left of a generated file, and what the part that was read has set.
RestInv ==
    /\ phase = "file" /\ rest # <<>> /\ lines = 0 => cfg.section = "global"
    /\ phase = "rest" =>
          /\ cfg.ok
          /\ \/ rest = <<Global, Client, Domain>>
             \/ \E x \in SourceSettings : rest = <<Global, x, Client, Domain>>
             \/ /\ cfg.section = "global"
                /\ \/ \E x \in SourceSettings : rest = <<x, Client, Domain>>
                   \/ rest = <<Client, Domain>>
                   \/ rest = <<Domain>> /\ As("clientOnly")
                   \/ rest = <<>> /\ As("clientOnly") /\ As("domainNumber")

ConfigInv == CTypeInv /\ Settled /\ RestInv /\ OneStepAgrees

\* A setting that is in order is not refused in the global section, and it is not
\* spared unless the command line has set it.
LEMMA OwnSetting ==
    ASSUME CTypeInv, Settled, cfg.section = "global", NEW o \in {"clientOnly", "domainNumber"},
           NEW v, v.n \in Int, Verdict(o, v) = "PARSED_OK", NEW line,
           line.kind = "setting", line.option = o, line.value = v, Read(line)
    PROVE  /\ cfg'.ok /\ cfg'.section = "global"
           /\ cli[o] = Unset => cfg'.items["global"][o] = v.n
           /\ \A p \in Options : p # o => cfg'.items["global"][p] = cfg.items["global"][p]
  <1>0. cfg \in CfgType /\ "global" \in Sections /\ cfg.ok
    BY DEF CTypeInv, Sections, Read
  <1>1. o \in Options /\ o \in Settable /\ o # FRI /\ o # "time_stamping" /\ ~IsAsap(o, v)
    BY OptionsAre DEF OptionNames, Settable, Harmonized, FRI, IsAsap
  <1>2. check_deprecated_options(o) = o
    BY DEF check_deprecated_options
  <1>3. cfg' = parse_item(cfg, FALSE, "global", o, v)
    BY <1>2 DEF Read, config_line
  <1>4. ParsedInto(cfg, FALSE, "global", o, v, cfg')
    BY <1>0, <1>3, ParseItem
  <1>5. cfg'.ok
    <2>1. CASE o \in cfg.locked
      BY <1>0, <1>1, <1>3, <2>1 DEF parse_item
    <2>2. CASE o \notin cfg.locked
      <3> DEFINE locks == cfg.locked
      <3>1. cfg' = Stored(cfg, "global", o, Parsed(o, v), locks)
        BY <1>0, <1>1, <1>3, <2>2 DEF parse_item, Stored
      <3>2. Parsed(o, v) \in Values /\ locks \in SUBSET Options
        BY <1>0, <1>1, ParsedTyped DEF CfgType
      <3> HIDE DEF locks
      <3> DEFINE y == Parsed(o, v)
      <3>3. y \in Values /\ cfg' = Stored(cfg, "global", o, y, locks)
        BY <3>1, <3>2
      <3> HIDE DEF y
      <3>4. cfg'.ok = cfg.ok
        BY <1>0, <1>1, <3>2, <3>3, Stores
      <3> QED
        BY <1>0, <3>4
    <2> QED
      BY <2>1, <2>2
  <1>6. ValueOf(o, v) = v.n
    BY <1>1, TabFacts DEF ValueOf, Parsed
  <1>7. cli[o] = Unset => o \notin cfg.locked
    BY <1>0, <1>1 DEF Settled, Locks
  <1>8. /\ \A s \in Sections, p \in Options :
              s # "global" \/ p # o => cfg'.items[s][p] = cfg.items[s][p]
        /\ IF o \in cfg.locked THEN cfg'.items = cfg.items
           ELSE cfg'.items["global"][o] = ValueOf(o, v)
        /\ cfg'.section = cfg.section
    BY <1>1, <1>4, <1>5 DEF ParsedInto
  <1> QED
    BY <1>0, <1>5, <1>6, <1>7, <1>8

\* The lines that timemaster writes are in order.
LEMMA OwnValues ==
    /\ Verdict("clientOnly", Num(1)) = "PARSED_OK" /\ Verdict("domainNumber", Num(3)) = "PARSED_OK"
    /\ Num(1).n = 1 /\ Num(3).n = 3
    /\ Meant["clientOnly"] = 1 /\ Meant["domainNumber"] = 3
    /\ DOMAIN Meant = {"clientOnly", "domainNumber"}
  <1>1. config_tab["clientOnly"] = Item("INT", FALSE, 0, 0, 1)
    BY DEF config_tab
  <1>2. config_tab["domainNumber"] = Item("INT", FALSE, 0, 0, 255)
    BY DEF config_tab
  <1>3. Verdict("clientOnly", Num(1)) = "PARSED_OK"
    BY <1>1 DEF Verdict, get_ranged_int, Num, Item
  <1>4. Verdict("domainNumber", Num(3)) = "PARSED_OK"
    BY <1>2 DEF Verdict, get_ranged_int, Num, Item
  <1>5. Num(1).n = 1 /\ Num(3).n = 3
    BY DEF Num
  <1>6. /\ Meant["clientOnly"] = 1 /\ Meant["domainNumber"] = 3
        /\ DOMAIN Meant = {"clientOnly", "domainNumber"}
    BY DEF Meant
  <1> QED
    BY <1>3, <1>4, <1>5, <1>6

\* Sequences of up to four lines.
LEMMA Heads ==
    ASSUME NEW a, NEW b, NEW c, NEW d
    PROVE  /\ Head(<<a, b, c, d>>) = a /\ Tail(<<a, b, c, d>>) = <<b, c, d>>
           /\ Head(<<a, b, c>>) = a /\ Tail(<<a, b, c>>) = <<b, c>>
           /\ Head(<<a, b>>) = a /\ Tail(<<a, b>>) = <<b>>
           /\ Head(<<a>>) = a /\ Tail(<<a>>) = <<>>
  OBVIOUS

\* Files of timemaster, piece by piece.
LEMMA JoinOneOne ==
    ASSUME NEW a, NEW b
    PROVE  <<a>> \o <<b>> = <<a, b>>
  <1> DEFINE S == {a, b}
  <1> DEFINE u == <<a>>
  <1> DEFINE w == <<b>>
  <1> DEFINE s == u \o w
  <1> DEFINE t == <<a, b>>
  <1>1. /\ u \in Seq(S) /\ w \in Seq(S) /\ Len(u) = 1 /\ Len(w) = 1
        /\ t \in Seq(S) /\ Len(t) = 2
    OBVIOUS
  <1>2. /\ u[1] = a
        /\ w[1] = b
        /\ t[1] = a /\ t[2] = b
    OBVIOUS
  <1>3. \A i \in 1..2 : i = 1 \/ i = 2
    OBVIOUS
  <1> HIDE DEF S, u, w, t
  <1>4. s \in Seq(S) /\ Len(s) = 2 /\ s[1] = a /\ s[2] = b
    BY <1>1, <1>2, ConcatProperties
  <1> HIDE DEF s
  <1>5. \A i \in 1..Len(s) : s[i] = t[i]
    BY <1>2, <1>3, <1>4
  <1>6. s = t
    BY <1>1, <1>4, <1>5, SeqEqual
  <1> QED
    BY <1>6 DEF s, t, u, w

\* One and two lines.
LEMMA JoinOneTwo ==
    ASSUME NEW a, NEW b, NEW c
    PROVE  <<a>> \o <<b, c>> = <<a, b, c>>
  <1> DEFINE S == {a, b, c}
  <1> DEFINE u == <<a>>
  <1> DEFINE w == <<b, c>>
  <1> DEFINE s == u \o w
  <1> DEFINE t == <<a, b, c>>
  <1>1. /\ u \in Seq(S) /\ w \in Seq(S) /\ Len(u) = 1 /\ Len(w) = 2
        /\ t \in Seq(S) /\ Len(t) = 3
    OBVIOUS
  <1>2. /\ u[1] = a
        /\ w[1] = b /\ w[2] = c
        /\ t[1] = a /\ t[2] = b /\ t[3] = c
    OBVIOUS
  <1>3. \A i \in 1..3 : i = 1 \/ i = 2 \/ i = 3
    OBVIOUS
  <1> HIDE DEF S, u, w, t
  <1>4. s \in Seq(S) /\ Len(s) = 3 /\ s[1] = a /\ s[2] = b /\ s[3] = c
    BY <1>1, <1>2, ConcatProperties
  <1> HIDE DEF s
  <1>5. \A i \in 1..Len(s) : s[i] = t[i]
    BY <1>2, <1>3, <1>4
  <1>6. s = t
    BY <1>1, <1>4, <1>5, SeqEqual
  <1> QED
    BY <1>6 DEF s, t, u, w

\* Two and two lines.
LEMMA JoinTwoTwo ==
    ASSUME NEW a, NEW b, NEW c, NEW d
    PROVE  <<a, b>> \o <<c, d>> = <<a, b, c, d>>
  <1> DEFINE S == {a, b, c, d}
  <1> DEFINE u == <<a, b>>
  <1> DEFINE w == <<c, d>>
  <1> DEFINE s == u \o w
  <1> DEFINE t == <<a, b, c, d>>
  <1>1. /\ u \in Seq(S) /\ w \in Seq(S) /\ Len(u) = 2 /\ Len(w) = 2
        /\ t \in Seq(S) /\ Len(t) = 4
    OBVIOUS
  <1>2. /\ u[1] = a /\ u[2] = b
        /\ w[1] = c /\ w[2] = d
        /\ t[1] = a /\ t[2] = b /\ t[3] = c /\ t[4] = d
    OBVIOUS
  <1>3. \A i \in 1..4 : i = 1 \/ i = 2 \/ i = 3 \/ i = 4
    OBVIOUS
  <1> HIDE DEF S, u, w, t
  <1>4. s \in Seq(S) /\ Len(s) = 4 /\ s[1] = a /\ s[2] = b /\ s[3] = c /\ s[4] = d
    <2>1. /\ s \in Seq(S) /\ Len(s) = Len(u) + Len(w)
          /\ \A i \in 1..(Len(u) + Len(w)) : s[i] = IF i <= Len(u) THEN u[i] ELSE w[i - Len(u)]
      <3>1. u \in Seq(S) /\ w \in Seq(S)
        BY <1>1
      <3> QED
        BY <3>1, ConcatProperties
    <2> HIDE DEF s
    <2> QED
      BY <1>1, <1>2, <2>1
  <1> HIDE DEF s
  <1>5. \A i \in 1..Len(s) : s[i] = t[i]
    BY <1>2, <1>3, <1>4
  <1>6. s = t
    BY <1>1, <1>4, <1>5, SeqEqual
  <1> QED
    BY <1>6 DEF s, t, u, w

\* No lines of the user.
LEMMA JoinNothing ==
    ASSUME NEW a, NEW b
    PROVE  /\ <<a>> \o <<>> = <<a>> /\ <<>> \o <<a>> = <<a>>
           /\ (<<>> \o <<>>) \o <<a, b>> = <<a, b>>
  OBVIOUS

\* What the environment writes are lines.
LEMMA LinesAreLines ==
    /\ IsLine(Global) /\ IsLine(Client) /\ IsLine(Domain)
    /\ \A x \in SourceSettings :
          /\ IsLine(x) /\ x.kind = "setting" /\ x.option = "domainNumber" /\ x.value.n \in Int
          /\ Verdict("domainNumber", x.value) = "PARSED_OK"
    /\ Client.kind = "setting" /\ Client.option = "clientOnly" /\ Client.value = Num(1)
    /\ Domain.kind = "setting" /\ Domain.option = "domainNumber" /\ Domain.value = Num(3)
  <1>1. ASSUME NEW x \in SourceSettings
        PROVE  /\ IsLine(x) /\ x.kind = "setting" /\ x.option = "domainNumber" /\ x.value.n \in Int
               /\ Verdict("domainNumber", x.value) = "PARSED_OK"
    <2>1. x \in SettingType /\ x.option = "domainNumber" /\ Verdict(x.option, x.value) = "PARSED_OK"
      BY ConfigAssumption DEF SourceSettings
    <2> QED
      BY <2>1 DEF IsLine, SettingType
  <1>2. IsLine(Global)
    BY DEF Global, IsLine, SectionLine, Sections
  <1>3. /\ Client.kind = "setting" /\ Client.option = "clientOnly" /\ Client.value = Num(1)
        /\ Domain.kind = "setting" /\ Domain.option = "domainNumber" /\ Domain.value = Num(3)
    BY DEF Client, Domain, Setting
  <1>4. IsLine(Client) /\ IsLine(Domain)
    BY <1>3, OwnValues DEF IsLine
  <1> QED
    BY <1>1, <1>2, <1>3, <1>4

\* A line of a generated file.
LEMMA GeneratedLineKeeps ==
    ASSUME ConfigInv, GeneratedLine
    PROVE  ConfigInv'
  <1>0. /\ phase = "rest" /\ phase' = phase /\ rest # <<>> /\ Read(Head(rest)) /\ rest' = Tail(rest)
        /\ UNCHANGED <<args, lines, cli>> /\ CTypeInv /\ Settled /\ cfg \in CfgType
    BY DEF GeneratedLine, ConfigInv, CTypeInv
  <1>1. /\ {"clientOnly", "domainNumber"} \subseteq Options /\ "global" \in Sections
    BY OptionsAre DEF OptionNames, Sections
  <1>2. ASSUME NEW line, IsLine(line), Read(line) PROVE CTypeInv' /\ Settled'
    BY <1>0, <1>2, ReadKeeps DEF CTypeInv
  <1>3. \A x \in SourceSettings :
           /\ IsLine(x) /\ x.kind = "setting" /\ x.option = "domainNumber" /\ x.value.n \in Int
           /\ Verdict("domainNumber", x.value) = "PARSED_OK"
    BY LinesAreLines
  <1>4. /\ IsLine(Global) /\ IsLine(Client) /\ IsLine(Domain)
        /\ Client.kind = "setting" /\ Client.option = "clientOnly" /\ Client.value = Num(1)
        /\ Domain.kind = "setting" /\ Domain.option = "domainNumber" /\ Domain.value = Num(3)
    BY LinesAreLines
  <1>5. OneStepAgrees'
    BY <1>0 DEF OneStepAgrees
  <1>6. CASE Head(rest) = Global
    <2>1. cfg' = parse_section_line(cfg, "global")
      <3>1. Global.kind = "section" /\ Global.name = "global"
        BY DEF Global, SectionLine
      <3> QED
        BY <1>0, <1>6, <3>1 DEF Read, config_line
    <2>2. cfg'.ok = cfg.ok /\ cfg'.section = "global"
      BY <1>0, <1>1, <2>1, SectionLineRight
    <2>3. Global # Client /\ Global # Domain /\ \A x \in SourceSettings : x # Global
      <3>1. Global.kind = "section" /\ Client.kind = "setting" /\ Domain.kind = "setting"
        BY DEF Global, SectionLine, Client, Domain, Setting
      <3>2. \A x \in SourceSettings : x.kind = "setting"
        BY ConfigAssumption DEF SourceSettings, SettingType
      <3> QED
        BY <3>1, <3>2
    <2>4. \/ rest = <<Global, Client, Domain>>
          \/ \E x \in SourceSettings : rest = <<Global, x, Client, Domain>>
      BY <1>0, <1>6, <2>3, Heads DEF ConfigInv, RestInv
    <2>5. \/ rest' = <<Client, Domain>>
          \/ \E x \in SourceSettings : rest' = <<x, Client, Domain>>
      <3>1. CASE rest = <<Global, Client, Domain>>
        BY <1>0, <3>1, Heads
      <3>2. ASSUME NEW x \in SourceSettings, rest = <<Global, x, Client, Domain>>
            PROVE  rest' = <<x, Client, Domain>>
        BY <1>0, <3>2, Heads
      <3> QED
        BY <2>4, <3>1, <3>2
    <2>6. RestInv'
      BY <1>0, <2>2, <2>5 DEF RestInv, Read
    <2> QED
      BY <1>0, <1>2, <1>4, <1>5, <1>6, <2>6 DEF ConfigInv
  <1>7. cfg.section = "global" \/ Head(rest) = Global
    BY <1>0, Heads DEF ConfigInv, RestInv
  <1>8. ASSUME cfg.section = "global", NEW x \in SourceSettings, rest = <<x, Client, Domain>>
        PROVE  ConfigInv'
    <2>1. Read(x) /\ rest' = <<Client, Domain>>
      BY <1>0, <1>8, Heads
    <2>2. cfg'.ok /\ cfg'.section = "global"
      BY <1>0, <1>3, <1>8, <2>1, OwnSetting
    <2>3. RestInv'
      BY <1>0, <2>1, <2>2 DEF RestInv
    <2> QED
      BY <1>2, <1>3, <1>5, <1>8, <2>1, <2>3 DEF ConfigInv
  <1>9. CASE cfg.section = "global" /\ rest = <<Client, Domain>>
    <2>1. Read(Client) /\ rest' = <<Domain>>
      BY <1>0, <1>9, Heads
    <2>2. cfg'.ok /\ cfg'.section = "global" /\ (cli["clientOnly"] = Unset => cfg'.items["global"]["clientOnly"] = 1)
      BY <1>0, <1>4, <1>9, <2>1, OwnSetting, OwnValues
    <2>3. As("clientOnly")'
      BY <1>0, <2>2, OwnValues DEF As
    <2>4. RestInv'
      BY <1>0, <2>1, <2>2, <2>3 DEF RestInv
    <2> QED
      BY <1>2, <1>4, <1>5, <2>1, <2>4 DEF ConfigInv
  <1>10. CASE cfg.section = "global" /\ rest = <<Domain>> /\ As("clientOnly")
    <2>1. Read(Domain) /\ rest' = <<>>
      BY <1>0, <1>10, Heads
    <2>2. /\ cfg'.ok /\ cfg'.section = "global"
          /\ cli["domainNumber"] = Unset => cfg'.items["global"]["domainNumber"] = 3
          /\ cfg'.items["global"]["clientOnly"] = cfg.items["global"]["clientOnly"]
      BY <1>0, <1>4, <1>1, <1>10, <2>1, OwnSetting, OwnValues
    <2>3. As("clientOnly")' /\ As("domainNumber")'
      BY <1>0, <1>10, <2>2, OwnValues DEF As
    <2>4. RestInv'
      BY <1>0, <2>1, <2>2, <2>3 DEF RestInv
    <2> QED
      BY <1>2, <1>4, <1>5, <2>1, <2>4 DEF ConfigInv
  <1> QED
    BY <1>0, <1>6, <1>7, <1>8, <1>9, <1>10, Heads DEF ConfigInv, RestInv

\* timemaster writes the file.
LEMMA GenerateKeeps ==
    ASSUME ConfigInv, Generate
    PROVE  ConfigInv'
  <1>0. /\ phase = "file" /\ rest # <<>> /\ cfg.ok /\ phase' = "rest"
        /\ UNCHANGED <<cfg, args, lines, cli, said, named>>
    BY DEF Generate
  <1>1. CTypeInv' /\ Settled' /\ OneStepAgrees'
    BY <1>0 DEF ConfigInv, CTypeInv, Settled, Locks, GlobalRight, PortsRight, AsapSaid, Expected, Permits,
                TableNamed, OneStepAgrees
  <1>2. PICK source \in {<<>>} \cup {<<s>> : s \in SourceSettings} :
           rest' = GlobalAgain(lines) \o source \o <<Client, Domain>>
    BY OwnValues DEF Generate, Client, Domain, Meant
  <1>3. lines \in Nat /\ (lines = 0 => cfg.section = "global")
    BY <1>0 DEF ConfigInv, CTypeInv, RestInv
  <1>4. CASE source = <<>> /\ lines = 0
    <2>1. rest' = <<Client, Domain>>
      BY <1>2, <1>4, JoinNothing DEF GlobalAgain
    <2> QED
      BY <1>0, <1>1, <1>3, <1>4, <2>1 DEF ConfigInv, RestInv
  <1>5. CASE source = <<>> /\ lines # 0
    <2>1. rest' = <<Global, Client, Domain>>
      <3>1. GlobalAgain(lines) = <<Global>>
        BY <1>5 DEF GlobalAgain, Global
      <3>2. rest' = (<<Global>> \o <<>>) \o <<Client, Domain>>
        BY <1>2, <1>5, <3>1, Zenon
      <3>3. <<Global>> \o <<>> = <<Global>>
        BY JoinNothing
      <3>4. <<Global>> \o <<Client, Domain>> = <<Global, Client, Domain>>
        BY JoinOneTwo
      <3> QED
        BY <3>2, <3>3, <3>4
    <2> QED
      BY <1>0, <1>1, <2>1 DEF ConfigInv, RestInv
  <1>6. ASSUME NEW x \in SourceSettings, source = <<x>>
        PROVE  ConfigInv'
    <2>1. CASE lines = 0
      <3>1. rest' = <<x, Client, Domain>>
        <4>1. GlobalAgain(lines) = <<>>
          BY <2>1 DEF GlobalAgain
        <4>2. rest' = (<<>> \o <<x>>) \o <<Client, Domain>>
          BY <1>2, <1>6, <4>1, Zenon
        <4>3. <<>> \o <<x>> = <<x>>
          BY JoinNothing
        <4>4. <<x>> \o <<Client, Domain>> = <<x, Client, Domain>>
          BY JoinOneTwo
        <4> QED
          BY <4>2, <4>3, <4>4
      <3> QED
        BY <1>0, <1>1, <1>3, <2>1, <3>1 DEF ConfigInv, RestInv
    <2>2. CASE lines # 0
      <3>1. rest' = <<Global, x, Client, Domain>>
        <4>1. GlobalAgain(lines) = <<Global>>
          BY <2>2 DEF GlobalAgain, Global
        <4>2. rest' = (<<Global>> \o <<x>>) \o <<Client, Domain>>
          BY <1>2, <1>6, <4>1, Zenon
        <4>3. <<Global>> \o <<x>> = <<Global, x>>
          BY JoinOneOne
        <4>4. <<Global, x>> \o <<Client, Domain>> = <<Global, x, Client, Domain>>
          BY JoinTwoTwo
        <4> QED
          BY <4>2, <4>3, <4>4
      <3> QED
        BY <1>0, <1>1, <3>1 DEF ConfigInv, RestInv
    <2> QED
      BY <2>1, <2>2
  <1> QED
    BY <1>4, <1>5, <1>6

\* A line that a user wrote.
LEMMA UserLineKeeps ==
    ASSUME ConfigInv, UserLine
    PROVE  ConfigInv'
  <1>0. /\ phase = "file" /\ lines' = lines + 1 /\ UNCHANGED <<phase, args, rest, cli>>
        /\ CTypeInv /\ Settled /\ lines \in Nat
    BY DEF UserLine, ConfigInv, CTypeInv
  <1>1. PICK line \in {SectionLine(name) : name \in Sections \cup {"unicast_master_table"}}
                       \cup Settings \cup TableLines : Read(line)
    BY DEF UserLine
  <1>2. IsLine(line)
    <2>1. CASE line \in Settings
      BY <2>1, ConfigAssumption DEF IsLine, SettingType
    <2>2. CASE line \in TableLines
      BY <2>2, ConfigAssumption DEF IsLine
    <2>3. CASE line \in {SectionLine(name) : name \in Sections \cup {"unicast_master_table"}}
      BY <2>3 DEF IsLine, SectionLine
    <2> QED
      BY <2>1, <2>2, <2>3
  <1>3. CTypeInv' /\ Settled'
    BY <1>0, <1>1, <1>2, ReadKeeps DEF CTypeInv
  <1>4. RestInv' /\ OneStepAgrees'
    BY <1>0 DEF RestInv, OneStepAgrees
  <1> QED
    BY <1>3, <1>4 DEF ConfigInv

\* A file is opened.
LEMMA OpenFileKeeps ==
    ASSUME ConfigInv, NEW generated \in BOOLEAN, OpenFile(generated)
    PROVE  ConfigInv'
  <1>0. /\ cfg.ok /\ phase' = "file" /\ UNCHANGED <<args, lines, cli, said, named>>
        /\ CTypeInv /\ Settled /\ cfg \in CfgType /\ "global" \in Sections
    BY DEF OpenFile, ConfigInv, CTypeInv, Sections
  <1>1. CASE generated
    <2>1. cfg' = parse_section_line(cfg, "global")
      <3>1. Global.kind = "section" /\ Global.name = "global"
        BY DEF Global, SectionLine
      <3>2. cfg' = config_line(cfg, Global)
        BY <1>1 DEF OpenFile, Global
      <3> QED
        BY <3>1, <3>2 DEF config_line
    <2>2. /\ cfg' \in CfgType /\ cfg'.tables = cfg.tables /\ cfg'.table \in {cfg.table, 0}
          /\ cfg'.items = cfg.items /\ cfg'.locked = cfg.locked /\ cfg'.section = "global"
      BY <1>0, <2>1, SectionLineRight
    <2>3. Len(cfg.tables) \in Nat /\ cfg.table \in Nat
      BY <1>0 DEF CfgType
    <2>4. CTypeInv'
      BY <1>0, <2>2, <2>3 DEF CTypeInv
    <2>5. Settled'
      BY <1>0, <2>2 DEF Settled, Locks, GlobalRight, PortsRight, AsapSaid, Expected, Permits, TableNamed
    <2>6. RestInv' /\ OneStepAgrees'
      BY <1>0, <2>2 DEF RestInv, OneStepAgrees
    <2> QED
      BY <2>4, <2>5, <2>6 DEF ConfigInv
  <1>2. CASE ~generated
    <2>1. cfg' = cfg /\ rest' = <<>>
      BY <1>2 DEF OpenFile
    <2>2. CTypeInv' /\ Settled'
      BY <1>0, <2>1 DEF CTypeInv, Settled, Locks, GlobalRight, PortsRight, AsapSaid, Expected, Permits,
                        TableNamed
    <2>3. RestInv' /\ OneStepAgrees'
      BY <1>0, <2>1 DEF RestInv, OneStepAgrees
    <2> QED
      BY <2>2, <2>3 DEF ConfigInv
  <1> QED
    BY <1>1, <1>2

\* What config_harmonize_onestep() sets.
LEMMA HarmonizeKeeps ==
    ASSUME CTypeInv, Settled, cfg.ok, NEW o \in Harmonized, NEW x \in Values, Permitted(o, x),
           cfg' = config_set(cfg, "global", o, x), phase' = "done",
           UNCHANGED <<args, lines, cli, said, named>>
    PROVE  /\ CTypeInv' /\ Settled' /\ cfg'.items["global"][o] = x
           /\ \A p \in Options : p # o => cfg'.items["global"][p] = cfg.items["global"][p]
  <1>0. cfg \in CfgType /\ "global" \in Sections /\ o \in Options
    BY OptionsAre DEF CTypeInv, Sections, Harmonized, OptionNames
  <1> DEFINE locks == cfg.locked \cup {o}
  <1>1. cfg' = Stored(cfg, "global", o, x, locks)
    BY DEF config_set, Stored
  <1>2. locks \in SUBSET Options
    BY <1>0 DEF CfgType
  <1> HIDE DEF locks
  <1>3. /\ cfg' \in CfgType /\ SameTables(cfg, cfg') /\ cfg'.section = cfg.section
        /\ cfg'.locked = locks /\ cfg'.items["global"][o] = x
        /\ \A s \in Sections, p \in Options :
              s # "global" \/ p # o => cfg'.items[s][p] = cfg.items[s][p]
    BY <1>0, <1>1, <1>2, Stores
  <1>4. CTypeInv'
    BY <1>3 DEF CTypeInv, SameTables
  <1>5. \A p \in Settable : /\ p \in Options /\ p # o /\ (p \in cfg'.locked <=> p \in cfg.locked)
                            /\ cfg'.items["global"][p] = cfg.items["global"][p]
    BY <1>0, <1>3 DEF Settable, locks
  <1>6. AsapSaid' <=> AsapSaid
    BY <1>5, OptionsAre DEF AsapSaid, Settable, Harmonized, OptionNames
  <1>7. Locks' /\ GlobalRight'
    BY <1>5, <1>6 DEF Settled, Locks, GlobalRight, Expected
  <1>8. PortsRight'
    <2> SUFFICES ASSUME NEW p \in PortNames, NEW q \in Options PROVE cfg'.items[p][q] = said'[p][q]
      BY DEF PortsRight
    <2>1. p \in Sections /\ p # "global" /\ cfg.items[p][q] = said[p][q]
      BY ConfigAssumption DEF Sections, Settled, PortsRight
    <2> QED
      BY <1>3, <2>1
  <1>9. Permits' /\ TableNamed'
    BY <1>0, <1>3 DEF Settled, Permits, TableNamed, SameTables
  <1> QED
    BY <1>0, <1>3, <1>4, <1>7, <1>8, <1>9 DEF Settled

\* config_read() returns, and the one-step options are harmonized.
LEMMA EndOfFileKeeps ==
    ASSUME ConfigInv, EndOfFile
    PROVE  ConfigInv'
  <1>0. /\ cfg.ok /\ phase' = "done" /\ UNCHANGED <<args, lines, rest, cli, said, named>>
        /\ CTypeInv /\ Settled /\ cfg \in CfgType /\ "global" \in Sections
    BY DEF EndOfFile, ConfigInv, CTypeInv, Sections
  <1>1. RestInv'
    BY <1>0 DEF RestInv
  <1> DEFINE ts(c) == c.items["global"]["time_stamping"]
  <1> DEFINE two(c) == c.items["global"]["twoStepFlag"]
  <1>2. {"time_stamping", "twoStepFlag"} \subseteq Options /\ Harmonized = {"time_stamping", "twoStepFlag"}
    BY OptionsAre DEF OptionNames, Harmonized
  <1>3. ts(cfg) \in 0..4 /\ two(cfg) \in 0..1
    BY <1>0, <1>2 DEF Settled, Permits, Permitted
  <1>4. CASE cfg' = Fail(cfg)
    <2>1. cfg' \in CfgType /\ ~cfg'.ok /\ cfg'.table = cfg.table /\ cfg'.tables = cfg.tables
      BY <1>0, <1>4 DEF Fail, CfgType
    <2> QED
      BY <1>0, <1>1, <2>1 DEF ConfigInv, CTypeInv, Settled, OneStepAgrees
  <1>5. CASE cfg' = cfg /\ (two(cfg) = 0 <=> ts(cfg) \in {3, 4})
    <2>1. CTypeInv' /\ Settled'
      BY <1>0, <1>5 DEF CTypeInv, Settled, Locks, GlobalRight, PortsRight, AsapSaid, Expected, Permits,
                        TableNamed
    <2>2. OneStepAgrees'
      BY <1>5 DEF OneStepAgrees
    <2> QED
      BY <1>1, <2>1, <2>2 DEF ConfigInv
  <1>6. CASE cfg' = config_set(cfg, "global", "time_stamping", 3) /\ two(cfg) = 0
    <2>1. 3 \in Values /\ Permitted("time_stamping", 3)
      BY DEF Values, Permitted
    <2>2. CTypeInv' /\ Settled' /\ ts(cfg') = 3 /\ two(cfg') = two(cfg)
      BY <1>0, <1>2, <1>6, <2>1, HarmonizeKeeps
    <2>3. OneStepAgrees'
      BY <1>6, <2>2 DEF OneStepAgrees
    <2> QED
      BY <1>1, <2>2, <2>3 DEF ConfigInv
  <1>7. CASE cfg' = config_set(cfg, "global", "twoStepFlag", 0) /\ ts(cfg) \in {3, 4}
    <2>1. 0 \in Values /\ Permitted("twoStepFlag", 0)
      BY DEF Values, Permitted
    <2>2. CTypeInv' /\ Settled' /\ two(cfg') = 0 /\ ts(cfg') = ts(cfg)
      BY <1>0, <1>2, <1>7, <2>1, HarmonizeKeeps
    <2>3. OneStepAgrees'
      BY <1>7, <2>2 DEF OneStepAgrees
    <2> QED
      BY <1>1, <2>2, <2>3 DEF ConfigInv
  <1>8. CASE cfg' = config_harmonize_onestep(cfg)
    <2>1. CASE ts(cfg) \in {0, 2} /\ two(cfg) = 0
      BY <1>4, <1>8, <2>1 DEF config_harmonize_onestep
    <2>2. CASE ts(cfg) = 1 /\ two(cfg) = 0
      BY <1>6, <1>8, <2>2 DEF config_harmonize_onestep
    <2>3. CASE ts(cfg) \in {3, 4} /\ two(cfg) = 1
      BY <1>7, <1>8, <2>3 DEF config_harmonize_onestep
    <2>4. CASE \/ ts(cfg) \in {0, 1, 2} /\ two(cfg) = 1
               \/ ts(cfg) \in {3, 4} /\ two(cfg) = 0
      BY <1>5, <1>8, <2>4 DEF config_harmonize_onestep
    <2>5. \A n \in 0..4, m \in 0..1 : \/ n \in {0, 2} /\ m = 0
                                      \/ n = 1 /\ m = 0
                                      \/ n \in {3, 4} /\ m = 1
                                      \/ n \in {0, 1, 2} /\ m = 1
                                      \/ n \in {3, 4} /\ m = 0
      OBVIOUS
    <2> QED
      BY <1>3, <2>1, <2>2, <2>3, <2>4, <2>5
  <1> QED
    BY <1>4, <1>8 DEF EndOfFile

\* The initial state.
LEMMA ConfigStart == CInit => ConfigInv
  <1> SUFFICES ASSUME CInit PROVE ConfigInv
    OBVIOUS
  <1>0. /\ cfg = config_create /\ phase = "args" /\ args = 0 /\ lines = 0 /\ named = 0
        /\ cli = [o \in Options |-> Unset] /\ said = [s \in Sections |-> [o \in Options |-> Unset]]
        /\ "global" \in Sections
    BY DEF CInit, Sections
  <1>1. \A o \in Options : config_tab[o].default \in -128..255 \cup {Unset}
    BY TabFacts
  <1>2. /\ cfg.items = [s \in Sections |->
                          [o \in Options |-> IF s = "global" THEN config_tab[o].default ELSE Unset]]
        /\ cfg.locked = {} /\ cfg.interfaces = <<>> /\ cfg.tables = <<>> /\ cfg.section = "unknown"
        /\ cfg.table = 0 /\ cfg.ok
    BY <1>0 DEF config_create
  <1>3. cfg.items \in [Sections -> ItemType]
    BY <1>1, <1>2 DEF ItemType
  <1>4. cfg \in CfgType
    <2> DEFINE items == cfg.items
    <2>1. cfg = [items |-> items, locked |-> {}, interfaces |-> <<>>, tables |-> <<>>,
                 section |-> "unknown", table |-> 0, ok |-> TRUE]
      BY <1>0, <1>2 DEF config_create
    <2>2. items \in [Sections -> ItemType]
      BY <1>3
    <2> HIDE DEF items
    <2> QED
      BY <2>1, <2>2 DEF CfgType
  <1>5. CTypeInv
    BY <1>0, <1>2, <1>4 DEF CTypeInv, ItemType
  <1>6. \A o \in Options : /\ cfg.items["global"][o] = config_tab[o].default /\ cli[o] = Unset
                            /\ said["global"][o] = Unset
    BY <1>0, <1>2
  <1>7. Locks /\ GlobalRight /\ TableNamed
    BY <1>2, <1>6 DEF Locks, GlobalRight, Expected, Settable, TableNamed
  <1>8. PortsRight
    <2> SUFFICES ASSUME NEW p \in PortNames, NEW o \in Options PROVE cfg.items[p][o] = said[p][o]
      BY DEF PortsRight
    <2>1. p \in Sections /\ p # "global"
      BY ConfigAssumption DEF Sections
    <2> QED
      BY <1>0, <1>2, <2>1
  <1>9. Permits
    <2>1. config_tab["twoStepFlag"] = Item("INT", FALSE, 1, 0, 1)
      BY DEF config_tab
    <2>2. config_tab["time_stamping"] = Item("ENUM", FALSE, 1, 0, 4)
      BY DEF config_tab
    <2>3. config_tab["twoStepFlag"].default = 1 /\ config_tab["time_stamping"].default = 1
      BY <2>1, <2>2 DEF Item
    <2> QED
      BY <1>6, <2>3 DEF Permits, Permitted
  <1>10. RestInv /\ OneStepAgrees
    BY <1>0 DEF RestInv, OneStepAgrees
  <1> QED
    BY <1>5, <1>7, <1>8, <1>9, <1>10 DEF ConfigInv, Settled

\* Every step.
LEMMA ConfigStep == ConfigInv /\ [CNext]_cvars => ConfigInv'
  <1> SUFFICES ASSUME ConfigInv, [CNext]_cvars PROVE ConfigInv'
    OBVIOUS
  <1>1. CASE Argument
    <2>1. CTypeInv' /\ Settled'
      BY <1>1, ArgumentKeeps DEF ConfigInv
    <2>2. phase' = "args"
      BY <1>1 DEF Argument
    <2>3. RestInv' /\ OneStepAgrees'
      BY <2>2 DEF RestInv, OneStepAgrees
    <2> QED
      BY <2>1, <2>3 DEF ConfigInv
  <1>2. CASE UserLine
    BY <1>2, UserLineKeeps
  <1>3. CASE Generate
    BY <1>3, GenerateKeeps
  <1>4. CASE GeneratedLine
    BY <1>4, GeneratedLineKeeps
  <1>5. CASE EndOfFile
    BY <1>5, EndOfFileKeeps
  <1>6. CASE \E generated \in BOOLEAN : OpenFile(generated)
    BY <1>6, OpenFileKeeps
  <1>7. CASE UNCHANGED cvars
    BY <1>7 DEF cvars, ConfigInv, CTypeInv, Settled, Locks, GlobalRight, PortsRight, AsapSaid, Expected,
                Permits, TableNamed, RestInv, OneStepAgrees, As
  <1> QED
    BY <1>1, <1>2, <1>3, <1>4, <1>5, <1>6, <1>7 DEF CNext

\* The invariant says enough.
LEMMA ConfigRight == ConfigInv => AsConfigured
  <1> SUFFICES ASSUME ConfigInv PROVE AsConfigured
    OBVIOUS
  <1>1. CTypeOK
    BY DEF ConfigInv, CTypeInv, CfgType, CTypeOK
  <1>2. Precedence
    BY SettledPrecedence DEF ConfigInv
  <1>3. ReadAsMeant
    <2>1. phase = "rest" /\ rest = <<>> => As("clientOnly") /\ As("domainNumber")
      BY DEF ConfigInv, RestInv
    <2> QED
      BY <2>1, OwnValues DEF ConfigInv, RestInv, ReadAsMeant, As
  <1> QED
    BY <1>1, <1>2, <1>3 DEF ConfigInv, AsConfigured

-----------------------------------------------------------------------------
\* What a step may do to the tables.
TablesKept ==
    \A t \in DOMAIN cfg.tables :
        /\ t \in DOMAIN cfg'.tables
        /\ cfg'.tables[t] # cfg.tables[t] => cfg.tables[t].id = named

\* A line changes the table that was named last, or none.
LEMMA ReadTables ==
    ASSUME CTypeInv, Settled, NEW line, IsLine(line), Read(line)
    PROVE  TablesKept
  <1>0. cfg.ok /\ cfg' = config_line(cfg, line) /\ cfg \in CfgType /\ cfg.table <= Len(cfg.tables)
    BY DEF Read, CTypeInv
  <1>1. CASE line.kind = "section"
    <2>1. line.name \in Sections \cup {"unicast_master_table"}
      BY <1>1 DEF IsLine, TableLineType
    <2>2. cfg' = parse_section_line(cfg, line.name)
      BY <1>0, <1>1 DEF config_line
    <2>3. cfg'.tables = cfg.tables
      BY <1>0, <2>1, <2>2, SectionLineRight
    <2> QED
      BY <2>3 DEF TablesKept
  <1>2. CASE line.kind # "section" /\ cfg.section = "unicast_master_table"
    <2>1. /\ cfg' = parse_unicast_mtab_line(cfg, line)
          /\ line.kind = "setting" \/ line \in TableLineType
      BY <1>0, <1>2 DEF config_line, IsLine
    <2>2. \A t \in DOMAIN cfg.tables :
             /\ t \in DOMAIN cfg'.tables
             /\ cfg'.tables[t] # cfg.tables[t] => t = cfg.table
      BY <1>0, <2>1, TableLineRight
    <2>3. DOMAIN cfg.tables = 1..Len(cfg.tables) /\ cfg.table \in Nat
      BY <1>0 DEF CfgType
    <2>4. cfg.table # 0 => cfg.tables[cfg.table].id = named
      BY <1>0, <1>2 DEF Settled, TableNamed
    <2> QED
      BY <2>2, <2>3, <2>4 DEF TablesKept
  <1>3. CASE /\ line.kind # "section" /\ cfg.section # "unicast_master_table"
             /\ (cfg.section = "unknown" \/ line.kind # "setting")
    <2>1. cfg' = [cfg EXCEPT !.ok = FALSE]
      BY <1>0, <1>3 DEF config_line, Fail
    <2>2. cfg'.tables = cfg.tables
      BY <1>0, <2>1 DEF CfgType
    <2> QED
      BY <2>2 DEF TablesKept
  <1>4. CASE line.kind = "setting" /\ cfg.section # "unicast_master_table" /\ cfg.section # "unknown"
    <2>1. line.value.n \in Int
      BY <1>4 DEF IsLine, TableLineType
    <2>2. cfg.section \in Sections
      BY <1>0, <1>4 DEF CfgType
    <2>3. cfg' = parse_item(cfg, FALSE, cfg.section, check_deprecated_options(line.option), line.value)
      BY <1>0, <1>4 DEF config_line
    <2>4. ParsedInto(cfg, FALSE, cfg.section, check_deprecated_options(line.option), line.value, cfg')
      BY <1>0, <2>1, <2>2, <2>3, ParseItem
    <2>5. cfg'.tables = cfg.tables
      BY <2>4 DEF ParsedInto, SameTables
    <2> QED
      BY <2>5 DEF TablesKept
  <1> QED
    BY <1>1, <1>2, <1>3, <1>4

\* An option changes no table.
LEMMA SetTables ==
    ASSUME cfg \in CfgType, NEW o \in Options, NEW x \in Values, cfg' = config_set(cfg, "global", o, x)
    PROVE  TablesKept
  <1>0. "global" \in Sections
    BY DEF Sections
  <1> DEFINE locks == cfg.locked \cup {o}
  <1>1. cfg' = Stored(cfg, "global", o, x, locks)
    BY DEF config_set, Stored
  <1>2. locks \in SUBSET Options
    BY DEF CfgType
  <1> HIDE DEF locks
  <1>3. SameTables(cfg, cfg')
    BY <1>0, <1>1, <1>2, Stores
  <1> QED
    BY <1>3 DEF SameTables, TablesKept

\* Every step does so.
LEMMA TablesStep == ConfigInv /\ [CNext]_cvars => TablesKept
  <1> SUFFICES ASSUME ConfigInv, [CNext]_cvars PROVE TablesKept
    OBVIOUS
  <1>0. CTypeInv /\ Settled /\ cfg \in CfgType /\ "global" \in Sections
    BY DEF ConfigInv, CTypeInv, Sections
  <1>00. /\ {0, 1, 3} \subseteq Values /\ {"time_stamping", "twoStepFlag", "clientOnly"} \subseteq Options
         /\ timestamping_enu.hardware = 1 /\ timestamping_enu.software = 0
    BY OptionsAre DEF Values, OptionNames, timestamping_enu
  <1>1. CASE Argument
    <2>1. ASSUME NEW s \in Settings, LongOption(s) PROVE TablesKept
      <3>1. s.value.n \in Int
        BY ConfigAssumption DEF SettingType
      <3>2. cfg' = parse_item(cfg, TRUE, "global", check_deprecated_options(s.option), s.value)
        BY <2>1 DEF LongOption, config_parse_option
      <3>3. ParsedInto(cfg, TRUE, "global", check_deprecated_options(s.option), s.value, cfg')
        BY <1>0, <3>1, <3>2, ParseItem
      <3> QED
        BY <3>3 DEF ParsedInto, SameTables, TablesKept
    <2>2. ASSUME NEW p \in PortNames, cfg' = config_create_interface(cfg, p) PROVE TablesKept
      <3>1. cfg'.tables = cfg.tables
        BY <1>0, <2>2, InterfaceRight
      <3> QED
        BY <3>1 DEF TablesKept
    <2>3. ASSUME NEW o \in Options, NEW x \in Values, Switch(o, x) PROVE TablesKept
      BY <1>0, <2>3, SetTables DEF Switch
    <2>4. CASE \E s \in Settings : LongOption(s)
      BY <2>1, <2>4
    <2>5. CASE \E p \in PortNames : cfg' = config_create_interface(cfg, p) /\ UNCHANGED cli
      BY <2>2, <2>5
    <2>6. CASE \/ Switch("time_stamping", timestamping_enu.hardware)
               \/ Switch("time_stamping", timestamping_enu.software)
               \/ Switch("clientOnly", 1)
      BY <1>00, <2>3, <2>6
    <2> QED
      BY <1>1, <2>4, <2>5, <2>6 DEF Argument
  <1>2. CASE UserLine
    <2>1. PICK line \in {SectionLine(name) : name \in Sections \cup {"unicast_master_table"}}
                         \cup Settings \cup TableLines : Read(line)
      BY <1>2 DEF UserLine
    <2>2. CASE line \in Settings
      <3>1. IsLine(line)
        BY <2>2, ConfigAssumption DEF IsLine, SettingType
      <3> QED
        BY <1>0, <2>1, <3>1, ReadTables
    <2>3. CASE line \in TableLines
      <3>1. IsLine(line)
        BY <2>3, ConfigAssumption DEF IsLine
      <3> QED
        BY <1>0, <2>1, <3>1, ReadTables
    <2>4. CASE line \in {SectionLine(name) : name \in Sections \cup {"unicast_master_table"}}
      <3>1. IsLine(line)
        BY <2>4 DEF IsLine, SectionLine
      <3> QED
        BY <1>0, <2>1, <3>1, ReadTables
    <2> QED
      BY <2>2, <2>3, <2>4
  <1>3. CASE Generate \/ UNCHANGED cvars
    <2>1. cfg' = cfg
      BY <1>3 DEF Generate, cvars
    <2> QED
      BY <2>1 DEF TablesKept
  <1>4. CASE GeneratedLine
    <2>1. phase = "rest" /\ rest # <<>> /\ Read(Head(rest))
      BY <1>4 DEF GeneratedLine
    <2>2. IsLine(Global) /\ IsLine(Client) /\ IsLine(Domain) /\ \A x \in SourceSettings : IsLine(x)
      BY LinesAreLines
    <2>3. IsLine(Head(rest))
      <3>1. \/ rest = <<Global, Client, Domain>>
            \/ \E x \in SourceSettings : rest = <<Global, x, Client, Domain>>
            \/ \E x \in SourceSettings : rest = <<x, Client, Domain>>
            \/ rest = <<Client, Domain>>
            \/ rest = <<Domain>>
        BY <2>1 DEF ConfigInv, RestInv
      <3> QED
        BY <2>2, <3>1, Heads
    <2> QED
      BY <1>0, <2>1, <2>3, ReadTables
  <1>5. CASE EndOfFile
    <2>1. CASE cfg' = Fail(cfg)
      <3>1. cfg'.tables = cfg.tables
        BY <1>0, <2>1 DEF Fail, CfgType
      <3> QED
        BY <3>1 DEF TablesKept
    <2>2. CASE cfg' = cfg
      BY <2>2 DEF TablesKept
    <2>3. CASE cfg' = config_set(cfg, "global", "time_stamping", 3)
      BY <1>0, <1>00, <2>3, SetTables
    <2>4. CASE cfg' = config_set(cfg, "global", "twoStepFlag", 0)
      BY <1>0, <1>00, <2>4, SetTables
    <2> QED
      BY <1>5, <2>1, <2>2, <2>3, <2>4 DEF EndOfFile, config_harmonize_onestep
  <1>6. ASSUME NEW generated \in BOOLEAN, OpenFile(generated)
        PROVE  TablesKept
    <2>1. CASE generated
      <3>1. cfg' = parse_section_line(cfg, "global")
        <4>1. Global.kind = "section" /\ Global.name = "global"
          BY DEF Global, SectionLine
        <4>2. cfg' = config_line(cfg, Global)
          BY <1>6, <2>1 DEF OpenFile, Global
        <4> QED
          BY <4>1, <4>2 DEF config_line
      <3>2. cfg'.tables = cfg.tables
        BY <1>0, <3>1, SectionLineRight
      <3> QED
        BY <3>2 DEF TablesKept
    <2>2. CASE ~generated
      BY <1>6, <2>2 DEF OpenFile, TablesKept
    <2> QED
      BY <2>1, <2>2
  <1> QED
    BY <1>1, <1>2, <1>3, <1>4, <1>5, <1>6 DEF CNext

\* For every interface, setting and bound: a port gets what its sections, the command
\* line, the global section or the defaults say, in this order; the one-step options
\* agree, and what timemaster writes is read as it was meant (config.c).
THEOREM AlwaysAsConfigured == CSpec => []AsConfigured
  <1>1. CInit => ConfigInv
    BY ConfigStart
  <1>2. ConfigInv /\ [CNext]_cvars => ConfigInv'
    BY ConfigStep
  <1>3. ConfigInv => AsConfigured
    BY ConfigRight
  <1> QED
    BY <1>1, <1>2, <1>3, PTL DEF CSpec

\* An address goes to the table that its own section named last, whatever sections
\* and failures come between (parse_section_line(), config_switch_unicast_mtab()).
THEOREM AddressesAlwaysBelong == CSpec => AddressesBelong
  <1>1. CInit => ConfigInv
    BY ConfigStart
  <1>2. ConfigInv /\ [CNext]_cvars => ConfigInv'
    BY ConfigStep
  <1>3. ConfigInv /\ [CNext]_cvars =>
           [\A t \in DOMAIN cfg.tables :
               /\ t \in DOMAIN cfg'.tables
               /\ cfg'.tables[t] # cfg.tables[t] => cfg.tables[t].id = named]_cvars
    BY TablesStep DEF TablesKept
  <1> QED
    BY <1>1, <1>2, <1>3, PTL DEF CSpec, AddressesBelong

-----------------------------------------------------------------------------
\* A behaviour of both, of which one half moves.
LEMMA HalvesGo == FairSpec => Spec /\ CSpec
  <1>1. MCInit => Init /\ CInit
    BY DEF MCInit
  <1>2. [MCNext]_allvars => [Next]_vars /\ [CNext]_cvars
    BY DEF MCNext, allvars, vars, cvars
  <1> QED
    BY <1>1, <1>2, PTL DEF FairSpec, Spec, CSpec

\* The composition that is model-checked, timemaster.c and config.c: what holds of each
\* half holds of it.
THEOREM BothHalvesRight ==
    FairSpec => []ScriptIsSound /\ []ChildrenInOrder /\ []AsConfigured /\ AddressesBelong
  BY HalvesGo, ScriptAlwaysSound, ChildrenAlwaysInOrder, AlwaysAsConfigured, AddressesAlwaysBelong
=============================================================================
