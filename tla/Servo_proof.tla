----------------------------- MODULE Servo_proof -----------------------------
(****************************************************************************)
(* The theorems about servo.c and its users, for every value of the         *)
(* constants.  First phc2sys' update_clock(), its servos and its sanity     *)
(* check; then the shared memory through which the servos of the domains    *)
(* know of each other: for any number of processes, domains and flag values *)
(* mutual exclusion, initialization before use, and consistent reads, in    *)
(* spite of crashes and restarts.                                           *)
(****************************************************************************)
EXTENDS ClockDiscipline, SharedState, SequenceTheorems, TLAPS

\* struct servo with its samples in its array.
SvType ==
    [count : 0..2, age : Int, pts : Seq(Int), leap : -1..1, first_update : BOOLEAN, curr : Nat]

SvOK(s) == s \in SvType /\ Len(s.pts) <= MaxPoints

\* What the servos of the different kinds return.
Raw(o, s) ==
    /\ o \in [s : SvType, state : {"UNLOCKED", "JUMP", "LOCKED"}, slew : -1..1]
    /\ Len(o.s.pts) <= MaxPoints /\ o.s.curr = s.curr

\* What servo_sample() makes of it.
Settled(o, s, c, offset) ==
    /\ o \in [s : SvType, state : ServoStates, slew : -1..1] /\ Len(o.s.pts) <= MaxPoints
    /\ o.state \in {"UNLOCKED", "JUMP"} => o.s.curr = c.num
    /\ o.state \in {"LOCKED", "LOCKED_STABLE"} =>
           o.s.curr = IF c.near = 0 THEN s.curr ELSE check_offset_threshold(c, s.curr, offset)
    /\ o.state = "LOCKED_STABLE" => c.near # 0 /\ o.s.curr = 0

-----------------------------------------------------------------------------
\* move_reference(): the points stay numbers, and as many.
LEMMA MoveTypes ==
    ASSUME NEW pts \in Seq(Int), NEW d \in Int
    PROVE  /\ move_reference(pts, d) \in Seq(Int)
           /\ Len(move_reference(pts, d)) = Len(pts)
           /\ DOMAIN move_reference(pts, d) = DOMAIN pts
<1> DEFINE n == Len(pts)
           m == move_reference(pts, d)
<1>1. n \in Nat /\ DOMAIN pts = 1..n /\ \A i \in 1..n : pts[i] \in Int
  BY LenProperties, ElementOfSeq
<1>2. m \in [1..n -> Int] BY <1>1 DEF move_reference
<1>3. m \in Seq(Int) BY <1>1, <1>2, SeqDef
<1> QED BY <1>1, <1>2, <1>3, LenProperties

\* add_sample(): never more points than there is room for.
LEMMA AddTypes ==
    ASSUME NEW pts \in Seq(Int), Len(pts) <= MaxPoints, NEW d \in Int
    PROVE  /\ add_sample(pts, d) \in Seq(Int)
           /\ Len(add_sample(pts, d)) <= MaxPoints
<1> DEFINE all == Append(pts, d)
<1>1. Len(pts) \in Nat /\ all \in Seq(Int) /\ Len(all) = Len(pts) + 1
  BY AppendProperties, LenProperties
<1> HIDE DEF all
<1>2. all # <<>> BY <1>1, EmptySeq
<1>3. Tail(all) \in Seq(Int) /\ Len(Tail(all)) = Len(all) - 1 BY <1>1, <1>2, HeadTailProperties
<1>4. MaxPoints \in Nat BY DisciplineAssumption
<1>5. add_sample(pts, d) = IF Len(all) > MaxPoints THEN Tail(all) ELSE all BY DEF add_sample, all
<1> QED BY <1>1, <1>3, <1>4, <1>5

\* The direction of a correction.
LEMMA SignTypes == \A x : Sign(x) \in {-1, 0, 1} /\ -Sign(x) \in -1..1
<1>1. \A x : Sign(x) \in {-1, 0, 1} BY DEF Sign
<1>2. \A y \in {-1, 0, 1} : -y \in -1..1 OBVIOUS
<1> QED BY <1>1, <1>2

\* The PI servo's own fields change.
PiSet(s, n, a) == [s EXCEPT !.count = n, !.age = a]

\* The rest is left alone.
LEMMA PiFields ==
    ASSUME NEW s, SvOK(s), NEW n \in 0..2, NEW a \in Int
    PROVE  /\ SvOK(PiSet(s, n, a))
           /\ PiSet(s, n, a).curr = s.curr
           /\ PiSet(s, n, a).pts = s.pts
<1> DEFINE u == [s EXCEPT !.count = n]
           v == [u EXCEPT !.age = a]
<1>1. u \in SvType /\ u.curr = s.curr /\ u.pts = s.pts BY DEF SvOK, SvType
<1> HIDE DEF u
<1>2. v \in SvType /\ v.curr = u.curr /\ v.pts = u.pts BY <1>1 DEF SvType
<1>3. Len(v.pts) <= MaxPoints BY <1>1, <1>2 DEF SvOK
<1>4. PiSet(s, n, a) = v BY DEF PiSet, u
<1> QED BY <1>1, <1>2, <1>3, <1>4 DEF SvOK

\* An outcome is made of what it holds.
LEMMA RawOutcome ==
    ASSUME NEW s, NEW u, SvOK(u), u.curr = s.curr,
           NEW st \in {"UNLOCKED", "JUMP", "LOCKED"}, NEW sl \in -1..1
    PROVE  /\ Raw(Outcome(u, st, sl), s)
           /\ Outcome(u, st, sl).s = u /\ Outcome(u, st, sl).slew = sl
           /\ Outcome(u, st, sl).state = st
BY DEF SvOK, Outcome, Raw

\* pi_sample(), one case of its state after another.
LEMMA PiTypes ==
    ASSUME NEW s, SvOK(s), NEW c \in ServoConfType, NEW offset \in Int, NEW sl \in -1..1
    PROVE  /\ Raw(pi_sample(s, c, offset, sl), s)
           /\ pi_sample(s, c, offset, sl).s.pts = s.pts
           /\ pi_sample(s, c, offset, sl).slew \in {sl, 0, -Sign(offset)}
<1>1. s.count \in 0..2 /\ s.age \in Int /\ c.est \in Int BY DEF SvOK, SvType, ServoConfType
<1>2. CASE s.count = 0
  <2>1. pi_sample(s, c, offset, sl) = Outcome(PiSet(s, 1, 0), "UNLOCKED", sl)
    BY <1>2 DEF pi_sample, PiSet
  <2>2. SvOK(PiSet(s, 1, 0)) /\ PiSet(s, 1, 0).curr = s.curr /\ PiSet(s, 1, 0).pts = s.pts
    BY PiFields
  <2> QED BY <2>1, <2>2, RawOutcome
<1>3. CASE s.count = 1 /\ s.age <= 0
  <2>1. pi_sample(s, c, offset, sl) = Outcome(PiSet(s, 0, 0), "UNLOCKED", sl)
    BY <1>1, <1>3 DEF pi_sample, Restart, PiSet
  <2>2. SvOK(PiSet(s, 0, 0)) /\ PiSet(s, 0, 0).curr = s.curr /\ PiSet(s, 0, 0).pts = s.pts
    BY PiFields
  <2> QED BY <2>1, <2>2, RawOutcome
<1>4. CASE s.count = 1 /\ s.age > 0 /\ s.age < c.est
  <2>1. pi_sample(s, c, offset, sl) = Outcome(s, "UNLOCKED", sl) BY <1>1, <1>4 DEF pi_sample
  <2> QED BY <2>1, RawOutcome
<1>5. CASE s.count = 1 /\ s.age > 0 /\ s.age >= c.est
  <2>1. pi_sample(s, c, offset, sl) =
            Outcome(PiSet(s, 2, 0),
                    IF MustStep(s, c, offset) THEN "JUMP" ELSE "LOCKED", 0)
    BY <1>1, <1>5 DEF pi_sample, PiSet
  <2>2. SvOK(PiSet(s, 2, 0)) /\ PiSet(s, 2, 0).curr = s.curr /\ PiSet(s, 2, 0).pts = s.pts
    BY PiFields
  <2> QED BY <2>1, <2>2, RawOutcome
<1>6. CASE s.count = 2 /\ Over(c.step, offset)
  <2>1. pi_sample(s, c, offset, sl) = Outcome(PiSet(s, 0, 0), "UNLOCKED", sl)
    BY <1>6 DEF pi_sample, Restart, PiSet
  <2>2. SvOK(PiSet(s, 0, 0)) /\ PiSet(s, 0, 0).curr = s.curr /\ PiSet(s, 0, 0).pts = s.pts
    BY PiFields
  <2> QED BY <2>1, <2>2, RawOutcome
<1>7. CASE s.count = 2 /\ ~Over(c.step, offset)
  <2>1. pi_sample(s, c, offset, sl) = Outcome(s, "LOCKED", -Sign(offset)) BY <1>7 DEF pi_sample
  <2> QED BY <2>1, RawOutcome, SignTypes
<1> QED BY <1>1, <1>2, <1>3, <1>4, <1>5, <1>6, <1>7

\* linreg_sample(), for every intercept that the regressions may give.
LEMMA LinregTypes ==
    ASSUME NEW s, SvOK(s), NEW c \in ServoConfType, NEW offset \in Int, NEW sl \in -1..1,
           NEW o \in linreg_sample(s, c, offset, sl)
    PROVE  Raw(o, s)
<1> DEFINE pts == add_sample(s.pts, offset)
           u == [s EXCEPT !.pts = pts]
<1>1. pts \in Seq(Int) /\ Len(pts) <= MaxPoints /\ s.pts \in Seq(Int)
  BY AddTypes DEF SvOK, SvType
<1>2. SvOK(u) /\ u.curr = s.curr
  BY <1>1 DEF SvOK, SvType
<1>3. move_reference(pts, -offset) \in Seq(Int) /\ Len(move_reference(pts, -offset)) <= MaxPoints
  <2>1. -offset \in Int OBVIOUS
  <2> QED BY <1>1, <2>1, MoveTypes
<1> HIDE DEF pts
<1>4. CASE Len(pts) < MinPoints
  <2>1. o = Outcome(u, "UNLOCKED", sl) BY <1>4 DEF linreg_sample, pts
  <2> QED BY <1>2, <2>1 DEF Outcome, Raw, SvOK
<1>5. CASE ~(Len(pts) < MinPoints)
  <2>1. PICK i \in regress(pts) :
             o = IF MustStep(s, c, i)
                 THEN Outcome([u EXCEPT !.pts = move_reference(pts, -offset)], "JUMP",
                              -Sign(i - offset))
                 ELSE Outcome(u, "LOCKED", -Sign(i))
    BY <1>5 DEF linreg_sample, pts
  <2>2. -Sign(i) \in -1..1 /\ -Sign(i - offset) \in -1..1 BY SignTypes
  <2>3. SvOK([u EXCEPT !.pts = move_reference(pts, -offset)]) BY <1>2, <1>3 DEF SvOK, SvType
  <2>4. [u EXCEPT !.pts = move_reference(pts, -offset)].curr = s.curr
    BY <1>2 DEF SvOK, SvType
  <2> QED BY <1>2, <2>1, <2>2, <2>3, <2>4 DEF Outcome, Raw, SvOK
<1> QED BY <1>4, <1>5

\* The raw outcome of every kind of servo.
LEMMA SamplesTypes ==
    ASSUME NEW s, SvOK(s), NEW c \in ServoConfType, NEW offset \in Int, NEW sl \in -1..1,
           NEW o \in Samples(s, c, offset, sl)
    PROVE  Raw(o, s)
<1>1. c.type \in ServoTypes BY DEF ServoConfType
<1>2. CASE c.type = "PI" BY <1>2, PiTypes DEF Samples
<1>3. CASE c.type = "LINREG" BY <1>3, LinregTypes DEF Samples
<1>4. CASE c.type = "NULLF"
  <2>1. o = nullf_sample(s, c, offset) BY <1>4 DEF Samples
  <2> QED BY <2>1, RawOutcome DEF nullf_sample
<1>5. CASE c.type = "NTPSHM"
  <2>1. o = ntpshm_sample(s, sl) BY <1>5 DEF Samples
  <2> QED BY <2>1, RawOutcome DEF ntpshm_sample
<1> QED BY <1>1, <1>2, <1>3, <1>4, <1>5 DEF ServoTypes

\* servo_sample(): the count of good offsets follows the state.
LEMMA SettleTypes ==
    ASSUME NEW s, SvOK(s), NEW c \in ServoConfType, NEW offset \in Int, NEW o, Raw(o, s)
    PROVE  /\ Settled(Settle(o, c, offset), s, c, offset)
           /\ Settle(o, c, offset).s.pts = o.s.pts
           /\ Settle(o, c, offset).slew = o.slew
           /\ (Settle(o, c, offset).state = "JUMP") <=> (o.state = "JUMP")
           /\ (Settle(o, c, offset).state = "UNLOCKED") <=> (o.state = "UNLOCKED")
           /\ Settle(o, c, offset).s.leap = o.s.leap
<1> DEFINE curr == IF c.near = 0 THEN o.s.curr ELSE check_offset_threshold(c, o.s.curr, offset)
           r == Settle(o, c, offset)
<1>1. /\ o.s \in SvType /\ o.slew \in -1..1 /\ Len(o.s.pts) <= MaxPoints /\ o.s.curr = s.curr
      /\ o.state \in {"UNLOCKED", "JUMP", "LOCKED"}
      /\ o \in [s : SvType, state : ServoStates, slew : -1..1]
  BY DEF Raw, ServoStates
<1>2. s.curr \in Nat /\ c.num \in Nat /\ c.near \in Nat BY DEF SvOK, SvType, ServoConfType
<1>3. curr \in Nat BY <1>1, <1>2 DEF check_offset_threshold
<1> HIDE DEF curr
<1>4. CASE o.state = "UNLOCKED"
  <2>1. r = [o EXCEPT !.s.curr = c.num] BY <1>4 DEF Settle
  <2> HIDE DEF r
  <2>2. r \in [s : SvType, state : ServoStates, slew : -1..1] /\ r.s.pts = o.s.pts
        /\ r.slew = o.slew /\ r.state = o.state /\ r.s.curr = c.num /\ r.s.leap = o.s.leap
    BY <1>1, <1>2, <2>1 DEF SvType
  <2> QED BY <1>1, <1>4, <2>2 DEF Settled, r
<1>5. CASE o.state = "JUMP"
  <2> DEFINE q == [o EXCEPT !.s.curr = c.num]
  <2>1. r = [q EXCEPT !.s.first_update = FALSE] BY <1>5 DEF Settle
  <2>2. q \in [s : SvType, state : ServoStates, slew : -1..1] /\ q.s.pts = o.s.pts
        /\ q.slew = o.slew /\ q.state = o.state /\ q.s.curr = c.num /\ q.s.leap = o.s.leap
    BY <1>1, <1>2 DEF SvType
  <2> HIDE DEF r, q
  <2>3. r \in [s : SvType, state : ServoStates, slew : -1..1] /\ r.s.pts = q.s.pts
        /\ r.slew = q.slew /\ r.state = q.state /\ r.s.curr = q.s.curr /\ r.s.leap = q.s.leap
    BY <2>1, <2>2 DEF SvType
  <2> QED BY <1>1, <1>5, <2>2, <2>3 DEF Settled, r
<1>6. CASE o.state = "LOCKED"
  <2> DEFINE st == IF c.near # 0 /\ curr = 0 THEN "LOCKED_STABLE" ELSE "LOCKED"
             q == [o EXCEPT !.s.curr = curr]
             u == [q EXCEPT !.s.first_update = FALSE]
  <2>1. r = [u EXCEPT !.state = st] BY <1>6 DEF Settle, curr
  <2>2. q \in [s : SvType, state : ServoStates, slew : -1..1] /\ q.s.pts = o.s.pts
        /\ q.slew = o.slew /\ q.s.curr = curr /\ q.s.leap = o.s.leap
    BY <1>1, <1>2, <1>3 DEF SvType
  <2> HIDE DEF r, q
  <2>3. u \in [s : SvType, state : ServoStates, slew : -1..1] /\ u.s.pts = q.s.pts
        /\ u.slew = q.slew /\ u.s.curr = q.s.curr /\ u.s.leap = q.s.leap
    BY <2>2 DEF SvType
  <2>4. st \in ServoStates /\ (st = "LOCKED_STABLE" => c.near # 0 /\ curr = 0)
        /\ st \in {"LOCKED", "LOCKED_STABLE"}
    BY DEF ServoStates
  <2> HIDE DEF u, st
  <2>5. r \in [s : SvType, state : ServoStates, slew : -1..1] /\ r.s = u.s
        /\ r.slew = u.slew /\ r.state = st
    BY <2>1, <2>3, <2>4
  <2>6. curr = IF c.near = 0 THEN s.curr ELSE check_offset_threshold(c, s.curr, offset)
    BY <1>1 DEF curr
  <2> QED BY <1>1, <1>6, <2>2, <2>3, <2>4, <2>5, <2>6 DEF Settled, r
<1> QED BY <1>1, <1>4, <1>5, <1>6

\* servo_reset() and servo_leap() keep the count.
LEMMA ResetTypes ==
    ASSUME NEW s, SvOK(s), NEW c \in ServoConfType
    PROVE  /\ SvOK(servo_reset(s, c)) /\ servo_reset(s, c).curr = s.curr
           /\ servo_reset(s, c).pts \in {s.pts, <<>>}
<1>1. CASE c.type = "PI"
  <2>1. servo_reset(s, c) = PiSet(s, 0, 0) BY <1>1 DEF servo_reset, Restart, PiSet
  <2>2. SvOK(PiSet(s, 0, 0)) /\ PiSet(s, 0, 0).curr = s.curr /\ PiSet(s, 0, 0).pts = s.pts
    BY PiFields
  <2> QED BY <2>1, <2>2
<1>2. CASE c.type = "LINREG"
  <2>1. servo_reset(s, c) = [s EXCEPT !.pts = <<>>] BY <1>2 DEF servo_reset
  <2>2. <<>> \in Seq(Int) /\ Len(<<>>) = 0 BY EmptySeq
  <2>3. 0 <= MaxPoints BY DisciplineAssumption
  <2> QED BY <2>1, <2>2, <2>3 DEF SvOK, SvType
<1>3. CASE c.type # "PI" /\ c.type # "LINREG" BY <1>3 DEF servo_reset
<1> QED BY <1>1, <1>2, <1>3

LEMMA LeapTypes ==
    ASSUME NEW s, SvOK(s), NEW c \in ServoConfType, NEW leap \in -1..1
    PROVE  /\ SvOK(servo_leap(s, c, leap)) /\ servo_leap(s, c, leap).curr = s.curr
           /\ c.type # "LINREG" \/ leap # 0 => servo_leap(s, c, leap).pts = s.pts
<1> DEFINE pts == IF s.leap # 0 /\ leap = 0 THEN move_reference(s.pts, s.leap) ELSE s.pts
<1>1. s.pts \in Seq(Int) /\ s.leap \in Int /\ Len(s.pts) <= MaxPoints BY DEF SvOK, SvType
<1>2. pts \in Seq(Int) /\ Len(pts) <= MaxPoints BY <1>1, MoveTypes
<1> HIDE DEF pts
<1>3. CASE c.type = "LINREG"
  <2> DEFINE u == [s EXCEPT !.leap = leap]
  <2>1. servo_leap(s, c, leap) = [u EXCEPT !.pts = pts] BY <1>3 DEF servo_leap, pts
  <2>2. u \in SvType /\ u.curr = s.curr BY DEF SvOK, SvType
  <2> HIDE DEF u
  <2>3. [u EXCEPT !.pts = pts] \in SvType /\ [u EXCEPT !.pts = pts].curr = u.curr
        /\ [u EXCEPT !.pts = pts].pts = pts
    BY <1>2, <2>2 DEF SvType
  <2>4. leap # 0 => pts = s.pts BY DEF pts
  <2> QED BY <1>2, <1>3, <2>1, <2>2, <2>3, <2>4 DEF SvOK
<1>4. CASE c.type = "NTPSHM"
  <2>1. servo_leap(s, c, leap) = [s EXCEPT !.leap = leap] BY <1>4 DEF servo_leap
  <2> QED BY <2>1 DEF SvOK, SvType
<1>5. CASE c.type # "LINREG" /\ c.type # "NTPSHM" BY <1>5 DEF servo_leap
<1> QED BY <1>3, <1>4, <1>5

\* What time does to the servo.
LEMMA PassesTypes ==
    ASSUME NEW s, SvOK(s), NEW dt \in Int, NEW d \in Int
    PROVE  /\ SvOK(Passes(s, dt, d)) /\ Passes(s, dt, d).curr = s.curr
           /\ Passes(s, dt, d).pts = s.pts /\ Passes(s, dt, d).leap = s.leap
<1> DEFINE a == IF s.count = 1 /\ s.age + dt + d <= MaxAge THEN s.age + dt + d ELSE s.age
<1>1. a \in Int BY DEF SvOK, SvType
<1>2. Passes(s, dt, d) = [s EXCEPT !.age = a] BY DEF Passes, SvOK, SvType
<1> HIDE DEF a
<1> QED BY <1>1, <1>2 DEF SvOK, SvType

LEMMA SlewedTypes ==
    ASSUME NEW s, SvOK(s), NEW d \in Int
    PROVE  /\ SvOK(Slewed(s, d)) /\ Slewed(s, d).curr = s.curr
           /\ Slewed(s, d).pts = move_reference(s.pts, d) /\ Slewed(s, d).leap = s.leap
<1> DEFINE m == move_reference(s.pts, d)
<1>1. s.pts \in Seq(Int) /\ Len(s.pts) <= MaxPoints BY DEF SvOK, SvType
<1>2. m \in Seq(Int) /\ Len(m) = Len(s.pts) BY <1>1, MoveTypes
<1>3. Slewed(s, d) = [s EXCEPT !.pts = m] BY DEF Slewed, SvOK, SvType
<1>4. m = move_reference(s.pts, d) OBVIOUS
<1> HIDE DEF m
<1>5. [s EXCEPT !.pts = m] \in SvType /\ [s EXCEPT !.pts = m].pts = m
      /\ [s EXCEPT !.pts = m].curr = s.curr /\ [s EXCEPT !.pts = m].leap = s.leap
  BY <1>1, <1>2 DEF SvOK, SvType
<1> QED BY <1>1, <1>2, <1>3, <1>4, <1>5 DEF SvOK

-----------------------------------------------------------------------------
\* The types of all variables.
Types ==
    /\ conf \in ConfType /\ t \in First..Last /\ due \in BOOLEAN
    /\ bias \in Int /\ slew \in -1..1 /\ phase \in 0..2
    /\ kern \in [leap : -1..1, done : BOOLEAN, tai : Int]
    /\ clk \in [servo : BOOLEAN, leap_set : -1..1, utc_offset_set : Int, state : ServoStates]
    /\ SvOK(sv) /\ sv.curr <= conf.servo.num
    /\ cc \in [known : BOOLEAN, last : BOOLEAN, jump : Int]
    /\ faults \in 0..MaxFaults /\ near \in 0..conf.servo.num
    /\ moved \in BOOLEAN /\ accused \in BOOLEAN /\ disturbed \in BOOLEAN

\* The count of the servo and the history agree; a jump that the check sees is
\* not the program's own.
Founded ==
    /\ near + sv.curr >= conf.servo.num
    /\ conf.servo.near = 0 => near = 0
    /\ cc.last /\ cc.jump # 0 => moved
    /\ VerdictsFounded

\* The constants.
LEMMA Numbers ==
    /\ Day \in Nat /\ SixHours \in Nat /\ Late \in Nat /\ MaxErr \in Nat /\ MaxFaults \in Nat
    /\ 2 * SixHours + 2 < Day /\ Late + MaxErr < SixHours
    /\ Off0 = 1 /\ First = SixHours + 2 /\ Last = Day + SixHours + 3
    /\ First \in Nat /\ Last \in Nat /\ First < Last
BY DisciplineAssumption DEF Off0, First, Last

\* The configuration.
LEMMA ConfTypes ==
    ASSUME Types
    PROVE  /\ conf.servo \in ServoConfType /\ conf.toUtc \in BOOLEAN
           /\ conf.kernel_leap \in BOOLEAN /\ conf.leap \in {-1, 0, 1}
           /\ conf.servo.num \in Nat /\ conf.servo.near \in Nat
BY DEF Types, ConfType, ServoConfType

\* What clock_handle_leap() finds out.
LEMMA StatusTypes ==
    ASSUME Types
    PROVE  /\ Status.status \in -1..1 /\ Status.offset \in Int
           /\ agent.leap \in -1..1 /\ agent.offset \in Int
           /\ Measured \in Int /\ Measured + get_sync_offset(Status.offset) \in Int
<1>1. conf.leap \in {-1, 0, 1} BY ConfTypes
<1>2. agent.leap \in -1..1 /\ agent.offset \in Int BY <1>1 DEF agent, Off0
<1>3. clk.leap_set \in -1..1 BY DEF Types
<1> DEFINE s(ts) == leap_second_status(ts, clk.leap_set, agent.leap, agent.offset)
<1>4. ASSUME NEW ts PROVE s(ts).status \in -1..1 /\ s(ts).offset \in Int
  BY <1>2, <1>3 DEF leap_second_status
<1>5. Status.status \in -1..1 /\ Status.offset \in Int
  <2>1. CASE Pending BY <1>4, <2>1 DEF Status
  <2>2. CASE ~Pending BY <1>2, <2>2 DEF Status
  <2> QED BY <2>1, <2>2
<1>6. Measured \in Int
  <2>1. t \in Int /\ bias \in Int BY Numbers DEF Types
  <2>2. TrueOff \in Int BY <1>1 DEF TrueOff, Off0
  <2> QED BY <2>1, <2>2 DEF Measured, Reading, Source
<1>7. get_sync_offset(Status.offset) \in Int BY <1>5 DEF get_sync_offset
<1> QED BY <1>2, <1>5, <1>6, <1>7

\* The first state.
LEMMA InitFounded == Init => Types /\ Founded
<1> SUFFICES ASSUME Init PROVE Types /\ Founded OBVIOUS
<1>1. conf \in ConfType /\ conf.servo \in ServoConfType /\ conf.servo.num \in Nat
  BY DisciplineAssumption DEF Init, ConfType, ServoConfType
<1>2. <<>> \in Seq(Int) /\ Len(<<>>) = 0 /\ 0 <= MaxPoints BY EmptySeq, DisciplineAssumption
<1>3. SvOK(sv) /\ sv.curr = conf.servo.num
  BY <1>1, <1>2 DEF Init, servo_create, SvOK, SvType
<1>4. bias \in Int BY Numbers DEF Init
<1>5. t \in First..Last BY Numbers DEF Init
<1>6. disturbed \in BOOLEAN BY Zenon DEF Init
<1>7. kern \in [leap : -1..1, done : BOOLEAN, tai : Int]
      /\ clk \in [servo : BOOLEAN, leap_set : -1..1, utc_offset_set : Int, state : ServoStates]
      /\ cc \in [known : BOOLEAN, last : BOOLEAN, jump : Int]
  BY DEF Init, ServoStates
<1>8. /\ due = FALSE /\ slew = 0 /\ phase = 0 /\ faults = 0 /\ near = 0 /\ moved = FALSE
      /\ accused = FALSE
  BY DEF Init
<1>9. Types
  <2>1. faults \in 0..MaxFaults /\ near \in 0..conf.servo.num /\ sv.curr <= conf.servo.num
        /\ slew \in -1..1 /\ phase \in 0..2
    BY <1>1, <1>3, <1>8, Numbers
  <2>2. due \in BOOLEAN /\ moved \in BOOLEAN /\ accused \in BOOLEAN BY <1>8
  <2> QED BY <1>1, <1>3, <1>4, <1>5, <1>6, <1>7, <2>1, <2>2 DEF Types
<1> QED BY <1>1, <1>3, <1>9 DEF Init, Founded, VerdictsFounded, StableIsEarned, CheckTrusts

\* Time passes; the kernel may make its leap second, of which the check is not
\* told.
LEMMA TickFounded == Types /\ Founded /\ Tick => Types' /\ Founded'
<1> SUFFICES ASSUME Types, Founded, Tick PROVE Types' /\ Founded' OBVIOUS
<1> DEFINE next == IF t < Last THEN t + 1 ELSE t
           leaps == Leaps(t + bias, next + bias + slew)
           d == slew - (IF leaps THEN kern.leap ELSE 0)
           s == Passes(sv, 1, d)
<1>1. /\ t' = next /\ bias' = bias + d /\ slew' = 0 /\ due' = TRUE
      /\ kern' = IF leaps THEN [kern EXCEPT !.done = TRUE, !.tai = @ + kern.leap] ELSE kern
      /\ sv' = Slewed(s, slew)
      /\ cc' = IF leaps /\ cc.last THEN [cc EXCEPT !.jump = @ - kern.leap] ELSE cc
      /\ moved' = (moved \/ leaps)
      /\ UNCHANGED <<conf, phase, clk, faults, used, near, accused>>
  BY DEF Tick
<1>2. disturbed' \in BOOLEAN BY Zenon DEF Tick
<1>3. next \in First..Last BY Numbers DEF Types
<1>4. d \in Int /\ kern.leap \in Int /\ slew \in Int /\ bias \in Int
  <2>1. kern.leap \in -1..1 /\ slew \in -1..1 /\ bias \in Int BY DEF Types
  <2> HIDE DEF leaps
  <2> QED BY <2>1
<1> HIDE DEF leaps, d, next
<1>5. SvOK(s) /\ s.curr = sv.curr
  <2>1. SvOK(sv) /\ 1 \in Int BY DEF Types
  <2> QED BY <1>4, <2>1, PassesTypes
<1> HIDE DEF s
<1>6. SvOK(sv') /\ sv'.curr = sv.curr BY <1>1, <1>4, <1>5, SlewedTypes
<1>7. kern' \in [leap : -1..1, done : BOOLEAN, tai : Int]
  <2> DEFINE k == [kern EXCEPT !.done = TRUE]
  <2>1. k \in [leap : -1..1, done : BOOLEAN, tai : Int] BY DEF Types
  <2>2. kern' = IF leaps THEN [k EXCEPT !.tai = kern.tai + kern.leap] ELSE kern BY <1>1 DEF Types
  <2>3. kern.tai + kern.leap \in Int BY <1>4 DEF Types
  <2> HIDE DEF k
  <2> QED BY <2>1, <2>2, <2>3 DEF Types
<1>8. cc' \in [known : BOOLEAN, last : BOOLEAN, jump : Int] BY <1>1, <1>4 DEF Types
<1>9. moved' \in BOOLEAN BY <1>1, Zenon
<1>10. (cc'.last /\ cc'.jump # 0) => moved'
  <2>1. CASE leaps BY <1>1, <2>1
  <2>2. CASE ~leaps BY <1>1, <2>2 DEF Founded
  <2> QED BY <2>1, <2>2
<1>11. Types' BY <1>1, <1>2, <1>3, <1>4, <1>6, <1>7, <1>8, <1>9 DEF Types
<1> QED BY <1>1, <1>6, <1>10, <1>11 DEF Founded, VerdictsFounded, StableIsEarned, CheckTrusts

\* Somebody else steps the clock.
LEMMA DisturbFounded == Types /\ Founded /\ Disturb => Types' /\ Founded'
<1> SUFFICES ASSUME Types, Founded, Disturb PROVE Types' /\ Founded' OBVIOUS
<1>1. PICK d \in {-1, 1} :
        /\ faults < MaxFaults /\ faults' = faults + 1
        /\ bias' = bias + d
        /\ sv' = Passes(sv, 0, d)
        /\ cc' = IF cc.last THEN [cc EXCEPT !.jump = @ + d] ELSE cc
        /\ moved' = TRUE /\ disturbed' = TRUE
        /\ UNCHANGED <<conf, t, due, slew, kern, phase, clk, used, near, accused>>
  BY DEF Disturb
<1>2. SvOK(sv') /\ sv'.curr = sv.curr
  <2>1. SvOK(sv) /\ d \in Int /\ 0 \in Int BY DEF Types
  <2>2. SvOK(Passes(sv, 0, d)) /\ Passes(sv, 0, d).curr = sv.curr BY <2>1, PassesTypes
  <2> QED BY <1>1, <2>2
<1>3. cc' \in [known : BOOLEAN, last : BOOLEAN, jump : Int] BY <1>1 DEF Types
<1>4. faults' \in 0..MaxFaults BY <1>1, Numbers DEF Types
<1>5. Types' BY <1>1, <1>2, <1>3, <1>4 DEF Types
<1> QED BY <1>1, <1>2, <1>5 DEF Founded, VerdictsFounded, StableIsEarned, CheckTrusts

\* The agent hears of the leap second, the clocks cannot be read, and the update
\* is suspended.
LEMMA OthersFounded ==
    Types /\ Founded /\ (Announce \/ Miss \/ Suspend) => Types' /\ Founded'
<1> SUFFICES ASSUME Types, Founded, Announce \/ Miss \/ Suspend PROVE Types' /\ Founded' OBVIOUS
<1>1. CASE Announce
  <2>1. phase' \in 0..2 BY <1>1 DEF Types, Announce
  <2> QED BY <1>1, <2>1
      DEF Types, Founded, VerdictsFounded, StableIsEarned, CheckTrusts, Announce
<1>2. CASE Miss
  <2>1. faults' \in 0..MaxFaults BY <1>2, Numbers DEF Types, Miss
  <2> QED BY <1>2, <2>1
      DEF Types, Founded, VerdictsFounded, StableIsEarned, CheckTrusts, Miss
<1>3. CASE Suspend
  <2>1. kern' \in [leap : -1..1, done : BOOLEAN, tai : Int]
    <3> DEFINE k == [kern EXCEPT !.leap = 0]
    <3>1. k \in [leap : -1..1, done : BOOLEAN, tai : Int] BY DEF Types
    <3>2. kern' \in {kern, [k EXCEPT !.done = FALSE]} BY <1>3 DEF Suspend, servo_add
    <3> HIDE DEF k
    <3> QED BY <3>1, <3>2 DEF Types
  <2>2. clk' \in [servo : BOOLEAN, leap_set : -1..1, utc_offset_set : Int, state : ServoStates]
        /\ clk'.state = clk.state
    BY <1>3 DEF Suspend, Types
  <2>3. due' \in BOOLEAN /\ UNCHANGED <<conf, t, bias, slew, phase, sv, cc, faults, used, near,
                                        moved, accused, disturbed>>
    BY <1>3 DEF Suspend
  <2> QED BY <2>1, <2>2, <2>3
      DEF Types, Founded, VerdictsFounded, StableIsEarned, CheckTrusts
<1> QED BY <1>1, <1>2, <1>3

\* The kernel's part of an update.
LEMMA KernelTypes ==
    ASSUME Types
    PROVE  KernelTold \in [leap : -1..1, done : BOOLEAN, tai : Int]
<1> DEFINE K == [leap : -1..1, done : BOOLEAN, tai : Int]
           k == servo_add(kern)
           u == [k EXCEPT !.leap = Status.status]
           dn == IF Status.status = 0 THEN FALSE ELSE k.done
           s == IF conf.toUtc /\ conf.kernel_leap /\ Status.status # clk.leap_set
                THEN sysclk_set_leap(k, Status.status) ELSE k
<1>1. Status.status \in -1..1 /\ Status.offset \in Int BY StatusTypes
<1>2. k \in K
  <2> DEFINE c == [kern EXCEPT !.leap = 0]
  <2>1. c \in K /\ kern \in K BY DEF Types
  <2>2. k \in {kern, [c EXCEPT !.done = FALSE]} BY DEF servo_add
  <2> HIDE DEF c
  <2> QED BY <2>1, <2>2
<1> HIDE DEF k
<1>3. dn \in BOOLEAN BY <1>2
<1>4. sysclk_set_leap(k, Status.status) = [u EXCEPT !.done = dn]
  BY <1>2 DEF sysclk_set_leap
<1>5. u \in K BY <1>1, <1>2
<1> HIDE DEF u, dn
<1>6. sysclk_set_leap(k, Status.status) \in K BY <1>3, <1>4, <1>5
<1>7. s \in K BY <1>2, <1>6
<1>8. KernelTold = IF conf.toUtc /\ clk.utc_offset_set # Status.offset
                   THEN [s EXCEPT !.tai = Status.offset] ELSE s
  BY DEF KernelTold, k
<1> HIDE DEF s
<1> QED BY <1>1, <1>7, <1>8

\* The check's part of an update: what it accuses somebody of has happened.
LEMMA CheckTypes ==
    ASSUME Types, Founded, NEW q \in clockcheck_sample(cc)
    PROVE  /\ q.c \in [known : BOOLEAN, last : BOOLEAN, jump : Int] /\ q.bad \in BOOLEAN
           /\ q.bad => moved
           /\ q.c # cc \/ q.bad => q.c.jump = 0
<1> DEFINE C == [known : BOOLEAN, last : BOOLEAN, jump : Int]
           c == [cc EXCEPT !.last = TRUE]
           e == [c EXCEPT !.jump = 0]
<1>1. cc \in C BY DEF Types
<1>2. c \in C BY <1>1
<1>3. e = [cc EXCEPT !.last = TRUE, !.jump = 0] OBVIOUS
<1> HIDE DEF c
<1>4. e \in C /\ e.jump = 0 BY <1>2
<1> HIDE DEF e
<1>5. CASE q = [c |-> cc, bad |-> FALSE] BY <1>1, <1>5
<1>6. CASE q # [c |-> cc, bad |-> FALSE]
  <2>1. PICK bad \in (IF cc.last /\ cc.jump # 0 THEN BOOLEAN ELSE {FALSE}) :
             q = [c |-> e, bad |-> bad]
    BY <1>3, <1>6 DEF clockcheck_sample
  <2>2. q.c = e /\ q.bad = bad /\ bad \in BOOLEAN BY <2>1
  <2>3. bad => cc.last /\ cc.jump # 0 BY <2>1
  <2>4. bad => moved BY <2>3 DEF Founded
  <2> QED BY <1>4, <2>2, <2>4
<1> QED BY <1>5, <1>6

\* A step of the clock by the program itself leaves the check as it was.
LEMMA StepKnown ==
    ASSUME NEW c \in [known : BOOLEAN, last : BOOLEAN, jump : Int], NEW step \in Int
    PROVE  clockcheck_step(Stepped(c, step), step) = c
<1> DEFINE d == [c EXCEPT !.jump = c.jump + step]
<1>1. CASE c.last
  <2>1. Stepped(c, step) = d BY <1>1 DEF Stepped
  <2>2. d.last = c.last /\ d.jump = c.jump + step /\ d.known = c.known
        /\ d \in [known : BOOLEAN, last : BOOLEAN, jump : Int]
    OBVIOUS
  <2>3. c.jump + step - step = c.jump OBVIOUS
  <2> HIDE DEF d
  <2>4. clockcheck_step(d, step) = [d EXCEPT !.jump = d.jump - step]
    BY <1>1, <2>2 DEF clockcheck_step
  <2>5. [d EXCEPT !.jump = d.jump - step] = c BY <2>2, <2>3
  <2> QED BY <2>1, <2>4, <2>5
<1>2. CASE ~c.last BY <1>2 DEF Stepped, clockcheck_step
<1> QED BY <1>1, <1>2

\* The servo as clock_handle_leap() leaves it.
LEMMA ServoToldTypes ==
    ASSUME Types
    PROVE  SvOK(ServoTold) /\ ServoTold.curr = sv.curr
<1>1. SvOK(sv) /\ conf.servo \in ServoConfType BY ConfTypes DEF Types
<1>2. Status.status \in -1..1 BY StatusTypes
<1> QED BY <1>1, <1>2, LeapTypes DEF ServoTold

\* An update: the servo counts what the history counts.
LEMMA UpdateFounded == Types /\ Founded /\ Update => Types' /\ Founded'
<1> SUFFICES ASSUME Types, Founded, Update PROVE Types' /\ Founded' OBVIOUS
<1> DEFINE offset == Measured + get_sync_offset(Status.offset)
           c == conf.servo
<1>1. c \in ServoConfType /\ c.num \in Nat /\ c.near \in Nat BY ConfTypes
<1>2. offset \in Int /\ Status.status \in -1..1 /\ Status.offset \in Int BY StatusTypes
<1>3. /\ due' = FALSE /\ UNCHANGED <<conf, t, phase, disturbed>> BY DEF Update
<1>4. PICK q \in clockcheck_sample(cc), stepped \in BOOLEAN, set \in BOOLEAN :
        LET s == IF q.bad THEN servo_reset(ServoTold, c) ELSE ServoTold
        IN  \E o \in servo_sample(s, c, offset, slew) :
                /\ Apply(q, o, offset, stepped, set)
                /\ kern' = KernelTold
                /\ accused' = (accused \/ (q.bad /\ ~moved))
                /\ moved' = IF q.c # cc \/ q.bad THEN FALSE ELSE moved
  BY DEF Update
<1> DEFINE s == IF q.bad THEN servo_reset(ServoTold, c) ELSE ServoTold
<1>5. PICK o \in servo_sample(s, c, offset, slew) :
                /\ Apply(q, o, offset, stepped, set)
                /\ kern' = KernelTold
                /\ accused' = (accused \/ (q.bad /\ ~moved))
                /\ moved' = IF q.c # cc \/ q.bad THEN FALSE ELSE moved
  BY <1>4
<1>6. SvOK(s) /\ s.curr = sv.curr BY <1>1, ServoToldTypes, ResetTypes
<1> HIDE DEF s, c, offset
<1>7. slew \in -1..1 BY DEF Types
<1>8. PICK p \in Samples(s, c, offset, slew) : o = Settle(p, c, offset) BY DEF servo_sample
<1>9. Raw(p, s) BY <1>1, <1>2, <1>6, <1>7, SamplesTypes
<1>10. Settled(o, s, c, offset) BY <1>1, <1>2, <1>6, <1>8, <1>9, SettleTypes
<1>11. /\ SvOK(o.s) /\ o.state \in ServoStates /\ o.slew \in -1..1
  BY <1>10 DEF Settled, SvOK
<1> DEFINE jump == o.state = "JUMP"
           locks == o.state # "UNLOCKED"
           fails == locks /\ ((jump /\ ~stepped) \/ ~set)
           step == IF jump /\ stepped THEN -offset ELSE 0
           k == IF jump /\ stepped THEN clockcheck_step(Stepped(q.c, step), step) ELSE q.c
<1>12. /\ bias' = bias + step
       /\ slew' = IF locks /\ ~fails THEN o.slew ELSE slew
       /\ cc' = IF locks /\ ~fails THEN [k EXCEPT !.known = TRUE] ELSE k
       /\ sv' = IF fails THEN servo_unlock(o.s, c) ELSE o.s
       /\ clk' = [servo |-> TRUE, leap_set |-> Status.status, utc_offset_set |-> Status.offset,
                  state |-> IF fails THEN "UNLOCKED" ELSE o.state]
       /\ faults' = IF fails THEN faults + 1 ELSE faults
       /\ fails => faults < MaxFaults
       /\ near' = IF o.state \in {"UNLOCKED", "JUMP"} \/ Abs(offset) >= c.near THEN 0
                  ELSE IF near < c.num THEN near + 1 ELSE near
  BY <1>5 DEF Apply, c
<1>13. step \in Int BY <1>2
<1>14. q.c \in [known : BOOLEAN, last : BOOLEAN, jump : Int] /\ q.bad \in BOOLEAN
       /\ (q.bad => moved) /\ (q.c # cc \/ q.bad => q.c.jump = 0)
  BY CheckTypes
<1>15. k = q.c BY <1>13, <1>14, StepKnown
<1> HIDE DEF jump, locks, fails, step, k
<1>16. cc' \in [known : BOOLEAN, last : BOOLEAN, jump : Int]
       /\ cc'.last = q.c.last /\ cc'.jump = q.c.jump
  BY <1>12, <1>14, <1>15
<1>17. SvOK(sv') /\ sv'.curr = o.s.curr BY <1>1, <1>11, <1>12, ResetTypes DEF servo_unlock
<1>18. clk' \in [servo : BOOLEAN, leap_set : -1..1, utc_offset_set : Int, state : ServoStates]
       /\ clk'.state \in {"UNLOCKED", o.state}
  BY <1>2, <1>11, <1>12 DEF ServoStates
<1>19. faults' \in 0..MaxFaults BY <1>12, Numbers DEF Types
<1>20. bias' \in Int /\ slew' \in -1..1 BY <1>7, <1>11, <1>12, <1>13 DEF Types
<1>21. kern' \in [leap : -1..1, done : BOOLEAN, tai : Int] BY <1>5, KernelTypes
<1>22. /\ moved' \in BOOLEAN /\ accused' \in BOOLEAN /\ ~accused'
       /\ cc'.last /\ cc'.jump # 0 => moved'
  <2>1. ~accused BY DEF Founded, VerdictsFounded, CheckTrusts
  <2>2. accused' = FALSE BY <1>5, <1>14, <2>1
  <2>3. moved \in BOOLEAN BY DEF Types
  <2>4. moved' \in BOOLEAN BY <1>5, <2>3
  <2>5. CASE q.c # cc \/ q.bad BY <1>14, <1>16, <2>2, <2>4, <2>5
  <2>6. CASE ~(q.c # cc \/ q.bad)
    <3>1. q.c = cc /\ moved' = moved BY <1>5, <2>6
    <3>2. cc'.last /\ cc'.jump # 0 => moved BY <1>16, <3>1 DEF Founded
    <3> QED BY <2>2, <2>4, <3>1, <3>2
  <2> QED BY <2>5, <2>6
<1>23. /\ near' \in 0..c.num /\ sv'.curr <= c.num /\ near' + sv'.curr >= c.num
       /\ c.near = 0 => near' = 0
       /\ o.state = "LOCKED_STABLE" => near' >= c.num
  <2>1. /\ near \in 0..c.num /\ sv.curr \in 0..c.num /\ near + sv.curr >= c.num
        /\ c.near = 0 => near = 0
    BY DEF Types, Founded, SvOK, SvType, c
  <2>2. Abs(offset) \in Nat BY <1>2 DEF Abs
  <2>3. CASE o.state \in {"UNLOCKED", "JUMP"}
    <3>1. near' = 0 /\ sv'.curr = c.num BY <1>10, <1>12, <1>17, <2>3 DEF Settled
    <3> QED BY <1>1, <2>3, <3>1
  <2>4. CASE o.state \in {"LOCKED", "LOCKED_STABLE"}
    <3>1. sv'.curr = IF c.near = 0 THEN sv.curr ELSE check_offset_threshold(c, sv.curr, offset)
      BY <1>6, <1>10, <1>17, <2>4 DEF Settled
    <3>2. near' = IF Abs(offset) >= c.near THEN 0 ELSE IF near < c.num THEN near + 1 ELSE near
      BY <1>12, <2>4
    <3>3. o.state = "LOCKED_STABLE" => sv'.curr = 0 BY <1>10, <1>17 DEF Settled
    <3> QED BY <1>1, <2>1, <2>2, <3>1, <3>2, <3>3 DEF check_offset_threshold
  <2> QED BY <1>11, <2>3, <2>4 DEF ServoStates
<1>24. Types'
  BY <1>3, <1>16, <1>17, <1>18, <1>19, <1>20, <1>21, <1>22, <1>23 DEF Types, c
<1> QED BY <1>3, <1>18, <1>22, <1>23, <1>24 DEF Founded, VerdictsFounded, StableIsEarned, CheckTrusts, c

\* Every step keeps the types and the grounds of the verdicts.
LEMMA StepFounded == Types /\ Founded /\ [Next]_vars => Types' /\ Founded'
<1> SUFFICES ASSUME Types, Founded, [Next]_vars PROVE Types' /\ Founded' OBVIOUS
<1>1. CASE Next BY <1>1, TickFounded, DisturbFounded, OthersFounded, UpdateFounded DEF Next
<1>2. CASE UNCHANGED vars
  BY <1>2 DEF vars, Types, Founded, VerdictsFounded, StableIsEarned, CheckTrusts
<1> QED BY <1>1, <1>2

\* VerdictsFounded in every state, for every servo, threshold and number of
\* faults: a lock is called stable only after num good offsets in a row, and the
\* sanity check resets the servo only if somebody else moved the clock.
THEOREM VerdictsAlwaysFounded == Spec => []VerdictsFounded
<1>1. Types /\ Founded => VerdictsFounded BY DEF Founded
<1> QED BY <1>1, InitFounded, StepFounded, PTL DEF Spec

-----------------------------------------------------------------------------
\* The clock in UTC is the one that decides, or nobody disturbed it: it knows on
\* which side of midnight it is.
Good == ~conf.toUtc \/ ~disturbed

\* What holds in any case of the announcement and of what was made of it.
Announced ==
    /\ clk.leap_set \in {0, conf.leap} /\ kern.leap \in {0, conf.leap}
    /\ conf.toUtc /\ ~conf.kernel_leap => kern.leap = 0
    /\ due \/ clk.leap_set # 0 \/ phase = 2 => t > First
    /\ phase = 0 => clk.leap_set = 0
    /\ conf.leap = 0 => phase = 0
    /\ conf.leap # 0 => /\ phase = 0 => t < Midnight
                        /\ t - (Off0 + conf.leap) > Day + Late => phase = 2

\* An announcement that went away early is remembered until midnight, and
\* forgotten with the first update after it.
Remembered ==
    /\ t < Midnight /\ phase = 2 => clk.leap_set = conf.leap
    /\ t >= Midnight /\ clk.leap_set # 0 => t - Midnight <= faults + (IF due THEN 1 ELSE 0)
    /\ OffsetRight

Zeros(pts) == \A i \in DOMAIN pts : pts[i] = 0

\* A clock that nobody disturbed is right and at rest, and so are the samples of
\* its servo; the kernel has made its leap second.
Steady ==
    /\ Err = 0 /\ slew = 0 /\ Zeros(sv.pts)
    /\ conf.toUtc /\ conf.leap # 0 /\ t >= Midnight =>
           conf.kernel_leap /\ (kern.done \/ kern.leap = 0)

\* Regressions are not used for a PHC that follows the system clock, and in six
\* hours the clocks are read at least once.
Suited == (conf.toUtc \/ conf.servo.type # "LINREG") /\ MaxFaults < SixHours

Harmless == Announced /\ (Suited /\ Good => Remembered) /\ (Suited /\ ~disturbed => Steady)

\* The time of day within two days.
LEMMA TimeOfDay ==
    ASSUME NEW ts \in Nat, ts < 2 * Day
    PROVE  ts % Day = IF ts < Day THEN ts ELSE ts - Day
<1>1. Day \in Nat /\ Day > 0 BY Numbers
<1> DEFINE d == ts \div Day
           e == ts % Day
<1>2. d \in Nat /\ e \in 0..(Day - 1) /\ ts = Day * d + e BY <1>1
<1> HIDE DEF d, e
<1>3. CASE d = 0 BY <1>1, <1>2, <1>3 DEF e
<1>4. CASE d = 1 BY <1>1, <1>2, <1>4 DEF e
<1>5. CASE d >= 2
  <2>1. Day * (d - 2) >= 0 BY <1>1, <1>2, <1>5
  <2>2. Day * d >= 2 * Day BY <1>1, <1>2, <2>1
  <2> QED BY <1>1, <1>2, <2>2
<1> QED BY <1>2, <1>3, <1>4, <1>5

\* Where midnight is, and what the offset is on its sides.
LEMMA Sides ==
    ASSUME Types
    PROVE  /\ Midnight = IF conf.leap = -1 THEN Day ELSE Day + 1
           /\ TrueOff = IF t >= Midnight THEN 1 + conf.leap ELSE 1
           /\ t \in Nat /\ SixHours + 2 <= t /\ t <= Day + SixHours + 3
           /\ First < Midnight /\ Midnight \in Nat
BY Numbers, ConfTypes DEF Types, Midnight, TrueOff

\* The time stamp of clock_handle_leap() is UTC, but for an offset that changed
\* early or late.
LEMMA LeapTimes ==
    ASSUME Types, conf.toUtc => Err = 0
    PROVE  LeapTime \in {t - TrueOff, t - agent.offset}
<1>1. conf.leap \in {-1, 0, 1} /\ conf.toUtc \in BOOLEAN BY ConfTypes
<1>2. t \in Int /\ bias \in Int BY Sides DEF Types
<1>3. TrueOff \in Int BY <1>1, Sides
<1>4. agent.offset \in Int BY StatusTypes
<1>5. CASE ~conf.toUtc BY <1>5 DEF LeapTime, Source
<1>6. CASE conf.toUtc /\ clk.state = "UNLOCKED"
  <2>1. Measured = bias BY <1>2, <1>6 DEF Measured, Reading, Source
  <2>2. LeapTime = Reading - (Measured + get_sync_offset(agent.offset))
    BY <1>6 DEF LeapTime
  <2>3. get_sync_offset(agent.offset) = agent.offset BY <1>6 DEF get_sync_offset
  <2>4. Reading = t + bias BY DEF Reading
  <2>5. LeapTime = t + bias - (bias + agent.offset) BY <1>2, <1>4, <2>1, <2>2, <2>3, <2>4
  <2> QED BY <1>2, <1>4, <2>5
<1>7. CASE conf.toUtc /\ clk.state # "UNLOCKED"
  <2>1. bias + TrueOff = 0 BY <1>2, <1>3, <1>7 DEF Err, Right
  <2> QED BY <1>2, <1>3, <1>7, <2>1 DEF LeapTime, Reading
<1> QED BY <1>1, <1>5, <1>6, <1>7

\* The offset of leap_second_status() is that of the moment.
LEMMA StatusRight ==
    ASSUME Types, Announced, Remembered, Suited, due, ~Suspended,
           conf.toUtc => Err = 0
    PROVE  /\ Status.offset = TrueOff
           /\ t >= Midnight => Status.status = 0
           /\ t < Midnight => Status.status = IF phase = 0 THEN 0 ELSE conf.leap
<1>1. conf.leap \in {-1, 0, 1} /\ conf.toUtc \in BOOLEAN BY ConfTypes
<1>2. CASE conf.leap = 0
  <2>1. phase = 0 /\ clk.leap_set = 0 /\ agent.leap = 0 /\ agent.offset = 1
    BY <1>2 DEF Announced, agent, Off0
  <2>2. ~Pending BY <2>1 DEF Pending
  <2> QED BY <1>2, <2>1, <2>2, Sides DEF Status
<1>3. CASE conf.leap # 0
  <2> DEFINE l == conf.leap
             ts == LeapTime
  <2>1. /\ agent.leap = IF phase = 1 THEN l ELSE 0
        /\ agent.offset = IF phase = 2 THEN 1 + l ELSE 1
    BY DEF agent, Off0
  <2>2. /\ phase \in 0..2 /\ clk.leap_set \in {0, l} /\ (phase = 0 => clk.leap_set = 0)
        /\ t > First /\ (phase = 0 => t < Midnight)
        /\ t - (1 + l) > Day + Late => phase = 2
        /\ t < Midnight /\ phase = 2 => clk.leap_set = l
        /\ t >= Midnight /\ clk.leap_set # 0 => t - Midnight <= faults + 1
    BY <1>3 DEF Types, Announced, Remembered, Off0
  <2>3. faults \in Nat /\ faults <= MaxFaults /\ MaxFaults < SixHours
    BY Numbers DEF Types, Suited
  <2>4. ts \in {t - TrueOff, t - agent.offset} BY LeapTimes
  <2>5. CASE ~Pending
    <3>1. clk.leap_set = 0 /\ phase # 1 BY <1>3, <2>1, <2>5 DEF Pending
    <3>2. Status.status = 0 /\ Status.offset = agent.offset BY <2>5 DEF Status
    <3>3. CASE phase = 0 BY <2>1, <2>2, <3>2, <3>3, Sides
    <3>4. CASE phase = 2
      <4>1. ~(t < Midnight) BY <1>3, <2>2, <3>1, <3>4
      <4>2. t >= Midnight BY <4>1, Sides
      <4> QED BY <2>1, <3>2, <3>4, <4>1, <4>2, Sides
    <3> QED BY <2>2, <3>1, <3>3, <3>4
  <2>6. CASE Pending
    <3>0. Status = leap_second_status(ts, clk.leap_set, agent.leap, agent.offset)
      BY <2>6 DEF Status
    <3>1. Day - (ts % Day) > 1
      <4>1. ~is_utc_ambiguous(ts) BY <2>6 DEF Suspended
      <4>2. ts \in Int BY <1>1, <2>1, <2>4, Sides
      <4>3. ts % Day \in Int BY <4>2, Numbers
      <4> QED BY <4>1, <4>3, Numbers DEF is_utc_ambiguous
    <3>2. CASE t < Midnight
      <4>1. ts \in Nat /\ SixHours < ts /\ ts < Day
        BY <1>1, <1>3, <2>1, <2>2, <2>4, <3>2, Sides, Numbers
      <4>2. ts % Day = ts /\ ts % Day > SixHours BY <4>1, TimeOfDay, Numbers
      <4>3. phase # 0
        BY <2>1, <2>2, <2>6 DEF Pending
      <4>4. Status.status = l /\ Status.offset = 1
        BY <1>1, <1>3, <2>1, <2>2, <3>0, <3>2, <4>2, <4>3 DEF leap_second_status
      <4> QED BY <3>2, <4>3, <4>4, Sides
    <3>3. CASE t >= Midnight
      <4>1. phase \in {1, 2} BY <2>2, <3>3, Sides
      <4>2. ts \in Nat /\ Day - 1 <= ts /\ ts < 2 * Day
        BY <1>1, <1>3, <2>1, <2>4, <3>3, Sides, Numbers
      <4>3. Day <= ts
        <5>1. CASE ts = Day - 1 BY <3>1, <4>2, <5>1, TimeOfDay, Numbers
        <5> QED BY <4>2, <5>1, Numbers
      <4>4. ts % Day = ts - Day BY <4>2, <4>3, TimeOfDay, Numbers
      <4>5. ts - Day <= SixHours
        <5>1. CASE clk.leap_set # 0
          <6>1. t - Midnight <= SixHours BY <2>2, <2>3, <3>3, <5>1, Sides, Numbers
          <6> QED BY <1>1, <1>3, <2>1, <2>4, <3>3, <4>1, <6>1, Sides, Numbers
        <5>2. CASE clk.leap_set = 0
          <6>1. phase = 1 BY <2>1, <2>6, <5>2, <4>1 DEF Pending
          <6>2. t - (1 + l) <= Day + Late BY <1>1, <2>2, <6>1, Sides, Numbers
          <6> QED BY <1>1, <1>3, <2>1, <2>4, <3>3, <6>1, <6>2, Sides, Numbers
        <5> QED BY <5>1, <5>2
      <4>6. ~(ts % Day > SixHours) BY <4>2, <4>4, <4>5, Numbers
      <4>7. Status.status = 0 /\ Status.offset = 1 + l
        BY <1>1, <1>3, <2>1, <3>0, <4>1, <4>6 DEF leap_second_status
      <4> QED BY <3>3, <4>7, Sides
    <3> QED BY <3>2, <3>3, Sides
  <2> QED BY <2>5, <2>6
<1> QED BY <1>1, <1>2, <1>3

-----------------------------------------------------------------------------
\* Moving points by nothing, or adding a good one, leaves them good.
LEMMA ZerosMoved ==
    ASSUME NEW pts \in Seq(Int), Zeros(pts)
    PROVE  Zeros(move_reference(pts, 0))
<1>1. DOMAIN move_reference(pts, 0) = DOMAIN pts BY DEF move_reference
<1>2. \A i \in DOMAIN pts : move_reference(pts, 0)[i] = 0 BY DEF move_reference, Zeros
<1> QED BY <1>1, <1>2 DEF Zeros

LEMMA ZerosAdded ==
    ASSUME NEW pts \in Seq(Int), Zeros(pts)
    PROVE  Zeros(add_sample(pts, 0))
<1> DEFINE all == Append(pts, 0)
<1>0. 0 \in Int /\ Len(pts) \in Nat /\ DOMAIN pts = 1..Len(pts) BY LenProperties
<1>1. all \in Seq(Int) /\ Len(all) = Len(pts) + 1 /\ all # <<>>
      /\ (\A i \in 1..Len(pts) : all[i] = pts[i]) /\ all[Len(pts) + 1] = 0
  BY <1>0, AppendProperties
<1> HIDE DEF all
<1>2. \A i \in 1..Len(all) : all[i] = 0 BY <1>0, <1>1 DEF Zeros
<1>3. Zeros(all) BY <1>1, <1>2, LenProperties DEF Zeros
<1>4. /\ Tail(all) \in Seq(Int) /\ Len(Tail(all)) = Len(all) - 1
      /\ \A i \in 1..Len(Tail(all)) : Tail(all)[i] = all[i + 1]
  BY <1>1, HeadTailProperties
<1>5. Zeros(Tail(all))
  <2>1. DOMAIN Tail(all) = 1..Len(Tail(all)) BY <1>4, LenProperties
  <2>2. \A i \in 1..Len(Tail(all)) : Tail(all)[i] = 0 BY <1>0, <1>1, <1>2, <1>4
  <2> QED BY <2>1, <2>2 DEF Zeros
<1>6. add_sample(pts, 0) \in {all, Tail(all)} BY DEF add_sample, all
<1> QED BY <1>3, <1>5, <1>6

\* regress(): points that agree fix the offset.
LEMMA ZerosRegress ==
    ASSUME NEW pts \in Seq(Int), Zeros(pts), NEW i \in regress(pts)
    PROVE  i = 0
<1>1. Len(pts) \in Nat /\ DOMAIN pts = 1..Len(pts) BY LenProperties
<1>2. MinPoints \in Nat /\ MinPoints > 0 BY DisciplineAssumption
<1> DEFINE U(n) == {pts[j] : j \in (Len(pts) - n + 1)..Len(pts)}
<1>3. PICK n \in MinPoints..Len(pts) : i \in Min(U(n))..Max(U(n)) BY DEF regress
<1>4. U(n) = {0}
  <2>1. n \in Int /\ 1 <= n /\ n <= Len(pts) BY <1>1, <1>2, <1>3
  <2>2. \A j \in (Len(pts) - n + 1)..Len(pts) : j \in DOMAIN pts BY <1>1, <2>1
  <2>3. \A j \in (Len(pts) - n + 1)..Len(pts) : pts[j] = 0 BY <2>2 DEF Zeros
  <2>4. Len(pts) \in (Len(pts) - n + 1)..Len(pts) BY <1>1, <2>1
  <2> QED BY <2>3, <2>4
<1> HIDE DEF U
<1>5. Min({0}) = 0 /\ Max({0}) = 0 BY DEF Min, Max
<1> QED BY <1>3, <1>4, <1>5

\* The sign of a number, for the provers.
LEMMA Minus == \A z \in Int : -z = 0 - z
OBVIOUS

\* Offset 0, of a clock at rest: every servo leaves the clock at rest.
LEMMA ZerosSample ==
    ASSUME NEW s, SvOK(s), Zeros(s.pts), NEW c \in ServoConfType,
           NEW z \in Int, z = 0, NEW o \in Samples(s, c, z, z)
    PROVE  o.slew = 0 /\ Zeros(o.s.pts)
<1>0. z \in -1..1 /\ -z = 0 /\ -Sign(z) = 0
  <2>1. Sign(z) = 0 BY DEF Sign
  <2>2. z \in -1..1 /\ 0 - z = 0 OBVIOUS
  <2>3. -z = 0 BY <2>2, Minus
  <2>4. -Sign(z) = 0
    <3>1. 0 - Sign(z) = 0 /\ Sign(z) \in Int BY <2>1
    <3> QED BY <3>1, Minus
  <2> QED BY <2>2, <2>3, <2>4
<1>1. c.type \in ServoTypes BY DEF ServoConfType
<1>2. CASE c.type = "PI"
  <2>1. o = pi_sample(s, c, z, z) BY <1>2 DEF Samples
  <2>2. o.s.pts = s.pts /\ o.slew \in {z, 0, -Sign(z)} BY <1>0, <2>1, PiTypes
  <2> QED BY <1>0, <2>2
<1>3. CASE c.type = "LINREG"
  <2> DEFINE pts == add_sample(s.pts, z)
             u == [s EXCEPT !.pts = pts]
             m == move_reference(pts, -z)
             v == [u EXCEPT !.pts = m]
  <2>1. s.pts \in Seq(Int) /\ Len(s.pts) <= MaxPoints BY DEF SvOK, SvType
  <2>2. pts \in Seq(Int) /\ Zeros(pts) BY <1>0, <2>1, AddTypes, ZerosAdded
  <2>3. Zeros(m) BY <1>0, <2>2, ZerosMoved
  <2>4. u.pts = pts /\ v.pts = m BY DEF SvOK, SvType
  <2>5. \/ o = Outcome(u, "UNLOCKED", z)
        \/ \E i \in regress(pts) :
               o = IF MustStep(s, c, i) THEN Outcome(v, "JUMP", -Sign(i - z))
                   ELSE Outcome(u, "LOCKED", -Sign(i))
    BY <1>3 DEF Samples, linreg_sample
  <2> HIDE DEF pts, u, v, m
  <2>6. CASE o = Outcome(u, "UNLOCKED", z) BY <2>2, <2>4, <2>6 DEF Outcome
  <2>7. CASE o # Outcome(u, "UNLOCKED", z)
    <3>1. PICK i \in regress(pts) :
               o = IF MustStep(s, c, i) THEN Outcome(v, "JUMP", -Sign(i - z))
                   ELSE Outcome(u, "LOCKED", -Sign(i))
      BY <2>5, <2>7
    <3>2. i = z /\ i - z = z BY <2>2, ZerosRegress
    <3> QED BY <1>0, <2>2, <2>3, <2>4, <3>1, <3>2 DEF Outcome
  <2> QED BY <2>6, <2>7
<1>4. CASE c.type = "NULLF"
  <2>1. o = nullf_sample(s, c, z) BY <1>4 DEF Samples
  <2> QED BY <2>1 DEF nullf_sample, Outcome
<1>5. CASE c.type = "NTPSHM"
  <2>1. o = ntpshm_sample(s, z) BY <1>5 DEF Samples
  <2> QED BY <2>1 DEF ntpshm_sample, Outcome
<1> QED BY <1>1, <1>2, <1>3, <1>4, <1>5 DEF ServoTypes

-----------------------------------------------------------------------------
\* The first state.
LEMMA InitHarmless == Init => Harmless
<1> SUFFICES ASSUME Init PROVE Harmless OBVIOUS
<1>1. Types BY InitFounded
<1>2. /\ t = First /\ due = FALSE /\ slew = 0 /\ phase = 0 /\ kern.leap = 0 /\ clk.leap_set = 0
      /\ used = <<0, 0>> /\ sv.pts = <<>>
  BY DEF Init, servo_create
<1>3. disturbed <=> (Err # 0) BY Zenon DEF Init
<1>4. t < Midnight /\ ~(t >= Midnight) /\ t \in Nat BY <1>1, <1>2, Sides
<1>5. ~(t - (Off0 + conf.leap) > Day + Late)
  BY <1>1, <1>2, Numbers, ConfTypes
<1>6. Announced BY <1>2, <1>4, <1>5 DEF Announced
<1>7. Remembered BY <1>2, <1>4 DEF Remembered, OffsetRight
<1>8. Zeros(<<>>) BY DEF Zeros
<1>9. ~disturbed => Steady BY <1>2, <1>3, <1>4, <1>8 DEF Steady
<1> QED BY <1>6, <1>7, <1>9 DEF Harmless

\* Time passes.  The kernel's leap second comes at midnight and once.
LEMMA TickHarmless == Types /\ Types' /\ Harmless /\ Tick => Harmless'
<1> SUFFICES ASSUME Types, Types', Harmless, Tick PROVE Harmless' OBVIOUS
<1> DEFINE next == IF t < Last THEN t + 1 ELSE t
           leaps == Leaps(t + bias, next + bias + slew)
           d == slew - (IF leaps THEN kern.leap ELSE 0)
<1>1. /\ ~due /\ t' = next /\ bias' = bias + d /\ slew' = 0 /\ due' = TRUE
      /\ conf.leap # 0 /\ next = Midnight => phase > 0
      /\ conf.leap # 0 /\ next - (Off0 + conf.leap) > Day + Late => phase = 2
      /\ kern' = IF leaps THEN [kern EXCEPT !.done = TRUE, !.tai = @ + kern.leap] ELSE kern
      /\ sv' = Slewed(Passes(sv, 1, d), slew)
      /\ UNCHANGED <<conf, phase, clk, faults, used>>
  BY DEF Tick
<1>2. disturbed' <=> (disturbed \/ (next = Midnight /\ t < Midnight /\ conf.leap # 0 /\
                                    (clk.leap_set = 0 \/ (conf.toUtc /\ ~leaps))))
  BY Zenon DEF Tick
<1>3. /\ conf.leap \in {-1, 0, 1} /\ conf.toUtc \in BOOLEAN /\ kern.leap \in {0, conf.leap}
      /\ (conf.toUtc /\ ~conf.kernel_leap => kern.leap = 0)
  BY ConfTypes DEF Harmless, Announced
<1>4. Midnight' = Midnight /\ Midnight \in Nat /\ (Suited' <=> Suited)
      /\ Midnight = IF conf.leap = -1 THEN Day ELSE Day + 1
  BY <1>1, Sides DEF Midnight, Suited
<1>5. /\ t \in Nat /\ t >= First /\ t <= Last /\ t' \in Nat
      /\ t' \in {t, t + 1} /\ (t' = t => t = Last) /\ t' > First
  BY <1>1, Numbers, Sides DEF Types
<1>6. kern'.leap = kern.leap BY <1>1 DEF Types
<1>7. Announced'
  <2>1. conf.leap # 0 /\ phase = 0 => t' < Midnight
    <3>1. conf.leap # 0 /\ phase = 0 => t < Midnight /\ next # Midnight
      BY <1>1 DEF Harmless, Announced
    <3> QED BY <1>1, <1>4, <1>5, <3>1
  <2>2. clk' = clk /\ conf' = conf /\ phase' = phase BY <1>1
  <2>3. conf.leap # 0 /\ t' - (Off0 + conf.leap) > Day + Late => phase = 2 BY <1>1
  <2> QED BY <1>3, <1>4, <1>5, <1>6, <2>1, <2>2, <2>3 DEF Harmless, Announced
<1>8. Suited' /\ Good' => Remembered'
  <2> SUFFICES ASSUME Suited', Good' PROVE Remembered' OBVIOUS
  <2>1. Suited /\ Good BY <1>1, <1>2, <1>4 DEF Good
  <2>2. Remembered BY <2>1 DEF Harmless
  <2>3. OffsetRight' BY <1>1, <2>2 DEF Remembered, OffsetRight
  <2>4. faults \in Nat BY Numbers DEF Types
  <2>5. t' < Midnight => t < Midnight BY <1>4, <1>5
  <2>6. t' >= Midnight /\ clk.leap_set # 0 => t' - Midnight <= faults + 1
    <3>1. CASE t >= Midnight BY <1>1, <1>4, <1>5, <2>2, <2>4, <3>1 DEF Remembered
    <3>2. CASE t < Midnight
      <4>1. t + 1 <= Midnight BY <1>4, <1>5, <3>2
      <4>2. t' <= Midnight BY <1>4, <1>5, <4>1
      <4>3. \A x, y \in Nat, z \in Nat : x <= y => x - y <= z + 1 OBVIOUS
      <4>4. t' \in Nat /\ Midnight \in Nat BY <1>4, <1>5
      <4> QED BY <2>4, <4>2, <4>3, <4>4
    <3> QED BY <1>4, <1>5, <3>1, <3>2
  <2> QED BY <1>1, <1>4, <2>2, <2>3, <2>5, <2>6 DEF Remembered
<1>9. Suited' /\ ~disturbed' => Steady'
  <2> SUFFICES ASSUME Suited', ~disturbed' PROVE Steady' OBVIOUS
  <2>1. Suited /\ ~disturbed BY <1>2, <1>4
  <2>2. Steady BY <2>1 DEF Harmless
  <2>3. slew = 0 /\ Zeros(sv.pts) /\ Err = 0 /\ bias \in Int /\ SvOK(sv) BY <2>2 DEF Steady, Types
  <2>4. Zeros(sv'.pts)
    <3>1. d \in Int /\ 1 \in Int /\ 0 \in Int
      <4>1. kern.leap \in -1..1 BY DEF Types
      <4> HIDE DEF leaps
      <4> QED BY <2>3, <4>1
    <3> HIDE DEF d
    <3> DEFINE s == Passes(sv, 1, d)
    <3>2. SvOK(s) /\ s.pts = sv.pts BY <2>3, <3>1, PassesTypes
    <3> HIDE DEF s
    <3>3. sv'.pts = move_reference(sv.pts, 0) BY <1>1, <2>3, <3>1, <3>2, SlewedTypes DEF s
    <3>4. sv.pts \in Seq(Int) BY <2>3 DEF SvOK, SvType
    <3> QED BY <2>3, <3>3, <3>4, ZerosMoved
  <2>5. /\ TrueOff = IF t >= Midnight THEN 1 + conf.leap ELSE 1
        /\ TrueOff' = IF t' >= Midnight THEN 1 + conf.leap ELSE 1
        /\ TrueOff \in Int /\ TrueOff' \in Int
    BY <1>1, <1>3, <1>4, Sides DEF TrueOff, Off0
  <2>6. CASE ~conf.toUtc
    <3>1. ~leaps BY <2>6 DEF Leaps
    <3>2. bias = 0 /\ bias' = bias BY <1>1, <2>3, <2>6, <3>1 DEF Err, Right
    <3>3. Err' = 0 BY <1>1, <2>6, <3>2 DEF Err, Right
    <3> QED BY <1>1, <2>4, <2>6, <3>3 DEF Steady
  <2>7. CASE conf.toUtc
    <3>1. bias + TrueOff = 0 BY <2>3, <2>5, <2>7 DEF Err, Right
    <3>2. Err' = bias' + TrueOff'
      <4>1. bias' \in Int BY DEF Types
      <4> QED BY <1>1, <2>5, <2>7, <4>1 DEF Err, Right
    <3> DEFINE at == IF kern.leap = -1 THEN Day - 1 ELSE Day
    <3>3. leaps <=> (kern.leap # 0 /\ ~kern.done /\ t + bias < at /\ t' + bias >= at)
      <4>1. next + bias + slew = t' + bias BY <1>1, <1>5, <2>3
      <4> QED BY <2>7, <4>1, Zenon DEF Leaps
    <3>4. bias' = bias - (IF leaps THEN kern.leap ELSE 0)
      <4>1. kern.leap \in Int BY DEF Types
      <4> HIDE DEF leaps
      <4> QED BY <1>1, <2>3, <4>1
    <3>5. leaps => kern'.done
      <4>1. ASSUME leaps PROVE kern' = [kern EXCEPT !.done = TRUE, !.tai = @ + kern.leap]
        BY <1>1, <4>1
      <4> QED BY <4>1 DEF Types
    <3> HIDE DEF leaps
    <3>6. CASE conf.leap = 0
      <4>1. ~leaps BY <1>3, <3>3, <3>6
      <4>2. Err' = 0 BY <2>3, <2>5, <3>1, <3>2, <3>4, <3>6, <4>1
      <4> QED BY <1>1, <2>4, <3>6, <4>2 DEF Steady
    <3>7. CASE conf.leap # 0 /\ t < Midnight /\ t' >= Midnight
      <4>1. next = Midnight BY <1>1, <1>4, <1>5, <3>7
      <4>2. leaps BY <1>2, <2>7, <3>7, <4>1
      <4>3. kern.leap = conf.leap BY <1>3, <3>3, <4>2
      <4>4. Err' = 0 BY <1>3, <1>4, <1>5, <2>3, <2>5, <3>1, <3>2, <3>4, <3>7, <4>2, <4>3
      <4>5. kern'.done /\ conf.kernel_leap
        BY <1>3, <2>7, <3>5, <3>7, <4>2, <4>3
      <4> QED BY <1>1, <2>4, <4>4, <4>5 DEF Steady
    <3>8. CASE conf.leap # 0 /\ t' < Midnight
      <4>1. t < Midnight /\ TrueOff = 1 /\ TrueOff' = 1 BY <1>4, <1>5, <2>5, <3>8
      <4>2. ~leaps
        <5>1. ASSUME kern.leap # 0 PROVE t' + bias < at
          <6>1. kern.leap = conf.leap BY <1>3, <5>1
          <6>2. at = Midnight - 1
            <7>1. CASE conf.leap = -1 BY <1>4, <6>1, <7>1, Numbers
            <7>2. CASE conf.leap = 1 BY <1>4, <6>1, <7>2, Numbers
            <7> QED BY <1>3, <3>8, <7>1, <7>2
          <6>3. bias = 0 - 1 BY <2>3, <3>1, <4>1
          <6>4. \A x, y \in Nat : x < y => x + (0 - 1) < y - 1 OBVIOUS
          <6>5. t' \in Nat /\ Midnight \in Nat BY <1>4, <1>5
          <6> HIDE DEF at
          <6> QED BY <3>8, <6>2, <6>3, <6>4, <6>5
        <5>2. t' + bias \in Int /\ at \in Int BY <1>5, <2>3, Numbers
        <5> QED BY <3>3, <5>1, <5>2
      <4>3. Err' = 0 BY <2>3, <3>1, <3>2, <3>4, <4>1, <4>2
      <4>4. ~(t' >= Midnight) BY <1>4, <1>5, <3>8
      <4> QED BY <1>1, <1>4, <2>4, <4>3, <4>4 DEF Steady
    <3>9. CASE conf.leap # 0 /\ t >= Midnight
      <4>1. t' >= Midnight BY <1>4, <1>5, <3>9
      <4>2. conf.kernel_leap /\ (kern.done \/ kern.leap = 0) BY <2>2, <2>7, <3>9 DEF Steady
      <4>3. ~leaps BY <3>3, <4>2
      <4>4. kern' = kern BY <1>1, <4>3
      <4>5. Err' = 0 BY <2>3, <2>5, <3>1, <3>2, <3>4, <3>9, <4>1, <4>3
      <4> QED BY <1>1, <2>4, <4>2, <4>4, <4>5 DEF Steady
    <3> QED BY <1>4, <1>5, <3>6, <3>7, <3>8, <3>9
  <2> QED BY <1>3, <2>6, <2>7
<1> QED BY <1>7, <1>8, <1>9 DEF Harmless

\* The announcement comes or goes.
LEMMA AnnounceHarmless == Types /\ Harmless /\ Announce => Harmless'
<1> SUFFICES ASSUME Types, Harmless, Announce PROVE Harmless' OBVIOUS
<1>1. /\ conf.leap # 0 /\ phase' = phase + 1
      /\ \/ phase = 0 /\ t < Midnight
         \/ phase = 1 /\ (t >= Midnight \/ clk.leap_set # 0)
      /\ UNCHANGED <<conf, t, due, bias, slew, kern, clk, sv, cc, faults, used, near, moved,
                     accused, disturbed>>
  BY DEF Announce
<1>2. Midnight' = Midnight /\ (Suited' <=> Suited) /\ (Good' <=> Good) /\ Err' = Err
  BY <1>1 DEF Midnight, Suited, Good, Err, Right, TrueOff
<1>3. phase' \in {1, 2} /\ phase' # 0 BY <1>1
<1>4. phase' = 2 => phase = 1 /\ t > First
  <2> SUFFICES ASSUME phase' = 2 PROVE phase = 1 /\ t > First OBVIOUS
  <2>1. phase = 1 BY <1>1
  <2>2. CASE clk.leap_set # 0 BY <2>1, <2>2 DEF Harmless, Announced
  <2>3. CASE t >= Midnight BY <2>1, <2>3, Sides, Numbers
  <2> QED BY <1>1, <2>1, <2>2, <2>3
<1>5. ~(t - (Off0 + conf.leap) > Day + Late) BY <1>1 DEF Harmless, Announced
<1>6. Announced' BY <1>1, <1>2, <1>3, <1>4, <1>5 DEF Harmless, Announced
<1>7. Remembered => Remembered'
  <2>1. t < Midnight /\ phase' = 2 => clk.leap_set = conf.leap
    BY <1>1, <1>4, Sides DEF Harmless, Announced
  <2> QED BY <1>1, <1>2, <2>1 DEF Remembered, OffsetRight
<1>8. Steady => Steady' BY <1>1, <1>2 DEF Steady
<1> QED BY <1>1, <1>2, <1>6, <1>7, <1>8 DEF Harmless

\* Faults: somebody steps the clock, or the clocks cannot be read.
LEMMA FaultHarmless == Types /\ Harmless /\ (Disturb \/ Miss) => Harmless'
<1> SUFFICES ASSUME Types, Harmless, Disturb \/ Miss PROVE Harmless' OBVIOUS
<1>1. /\ faults' = faults + 1 /\ due' \in BOOLEAN /\ (due' => due)
      /\ (due' = due \/ due) /\ (disturbed' <=> (disturbed \/ Disturb))
      /\ UNCHANGED <<conf, t, slew, kern, phase, clk, used, near, accused>>
  <2>1. CASE Disturb BY <2>1 DEF Disturb, Types
  <2>2. CASE Miss /\ ~Disturb BY <2>2 DEF Miss, Types
  <2> QED BY <2>1, <2>2
<1>2. Midnight' = Midnight /\ (Suited' <=> Suited) BY <1>1 DEF Midnight, Suited
<1>3. faults \in Nat /\ t \in Nat /\ Midnight \in Nat BY Numbers, Sides DEF Types
<1>4. Announced' BY <1>1, <1>2 DEF Harmless, Announced
<1>5. Remembered => Remembered'
  <2> SUFFICES ASSUME Remembered PROVE Remembered' OBVIOUS
  <2>1. \A x \in Int, f \in Nat : x <= f => x <= f + 1 + 0 /\ x <= f + 1 + 1 OBVIOUS
  <2>2. \A x \in Int, f \in Nat : x <= f + 1 => x <= f + 1 + 0 /\ x <= f + 1 + 1 OBVIOUS
  <2>3. t - Midnight \in Int BY <1>3
  <2>4. t >= Midnight /\ clk.leap_set # 0 =>
            t - Midnight <= faults + 1 + (IF due' THEN 1 ELSE 0)
    <3> SUFFICES ASSUME t >= Midnight, clk.leap_set # 0
                 PROVE  t - Midnight <= faults + 1 + (IF due' THEN 1 ELSE 0)
      OBVIOUS
    <3>1. t - Midnight <= faults + (IF due THEN 1 ELSE 0) BY DEF Remembered
    <3>2. CASE due BY <1>3, <2>2, <2>3, <3>1, <3>2
    <3>3. CASE ~due
      <4>1. t - Midnight <= faults BY <1>3, <2>3, <3>1, <3>3
      <4> QED BY <1>3, <2>1, <2>3, <4>1
    <3> QED BY <3>2, <3>3
  <2> QED BY <1>1, <1>2, <2>4 DEF Remembered, OffsetRight
<1>6. Suited' /\ ~disturbed' => Steady'
  <2> SUFFICES ASSUME Suited', ~disturbed' PROVE Steady' OBVIOUS
  <2>1. Steady /\ Miss BY <1>1, <1>2 DEF Harmless
  <2>2. UNCHANGED <<bias, sv>> BY <2>1 DEF Miss
  <2>3. Err' = Err BY <1>1, <2>2 DEF Err, Right, TrueOff, Midnight
  <2> QED BY <1>1, <1>2, <2>1, <2>2, <2>3 DEF Steady
<1>7. Good' => Good BY <1>1 DEF Good
<1> QED BY <1>2, <1>4, <1>5, <1>6, <1>7 DEF Harmless

\* The update is suspended; after midnight this happens in one second only.
LEMMA SuspendHarmless == Types /\ Harmless /\ Suspend => Harmless'
<1> SUFFICES ASSUME Types, Harmless, Suspend PROVE Harmless' OBVIOUS
<1>1. /\ due /\ Suspended /\ due' = FALSE /\ clk' = [clk EXCEPT !.servo = TRUE]
      /\ kern' = servo_add(kern)
      /\ UNCHANGED <<conf, t, bias, slew, phase, sv, cc, faults, used, near, moved, accused,
                     disturbed>>
  BY DEF Suspend
<1>2. Midnight' = Midnight /\ (Suited' <=> Suited) /\ (Good' <=> Good) /\ Err' = Err
  BY <1>1 DEF Midnight, Suited, Good, Err, Right, TrueOff
<1>3. clk'.leap_set = clk.leap_set BY <1>1 DEF Types
<1>4. kern'.leap = 0 \/ kern' = kern
  <2> DEFINE k == [kern EXCEPT !.leap = 0]
  <2>1. k.leap = 0 /\ k \in [leap : -1..1, done : BOOLEAN, tai : Int] BY DEF Types
  <2>2. kern' \in {kern, [k EXCEPT !.done = FALSE]} BY <1>1 DEF servo_add
  <2> HIDE DEF k
  <2> QED BY <2>1, <2>2
<1>5. Announced' BY <1>1, <1>2, <1>3, <1>4 DEF Harmless, Announced
<1>6. Suited /\ Good => Remembered'
  <2> SUFFICES ASSUME Suited, Good PROVE Remembered' OBVIOUS
  <2>1. Remembered BY DEF Harmless
  <2>2. conf.toUtc => Err = 0 BY DEF Good, Harmless, Steady
  <2>3. faults \in Nat /\ faults <= MaxFaults /\ MaxFaults < SixHours
    BY Numbers DEF Types, Suited
  <2>4. t >= Midnight /\ clk.leap_set # 0 => t - Midnight <= faults
    <3> SUFFICES ASSUME t >= Midnight, clk.leap_set # 0 PROVE t - Midnight <= faults OBVIOUS
    <3> DEFINE l == conf.leap
               ts == LeapTime
    <3>1. l \in {-1, 1} BY ConfTypes DEF Harmless, Announced
    <3>2. agent.offset = IF phase = 2 THEN 1 + l ELSE 1 BY DEF agent, Off0
    <3>3. TrueOff = 1 + l BY Sides
    <3>4. t - Midnight <= SixHours BY <1>1, <2>1, <2>3, Sides, Numbers DEF Remembered
    <3>5. ts \in {t - 1 - l, t - 1}
      <4>1. ts \in {t - TrueOff, t - agent.offset} BY <2>2, LeapTimes
      <4> QED BY <3>1, <3>2, <3>3, <4>1, Sides
    <3>6. ts \in Nat /\ Day - 1 <= ts /\ ts - Day <= SixHours
      BY <3>1, <3>4, <3>5, Sides, Numbers
    <3>7. ts < 2 * Day BY <3>6, Numbers
    <3>8. ts % Day = IF ts < Day THEN ts ELSE ts - Day BY <3>6, <3>7, TimeOfDay
    <3>9. Day - (ts % Day) <= 1 BY <1>1 DEF Suspended, is_utc_ambiguous
    <3>10. ts = Day - 1 BY <3>6, <3>8, <3>9, Numbers
    <3>11. t = Midnight BY <3>1, <3>5, <3>10, Sides, Numbers
    <3> QED BY <2>3, <3>11, Sides
  <2>5. \A f \in Nat : f + 0 = f OBVIOUS
  <2>6. faults + (IF due' THEN 1 ELSE 0) = faults BY <1>1, <2>3, <2>5
  <2> QED BY <1>1, <1>2, <1>3, <2>1, <2>4, <2>6 DEF Remembered, OffsetRight
<1>7. Steady => Steady' BY <1>1, <1>2, <1>4 DEF Steady
<1> QED BY <1>1, <1>2, <1>5, <1>6, <1>7 DEF Harmless

\* The leap status that is set is none or the announced one.
LEMMA StatusSet ==
    ASSUME Types, Announced
    PROVE  /\ Status.status \in {0, conf.leap}
           /\ phase = 0 => Status.status = 0
<1>1. agent.leap \in {0, conf.leap} /\ (phase = 0 => agent.leap = 0) BY DEF agent
<1>2. clk.leap_set \in {0, conf.leap} /\ (phase = 0 => clk.leap_set = 0) BY DEF Announced
<1>3. CASE ~Pending BY <1>3 DEF Status
<1>4. CASE Pending
  <2>1. Status.status \in {0, agent.leap, clk.leap_set} BY <1>4 DEF Status, leap_second_status
  <2>2. phase # 0 BY <1>1, <1>2, <1>4 DEF Pending
  <2> QED BY <1>1, <1>2, <2>1, <2>2
<1> QED BY <1>3, <1>4

\* The kernel's leap status is left alone, cleared, or set if it is to make the
\* leap second.
LEMMA KernelSet ==
    ASSUME Types
    PROVE  \/ KernelTold.leap = 0
           \/ KernelTold.leap = kern.leap /\ (KernelTold.done <=> kern.done)
           \/ /\ conf.toUtc /\ conf.kernel_leap
              /\ KernelTold.leap = Status.status
<1> DEFINE K == [leap : -1..1, done : BOOLEAN, tai : Int]
           k == servo_add(kern)
           u == [k EXCEPT !.leap = Status.status]
           dn == IF Status.status = 0 THEN FALSE ELSE k.done
           w == [u EXCEPT !.done = dn]
           told == conf.toUtc /\ conf.kernel_leap /\ Status.status # clk.leap_set
           s == IF told THEN sysclk_set_leap(k, Status.status) ELSE k
<1>1. Status.status \in -1..1 /\ Status.offset \in Int BY StatusTypes
<1>2. k \in K /\ (k = kern \/ k.leap = 0)
  <2> DEFINE c == [kern EXCEPT !.leap = 0]
  <2>1. c \in K /\ kern \in K /\ c.leap = 0 BY DEF Types
  <2>2. k \in {kern, [c EXCEPT !.done = FALSE]} BY DEF servo_add
  <2> HIDE DEF c, k
  <2> QED BY <2>1, <2>2
<1> HIDE DEF k
<1>3. dn \in BOOLEAN BY <1>2
<1>4. sysclk_set_leap(k, Status.status) = w BY <1>2 DEF sysclk_set_leap
<1>5. u \in K /\ u.leap = Status.status BY <1>1, <1>2
<1> HIDE DEF u, dn
<1>6. w \in K /\ w.leap = Status.status BY <1>3, <1>5
<1>7. KernelTold = IF conf.toUtc /\ clk.utc_offset_set # Status.offset
                   THEN [s EXCEPT !.tai = Status.offset] ELSE s
  BY DEF KernelTold, k
<1> HIDE DEF w, told
<1>8. s \in K /\ s = (IF told THEN w ELSE k) BY <1>2, <1>4, <1>6
<1> HIDE DEF s
<1>9. KernelTold.leap = s.leap /\ KernelTold.done = s.done BY <1>1, <1>7, <1>8
<1>10. CASE told BY <1>6, <1>8, <1>9, <1>10 DEF told
<1>11. CASE ~told BY <1>2, <1>8, <1>9, <1>11
<1> QED BY <1>10, <1>11

\* The servo's memory is not moved while nothing disturbed the clock.
LEMMA ServoToldZeros ==
    ASSUME Types, Announced, Steady, Suited,
           t < Midnight => Status.status = IF phase = 0 THEN 0 ELSE conf.leap
    PROVE  Zeros(ServoTold.pts)
<1>1. SvOK(sv) /\ Zeros(sv.pts) /\ conf.servo \in ServoConfType /\ conf.toUtc \in BOOLEAN
  BY ConfTypes DEF Types, Steady
<1>2. Status.status \in -1..1 BY StatusTypes
<1>3. CASE ~(Status.status # clk.leap_set /\ ~(conf.toUtc /\ conf.kernel_leap))
  BY <1>1, <1>3 DEF ServoTold
<1>4. CASE Status.status # clk.leap_set /\ ~(conf.toUtc /\ conf.kernel_leap)
  <2>1. ServoTold = servo_leap(sv, conf.servo, Status.status) BY <1>4 DEF ServoTold
  <2>2. conf.servo.type # "LINREG" \/ Status.status # 0
    <3> SUFFICES ASSUME conf.servo.type = "LINREG" PROVE Status.status # 0 OBVIOUS
    <3>1. conf.toUtc /\ ~conf.kernel_leap BY <1>4 DEF Suited
    <3>2. phase # 0 BY <1>4, StatusSet DEF Announced
    <3>3. conf.leap # 0 BY <3>2 DEF Announced
    <3>4. ~(t >= Midnight) BY <3>1, <3>3 DEF Steady
    <3>5. t < Midnight BY <3>4, Sides
    <3> QED BY <3>2, <3>3, <3>5
  <2>3. ServoTold.pts = sv.pts BY <1>1, <1>2, <2>1, <2>2, LeapTypes
  <2> QED BY <1>1, <2>3
<1> QED BY <1>3, <1>4

\* An update: the offset is right, and a clock at rest stays at rest.
LEMMA UpdateHarmless == Types /\ Types' /\ Harmless /\ Update => Harmless'
<1> SUFFICES ASSUME Types, Types', Harmless, Update PROVE Harmless' OBVIOUS
<1> DEFINE offset == Measured + get_sync_offset(Status.offset)
           c == conf.servo
<1>1. c \in ServoConfType /\ conf.toUtc \in BOOLEAN /\ conf.leap \in {-1, 0, 1} BY ConfTypes
<1>2. /\ due /\ ~Suspended /\ due' = FALSE /\ UNCHANGED <<conf, t, phase, disturbed>>
      /\ used' = IF Err = 0 \/ clk.state = "UNLOCKED" THEN <<Status.offset, TrueOff>>
                 ELSE <<0, 0>>
  BY DEF Update
<1>3. PICK q \in clockcheck_sample(cc), stepped \in BOOLEAN, set \in BOOLEAN :
        LET s == IF q.bad THEN servo_reset(ServoTold, c) ELSE ServoTold
        IN  \E o \in servo_sample(s, c, offset, slew) :
                Apply(q, o, offset, stepped, set) /\ kern' = KernelTold
  BY DEF Update
<1> DEFINE s == IF q.bad THEN servo_reset(ServoTold, c) ELSE ServoTold
<1>4. PICK o \in servo_sample(s, c, offset, slew) :
                Apply(q, o, offset, stepped, set) /\ kern' = KernelTold
  BY <1>3
<1>5. Midnight' = Midnight /\ (Suited' <=> Suited) /\ (Good' <=> Good)
      /\ TrueOff' = TrueOff /\ Right' = Right
  BY <1>2 DEF Midnight, Suited, Good, Right, TrueOff
<1>6. clk'.leap_set = Status.status BY <1>4 DEF Apply
<1>7. Announced'
  <2>1. Announced BY DEF Harmless
  <2>2. Status.status \in {0, conf.leap} /\ (phase = 0 => Status.status = 0)
    BY <2>1, StatusSet
  <2>3. kern'.leap \in {0, conf.leap} /\ (conf.toUtc /\ ~conf.kernel_leap => kern'.leap = 0)
    BY <1>4, <2>1, <2>2, KernelSet DEF Announced
  <2>4. t > First BY <1>2, <2>1 DEF Announced
  <2> QED BY <1>2, <1>5, <1>6, <2>1, <2>2, <2>3, <2>4 DEF Announced
<1>8. ASSUME Suited, Good
      PROVE  /\ Status.offset = TrueOff
             /\ t >= Midnight => Status.status = 0
             /\ t < Midnight => Status.status = IF phase = 0 THEN 0 ELSE conf.leap
  <2>1. Announced /\ Remembered BY <1>8 DEF Harmless
  <2>2. conf.toUtc => Err = 0 BY <1>8 DEF Good, Harmless, Steady
  <2> QED BY <1>2, <1>8, <2>1, <2>2, StatusRight
<1>9. Suited' /\ Good' => Remembered'
  <2> SUFFICES ASSUME Suited', Good' PROVE Remembered' OBVIOUS
  <2>1. Suited /\ Good BY <1>5
  <2>2. OffsetRight'
    <3>1. used' \in {<<TrueOff, TrueOff>>, <<0, 0>>} BY <1>2, <1>8, <2>1
    <3> QED BY <3>1 DEF OffsetRight
  <2>3. t < Midnight /\ phase = 2 => clk'.leap_set = conf.leap BY <1>6, <1>8, <2>1
  <2>4. ~(t >= Midnight /\ clk'.leap_set # 0) BY <1>6, <1>8, <2>1
  <2> QED BY <1>2, <1>5, <2>2, <2>3, <2>4 DEF Remembered
<1>10. Suited' /\ ~disturbed' => Steady'
  <2> SUFFICES ASSUME Suited', ~disturbed' PROVE Steady' OBVIOUS
  <2>1. Suited /\ ~disturbed /\ Good BY <1>2, <1>5 DEF Good
  <2>2. Steady /\ Announced BY <2>1 DEF Harmless
  <2>3. Err = 0 /\ slew = 0 /\ bias \in Int /\ t \in Int /\ TrueOff \in Int
    BY <1>1, <2>2, Sides DEF Steady, Types
  <2>4. offset = 0
    <3>0. Status.offset = TrueOff BY <1>8, <2>1
    <3>1. CASE conf.toUtc
      <4>1. Measured = t + bias - t BY <2>3, <3>1 DEF Measured, Reading, Source
      <4>2. get_sync_offset(Status.offset) = TrueOff BY <3>0, <3>1 DEF get_sync_offset
      <4>3. bias + TrueOff = 0 BY <2>3, <3>1 DEF Err, Right
      <4> QED BY <2>3, <4>1, <4>2, <4>3
    <3>2. CASE ~conf.toUtc
      <4>1. Measured = t + bias - (t - TrueOff) BY <2>3, <3>2 DEF Measured, Reading, Source
      <4>2. get_sync_offset(Status.offset) = 0 - TrueOff
        BY <2>3, <3>0, <3>2, Minus DEF get_sync_offset
      <4>3. bias = 0 BY <2>3, <3>2 DEF Err, Right
      <4> QED BY <2>3, <4>1, <4>2, <4>3
    <3> QED BY <1>1, <3>1, <3>2
  <2> HIDE DEF offset
  <2>5. SvOK(ServoTold) /\ Zeros(ServoTold.pts)
    BY <1>8, <2>1, <2>2, ServoToldTypes, ServoToldZeros
  <2>6. Zeros(<<>>) BY DEF Zeros
  <2>7. SvOK(s) /\ Zeros(s.pts)
    <3>1. SvOK(servo_reset(ServoTold, c)) /\ servo_reset(ServoTold, c).pts \in {ServoTold.pts, <<>>}
      BY <1>1, <2>5, ResetTypes
    <3> QED BY <2>5, <2>6, <3>1
  <2> HIDE DEF s, c
  <2>8. PICK p \in Samples(s, c, offset, slew) : o = Settle(p, c, offset) BY DEF servo_sample
  <2>9. slew = offset /\ offset \in Int /\ slew \in -1..1 BY <2>3, <2>4
  <2>10. Raw(p, s) BY <1>1, <2>7, <2>8, <2>9, SamplesTypes
  <2>11. p.slew = 0 /\ Zeros(p.s.pts) BY <1>1, <2>4, <2>7, <2>8, <2>9, ZerosSample
  <2>12. o.slew = 0 /\ Zeros(o.s.pts) /\ SvOK(o.s)
    <3>1. o.slew = p.slew /\ o.s.pts = p.s.pts /\ Settled(o, s, c, offset)
      BY <1>1, <2>7, <2>8, <2>9, <2>10, SettleTypes
    <3> QED BY <2>11, <3>1 DEF Settled, SvOK
  <2> DEFINE jump == o.state = "JUMP"
             locks == o.state # "UNLOCKED"
             fails == locks /\ ((jump /\ ~stepped) \/ ~set)
             step == IF jump /\ stepped THEN -offset ELSE 0
  <2>13. /\ bias' = bias + step
         /\ slew' = IF locks /\ ~fails THEN o.slew ELSE slew
         /\ sv' = IF fails THEN servo_unlock(o.s, c) ELSE o.s
    BY <1>4 DEF Apply, c
  <2>14. step = 0
    <3>1. -offset = 0
      <4>1. 0 - offset = 0 BY <2>4
      <4> QED BY <2>9, <4>1, Minus
    <3> QED BY <3>1
  <2> HIDE DEF jump, locks, fails, step
  <2>15. bias' = bias /\ slew' = 0 BY <2>3, <2>12, <2>13, <2>14
  <2>16. Zeros(sv'.pts)
    <3>1. servo_unlock(o.s, c).pts \in {o.s.pts, <<>>} BY <1>1, <2>12, ResetTypes DEF servo_unlock
    <3> QED BY <2>6, <2>12, <2>13, <3>1
  <2>17. Err' = 0 BY <1>5, <2>3, <2>15 DEF Err
  <2>18. conf.toUtc /\ conf.leap # 0 /\ t >= Midnight =>
             conf.kernel_leap /\ (kern'.done \/ kern'.leap = 0)
    <3> SUFFICES ASSUME conf.toUtc, conf.leap # 0, t >= Midnight
                 PROVE  conf.kernel_leap /\ (kern'.done \/ kern'.leap = 0)
      OBVIOUS
    <3>1. conf.kernel_leap /\ (kern.done \/ kern.leap = 0) BY <2>2 DEF Steady
    <3>2. Status.status = 0 BY <1>8, <2>1
    <3> QED BY <1>4, <3>1, <3>2, KernelSet
  <2> QED BY <1>2, <1>5, <2>15, <2>16, <2>17, <2>18 DEF Steady
<1> QED BY <1>7, <1>9, <1>10 DEF Harmless

\* Every step.
LEMMA StepHarmless == Types /\ Types' /\ Harmless /\ [Next]_vars => Harmless'
<1> SUFFICES ASSUME Types, Types', Harmless, [Next]_vars PROVE Harmless' OBVIOUS
<1>1. CASE Next
  BY <1>1, TickHarmless, AnnounceHarmless, FaultHarmless, SuspendHarmless, UpdateHarmless DEF Next
<1>2. CASE UNCHANGED vars
  BY <1>2 DEF vars, Harmless, Announced, Remembered, Steady, Suited, Good, OffsetRight, Err,
              Right, TrueOff, Midnight
<1> QED BY <1>1, <1>2

\* A leap second does no harm, for every length of the day, every threshold and
\* every error that others cause: a clock that was right and that nobody moved
\* stays right, and unless the clock in UTC was disturbed every update uses the
\* offset of its moment.  The regression of a PHC that follows the system clock
\* is excepted, and the clocks are read at least once in six hours.
THEOREM LeapAlwaysHarmless ==
    Spec => [](Suited => Undisturbed /\ (OffsetRight \/ (conf.toUtc /\ disturbed)))
<1>1. Types /\ Harmless => (Suited => Undisturbed /\ (OffsetRight \/ (conf.toUtc /\ disturbed)))
  <2> SUFFICES ASSUME Types, Harmless, Suited
               PROVE  Undisturbed /\ (OffsetRight \/ (conf.toUtc /\ disturbed))
    OBVIOUS
  <2>1. Undisturbed BY DEF Harmless, Steady, Undisturbed
  <2>2. Good => OffsetRight BY DEF Harmless, Remembered
  <2> QED BY <2>1, <2>2 DEF Good
<1>2. Init => Types /\ Founded /\ Harmless BY InitFounded, InitHarmless
<1>3. Types /\ Founded /\ Harmless /\ [Next]_vars => (Types /\ Founded /\ Harmless)'
  BY StepFounded, StepHarmless
<1> QED BY <1>1, <1>2, <1>3, PTL DEF Spec

-----------------------------------------------------------------------------
\* The shared memory of the hot standby domains (servo.c).

\* Processes that hold a mapping of an initialized region.
Using == {"attached"} \cup Locking \cup Critical

\* O_EXCL elects one creator, ever: it exists only before init_complete is set.
OneCreator ==
    /\ \A q, r \in Procs : pc[q] \in Creating /\ pc[r] \in Creating => q = r
    /\ \A q \in Procs : pc[q] \in Creating => exists /\ ~shm.init_complete
    /\ ~exists => ~shm.init_complete

\* Nothing is written to the region by its users before it is initialized.
UsedAfterInit ==
    /\ \A q \in Procs : pc[q] \in Using => shm.init_complete
    /\ shm.initialized => shm.init_complete

\* The semaphore is taken while a process is in its critical section.
Locked ==
    /\ shm.mutex = 1 => \A q \in Procs : pc[q] \notin Critical
    /\ Mutex

\* The flag and the domain belong together whenever a process can look at
\* them: not between the two assignments of an update, nor after a crash
\* there, which leaves the semaphore taken for ever.
Paired ==
    \/ ~shm.initialized
    \/ <<shm.flag, shm.domain_id>> = last
    \/ /\ shm.mutex = 0
       /\ \A q \in Procs : pc[q] \in Critical => pc[q] = "write_domain"

\* A reader past its check looks at the domain it asked for, a writer between
\* its assignments has written its flag.
ReadingRight ==
    \A q \in Procs :
        /\ pc[q] = "read_flag" => shm.initialized /\ shm.domain_id = arg[q][2]
        /\ pc[q] = "write_domain" => shm.flag = arg[q][1]

\* The inductive invariant.
ShmInv == ShmTypeOK /\ OneCreator /\ UsedAfterInit /\ Locked /\ Paired /\ ReadingRight

USE NoDomainAssumption, MaxPollsAssumption

\* Every call enters with arguments of its type.
LEMMA CallEnters ==
    ASSUME NEW q \in Procs, Call(q)
    PROVE  \E op \in Locking, args \in SUBSET (Flags \X (Domains \cup {NoDomain})) :
               Enter(q, op, args)
<1>1. \/ Enter(q, "update", Flags \X Domains) \/ Enter(q, "read", {0} \X Domains)
      \/ Enter(q, "sync_update", Flags \X Domains)
      \/ Enter(q, "sync_read", {<<0, NoDomain>>})
  BY DEF Call, servo_state_shm_update, servo_state_shm_read, master_restart_shm_update,
         master_restart_shm_read, slave_servo_stable_shm_update,
         slave_servo_stable_shm_read, sync_state_shm_update, sync_state_shm_read
<1>2. /\ Flags \X Domains \in SUBSET (Flags \X (Domains \cup {NoDomain}))
      /\ {0} \X Domains \in SUBSET (Flags \X (Domains \cup {NoDomain}))
      /\ {<<0, NoDomain>>} \in SUBSET (Flags \X (Domains \cup {NoDomain}))
  OBVIOUS
<1> QED BY <1>1, <1>2 DEF Locking

\* Every step of a process keeps every variable in its type.
LEMMA TypeStep == ShmInv /\ [ShmNext]_shmvars => ShmTypeOK'
<1> SUFFICES ASSUME ShmInv, ShmNext PROVE ShmTypeOK'
  BY DEF ShmInv, ShmTypeOK, shmvars
<1>0. ShmTypeOK /\ Locked BY DEF ShmInv
<1>1. PICK q \in Procs : Step(q) \/ Crash(q)
  BY DEF ShmNext
<1> USE <1>0 DEF ShmTypeOK, PCs, Creating, Locking, Critical, Go
<1>2. CASE Attach(q)
  <2>1. CASE Start(q) BY <2>1 DEF Start
  <2>2. CASE Open(q) BY <2>2 DEF Open
  <2>3. CASE Create(q) BY <2>3 DEF Create
  <2>4. CASE Reopen(q) BY <2>4 DEF Reopen
  <2>5. CASE Truncate(q) BY <2>5 DEF Truncate
  <2>6. CASE Clear(q) BY <2>6 DEF Clear, Zeroed, ShmType
  <2>7. CASE SemInit(q) BY <2>7 DEF SemInit, ShmType
  <2>8. CASE Publish(q) BY <2>8 DEF Publish, ShmType
  <2>9. CASE PollInit(q) BY <2>9 DEF PollInit
  <2> QED BY <1>2, <2>1, <2>2, <2>3, <2>4, <2>5, <2>6, <2>7, <2>8, <2>9
          DEF Attach
<1>3. CASE Access(q)
  <2>1. CASE Lock(q) BY <2>1 DEF Lock, ShmType
  <2>2. CASE WriteFlag(q) BY <2>2 DEF WriteFlag, ShmType
  <2>3. CASE WriteDomain(q) BY <2>3 DEF WriteDomain, ShmType
  <2>4. CASE ReadDomain(q) BY <2>4 DEF ReadDomain
  <2>5. CASE ReadFlag(q) BY <2>5 DEF ReadFlag
  <2>6. CASE WriteSync(q) BY <2>6 DEF WriteSync, ShmType
  <2>7. CASE WriteSyncDomain(q) BY <2>7 DEF WriteSyncDomain, ShmType
  <2>8. CASE ReadSync(q) BY <2>8 DEF ReadSync
  <2>9. CASE Post(q)
    <3>1. shm.mutex = 0 BY <2>9 DEF Post, Locked, ShmType
    <3>2. shm' \in ShmType BY <2>9, <3>1 DEF Post, ShmType
    <3>3. <<0, NoDomain>> \in Flags \X (Domains \cup {NoDomain}) OBVIOUS
    <3>4. arg' \in [Procs -> Flags \X (Domains \cup {NoDomain})]
      BY <2>9, <3>3 DEF Post, Returns
    <3> QED BY <2>9, <3>2, <3>4 DEF Post, Returns
  <2> QED BY <1>3, <2>1, <2>2, <2>3, <2>4, <2>5, <2>6, <2>7, <2>8, <2>9 DEF Access
<1>4. CASE Call(q)
  <2>1. PICK op \in Locking, args \in SUBSET (Flags \X (Domains \cup {NoDomain})) :
            Enter(q, op, args)
    BY <1>4, CallEnters
  <2> QED BY <2>1 DEF Enter
<1>5. CASE Interrupt(q) BY <1>5 DEF Interrupt, Returns
<1>6. CASE Destroy(q) BY <1>6 DEF Destroy, Ends
<1>7. CASE Exit(q) BY <1>7 DEF Exit, Ends
<1>8. CASE Crash(q) BY <1>8 DEF Crash, Ends
<1> QED BY <1>1, <1>2, <1>3, <1>4, <1>5, <1>6, <1>7, <1>8
        DEF Step, shm_create, servo_state_shm_create, master_restart_shm_create,
            slave_servo_stable_shm_create

-----------------------------------------------------------------------------
\* The first state satisfies the invariant.
LEMMA InitInv == ShmInit => ShmInv
<1> SUFFICES ASSUME ShmInit PROVE ShmInv
  OBVIOUS
<1> USE DEF ShmInit, Zeroed, PCs, Creating, Locking, Critical
<1>1. ShmTypeOK
  <2>1. shm \in ShmType BY DEF ShmType
  <2>2. polls \in [Procs -> 0..MaxPolls] BY SMT
  <2>3. pc \in [Procs -> PCs] OBVIOUS
  <2>4. arg \in [Procs -> Flags \X (Domains \cup {NoDomain})] OBVIOUS
  <2>5. last \in Flags \X (Domains \cup {NoDomain}) OBVIOUS
  <2> QED BY <2>1, <2>2, <2>3, <2>4, <2>5 DEF ShmTypeOK
<1>2. OneCreator BY DEF OneCreator
<1>3. UsedAfterInit BY DEF UsedAfterInit, Using
<1>4. Locked BY DEF Locked, Mutex
<1>5. Paired /\ ReadingRight BY DEF Paired, ReadingRight
<1> QED BY <1>1, <1>2, <1>3, <1>4, <1>5 DEF ShmInv

\* A step that only moves q to a label outside the creation phase, the
\* critical section and the use of the region keeps the invariant.
LEMMA Leaving ==
    ASSUME ShmInv, ShmTypeOK', NEW q \in Procs, NEW label,
           label \notin Creating \cup Using, Go(q, label),
           UNCHANGED <<shm, last>>, exists => exists',
           \A r \in Procs \ {q} : arg'[r] = arg[r],
           exists' => exists \/ ~shm.init_complete
    PROVE  ShmInv'
<1> USE DEF ShmInv, ShmTypeOK, Go, Creating, Locking, Critical, Using
<1>1. OneCreator' BY DEF OneCreator
<1>2. UsedAfterInit' BY DEF UsedAfterInit
<1>3. Locked' BY DEF Locked, Mutex
<1>4. Paired' BY DEF Paired
<1>5. ReadingRight' BY DEF ReadingRight
<1> QED BY <1>1, <1>2, <1>3, <1>4, <1>5 DEF ShmInv

\* The creation phase keeps the invariant.
LEMMA CreateStep ==
    ASSUME ShmInv, ShmTypeOK', NEW q \in Procs, Attach(q)
    PROVE  ShmInv'
<1> USE DEF ShmInv, ShmTypeOK, Go, Creating, Locking, Critical, Using
<1>1. CASE Start(q) BY <1>1, Leaving DEF Start
<1>2. CASE Open(q) BY <1>2, Leaving DEF Open
<1>3. CASE Create(q)
  <2>1. OneCreator' BY <1>3 DEF Create, OneCreator
  <2>2. UsedAfterInit' BY <1>3 DEF Create, UsedAfterInit
  <2>3. Locked' BY <1>3 DEF Create, Locked, Mutex
  <2>4. Paired' BY <1>3 DEF Create, Paired
  <2>5. ReadingRight' BY <1>3 DEF Create, ReadingRight
  <2> QED BY <2>1, <2>2, <2>3, <2>4, <2>5 DEF ShmInv
<1>4. CASE Reopen(q) BY <1>4, Leaving DEF Reopen
<1>5. CASE Truncate(q)
  <2>1. OneCreator' BY <1>5 DEF Truncate, OneCreator
  <2>2. UsedAfterInit' BY <1>5 DEF Truncate, UsedAfterInit
  <2>3. Locked'
    <3>1. \A r \in Procs : pc'[r] \in Critical => pc[r] \in Critical
      BY <1>5 DEF Truncate
    <3> QED BY <1>5, <3>1 DEF Truncate, Locked, Mutex
  <2>4. Paired' BY <1>5 DEF Truncate, Paired
  <2>5. ReadingRight' BY <1>5 DEF Truncate, ReadingRight
  <2> QED BY <2>1, <2>2, <2>3, <2>4, <2>5 DEF ShmInv
<1>6. CASE Clear(q)
  <2>1. OneCreator' BY <1>6 DEF Clear, OneCreator, Zeroed
  <2>2. UsedAfterInit' BY <1>6 DEF Clear, OneCreator, UsedAfterInit, Zeroed
  <2>3. Locked' BY <1>6 DEF Clear, Locked, Mutex, Zeroed
  <2>4. Paired' BY <1>6 DEF Clear, Paired, Zeroed
  <2>5. ReadingRight' BY <1>6 DEF Clear, OneCreator, UsedAfterInit, ReadingRight
  <2> QED BY <2>1, <2>2, <2>3, <2>4, <2>5 DEF ShmInv
<1>7. CASE SemInit(q)
  <2>0. shm'.init_complete = shm.init_complete /\ shm'.initialized = shm.initialized
        /\ shm'.flag = shm.flag /\ shm'.domain_id = shm.domain_id
    BY <1>7 DEF SemInit, ShmType
  <2>1. OneCreator' BY <1>7, <2>0 DEF SemInit, OneCreator
  <2>2. UsedAfterInit' BY <1>7, <2>0 DEF SemInit, UsedAfterInit
  <2>3. Locked' BY <1>7, <2>0 DEF SemInit, OneCreator, UsedAfterInit, Locked, Mutex
  <2>4. Paired' BY <1>7, <2>0 DEF SemInit, OneCreator, UsedAfterInit, Paired
  <2>5. ReadingRight' BY <1>7, <2>0 DEF SemInit, ReadingRight
  <2> QED BY <2>1, <2>2, <2>3, <2>4, <2>5 DEF ShmInv
<1>8. CASE Publish(q)
  <2>0. shm'.init_complete /\ shm'.initialized = shm.initialized
        /\ shm'.flag = shm.flag /\ shm'.domain_id = shm.domain_id
        /\ shm'.mutex = shm.mutex
    BY <1>8 DEF Publish, ShmType
  <2>1. OneCreator' BY <1>8, <2>0 DEF Publish, OneCreator
  <2>2. UsedAfterInit' BY <1>8, <2>0 DEF Publish, UsedAfterInit
  <2>3. Locked' BY <1>8, <2>0 DEF Publish, Locked, Mutex
  <2>4. Paired' BY <1>8, <2>0 DEF Publish, Paired
  <2>5. ReadingRight' BY <1>8, <2>0 DEF Publish, ReadingRight
  <2> QED BY <2>1, <2>2, <2>3, <2>4, <2>5 DEF ShmInv
<1>9. CASE PollInit(q)
  <2>1. OneCreator' BY <1>9 DEF PollInit, OneCreator
  <2>2. UsedAfterInit' BY <1>9 DEF PollInit, UsedAfterInit
  <2>3. Locked' BY <1>9 DEF PollInit, Locked, Mutex
  <2>4. Paired' BY <1>9 DEF PollInit, Paired
  <2>5. ReadingRight' BY <1>9 DEF PollInit, ReadingRight
  <2> QED BY <2>1, <2>2, <2>3, <2>4, <2>5 DEF ShmInv
<1> QED BY <1>1, <1>2, <1>3, <1>4, <1>5, <1>6, <1>7, <1>8, <1>9
        DEF Attach

\* The calls under the semaphore keep the invariant.
LEMMA AccessStep ==
    ASSUME ShmInv, ShmTypeOK', NEW q \in Procs, Access(q)
    PROVE  ShmInv'
<1> USE DEF ShmInv, ShmTypeOK, Go, Creating, Locking, Critical, Using
<1>1. CASE Lock(q)
  <2>0. shm'.init_complete = shm.init_complete /\ shm'.initialized = shm.initialized
        /\ shm'.flag = shm.flag /\ shm'.domain_id = shm.domain_id /\ shm'.mutex = 0
    BY <1>1 DEF Lock, ShmType
  <2>1. OneCreator' BY <1>1, <2>0 DEF Lock, OneCreator
  <2>2. UsedAfterInit' BY <1>1, <2>0 DEF Lock, UsedAfterInit
  <2>3. Locked' BY <1>1, <2>0 DEF Lock, Locked, Mutex
  <2>4. Paired' BY <1>1, <2>0 DEF Lock, Paired
  <2>5. ReadingRight' BY <1>1, <2>0 DEF Lock, ReadingRight
  <2> QED BY <2>1, <2>2, <2>3, <2>4, <2>5 DEF ShmInv
<1>2. CASE WriteFlag(q)
  <2>0. shm'.init_complete = shm.init_complete /\ shm'.initialized = shm.initialized
        /\ shm'.domain_id = shm.domain_id /\ shm'.mutex = shm.mutex
    BY <1>2 DEF WriteFlag, ShmType
  <2>1. OneCreator' BY <1>2, <2>0 DEF WriteFlag, OneCreator
  <2>2. UsedAfterInit' BY <1>2, <2>0 DEF WriteFlag, UsedAfterInit
  <2>3. Locked' BY <1>2, <2>0 DEF WriteFlag, Locked, Mutex
  <2>4. Paired'
    <3>1. shm.mutex = 0 BY <1>2 DEF WriteFlag, Locked, ShmType
    <3>2. \A r \in Procs : pc'[r] \in Critical => r = q
      BY <1>2 DEF WriteFlag, Locked, Mutex
    <3> QED BY <1>2, <2>0, <3>1, <3>2 DEF WriteFlag, Paired
  <2>5. ReadingRight'
    <3>1. shm'.flag = arg[q][1] BY <1>2 DEF WriteFlag, ShmType
    <3> QED BY <1>2, <2>0, <3>1 DEF WriteFlag, Locked, Mutex, ReadingRight
  <2> QED BY <2>1, <2>2, <2>3, <2>4, <2>5 DEF ShmInv
<1>3. CASE WriteDomain(q)
  <2>0. shm'.init_complete = shm.init_complete /\ shm'.initialized
        /\ shm'.flag = shm.flag /\ shm'.domain_id = arg[q][2]
        /\ shm'.mutex = shm.mutex
    BY <1>3 DEF WriteDomain, ShmType
  <2>1. OneCreator' BY <1>3, <2>0 DEF WriteDomain, OneCreator
  <2>2. UsedAfterInit' BY <1>3, <2>0 DEF WriteDomain, UsedAfterInit
  <2>3. Locked' BY <1>3, <2>0 DEF WriteDomain, Locked, Mutex
  <2>4. Paired'
    <3>1. arg[q] = <<arg[q][1], arg[q][2]>> BY DEF ShmTypeOK
    <3>2. shm.flag = arg[q][1] BY <1>3 DEF WriteDomain, ReadingRight
    <3> QED BY <1>3, <2>0, <3>1, <3>2 DEF WriteDomain, Paired
  <2>5. ReadingRight' BY <1>3, <2>0 DEF WriteDomain, Locked, Mutex, ReadingRight
  <2> QED BY <2>1, <2>2, <2>3, <2>4, <2>5 DEF ShmInv
<1>4. CASE ReadDomain(q)
  <2>1. OneCreator' BY <1>4 DEF ReadDomain, OneCreator
  <2>2. UsedAfterInit' BY <1>4 DEF ReadDomain, UsedAfterInit
  <2>3. Locked' BY <1>4 DEF ReadDomain, Locked, Mutex
  <2>4. Paired' BY <1>4 DEF ReadDomain, Paired
  <2>5. ReadingRight' BY <1>4 DEF ReadDomain, ReadingRight
  <2> QED BY <2>1, <2>2, <2>3, <2>4, <2>5 DEF ShmInv
<1>5. CASE ReadFlag(q)
  <2>1. OneCreator' BY <1>5 DEF ReadFlag, OneCreator
  <2>2. UsedAfterInit' BY <1>5 DEF ReadFlag, UsedAfterInit
  <2>3. Locked' BY <1>5 DEF ReadFlag, Locked, Mutex
  <2>4. Paired' BY <1>5 DEF ReadFlag, Paired
  <2>5. ReadingRight' BY <1>5 DEF ReadFlag, ReadingRight
  <2> QED BY <2>1, <2>2, <2>3, <2>4, <2>5 DEF ShmInv
<1>6. CASE WriteSync(q)
  <2>0. shm'.init_complete = shm.init_complete /\ shm'.initialized = shm.initialized
        /\ shm'.flag = shm.flag /\ shm'.domain_id = shm.domain_id
        /\ shm'.mutex = shm.mutex
    BY <1>6 DEF WriteSync, ShmType
  <2>1. OneCreator' BY <1>6, <2>0 DEF WriteSync, OneCreator
  <2>2. UsedAfterInit' BY <1>6, <2>0 DEF WriteSync, UsedAfterInit
  <2>3. Locked' BY <1>6, <2>0 DEF WriteSync, Locked, Mutex
  <2>4. Paired' BY <1>6, <2>0 DEF WriteSync, Paired
  <2>5. ReadingRight' BY <1>6, <2>0 DEF WriteSync, ReadingRight
  <2> QED BY <2>1, <2>2, <2>3, <2>4, <2>5 DEF ShmInv
<1>7. CASE WriteSyncDomain(q)
  <2>0. shm'.init_complete = shm.init_complete /\ shm'.initialized = shm.initialized
        /\ shm'.flag = shm.flag /\ shm'.domain_id = shm.domain_id
        /\ shm'.mutex = shm.mutex
    BY <1>7 DEF WriteSyncDomain, ShmType
  <2>1. OneCreator' BY <1>7, <2>0 DEF WriteSyncDomain, OneCreator
  <2>2. UsedAfterInit' BY <1>7, <2>0 DEF WriteSyncDomain, UsedAfterInit
  <2>3. Locked' BY <1>7, <2>0 DEF WriteSyncDomain, Locked, Mutex
  <2>4. Paired' BY <1>7, <2>0 DEF WriteSyncDomain, Paired
  <2>5. ReadingRight' BY <1>7, <2>0 DEF WriteSyncDomain, ReadingRight
  <2> QED BY <2>1, <2>2, <2>3, <2>4, <2>5 DEF ShmInv
<1>8. CASE ReadSync(q)
  <2>1. OneCreator' BY <1>8 DEF ReadSync, OneCreator
  <2>2. UsedAfterInit' BY <1>8 DEF ReadSync, UsedAfterInit
  <2>3. Locked' BY <1>8 DEF ReadSync, Locked, Mutex
  <2>4. Paired' BY <1>8 DEF ReadSync, Paired
  <2>5. ReadingRight' BY <1>8 DEF ReadSync, ReadingRight
  <2> QED BY <2>1, <2>2, <2>3, <2>4, <2>5 DEF ShmInv
<1>9. CASE Post(q)
  <2>0. shm'.init_complete = shm.init_complete /\ shm'.initialized = shm.initialized
        /\ shm'.flag = shm.flag /\ shm'.domain_id = shm.domain_id
    BY <1>9 DEF Post, ShmType
  <2>1. OneCreator' BY <1>9, <2>0 DEF Post, Returns, OneCreator
  <2>2. UsedAfterInit' BY <1>9, <2>0 DEF Post, Returns, UsedAfterInit
  <2>3. Locked' BY <1>9, <2>0 DEF Post, Returns, Locked, Mutex
  <2>4. Paired' BY <1>9, <2>0 DEF Post, Returns, Paired
  <2>5. ReadingRight' BY <1>9, <2>0 DEF Post, Returns, ReadingRight
  <2> QED BY <2>1, <2>2, <2>3, <2>4, <2>5 DEF ShmInv
<1> QED BY <1>1, <1>2, <1>3, <1>4, <1>5, <1>6, <1>7, <1>8, <1>9 DEF Access

\* The invariant is inductive.
LEMMA NextInv == ShmInv /\ [ShmNext]_shmvars => ShmInv'
<1> SUFFICES ASSUME ShmInv, [ShmNext]_shmvars PROVE ShmInv'
  OBVIOUS
<1>0. ShmTypeOK' BY TypeStep DEF ShmInv
<1>1. CASE UNCHANGED shmvars
  BY <1>1 DEF shmvars, ShmInv, ShmTypeOK, OneCreator, UsedAfterInit, Locked, Mutex, Paired, ReadingRight
<1>2. ASSUME NEW q \in Procs, Call(q) \/ Interrupt(q) PROVE ShmInv'
  <2> USE DEF ShmInv, ShmTypeOK, Go, Creating, Locking, Critical, Using
  <2>0. /\ pc[q] \in Using \ Critical /\ UNCHANGED <<exists, shm, last>>
        /\ \E label \in Using \ Critical : pc' = [pc EXCEPT ![q] = label]
        /\ \A r \in Procs \ {q} : arg'[r] = arg[r]
    <3>1. CASE Interrupt(q) BY <3>1 DEF Interrupt, Returns
    <3>2. CASE Call(q) BY <3>2, CallEnters DEF Enter
    <3> QED BY <1>2, <3>1, <3>2
  <2>1. OneCreator' BY <2>0 DEF OneCreator
  <2>2. UsedAfterInit' BY <2>0 DEF UsedAfterInit
  <2>3. Locked' BY <2>0 DEF Locked, Mutex
  <2>4. Paired' BY <2>0 DEF Paired
  <2>5. ReadingRight' BY <2>0 DEF ReadingRight
  <2> QED BY <1>0, <2>1, <2>2, <2>3, <2>4, <2>5
<1>3. ASSUME NEW q \in Procs, Destroy(q) \/ Exit(q) \/ Crash(q) PROVE ShmInv'
  <2>1. /\ Go(q, "stopped") /\ UNCHANGED <<exists, shm, last>>
        /\ \A r \in Procs \ {q} : arg'[r] = arg[r]
    BY <1>3 DEF Destroy, Exit, Crash, Ends, ShmInv, ShmTypeOK
  <2>2. "stopped" \notin Creating \cup Using
    BY DEF Creating, Using, Locking, Critical
  <2> QED BY <1>0, <2>1, <2>2, Leaving
<1> QED BY <1>0, <1>1, <1>2, <1>3, CreateStep, AccessStep
        DEF ShmNext, Step, shm_create, servo_state_shm_create, master_restart_shm_create,
            slave_servo_stable_shm_create

\* The region's fields keep their types (servo.h, servo.c).
THEOREM TypeCorrect == ShmSpec => []ShmTypeOK
<1>1. ShmInv => ShmTypeOK BY DEF ShmInv
<1> QED BY <1>1, InitInv, NextInv, PTL DEF ShmSpec

\* At most one process is between sem_wait() and sem_post(), for any number of
\* processes that start, crash and restart at any point.
THEOREM MutualExclusion == ShmSpec => []Mutex
<1>1. ShmInv => Mutex BY DEF ShmInv, Locked
<1> QED BY <1>1, InitInv, NextInv, PTL DEF ShmSpec

\* No process uses a region that is being initialized, and a region in use is
\* not initialized again (servo_state_shm_create() and the others).
THEOREM InitializedBeforeUse == ShmSpec => []InitializedOnce
<1>1. ShmInv => InitializedOnce
  BY DEF ShmInv, OneCreator, UsedAfterInit, InitializedOnce, Using
<1> QED BY <1>1, InitInv, NextInv, PTL DEF ShmSpec

\* A read that succeeds returns the flag of the last complete update, which
\* was made by the domain asked for (servo_state_shm_read() and the others).
THEOREM ConsistentReads == ShmSpec => []ReadsWhatWasWritten
<1>1. ShmInv => ReadsWhatWasWritten
  BY DEF ShmInv, Paired, ReadingRight, ReadsWhatWasWritten, Critical
<1> QED BY <1>1, InitInv, NextInv, PTL DEF ShmSpec
=============================================================================
