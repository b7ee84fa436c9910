-------------------------------- MODULE Servo --------------------------------
(****************************************************************************)
(* The clock servos: what servo_sample() makes of a measured offset, for    *)
(* the PI servo, the linear regression, the null servo and the servos that  *)
(* only hand the sample to another program.  The arithmetic of the          *)
(* frequencies is abstracted to its direction: an outcome names the new     *)
(* state, and in slew the way the clock is made to move until the next      *)
(* frequency is set.                                                        *)
(****************************************************************************)
EXTENDS Integers, Sequences, FiniteSetsExt

CONSTANTS
    MinPoints,  \* points before the regression is used: 1 << MIN_SIZE
    MaxPoints,  \* points that the largest regression uses: 1 << MAX_SIZE
    MaxAge      \* bound: seconds counted since the first sample of the PI servo

Off == -1                        \* a threshold that is configured as zero
ServoTypes == {"PI", "LINREG", "NULLF", "NTPSHM"}
ServoStates == {"UNLOCKED", "JUMP", "LOCKED", "LOCKED_STABLE"}

\* step, first: the step thresholds; near: offset_threshold; num: how many
\* offsets below it make the lock stable; est: freq_est_interval.
ServoConfType == [type : ServoTypes, step : Int, first : Int, near : Nat, num : Nat, est : Nat]

Sign(x) == IF x > 0 THEN 1 ELSE IF x < 0 THEN -1 ELSE 0
Abs(x) == IF x < 0 THEN -x ELSE x
Over(threshold, offset) == threshold # Off /\ threshold < Abs(offset)

\* age: seconds from local[0] of the PI servo to now, by the clock itself;
\* pts: the points of the regression, as the offsets they now stand for.
servo_create(c) ==
    [count |-> 0, age |-> 0, pts |-> <<>>, leap |-> 0,
     first_update |-> TRUE, curr |-> c.num]

-----------------------------------------------------------------------------
Outcome(s, state, slew) == [s |-> s, state |-> state, slew |-> slew]

MustStep(s, c, offset) == (s.first_update /\ Over(c.first, offset)) \/ Over(c.step, offset)

\* Mutant: the PI servo does not begin again.
RestartNot(s) == s

Restart(s) == [s EXCEPT !.count = 0, !.age = 0]

\* slew is the way the clock moves now; an unlocked servo leaves it alone.
pi_sample(s, c, offset, slew) ==
    CASE s.count = 0 ->
           Outcome([s EXCEPT !.count = 1, !.age = 0], "UNLOCKED", slew)
      [] s.count = 1 /\ s.age <= 0 ->
           Outcome(Restart(s), "UNLOCKED", slew)
      [] s.count = 1 /\ s.age > 0 /\ s.age < c.est ->
           Outcome(s, "UNLOCKED", slew)
      [] s.count = 1 /\ s.age > 0 /\ s.age >= c.est ->
           Outcome([s EXCEPT !.count = 2, !.age = 0],
                   IF MustStep(s, c, offset) THEN "JUMP" ELSE "LOCKED", 0)
      [] s.count = 2 /\ Over(c.step, offset) ->
           Outcome(Restart(s), "UNLOCKED", slew)
      [] s.count = 2 /\ ~Over(c.step, offset) ->
           Outcome(s, "LOCKED", -Sign(offset))

\* The points as seen after the reference, but not the samples, moved by d.
move_reference(pts, d) == [i \in DOMAIN pts |-> pts[i] + d]

\* Mutant: the oldest point is not overwritten.
AddBeyondEnd(pts, offset) == Append(pts, offset)

add_sample(pts, offset) ==
    LET all == Append(pts, offset)
    IN  IF Len(all) > MaxPoints THEN Tail(all) ELSE all

\* What the regressions over the last points can say the offset is: points that
\* agree fix it, others give something between them.  update_size() picks one.
regress(pts) ==
    UNION {LET used == {pts[i] : i \in (Len(pts) - n + 1)..Len(pts)}
           IN  Min(used)..Max(used) : n \in MinPoints..Len(pts)}

linreg_sample(s, c, offset, slew) ==
    LET pts == add_sample(s.pts, offset)
        t == [s EXCEPT !.pts = pts]
    IN  IF Len(pts) < MinPoints THEN {Outcome(t, "UNLOCKED", slew)}
        ELSE {IF MustStep(s, c, intercept)
              THEN Outcome([t EXCEPT !.pts = move_reference(pts, -offset)], "JUMP",
                           -Sign(intercept - offset))
              ELSE Outcome(t, "LOCKED", -Sign(intercept)) : intercept \in regress(pts)}

nullf_sample(s, c, offset) ==
    Outcome(s, IF (c.near # 0 /\ Abs(offset) < c.near) \/ (c.step # Off /\ c.step >= Abs(offset))
               THEN "LOCKED"
               ELSE IF MustStep(s, c, offset) THEN "JUMP" ELSE "UNLOCKED", 0)

\* The sample goes to ntpd or chronyd.
ntpshm_sample(s, slew) == Outcome(s, "UNLOCKED", slew)

Samples(s, c, offset, slew) ==
    CASE c.type = "PI" -> {pi_sample(s, c, offset, slew)}
      [] c.type = "LINREG" -> linreg_sample(s, c, offset, slew)
      [] c.type = "NULLF" -> {nullf_sample(s, c, offset)}
      [] c.type = "NTPSHM" -> {ntpshm_sample(s, slew)}

-----------------------------------------------------------------------------
\* Mutant: an offset that is too large does not start the count again.
CheckForgives(c, curr, offset) ==
    IF Abs(offset) < c.near /\ curr > 0 THEN curr - 1 ELSE curr

\* The number of offsets below the threshold that are still missing.
check_offset_threshold(c, curr, offset) ==
    IF Abs(offset) >= c.near THEN c.num
    ELSE IF curr > 0 THEN curr - 1 ELSE 0

\* servo_sample()'s part for every type.
Settle(o, c, offset) ==
    LET curr == IF c.near = 0 THEN o.s.curr ELSE check_offset_threshold(c, o.s.curr, offset)
    IN  CASE o.state = "UNLOCKED" -> [o EXCEPT !.s.curr = c.num]
          [] o.state = "JUMP" -> [o EXCEPT !.s.curr = c.num, !.s.first_update = FALSE]
          [] o.state = "LOCKED" ->
               [o EXCEPT !.s.curr = curr, !.s.first_update = FALSE,
                         !.state = IF c.near # 0 /\ curr = 0 THEN "LOCKED_STABLE" ELSE "LOCKED"]

servo_sample(s, c, offset, slew) == {Settle(o, c, offset) : o \in Samples(s, c, offset, slew)}

\* pi_reset(), linreg_reset(); the others have nothing to forget.
servo_reset(s, c) ==
    CASE c.type = "PI" -> Restart(s)
      [] c.type = "LINREG" -> [s EXCEPT !.pts = <<>>]
      [] OTHER -> s

\* linreg_leap() moves the reference when the leap second is over; the servos
\* that hand samples on tell the other program.
servo_leap(s, c, leap) ==
    IF c.type = "LINREG"
    THEN [s EXCEPT !.leap = leap,
                   !.pts = IF s.leap # 0 /\ leap = 0 THEN move_reference(@, s.leap) ELSE @]
    ELSE IF c.type = "NTPSHM" THEN [s EXCEPT !.leap = leap]
    ELSE s

\* Time passes, and the clock moves by d in addition to it.
Passes(s, dt, d) ==
    [s EXCEPT !.age = IF s.count = 1 /\ s.age + dt + d <= MaxAge THEN @ + dt + d ELSE @]
Slewed(s, d) == [s EXCEPT !.pts = move_reference(@, d)]
=============================================================================
