--------------------------- MODULE ClockDiscipline ---------------------------
(****************************************************************************)
(* phc2sys' update_clock() around the midnight of a leap second: a clock    *)
(* that is in UTC follows one in TAI or the reverse, while the grandmaster  *)
(* announces the leap second early or late, readings fail and somebody else *)
(* moves the clock.  With the servos, the sanity check of clockcheck.c and  *)
(* the kernel's own insertion of the leap second (external).                *)
(*                                                                          *)
(* Time is counted in seconds of TAI.  A day has only Day seconds, of which *)
(* the first SixHours stand for the six hours of leap_second_status().      *)
(* bias is what the disciplined clock shows beyond TAI; Err, its error.  A  *)
(* frequency moves the clock by a second at most until the next is set.     *)
(****************************************************************************)
EXTENDS Servo

CONSTANTS
    Confs,      \* the configurations considered
    Day, SixHours,
    Late,       \* seconds after midnight until the announcement goes away
    MaxErr,     \* bound: errors that others cause
    MaxFaults   \* bound: failing calls, and steps that somebody else makes

Off0 == 1                     \* TAI - UTC before the leap second
First == Off0 + SixHours + 1
Last == Off0 + Day + SixHours + 2

\* toUtc: the clock is the system clock, in UTC, and the source is in TAI;
\* otherwise the reverse.  leap: the leap second at the end of the day.
ConfType == [servo : ServoConfType, toUtc : BOOLEAN, kernel_leap : BOOLEAN, leap : {-1, 0, 1}]

ASSUME DisciplineAssumption ==
    /\ {Day, SixHours, Late, MaxErr, MaxFaults} \subseteq Nat
    /\ 2 * SixHours + 2 < Day /\ Late + MaxErr < SixHours
    /\ {MinPoints, MaxPoints, MaxAge} \subseteq Nat /\ 0 < MinPoints /\ MinPoints <= MaxPoints
    /\ Confs \subseteq ConfType

VARIABLES
    conf, t, due,
    bias, slew,
    kern,     \* the kernel: its leap status, whether it leapt, its TAI offset
    phase,    \* what the agent says: 0 nothing, 1 leap second to come, 2 over
    clk,      \* struct clock
    sv,       \* struct servo
    cc,       \* struct clockcheck
    faults,   \* counter for the bound
    used,     \* history: the offset of the last update and the right one
    near,     \* history: consecutive samples in lock below the threshold
    moved,    \* history: somebody else moved the clock since it was checked
    accused,  \* history: the check blamed somebody when nobody was at it
    disturbed \* history: the clock was wrong, or had no way to know

vars == <<conf, t, due, bias, slew, kern, phase, clk, sv, cc, faults, used, near, moved,
          accused, disturbed>>

\* The kernel plays the last second twice, or leaves it out.
Midnight == Off0 + Day - (IF conf.leap = -1 THEN 1 ELSE 0)
TrueOff == IF t >= Midnight THEN Off0 + conf.leap ELSE Off0
Right == IF conf.toUtc THEN -TrueOff ELSE 0
Err == bias - Right

\* The types; the servo keeps its samples within its array, of which linreg.c
\* has MAX_POINTS (add_sample()).
TypeOK ==
    /\ conf \in Confs /\ t \in First..Last /\ due \in BOOLEAN
    /\ bias \in Int /\ slew \in -1..1 /\ phase \in 0..2
    /\ kern \in [leap : -1..1, done : BOOLEAN, tai : Int]
    /\ clk \in [servo : BOOLEAN, leap_set : -1..1, utc_offset_set : Int, state : ServoStates]
    /\ sv.count \in 0..2 /\ sv.curr \in 0..conf.servo.num /\ Len(sv.pts) <= MaxPoints
    /\ \A i \in DOMAIN sv.pts : Abs(sv.pts[i]) <= 2 * MaxErr + 1
    /\ cc \in [known : BOOLEAN, last : BOOLEAN, jump : Int]

Init ==
    /\ conf \in Confs /\ t = First /\ due = FALSE
    /\ \E e \in {0, MaxErr} : bias = e - (IF conf.toUtc THEN Off0 ELSE 0)
    /\ disturbed = (Err # 0)
    /\ slew = 0 /\ phase = 0 /\ kern = [leap |-> 0, done |-> FALSE, tai |-> 0]
    /\ clk = [servo |-> FALSE, leap_set |-> 0, utc_offset_set |-> 0, state |-> "UNLOCKED"]
    /\ sv = servo_create(conf.servo)
    /\ cc = [known |-> FALSE, last |-> FALSE, jump |-> 0]
    /\ faults = 0 /\ used = <<0, 0>> /\ near = 0 /\ moved = FALSE /\ accused = FALSE

-----------------------------------------------------------------------------
\* What the agent has read of the grandmaster's time properties.
agent == [leap |-> IF phase = 1 THEN conf.leap ELSE 0,
          offset |-> IF phase = 2 THEN Off0 + conf.leap ELSE Off0]

\* The announcement comes before midnight.  It goes away after midnight, or
\* before once the clock has seen it.
Announce ==
    /\ conf.leap # 0
    /\ \/ phase = 0 /\ t < Midnight
       \/ phase = 1 /\ (t >= Midnight \/ clk.leap_set # 0)
    /\ phase' = phase + 1
    /\ UNCHANGED <<conf, t, due, bias, slew, kern, clk, sv, cc, faults, used, near, moved,
                   accused, disturbed>>

\* The system clock reaches its own midnight.
Leaps(from, to) ==
    LET at == IF kern.leap = -1 THEN Day - 1 ELSE Day
    IN  conf.toUtc /\ kern.leap # 0 /\ ~kern.done /\ from < at /\ to >= at

\* The next second.  The announcement is not later than the leap second and goes
\* away well within six hours; after Last the time of day is all the same.
Tick ==
    LET next == IF t < Last THEN t + 1 ELSE t
        leaps == Leaps(t + bias, next + bias + slew)
        d == slew - (IF leaps THEN kern.leap ELSE 0)
    IN  /\ ~due /\ due' = TRUE
        /\ conf.leap # 0 /\ next = Midnight => phase > 0
        /\ conf.leap # 0 /\ next - (Off0 + conf.leap) > Day + Late => phase = 2
        /\ t' = next /\ bias' = bias + d /\ slew' = 0
        /\ kern' = IF leaps THEN [kern EXCEPT !.done = TRUE, !.tai = @ + kern.leap] ELSE kern
        /\ sv' = Slewed(Passes(sv, 1, d), slew)
        /\ cc' = IF leaps /\ cc.last THEN [cc EXCEPT !.jump = @ - kern.leap] ELSE cc
        /\ moved' = (moved \/ leaps)
        /\ disturbed' = (disturbed \/ (next = Midnight /\ t < Midnight /\ conf.leap # 0 /\
                                       (clk.leap_set = 0 \/ (conf.toUtc /\ ~leaps))))
        /\ UNCHANGED <<conf, phase, clk, faults, used, near, accused>>

\* Somebody else, an operator or another program, steps the clock.
Disturb ==
    \E d \in {-1, 1} :
        /\ faults < MaxFaults /\ faults' = faults + 1
        /\ Abs(Err + d) <= MaxErr /\ clk.servo
        /\ bias' = bias + d
        /\ sv' = Passes(sv, 0, d)
        /\ cc' = IF cc.last THEN [cc EXCEPT !.jump = @ + d] ELSE cc
        /\ moved' = TRUE /\ disturbed' = TRUE
        /\ UNCHANGED <<conf, t, due, slew, kern, phase, clk, used, near, accused>>

\* The clocks could not be read.
Miss ==
    /\ due /\ t < Last /\ faults < MaxFaults
    /\ faults' = faults + 1 /\ due' = FALSE
    /\ UNCHANGED <<conf, t, bias, slew, kern, phase, clk, sv, cc, used, near, moved,
                   accused, disturbed>>

-----------------------------------------------------------------------------
Reading == t + bias
Source == IF conf.toUtc THEN t ELSE t - TrueOff
Measured == Reading - Source

get_sync_offset(sync) == IF conf.toUtc THEN sync ELSE -sync

\* Mutant: the second that is played twice is not recognized.
NeverAmbiguous(ts) == FALSE

is_utc_ambiguous(ts) == Day - (ts % Day) <= 1

\* Mutant: the offset is taken as it was announced.
TrustsAnnounced(ts, leap_set, leap, offset) ==
    [status |-> IF ts % Day > SixHours THEN (IF leap_set = 0 THEN leap ELSE leap_set) ELSE 0,
     offset |-> offset]

\* Whether a leap second is to come, by the time of day and by what was
\* announced, and the offset, which may have been changed early or late.
leap_second_status(ts, leap_set, leap, offset) ==
    LET status == IF ts % Day > SixHours THEN (IF leap_set = 0 THEN leap ELSE leap_set) ELSE 0
    IN  [status |-> status,
         offset |-> IF leap = 0 /\ status # 0 THEN offset - status
                    ELSE IF leap # 0 /\ status = 0 THEN offset + leap
                    ELSE offset]

\* The time stamp by which clock_handle_leap() decides: of the clock in UTC, and
\* the new time of a clock that is about to be stepped.
LeapTime ==
    IF ~conf.toUtc THEN Source
    ELSE IF clk.state = "UNLOCKED" THEN Reading - (Measured + get_sync_offset(agent.offset))
    ELSE Reading

Pending == agent.leap # 0 \/ clk.leap_set # 0

\* clock_handle_leap() tells to skip the update in the last second of the day.
Suspended == Pending /\ is_utc_ambiguous(LeapTime)

Status ==
    IF Pending THEN leap_second_status(LeapTime, clk.leap_set, agent.leap, agent.offset)
    ELSE [status |-> 0, offset |-> agent.offset]

-----------------------------------------------------------------------------
\* clockcheck_sample(): a sample too close to the last one changes nothing; a
\* clock that somebody moved is noticed unless the interval is long.
clockcheck_sample(c) ==
    {[c |-> c, bad |-> FALSE]} \cup
    (IF ~c.known THEN {}
     ELSE {[c |-> [c EXCEPT !.last = TRUE, !.jump = 0], bad |-> bad] :
               bad \in IF c.last /\ c.jump # 0 THEN BOOLEAN ELSE {FALSE}})

\* Mutant: the check is not told of a step.
StepUntold(c, step) == c

clockcheck_step(c, step) == IF c.last THEN [c EXCEPT !.jump = @ - step] ELSE c

\* clockadj_step(), which moves the clock the check watches.
Stepped(c, step) == IF c.last THEN [c EXCEPT !.jump = @ + step] ELSE c

-----------------------------------------------------------------------------
\* servo_add() clears the kernel's leap status when the first update makes it.
servo_add(k) == IF clk.servo \/ ~conf.toUtc THEN k ELSE [k EXCEPT !.leap = 0, !.done = FALSE]

sysclk_set_leap(k, leap) == [k EXCEPT !.leap = leap, !.done = IF leap = 0 THEN FALSE ELSE @]

\* The update is left out: clock_handle_leap() returned 1.
Suspend ==
    /\ due /\ Suspended
    /\ due' = FALSE /\ clk' = [clk EXCEPT !.servo = TRUE] /\ kern' = servo_add(kern)
    /\ UNCHANGED <<conf, t, bias, slew, phase, sv, cc, faults, used, near, moved, accused,
                   disturbed>>

\* The kernel and the servo once clock_handle_leap() has seen a change.
KernelTold ==
    LET k == servo_add(kern)
        s == IF conf.toUtc /\ conf.kernel_leap /\ Status.status # clk.leap_set
             THEN sysclk_set_leap(k, Status.status) ELSE k
    IN  IF conf.toUtc /\ clk.utc_offset_set # Status.offset
        THEN [s EXCEPT !.tai = Status.offset] ELSE s

ServoTold ==
    IF Status.status # clk.leap_set /\ ~(conf.toUtc /\ conf.kernel_leap)
    THEN servo_leap(sv, conf.servo, Status.status) ELSE sv

servo_unlock(s, c) == servo_reset(s, c)

\* update_clock() from the sanity check on, for what the calls return.
Apply(q, o, offset, stepped, set) ==
    LET jump == o.state = "JUMP"
        locks == o.state # "UNLOCKED"
        fails == locks /\ ((jump /\ ~stepped) \/ ~set)
        step == IF jump /\ stepped THEN -offset ELSE 0
        c == IF jump /\ stepped THEN clockcheck_step(Stepped(q.c, step), step) ELSE q.c
    IN  /\ bias' = bias + step
        /\ slew' = IF locks /\ ~fails THEN o.slew ELSE slew
        /\ cc' = IF locks /\ ~fails THEN [c EXCEPT !.known = TRUE] ELSE c
        /\ sv' = IF fails THEN servo_unlock(o.s, conf.servo) ELSE o.s
        /\ clk' = [servo |-> TRUE, leap_set |-> Status.status, utc_offset_set |-> Status.offset,
                   state |-> IF fails THEN "UNLOCKED" ELSE o.state]
        /\ faults' = IF fails THEN faults + 1 ELSE faults
        /\ fails => faults < MaxFaults
        /\ near' = IF o.state \in {"UNLOCKED", "JUMP"} \/ Abs(offset) >= conf.servo.near THEN 0
                   ELSE IF near < conf.servo.num THEN near + 1 ELSE near

Update ==
    /\ due /\ ~Suspended
    /\ LET offset == Measured + get_sync_offset(Status.offset)
       IN  \E q \in clockcheck_sample(cc), stepped \in BOOLEAN, set \in BOOLEAN :
           LET s == IF q.bad THEN servo_reset(ServoTold, conf.servo) ELSE ServoTold
           IN  \E o \in servo_sample(s, conf.servo, offset, slew) :
                   /\ Apply(q, o, offset, stepped, set)
                   /\ kern' = KernelTold
                   /\ accused' = (accused \/ (q.bad /\ ~moved))
                   /\ moved' = IF q.c # cc \/ q.bad THEN FALSE ELSE moved
    /\ used' = IF Err = 0 \/ clk.state = "UNLOCKED" THEN <<Status.offset, TrueOff>> ELSE <<0, 0>>
    /\ due' = FALSE
    /\ UNCHANGED <<conf, t, phase, disturbed>>

Next == Announce \/ Tick \/ Disturb \/ Miss \/ Suspend \/ Update

Spec == Init /\ [][Next]_vars

\* The loop of phc2sys goes on, and an announcement comes and goes in time.
FairSpec == Spec /\ WF_vars(Tick) /\ WF_vars(Announce) /\ WF_vars(Suspend \/ Update)

-----------------------------------------------------------------------------
\* clock_handle_leap(): every update uses the offset between TAI and UTC of its
\* moment, although the announcement came late or went early, unless the clock is
\* locked to a wrong time and cannot tell on which side of midnight it is.  This
\* is for errors of a second: a clock that was locked further off may have
\* forgotten an announcement that went early (see Servo_proof).
OffsetRight == used[1] = used[2]

\* A clock that was right and that nobody moved stays right through the leap
\* second, which the kernel makes in the same moment: neither a stale offset nor
\* the servo's memory of the time before moves it.
Undisturbed == disturbed \/ Err = 0

\* servo_sample(): SERVO_LOCKED_STABLE is the reward for num offsets in a row
\* below the threshold, in lock, without a step.
StableIsEarned == clk.state = "LOCKED_STABLE" => near >= conf.servo.num

\* clockcheck.c: the servo is reset for a jump only if somebody else moved the
\* clock; the steps and frequencies phc2sys sets itself are known to the check.
CheckTrusts == ~accused

\* After the last disturbance a clock that is steered comes back to the right
\* time for good.
Converges == conf.servo.type \in {"PI", "LINREG"} => <>[](Err = 0)

\* The leap second does no harm: OffsetRight and Undisturbed, in a state of the
\* right type.
LeapHarmless == TypeOK /\ OffsetRight /\ Undisturbed

\* The verdicts on the clock are founded: StableIsEarned and CheckTrusts.
VerdictsFounded == StableIsEarned /\ CheckTrusts
=============================================================================
