-------------------------- MODULE MCClockDiscipline --------------------------
(* Instances of ClockDiscipline for TLC. *)
EXTENDS ClockDiscipline

Pi(step, first, num) == [type |-> "PI", step |-> step, first |-> first, near |-> 1, num |-> num, est |-> 2]
Linreg == [type |-> "LINREG", step |-> 0, first |-> 0, near |-> 1, num |-> 2, est |-> 0]
Nullf == [Linreg EXCEPT !.type = "NULLF"]
Ntpshm == [Linreg EXCEPT !.type = "NTPSHM"]

\* The system clock follows a PHC; a PHC follows the system clock.
MCConfs ==
    {[servo |-> s, toUtc |-> TRUE, kernel_leap |-> TRUE, leap |-> 1] : s \in {Pi(0, 0, 1), Linreg}} \cup
    {[servo |-> Pi(Off, 0, 2), toUtc |-> TRUE, kernel_leap |-> k, leap |-> -1] : k \in BOOLEAN} \cup
    {[servo |-> Linreg, toUtc |-> TRUE, kernel_leap |-> FALSE, leap |-> 1]} \cup
    {[servo |-> s, toUtc |-> FALSE, kernel_leap |-> TRUE, leap |-> 1] :
         s \in {Pi(Off, Off, 2), Nullf, Ntpshm}} \cup
    {[servo |-> Pi(0, 0, 1), toUtc |-> FALSE, kernel_leap |-> TRUE, leap |-> 0]}
=============================================================================
