------------------------------- MODULE MCTs2phc ------------------------------
(* Instances of Ts2phc for TLC. *)
EXTENDS Ts2phc

Conf(src, auto, both, delay, listed) ==
    [src |-> src, auto |-> auto, both |-> both, delay |-> delay, listed |-> listed,
     first |-> IF listed = {} THEN 0 ELSE Max(listed)]

\* A receiver with early and late sentences, or both edges; a pulse without
\* time of day; ports with their clocks, the source's included.
MCConfs ==
    {Conf("nmea", FALSE, FALSE, 1, {}), Conf("nmea", FALSE, FALSE, 3, {}),
     Conf("nmea", FALSE, TRUE, 1, {}), Conf("generic", FALSE, FALSE, 1, {}),
     Conf("phc", TRUE, TRUE, 1, {0, 1, 2}), Conf("phc", FALSE, TRUE, 1, {})}

=============================================================================
