-------------------------------- MODULE Lstab --------------------------------
(****************************************************************************)
(* The table of leap seconds of lstab.c: when the offset between TAI and    *)
(* UTC changes, read from a file that may be replaced at any time.          *)
(****************************************************************************)
EXTENDS Integers, Sequences, FiniteSets, FiniteSetsExt

\* A row, with the first second of UTC for which the offset is in force.
epoch_marker(utc, offset) == [utc |-> utc, offset |-> offset]

\* lstab_read(): what the file holds replaces the table; without a date of
\* expiry the date from before stays, and a table that never had one is refused.
lstab_read(tab, file) ==
    [rows |-> file.rows, mtime |-> tab.mtime,
     expiration |-> IF file.expiration = 0 THEN tab.expiration ELSE file.expiration]

lstab_create(file) ==
    [lstab_read([expiration |-> 0, mtime |-> 0], file) EXCEPT !.mtime = file.mtime]

\* update_leapsecond_table(): a file that cannot be read leaves no row, and is
\* read again at the next opportunity.
update_leapsecond_table(tab, file) ==
    IF tab.mtime = file.mtime THEN tab
    ELSE IF ~file.readable THEN [tab EXCEPT !.rows = <<>>]
    ELSE [lstab_read(tab, file) EXCEPT !.mtime = file.mtime]

\* The row in force at a time, 0 if none: the last that has begun.
Epoch(tab, utc) ==
    LET begun == {k \in DOMAIN tab.rows : utc >= tab.rows[k].utc}
    IN  IF begun = {} THEN 0 ELSE Max(begun)

\* Mutant: the last second before a leap second is not ambiguous.
SureUtc2tai(tab, utc) ==
    LET e == Epoch(tab, utc)
    IN  CASE e = 0 -> [result |-> "UNKNOWN", offset |-> 0]
          [] utc > tab.expiration -> [result |-> "EXPIRED", offset |-> tab.rows[e].offset]
          [] OTHER -> [result |-> "OK", offset |-> tab.rows[e].offset]

lstab_utc2tai(tab, utc) ==
    LET e == Epoch(tab, utc)
    IN  CASE e = 0 -> [result |-> "UNKNOWN", offset |-> 0]
          [] e < Len(tab.rows) /\ utc = tab.rows[e + 1].utc - 1 ->
                [result |-> "AMBIGUOUS", offset |-> tab.rows[e].offset]
          [] utc > tab.expiration -> [result |-> "EXPIRED", offset |-> tab.rows[e].offset]
          [] OTHER -> [result |-> "OK", offset |-> tab.rows[e].offset]
=============================================================================
