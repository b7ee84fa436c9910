----------------------------- MODULE DelayFilter -----------------------------
(****************************************************************************)
(* The filters of the path delay, mave.c and mmedian.c, on circular         *)
(* buffers, and what they are meant to compute.                             *)
(****************************************************************************)
EXTENDS Integers, Sequences, SequencesExt

CONSTANT FilterLength   \* delay_filter_length

\* tmv_div(), which truncates toward zero.
tmv_div(a, d) == IF a >= 0 THEN a \div d ELSE -((-a) \div d)

\* val: the buffer, samples of the median too; order: the indices of the buffer
\* sorted by value; index: where the next sample goes.
filter_reset == [cnt |-> 0, index |-> 0, sum |-> 0, val |-> [i \in 0..(FilterLength - 1) |-> 0],
                 order |-> <<>>]

NextIndex(f) == (1 + f.index) % FilterLength
Count(f) == IF f.cnt < FilterLength THEN f.cnt + 1 ELSE f.cnt

\* Mutant: the sample that is overwritten stays in the sum.
AccumulateAll(f, v) ==
    LET g == [f EXCEPT !.sum = f.sum + v, !.val[f.index] = v,
                       !.index = NextIndex(f), !.cnt = Count(f)]
    IN  [f |-> g, result |-> tmv_div(g.sum, g.cnt)]

mave_accumulate(f, v) ==
    LET g == [f EXCEPT !.sum = f.sum - f.val[f.index] + v, !.val[f.index] = v,
                       !.index = NextIndex(f), !.cnt = Count(f)]
    IN  [f |-> g, result |-> tmv_div(g.sum, g.cnt)]

\* The index of the replaced value leaves the order; that of the new value goes
\* behind the last one whose value is not larger.
Reorder(f, v) ==
    LET at == CHOOSE k \in DOMAIN f.order : f.order[k] = f.index
        rest == IF f.cnt < FilterLength THEN f.order ELSE RemoveAt(f.order, at)
        behind == Max({k \in DOMAIN rest : f.val[rest[k]] <= v} \cup {0})
    IN  InsertAt(rest, behind + 1, f.index)

mmedian_sample(f, v) ==
    LET g == [f EXCEPT !.order = Reorder(f, v), !.val[f.index] = v,
                       !.index = NextIndex(f), !.cnt = Count(f)]
        at(i) == g.val[g.order[i + 1]]
        half == g.cnt \div 2
    IN  [f |-> g, result |-> IF g.cnt % 2 = 1 THEN at(half)
                             ELSE tmv_div(at(half - 1) + at(half), 2)]

filter_sample(type, f, v) ==
    IF type = "MOVING_MEDIAN" THEN mmedian_sample(f, v) ELSE mave_accumulate(f, v)

-----------------------------------------------------------------------------
\* The mean and the median of the samples of a sequence.
Total(w) == LET sum[n \in 0..Len(w)] == IF n = 0 THEN 0 ELSE sum[n - 1] + w[n]
            IN  sum[Len(w)]

Mean(w) == tmv_div(Total(w), Len(w))

\* The sample that n - 1 others precede when they are put in order.
Nth(w, n) ==
    CHOOSE v \in Range(w) : /\ Cardinality({i \in DOMAIN w : w[i] < v}) < n
                            /\ Cardinality({i \in DOMAIN w : w[i] <= v}) >= n

Median(w) ==
    LET half == Len(w) \div 2
    IN  IF Len(w) % 2 = 1 THEN Nth(w, half + 1)
        ELSE tmv_div(Nth(w, half) + Nth(w, half + 1), 2)
=============================================================================
