------------------------------- MODULE PQueue -------------------------------
(****************************************************************************)
(* The binary heap of pqueue.c.  The array data[0 .. len - 1] is a sequence *)
(* indexed from 1, so the parent of i is i \div 2.  key[a] < key[b] stands   *)
(* for cmp(a, b) > 0: a has to leave the queue before b.                    *)
(****************************************************************************)
EXTENDS Naturals, Sequences

parent(i) == i \div 2

\* Mutant: the new element stays at the end of the array.
InsertAtEnd(q, d, key) == Append(q, d)

\* The hole at the end of the array moves up past the elements that come
\* after d; those move down.
pqueue_insert(q, d, key) ==
    LET n == Len(q) + 1
        hole[i \in 1..n] ==
            IF i > 1 /\ key[d] < key[q[parent(i)]] THEN hole[parent(i)] ELSE i
        path[i \in 1..n] ==
            IF i = hole[n] THEN {} ELSE {i} \cup path[parent(i)]
        put(i) == IF i = hole[n] THEN d
                  ELSE IF i \in path[n] THEN q[parent(i)] ELSE q[i]
    IN  SubSeq([i \in 1..n |-> put(i)], 1, n)

\* Which of i and its children leaves first, x being the element at i.
FirstOfThree(q, i, x, key) ==
    LET l == IF 2 * i <= Len(q) /\ key[q[2 * i]] < key[x] THEN 2 * i ELSE i
        v == IF l = i THEN x ELSE q[l]
    IN  IF 2 * i + 1 <= Len(q) /\ key[q[2 * i + 1]] < key[v] THEN 2 * i + 1 ELSE l

\* The element at the root sinks below its children that leave before it.
heapify(q, key) ==
    LET next(i) == FirstOfThree(q, i, q[1], key)
        hole[i \in DOMAIN q] == IF next(i) = i THEN i ELSE hole[next(i)]
        path[i \in DOMAIN q] ==
            IF next(i) = i THEN {} ELSE {i} \cup path[next(i)]
        put(i) == IF i = hole[1] THEN q[1]
                  ELSE IF i \in path[1] THEN q[next(i)] ELSE q[i]
    IN  SubSeq([i \in DOMAIN q |-> put(i)], 1, Len(q))

\* The queue without its root; pqueue_peek() is Head.
pqueue_extract(q, key) ==
    LET rest == SubSeq(q, 1, Len(q) - 1)
    IN  IF rest = <<>> THEN <<>> ELSE heapify([rest EXCEPT ![1] = q[Len(q)]], key)
=============================================================================
