---------------------------- MODULE Graph6Format ----------------------------
(***************************************************************************)
(* The graph6 format as it is written, against which its reader is checked:*)
(* the size, then the bits of the upper triangle, column after column, six *)
(* a character.                                                            *)
(***************************************************************************)
EXTENDS Integers, Sequences, FiniteSetsExt

\* The sizes that an int holds.
Sizes == {n \in Nat : n <= 2147483647}

SizeBytes(n) ==
    LET digits(count) == [d \in 1..count |-> (n \div 64 ^ (count - d)) % 64]
    IN  IF n <= 62 THEN <<n>>
        ELSE IF n <= 258047 THEN <<63>> \o digits(3)
        ELSE <<63, 63>> \o digits(6)

\* The place of the bit for the edge between u and w, u < w, from 0.
PlaceOfEdge(u, w) == (w * (w - 1)) \div 2 + u

EdgesOn(n) == {p \in (0..n-1) \X (0..n-1) : p[1] < p[2]}

Encode(n, E) ==
    LET bit(k) == IF \E p \in E : PlaceOfEdge(p[1], p[2]) = k THEN 1 ELSE 0
        count  == (n * (n - 1)) \div 2
        byte(q) == SumSet({bit(6 * q + k) * 2 ^ (5 - k) : k \in 0..5})
    IN  SizeBytes(n) \o [q \in 1..(count + 5) \div 6 |-> byte(q - 1)]
=============================================================================
