----------------------------- MODULE Syrup_proofs -----------------------------
(***************************************************************************)
(* The ring of the threads of glucose-syrup is a queue, for any number of  *)
(* threads, any size and any clauses.  The proof leaves the indices of the *)
(* ring behind at once: it numbers the integers from the end that is       *)
(* written to, so that a clause keeps its numbers while others read and    *)
(* remove, and all of them move by the length of what is pushed.           *)
(*                                                                         *)
(* The answer of the parallel solver is right for any number of threads    *)
(* and any formula.  Two facts carry the proof: what the threads tell each *)
(* other holds in every model of the formula, and the thread that was      *)
(* first owns jobStatus until the join, although it stores it after it has *)
(* given back the mutex.  The last part proves the types of the solver     *)
(* together with its ring: a variable is listed once.                      *)
(***************************************************************************)
EXTENDS MCSyrup, SequenceLemmas, SequenceTheorems, FiniteSetTheorems, TLAPS

-----------------------------------------------------------------------------
(***************************************************************************)
(* The recursive functions of the ring.                                    *)
(***************************************************************************)

\* f takes the value of v where the loop that goes on to n in E ends.
IsLoop(f, X, E, n, v) ==
    /\ f = [x \in X |-> f[x]]
    /\ \A x \in X : f[x] = IF x \in E THEN f[n[x]] ELSE v[x]

\* A loop has values, even one that goes round for ever from some states.
LEMMA LoopHasValues ==
    ASSUME NEW X, NEW E \in SUBSET X, NEW n \in [X -> X], NEW v
    PROVE  \E f : IsLoop(f, X, E, n, v)
<1> DEFINE Closed(A) == \A x \in E : n[x] \in A => x \in A
           From(z)   == {x \in X : \A A \in SUBSET X : z \in A /\ Closed(A) => x \in A}
           Ends(x)   == {z \in X \ E : x \in From(z)}
           f == [x \in X |-> v[CHOOSE z : z \in Ends(x)]]
<1>1. ASSUME NEW z \in X \ E, NEW x \in E
      PROVE  x \in From(z) <=> n[x] \in From(z)
  <2>1. n[x] \in From(z) => x \in From(z)
    OBVIOUS
  <2>2. ASSUME x \in From(z), n[x] \notin From(z)
        PROVE  FALSE
    <3>1. PICK A \in SUBSET X : z \in A /\ Closed(A) /\ n[x] \notin A
      BY <2>2
    <3>2. z \in A \ {x} /\ Closed(A \ {x}) /\ A \ {x} \in SUBSET X
      BY <3>1
    <3> QED BY <2>2, <3>2
  <2> QED BY <2>1, <2>2
<1>2. ASSUME NEW z \in X \ E, NEW x \in X \ E
      PROVE  x \in From(z) <=> x = z
  <2>1. z \in {z} /\ Closed({z} \cup (E \cap X)) /\ {z} \cup (E \cap X) \in SUBSET X
    OBVIOUS
  <2> QED BY <2>1
<1>3. \A x \in X \ E : f[x] = v[x]
  BY <1>2
<1>4. ASSUME NEW x \in E
      PROVE  f[x] = f[n[x]]
  <2>1. Ends(x) = Ends(n[x])
    BY <1>1
  <2> HIDE DEF Ends
  <2> QED BY <2>1
<1>5. f = [x \in X |-> f[x]]
  OBVIOUS
<1> HIDE DEF f
<1>6. IsLoop(f, X, E, n, v)
  BY <1>3, <1>4, <1>5 DEF IsLoop
<1> QED BY <1>6

-----------------------------------------------------------------------------
(***************************************************************************)
(* The integers of the ring, numbered from the end.                        *)
(***************************************************************************)

USE ThreadsAssumption

\* The position that m integers are left behind, when f is the first free.
At(f, m) == (f - 1 - m + maxsize) % maxsize

LEMMA ModuloIsIndex ==
    ASSUME NEW x \in Nat
    PROVE  x % maxsize \in Index
  BY DEF Index

LEMMA Modulo ==
    ASSUME NEW x \in 0..2 * maxsize - 1
    PROVE  x % maxsize = IF x < maxsize THEN x ELSE x - maxsize
  BY DEF Index

LEMMA AtIs ==
    ASSUME NEW f \in Index, NEW m \in Index
    PROVE  At(f, m) = IF m < f THEN f - 1 - m ELSE f - 1 - m + maxsize
<1>1. f - 1 - m + maxsize \in 0..2 * maxsize - 1
  BY DEF Index
<1>2. PICK x \in 0..2 * maxsize - 1 : x = f - 1 - m + maxsize
  BY <1>1
<1>3. At(f, m) = x % maxsize
  BY <1>2 DEF At
<1>4. At(f, m) = IF x < maxsize THEN x ELSE x - maxsize
  BY <1>3, Modulo
<1> QED BY <1>2, <1>4 DEF Index

LEMMA AtInverse ==
    ASSUME NEW f \in Index, NEW m \in Index
    PROVE  At(f, m) \in Index /\ At(f, At(f, m)) = m
<1>1. At(f, m) \in Index
  BY AtIs DEF Index
<1>2. CASE m < f
  <2>1. At(f, m) = f - 1 - m /\ f - 1 - m < f
    BY AtIs, <1>2 DEF Index
  <2> QED BY <1>1, <2>1, AtIs DEF Index
<1>3. CASE ~ (m < f)
  <2>1. At(f, m) = f - 1 - m + maxsize /\ ~ (f - 1 - m + maxsize < f)
    BY AtIs, <1>3 DEF Index
  <2> QED BY <1>1, <2>1, AtIs DEF Index
<1> QED BY <1>2, <1>3

LEMMA AtIsInjective ==
    ASSUME NEW f \in Index, NEW m \in Index, NEW n \in Index, At(f, m) = At(f, n)
    PROVE  m = n
  BY AtInverse

\* Forward is towards the end.
LEMMA AtForward ==
    ASSUME NEW f \in Index, NEW m \in Index, NEW a \in 0..m
    PROVE  addIndex(At(f, m), a) = At(f, m - a)
<1>1. At(f, m) \in Index /\ m - a \in Index
  BY AtInverse DEF Index
<1>2. At(f, m) + a \in 0..2 * maxsize - 1
  BY <1>1 DEF Index
<1>3. addIndex(At(f, m), a) = IF At(f, m) + a < maxsize THEN At(f, m) + a ELSE At(f, m) + a - maxsize
  <2>1. PICK x \in 0..2 * maxsize - 1 : x = At(f, m) + a
    BY <1>2
  <2>2. addIndex(At(f, m), a) = x % maxsize
    BY <2>1 DEF addIndex
  <2>3. addIndex(At(f, m), a) = IF x < maxsize THEN x ELSE x - maxsize
    BY <2>2, Modulo
  <2> QED BY <1>1, <2>1, <2>3 DEF Index
<1>4. At(f, m) = IF m < f THEN f - 1 - m ELSE f - 1 - m + maxsize
  BY AtIs
<1>5. At(f, m - a) = IF m - a < f THEN f - 1 - (m - a) ELSE f - 1 - (m - a) + maxsize
  BY <1>1, AtIs
<1> QED BY <1>1, <1>3, <1>4, <1>5 DEF Index

LEMMA NextIndexIs ==
    ASSUME NEW f \in Index, NEW m \in Index
    PROVE  /\ m = 0 => nextIndex(At(f, m)) = f
           /\ m > 0 => nextIndex(At(f, m)) = At(f, m - 1) /\ nextIndex(At(f, m)) # f
<1>1. At(f, m) \in Index
  BY AtInverse
<1>2. At(f, m) = IF m < f THEN f - 1 - m ELSE f - 1 - m + maxsize
  BY AtIs
<1>3. m > 0 => m - 1 \in Index
  BY DEF Index
<1>4. m > 0 => At(f, m - 1) = IF m - 1 < f THEN f - 1 - (m - 1) ELSE f - 1 - (m - 1) + maxsize
  BY <1>3, AtIs
<1> QED BY <1>1, <1>2, <1>4 DEF Index, nextIndex

\* No position between the last and the first is overtaken.
LEMMA NotOvertaken ==
    ASSUME first \in Index, NEW q \in Index, last = At(first, q), NEW m \in 0..q
    PROVE  ~ Overtaken(At(first, m))
<1>1. m \in Index
  BY DEF Index
<1>2. At(first, m) = IF m < first THEN first - 1 - m ELSE first - 1 - m + maxsize
  BY <1>1, AtIs
<1>3. last = IF q < first THEN first - 1 - q ELSE first - 1 - q + maxsize
  BY AtIs
<1> QED BY <1>1, <1>2, <1>3 DEF Overtaken, Index

\* Where what is pushed goes, and the number of what is there already.
LEMMA AtAfterPush ==
    ASSUME NEW f \in Index, NEW k \in Index
    PROVE  /\ addIndex(f, k) \in Index
           /\ \A m \in 0..maxsize - 1 - k : At(addIndex(f, k), m + k) = At(f, m)
           /\ \A m \in 0..k - 1 : (At(addIndex(f, k), m) - f + maxsize) % maxsize = k - 1 - m
           /\ \A m \in 0..maxsize - 1 - k : (At(f, m) - f + maxsize) % maxsize = maxsize - 1 - m
<1> DEFINE g == addIndex(f, k)
<1>1. f + k \in 0..2 * maxsize - 1
  BY DEF Index
<1>2. g = IF f + k < maxsize THEN f + k ELSE f + k - maxsize
  <2>1. PICK x \in 0..2 * maxsize - 1 : x = f + k
    BY <1>1
  <2>2. g = x % maxsize
    BY <2>1 DEF addIndex
  <2>3. g = IF x < maxsize THEN x ELSE x - maxsize
    BY <2>2, Modulo
  <2> QED BY <1>1, <2>1, <2>3 DEF Index
<1>3. g \in Index
  BY <1>1, <1>2 DEF Index
<1> HIDE DEF g
<1>4. ASSUME NEW m \in 0..maxsize - 1 - k
      PROVE  At(g, m + k) = At(f, m)
  <2>1. m + k \in Index /\ m \in Index
    BY DEF Index
  <2>2. At(g, m + k) = IF m + k < g THEN g - 1 - (m + k) ELSE g - 1 - (m + k) + maxsize
    BY <1>3, <2>1, AtIs
  <2>3. At(f, m) = IF m < f THEN f - 1 - m ELSE f - 1 - m + maxsize
    BY <2>1, AtIs
  <2> QED BY <1>2, <1>3, <2>1, <2>2, <2>3 DEF Index
<1>5. ASSUME NEW m \in 0..k - 1
      PROVE  (At(g, m) - f + maxsize) % maxsize = k - 1 - m
  <2>1. m \in Index
    BY DEF Index
  <2>2. At(g, m) = IF m < g THEN g - 1 - m ELSE g - 1 - m + maxsize
    BY <1>3, <2>1, AtIs
  <2>3. /\ At(g, m) - f + maxsize \in 0..2 * maxsize - 1
        /\ At(g, m) - f + maxsize = k - 1 - m \/ At(g, m) - f + maxsize = k - 1 - m + maxsize
    BY <1>2, <1>3, <2>1, <2>2 DEF Index
  <2>4. k - 1 - m < maxsize /\ ~ (k - 1 - m + maxsize < maxsize)
    BY <2>1 DEF Index
  <2> QED BY <2>3, <2>4, Modulo DEF Index
<1>6. ASSUME NEW m \in 0..maxsize - 1 - k
      PROVE  (At(f, m) - f + maxsize) % maxsize = maxsize - 1 - m
  <2>1. m \in Index
    BY DEF Index
  <2>2. At(f, m) = IF m < f THEN f - 1 - m ELSE f - 1 - m + maxsize
    BY <2>1, AtIs
  <2>3. /\ At(f, m) - f + maxsize \in 0..2 * maxsize - 1
        /\ At(f, m) - f + maxsize = maxsize - 1 - m \/ At(f, m) - f + maxsize = maxsize - 1 - m + maxsize
    BY <2>1, <2>2 DEF Index
  <2>4. maxsize - 1 - m < maxsize /\ ~ (maxsize - 1 - m + maxsize < maxsize)
    BY <2>1 DEF Index
  <2> QED BY <2>3, <2>4, Modulo DEF Index
<1> QED BY <1>3, <1>4, <1>5, <1>6 DEF g

Cells(f, e) == [m \in Index |-> e[At(f, m)]]

LEMMA CellsAreNat ==
    ASSUME NEW f \in Index, NEW e \in [Index -> Nat]
    PROVE  Cells(f, e) \in [Index -> Nat] /\ \A m \in Index : Cells(f, e)[m] = e[At(f, m)]
  BY AtInverse DEF Cells

\* A cell is written.
Put(e, p, x) == [e EXCEPT ![p] = x]

LEMMA CellsPut ==
    ASSUME NEW f \in Index, NEW e \in [Index -> Nat], NEW n \in Index, NEW x
    PROVE  Cells(f, Put(e, At(f, n), x)) = Put(Cells(f, e), n, x)
<1> DEFINE g == [e EXCEPT ![At(f, n)] = x]
<1>1. \A m \in Index : At(f, m) \in Index /\ (At(f, m) = At(f, n) => m = n)
  BY AtInverse, AtIsInjective
<1>2. \A m \in Index : g[At(f, m)] = IF m = n THEN x ELSE e[At(f, m)]
  BY <1>1
<1> QED BY <1>2 DEF Cells, Put

\* The length of the clause that d integers are left before, with its header.
Width(V, d) == V[d - 1] + 3

Clause(V, d) == [n \in 1..V[d - 1] |-> V[d - 3 - n]]

\* Its fields, by the numbers of their integers.
LEMMA FieldsAre ==
    ASSUME NEW f \in Index, NEW e \in [Index -> Nat], NEW d \in Index, d >= 3
    PROVE  LET V == Cells(f, e)
               p == At(f, d)
           IN  /\ sizeAt(e, p) = V[d - 1]
               /\ nseenAt(p) = At(f, d - 2) /\ e[nseenAt(p)] = V[d - 2]
               /\ originAt(e, p) = V[d - 3]
               /\ Width(V, d) <= d => litsAt(e, p) = Clause(V, d)
               /\ Width(V, d) <= d => behind(e, p) = At(f, d - Width(V, d))
<1> DEFINE V == Cells(f, e)
           p == At(f, d)
<1>1. d - 1 \in Index /\ d - 2 \in Index /\ d - 3 \in Index /\ d > 0
      /\ 2 \in 0..d /\ 3 \in 0..d
  BY DEF Index
<1>2. \A m \in Index : V[m] = e[At(f, m)] /\ V[m] \in Nat
  BY CellsAreNat
<1>3. \A a \in 0..d : addIndex(p, a) = At(f, d - a)
  BY AtForward
<1> HIDE DEF V, p
<1>4. sizeAt(e, p) = V[d - 1]
  BY <1>1, <1>2, NextIndexIs DEF sizeAt, p
<1>5. nseenAt(p) = At(f, d - 2) /\ e[nseenAt(p)] = V[d - 2]
  BY <1>1, <1>2, <1>3 DEF nseenAt
<1>6. originAt(e, p) = V[d - 3]
  BY <1>1, <1>2, <1>3 DEF originAt
<1>7. ASSUME Width(V, d) <= d
      PROVE  litsAt(e, p) = Clause(V, d) /\ behind(e, p) = At(f, d - Width(V, d))
  <2>1. V[d - 1] \in Nat /\ V[d - 1] + 3 <= d
    BY <1>1, <1>2, <1>7 DEF Width
  <2>2. ASSUME NEW n \in 1..V[d - 1]
        PROVE  e[addIndex(p, headerSize + n)] = V[d - 3 - n]
    <3>1. 3 + n \in 0..d /\ d - 3 - n \in Index /\ d - (3 + n) = d - 3 - n
      BY <2>1 DEF Index
    <3>2. addIndex(p, 3 + n) = At(f, d - (3 + n))
      BY <1>3, <3>1
    <3> QED BY <1>2, <3>1, <3>2 DEF headerSize
  <2>3. litsAt(e, p) = Clause(V, d)
    BY <1>4, <2>2 DEF litsAt, Clause
  <2>4. Width(V, d) \in 0..d
    BY <2>1 DEF Width, Index
  <2>5. behind(e, p) = addIndex(p, Width(V, d))
    BY <1>4 DEF behind, headerSize, Width
  <2> QED BY <1>3, <2>3, <2>4, <2>5
<1> QED BY <1>4, <1>5, <1>6, <1>7 DEF V, p

LEMMA FieldsOf ==
    ASSUME NEW f \in Index, NEW e \in [Index -> Nat], NEW d \in Index, d >= 3,
           NEW V, V = Cells(f, e), Width(V, d) <= d
    PROVE  /\ originAt(e, At(f, d)) = V[d - 3] /\ litsAt(e, At(f, d)) = Clause(V, d)
           /\ behind(e, At(f, d)) = At(f, d - Width(V, d))
  BY FieldsAre

-----------------------------------------------------------------------------
(***************************************************************************)
(* The loops: a loop that goes on is itself in the next state.             *)
(***************************************************************************)

LEMMA FieldTypes ==
    ASSUME NEW e \in [Index -> Nat], NEW p \in Index
    PROVE  nextIndex(p) \in Index /\ sizeAt(e, p) \in Nat /\ nseenAt(p) \in Index /\ behind(e, p) \in Index
<1>1. nextIndex(p) \in Index
  BY DEF nextIndex, Index
<1>2. sizeAt(e, p) \in Nat
  BY <1>1 DEF sizeAt
<1>3. ASSUME NEW a \in Nat
      PROVE  addIndex(p, a) \in Index
  <2>1. p + a \in Nat
    BY DEF Index
  <2> QED BY <2>1, ModuloIsIndex DEF addIndex
<1> QED BY <1>1, <1>2, <1>3 DEF nseenAt, behind, headerSize

LEMMA WithoutLastInRing ==
    ASSUME NEW e \in [Index -> Nat], NEW r \in Ring
    PROVE  WithoutLast(e, r) \in Ring /\ WithoutLast(e, r).queuesize < r.queuesize
<1>1. r.last \in Index /\ r.queuesize \in Int /\ \A t \in Threads : r.lastOfThread[t] \in Index
  BY DEF Ring
<1>2. behind(e, r.last) \in Index /\ sizeAt(e, r.last) + headerSize \in Nat \ {0}
  BY <1>1, FieldTypes DEF headerSize
<1>3. WithoutLast(e, r).queuesize = r.queuesize - (sizeAt(e, r.last) + headerSize)
  BY DEF WithoutLast
<1>4. WithoutLast(e, r).queuesize \in Int /\ WithoutLast(e, r).queuesize < r.queuesize
  BY <1>1, <1>2, <1>3
<1>5. [t \in Threads |-> IF r.lastOfThread[t] = r.last THEN behind(e, r.last)
                         ELSE r.lastOfThread[t]] \in [Threads -> Index]
  BY <1>1, <1>2
<1> QED BY <1>2, <1>3, <1>4, <1>5 DEF WithoutLast, Ring

LEMMA RemoveLoop ==
    ASSUME NEW e \in [Index -> Nat], NEW r \in Ring
    PROVE  LET w == WithoutLast(e, r)
           IN  removeLastClause(e, r) =
                 IF w.queuesize > 0 /\ e[nseenAt(w.last)] = 0 THEN removeLastClause(e, w) ELSE w
<1> DEFINE G(q) == WithoutLast(e, q).queuesize > 0 /\ e[nseenAt(WithoutLast(e, q).last)] = 0
           F == CHOOSE f : f = [q \in Ring |-> IF G(q) THEN f[WithoutLast(e, q)] ELSE WithoutLast(e, q)]
           E == {q \in Ring : G(q)}
           n == [q \in Ring |-> WithoutLast(e, q)]
<1>1. \A q : removeLastClause(e, q) = F[q]
  BY DEF removeLastClause
<1>2. n \in [Ring -> Ring] /\ E \in SUBSET Ring /\ \A q \in Ring : n[q] = WithoutLast(e, q) /\ (q \in E <=> G(q))
  BY WithoutLastInRing
<1> HIDE DEF n, E
<1>3. PICK f : IsLoop(f, Ring, E, n, n)
  BY <1>2, LoopHasValues
<1>4. \A q \in Ring : f[q] = IF G(q) THEN f[WithoutLast(e, q)] ELSE WithoutLast(e, q)
  BY <1>2, <1>3 DEF IsLoop
<1> HIDE DEF G
<1>5. f = [q \in Ring |-> IF G(q) THEN f[WithoutLast(e, q)] ELSE WithoutLast(e, q)]
  BY <1>3, <1>4 DEF IsLoop
<1>6. F = [q \in Ring |-> IF G(q) THEN F[WithoutLast(e, q)] ELSE WithoutLast(e, q)]
  BY <1>5
<1> HIDE DEF F
<1>7. F[r] = IF G(r) THEN F[WithoutLast(e, r)] ELSE WithoutLast(e, r)
  BY <1>6
<1> QED BY <1>1, <1>7 DEF G

LEMMA RemoveInRing ==
    ASSUME NEW e \in [Index -> Nat], NEW r \in Ring
    PROVE  removeLastClause(e, r) \in Ring /\ removeLastClause(e, r).queuesize < r.queuesize
<1> DEFINE Good(q) == removeLastClause(e, q) \in Ring /\ removeLastClause(e, q).queuesize < q.queuesize
           T == {k \in Nat : \E q \in Ring : q.queuesize <= k /\ ~ Good(q)}
<1>1. SUFFICES ASSUME ~ Good(r)
               PROVE  FALSE
  OBVIOUS
<1>2. \A q \in Ring : q.queuesize \in Int
  BY DEF Ring
<1> HIDE DEF Good
<1>3. T # {}
  <2>1. PICK k \in Nat : r.queuesize <= k
    BY <1>2
  <2> QED BY <1>1, <2>1
<1>4. PICK k \in T : \A j \in T : k <= j
  BY <1>3, LeastOf
<1>5. PICK q \in Ring : q.queuesize <= k /\ ~ Good(q)
  OBVIOUS
<1> DEFINE w == WithoutLast(e, q)
<1>6. w \in Ring /\ w.queuesize < q.queuesize
  BY WithoutLastInRing
<1>7. removeLastClause(e, q) = IF w.queuesize > 0 /\ e[nseenAt(w.last)] = 0 THEN removeLastClause(e, w) ELSE w
  BY RemoveLoop
<1> HIDE DEF w
<1>8. CASE w.queuesize > 0 /\ e[nseenAt(w.last)] = 0
  <2>1. w.queuesize \in Nat /\ ~ (k <= w.queuesize)
    BY <1>2, <1>4, <1>5, <1>6, <1>8
  <2>2. Good(w)
    BY <1>4, <1>6, <2>1
  <2>3. removeLastClause(e, q) = removeLastClause(e, w)
    BY <1>7, <1>8
  <2>4. removeLastClause(e, w) \in Ring /\ removeLastClause(e, w).queuesize < w.queuesize
    BY <2>2 DEF Good
  <2> QED BY <1>2, <1>5, <1>6, <2>3, <2>4 DEF Good
<1>9. CASE ~ (w.queuesize > 0 /\ e[nseenAt(w.last)] = 0)
  <2>1. removeLastClause(e, q) = w
    BY <1>7, <1>9
  <2> QED BY <1>5, <1>6, <2>1 DEF Good
<1> QED BY <1>8, <1>9

LEMMA RoomLoop ==
    ASSUME elems \in [Index -> Nat], NEW r \in Ring, NEW c, Len(c) \in Nat, Len(c) + 3 < maxsize
    PROVE  MakeRoom(r, c) = IF Fits(r, c) THEN r ELSE MakeRoom(removeLastClause(elems, r), c)
<1> DEFINE F == CHOOSE f : f = [q \in Ring |-> IF Fits(q, c) THEN q ELSE f[removeLastClause(elems, q)]]
           E == {q \in Ring : ~ Fits(q, c)}
           n == [q \in Ring |-> removeLastClause(elems, q)]
           v == [q \in Ring |-> q]
<1>1. \A q : MakeRoom(q, c) = F[q]
  BY DEF MakeRoom
<1>2. /\ n \in [Ring -> Ring] /\ E \in SUBSET Ring
      /\ \A q \in Ring : n[q] = removeLastClause(elems, q) /\ (q \in E <=> ~ Fits(q, c)) /\ v[q] = q
  BY RemoveInRing
<1> HIDE DEF n, E, v
<1>3. PICK f : IsLoop(f, Ring, E, n, v)
  BY <1>2, LoopHasValues
<1>4. \A q \in Ring : f[q] = IF Fits(q, c) THEN q ELSE f[removeLastClause(elems, q)]
  BY <1>2, <1>3 DEF IsLoop
<1>5. f = [q \in Ring |-> IF Fits(q, c) THEN q ELSE f[removeLastClause(elems, q)]]
  BY <1>3, <1>4 DEF IsLoop
<1>6. F = [q \in Ring |-> IF Fits(q, c) THEN q ELSE F[removeLastClause(elems, q)]]
  BY <1>5
<1> HIDE DEF F
<1>7. F[r] = IF Fits(r, c) THEN r ELSE F[removeLastClause(elems, r)]
  BY <1>6
<1> QED BY <1>1, <1>7

LEMMA SkipLoop ==
    ASSUME elems \in [Index -> Nat], NEW t, NEW p \in Index
    PROVE  SkipOwn(t, p) = IF nextIndex(p) # first /\ originAt(elems, p) = t
                           THEN SkipOwn(t, behind(elems, p)) ELSE p
<1> DEFINE G(q) == nextIndex(q) # first /\ originAt(elems, q) = t
           F == CHOOSE f : f = [q \in Index |-> IF G(q) THEN f[behind(elems, q)] ELSE q]
           E == {q \in Index : G(q)}
           n == [q \in Index |-> behind(elems, q)]
           v == [q \in Index |-> q]
<1>1. \A q : SkipOwn(t, q) = F[q]
  BY DEF SkipOwn
<1>2. /\ n \in [Index -> Index] /\ E \in SUBSET Index
      /\ \A q \in Index : n[q] = behind(elems, q) /\ (q \in E <=> G(q)) /\ v[q] = q
  BY FieldTypes
<1> HIDE DEF n, E, v
<1>3. PICK f : IsLoop(f, Index, E, n, v)
  BY <1>2, LoopHasValues
<1> HIDE DEF G
<1>4. \A q \in Index : f[q] = IF G(q) THEN f[behind(elems, q)] ELSE q
  BY <1>2, <1>3 DEF IsLoop
<1>5. f = [q \in Index |-> IF G(q) THEN f[behind(elems, q)] ELSE q]
  BY <1>3, <1>4 DEF IsLoop
<1>6. F = [q \in Index |-> IF G(q) THEN F[behind(elems, q)] ELSE q]
  BY <1>5
<1> HIDE DEF F
<1>7. F[p] = IF G(p) THEN F[behind(elems, p)] ELSE p
  BY <1>6
<1> QED BY <1>1, <1>7 DEF G

-----------------------------------------------------------------------------
(***************************************************************************)
(* The clauses in the ring, as the set D of the numbers they begin at.     *)
(***************************************************************************)

\* From q to 0 the clauses of D follow each other.
Chain(V, q, D) ==
    /\ D \subseteq 0..q /\ 0 \in D /\ q \in D
    /\ \A d \in D \ {0} :
         /\ d - Width(V, d) \in D
         /\ \A c \in D : c < d => c <= d - Width(V, d)
         /\ V[d - 3] \in Threads

RingAt(f, q, U) ==
    [last |-> At(f, q), queuesize |-> q, lastOfThread |-> [t \in Threads |-> At(f, U[t])]]

\* Where the threads stand that stood at U, when all before x is removed.
Capped(U, x) == [t \in Threads |-> IF U[t] < x THEN U[t] ELSE x]

LEMMA InChain ==
    ASSUME NEW V \in [Index -> Nat], NEW q \in Index, NEW D, Chain(V, q, D), NEW d \in D
    PROVE  /\ d \in Index /\ d <= q
           /\ d # 0 => /\ d >= 3 /\ Width(V, d) \in Nat /\ Width(V, d) >= 3
                       /\ Width(V, d) <= d /\ d - Width(V, d) \in D /\ d - Width(V, d) < d
                       /\ d - 1 \in Index /\ d - 2 \in Index /\ d - 3 \in Index
<1>1. d \in Index /\ d <= q
  BY DEF Chain, Index
<1>2. ASSUME d # 0
      PROVE  /\ d >= 3 /\ Width(V, d) \in Nat /\ Width(V, d) >= 3
             /\ Width(V, d) <= d /\ d - Width(V, d) \in D /\ d - Width(V, d) < d
             /\ d - 1 \in Index /\ d - 2 \in Index /\ d - 3 \in Index
  <2>1. d - 1 \in Index
    BY <1>1, <1>2 DEF Index
  <2>2. V[d - 1] \in Nat /\ Width(V, d) = V[d - 1] + 3
    BY <2>1 DEF Width
  <2>3. d - Width(V, d) \in D /\ d - Width(V, d) \in 0..q
    BY <1>2 DEF Chain
  <2> QED BY <1>1, <1>2, <2>1, <2>2, <2>3 DEF Index
<1> QED BY <1>1, <1>2

LEMMA RingAtInRing ==
    ASSUME NEW f \in Index, NEW q \in Index, NEW U \in [Threads -> Index]
    PROVE  RingAt(f, q, U) \in Ring
<1>1. At(f, q) \in Index /\ \A t \in Threads : At(f, U[t]) \in Index
  BY AtInverse
<1>2. q \in Int
  BY DEF Index
<1> QED BY <1>1, <1>2 DEF RingAt, Ring

LEMMA WithoutLastIs ==
    ASSUME NEW f \in Index, NEW e \in [Index -> Nat], NEW Q \in Index, NEW D,
           Chain(Cells(f, e), Q, D), NEW q \in D \ {0},
           NEW U \in [Threads -> D], \A t \in Threads : U[t] <= q
    PROVE  LET x == q - Width(Cells(f, e), q)
           IN  WithoutLast(e, RingAt(f, q, U)) = RingAt(f, x, Capped(U, x))
<1> DEFINE V == Cells(f, e)
           x == q - Width(V, q)
           r == RingAt(f, q, U)
<1>1. V \in [Index -> Nat]
  BY CellsAreNat
<1>2. /\ q \in Index /\ q >= 3 /\ Width(V, q) \in Nat /\ Width(V, q) <= q
      /\ x \in D /\ x \in Index
  BY <1>1, InChain
<1>3. behind(e, At(f, q)) = At(f, x) /\ sizeAt(e, At(f, q)) = V[q - 1]
  BY <1>2, FieldsAre
<1>4. r.last = At(f, q) /\ r.queuesize = q /\ \A t \in Threads : r.lastOfThread[t] = At(f, U[t])
  BY DEF RingAt
<1>5. ASSUME NEW t \in Threads
      PROVE  (IF r.lastOfThread[t] = r.last THEN behind(e, r.last) ELSE r.lastOfThread[t])
               = At(f, Capped(U, x)[t])
  <2>1. U[t] \in D /\ U[t] \in Index /\ U[t] <= q
    BY <1>1, InChain
  <2>2. U[t] < q => U[t] <= x
    BY <2>1 DEF Chain
  <2>3. U[t] = q \/ U[t] < q
    BY <1>2, <2>1 DEF Index
  <2>4. CASE U[t] = q
    <3>1. ~ (U[t] < x) /\ Capped(U, x)[t] = x
      BY <1>2, <2>4 DEF Capped, Index
    <3> QED BY <1>3, <1>4, <2>4, <3>1
  <2>5. CASE U[t] < q
    <3>1. At(f, U[t]) # At(f, q)
      BY <1>2, <2>1, <2>5, AtIsInjective DEF Index
    <3>2. U[t] <= x
      BY <2>2, <2>5
    <3>3. Capped(U, x)[t] = U[t]
      BY <1>2, <2>1, <3>2 DEF Capped, Index
    <3> QED BY <1>4, <3>1, <3>3
  <2> QED BY <2>3, <2>4, <2>5
<1>6. q - (sizeAt(e, At(f, q)) + headerSize) = x
  BY <1>3 DEF headerSize, Width
<1> HIDE DEF V, x, r
<1>7. WithoutLast(e, r) = RingAt(f, x, Capped(U, x))
  BY <1>3, <1>4, <1>5, <1>6 DEF WithoutLast, RingAt
<1> QED BY <1>7 DEF V, x, r

LEMMA CappedIs ==
    ASSUME NEW V \in [Index -> Nat], NEW Q \in Index, NEW D, Chain(V, Q, D),
           NEW U \in [Threads -> D], NEW x \in D
    PROVE  /\ Capped(U, x) \in [Threads -> D]
           /\ \A t \in Threads : Capped(U, x)[t] <= x /\ Capped(U, x)[t] <= U[t]
           /\ (\A t \in Threads : U[t] <= x) => Capped(U, x) = U
           /\ \A y \in D : y <= x => Capped(Capped(U, x), y) = Capped(U, y)
<1>1. \A d \in D : d \in Index
  BY InChain
<1>2. x \in Int /\ \A t \in Threads : U[t] \in D /\ U[t] \in Int
  BY <1>1 DEF Index
<1>3. \A t \in Threads : Capped(U, x)[t] = IF U[t] < x THEN U[t] ELSE x
  BY DEF Capped
<1>4. Capped(U, x) \in [Threads -> D]
  BY <1>2 DEF Capped
<1>5. (\A t \in Threads : U[t] <= x) => Capped(U, x) = U
  <2>1. ASSUME \A t \in Threads : U[t] <= x
        PROVE  \A t \in Threads : Capped(U, x)[t] = U[t]
    BY <1>2, <1>3, <2>1
  <2> QED BY <1>4, <2>1
<1>6. ASSUME NEW y \in D, y <= x
      PROVE  Capped(Capped(U, x), y) = Capped(U, y)
  <2>1. y \in Int
    BY <1>1 DEF Index
  <2>2. ASSUME NEW t \in Threads
        PROVE  (IF Capped(U, x)[t] < y THEN Capped(U, x)[t] ELSE y) = IF U[t] < y THEN U[t] ELSE y
    BY <1>2, <1>3, <1>6, <2>1
  <2> QED BY <2>2 DEF Capped
<1> QED BY <1>2, <1>3, <1>4, <1>5, <1>6

\* removeLastClause removes the clause at the end and those after it that all
\* have seen, and no other.
LEMMA RemoveIs ==
    ASSUME NEW f \in Index, NEW e \in [Index -> Nat], NEW Q \in Index, NEW D,
           Chain(Cells(f, e), Q, D), NEW q \in D \ {0},
           NEW U \in [Threads -> D], \A t \in Threads : U[t] <= q
    PROVE  \E x \in D :
             /\ x < q
             /\ removeLastClause(e, RingAt(f, q, U)) = RingAt(f, x, Capped(U, x))
             /\ x > 0 => Cells(f, e)[x - 2] # 0
             /\ \A d \in D : x < d /\ d < q => Cells(f, e)[d - 2] = 0
<1> DEFINE V == Cells(f, e)
           Ends(p, S, x) ==
             /\ x < p
             /\ removeLastClause(e, RingAt(f, p, S)) = RingAt(f, x, Capped(S, x))
             /\ x > 0 => V[x - 2] # 0
             /\ \A d \in D : x < d /\ d < p => V[d - 2] = 0
           Good(p) == \A S \in [Threads -> D] : (\A t \in Threads : S[t] <= p) => \E x \in D : Ends(p, S, x)
           T == {p \in D \ {0} : ~ Good(p)}
<1>1. V \in [Index -> Nat] /\ Chain(V, Q, D)
  BY CellsAreNat
<1> HIDE DEF V, Ends
<1>2. \A d \in D : d \in Index /\ d \in Nat
  <2>1. \A d \in D : d \in Index
    BY <1>1, InChain
  <2> QED BY <2>1 DEF Index
<1>3. SUFFICES ASSUME T # {}
               PROVE  FALSE
  <2>1. Good(q)
    BY <1>3
  <2> QED BY <2>1 DEF V, Ends
<1>4. PICK p \in T : \A j \in T : p <= j
  BY <1>2, <1>3, LeastOf
<1>5. PICK S \in [Threads -> D] : (\A t \in Threads : S[t] <= p) /\ ~ \E x \in D : Ends(p, S, x)
  OBVIOUS
<1>51. p \in D \ {0} /\ \A j \in D \ {0} : j < p => Good(j)
  BY <1>2, <1>4
<1> DEFINE y == p - Width(V, p)
           C == Capped(S, y)
           r == RingAt(f, p, S)
           w == RingAt(f, y, C)
<1> HIDE DEF T, Good
<1>6. y \in D /\ y < p /\ y \in Nat /\ p \in Nat /\ \A d \in D : d < p => d <= y
  BY <1>1, <1>2, <1>51, InChain DEF Chain
<1>7. WithoutLast(e, r) = w
  BY <1>5, <1>51, WithoutLastIs DEF V
<1> HIDE DEF y
<1>8. C \in [Threads -> D] /\ (\A t \in Threads : C[t] <= y) /\ S \in [Threads -> Index]
  BY <1>1, <1>2, <1>6, CappedIs
<1>9. r \in Ring
  BY <1>2, <1>51, <1>8, RingAtInRing
<1>10. w.queuesize = y /\ w.last = At(f, y)
  BY DEF RingAt
<1> HIDE DEF C, r, w
<1>11. removeLastClause(e, r) = IF y > 0 /\ e[nseenAt(At(f, y))] = 0 THEN removeLastClause(e, w) ELSE w
  BY <1>7, <1>9, <1>10, RemoveLoop
<1>12. y > 0 => e[nseenAt(At(f, y))] = V[y - 2]
  <2>1. ASSUME y # 0
        PROVE  y >= 3 /\ y \in Index
    BY <1>1, <1>6, <2>1, InChain
  <2> QED BY <2>1, FieldsAre DEF V
<1>13. CASE y > 0 /\ V[y - 2] = 0
  <2>2. Good(y)
    BY <1>6, <1>13, <1>51
  <2>3. PICK x \in D : Ends(y, C, x)
    BY <1>8, <2>2 DEF Good
  <2>4. removeLastClause(e, r) = removeLastClause(e, w)
    BY <1>11, <1>12, <1>13
  <2>5. removeLastClause(e, w) = RingAt(f, x, Capped(C, x)) /\ x < y
    BY <2>3 DEF Ends, w
  <2>6. Capped(C, x) = Capped(S, x)
    BY <1>1, <1>2, <1>6, <2>5, CappedIs DEF C
  <2>7. removeLastClause(e, RingAt(f, p, S)) = RingAt(f, x, Capped(S, x))
    BY <2>4, <2>5, <2>6 DEF r
  <2>8. \A d \in D : x < d /\ d < p => V[d - 2] = 0
    <3> TAKE d \in D
    <3> HAVE x < d /\ d < p
    <3>1. d <= y /\ (d = y \/ d < y)
      BY <1>2, <1>6
    <3> QED BY <1>13, <2>3, <3>1 DEF Ends
  <2>9. x < p /\ (x > 0 => V[x - 2] # 0)
    BY <1>2, <1>6, <2>3, <2>5 DEF Ends
  <2>10. Ends(p, S, x)
    BY <2>7, <2>8, <2>9 DEF Ends
  <2> QED BY <1>5, <2>10
<1>14. CASE ~ (y > 0 /\ V[y - 2] = 0)
  <2>1. removeLastClause(e, r) = w
    BY <1>11, <1>12, <1>14
  <2>2. \A d \in D : ~ (y < d /\ d < p)
    BY <1>2, <1>6
  <2>3. Ends(p, S, y)
    BY <1>6, <1>14, <2>1, <2>2 DEF Ends, r, w, C
  <2> QED BY <1>5, <1>6, <2>3
<1> QED BY <1>13, <1>14

\* Clauses are removed until there is room, whole clauses from the end.
RoomIs(Q, U, c, x) ==
    /\ MakeRoom(RingAt(first, Q, U), c) = RingAt(first, x, Capped(U, x))
    /\ x + Len(c) + 3 < maxsize
    /\ Fits(RingAt(first, Q, U), c) => x = Q
    /\ x > 0 /\ x < Q => Cells(first, elems)[x - 2] # 0

LEMMA MakeRoomIs ==
    ASSUME first \in Index, elems \in [Index -> Nat], NEW Q \in Index, NEW D,
           Chain(Cells(first, elems), Q, D),
           NEW U \in [Threads -> D], \A t \in Threads : U[t] <= Q,
           NEW c, Len(c) \in Nat, Len(c) + 3 < maxsize
    PROVE  \E x \in D : RoomIs(Q, U, c, x)
<1> DEFINE V == Cells(first, elems)
           Ends(p, S, x) ==
             /\ MakeRoom(RingAt(first, p, S), c) = RingAt(first, x, Capped(S, x))
             /\ x <= p /\ x + Len(c) + 3 < maxsize
             /\ Fits(RingAt(first, p, S), c) => x = p
             /\ x > 0 /\ x < p => V[x - 2] # 0
           Good(p) == \A S \in [Threads -> D] : (\A t \in Threads : S[t] <= p) => \E x \in D : Ends(p, S, x)
           T == {p \in D : ~ Good(p)}
<1>1. V \in [Index -> Nat] /\ Chain(V, Q, D)
  BY CellsAreNat
<1> HIDE DEF V, Ends
<1>2. \A d \in D : d \in Index /\ d \in Nat
  <2>1. \A d \in D : d \in Index
    BY <1>1, InChain
  <2> QED BY <2>1 DEF Index
<1>3. SUFFICES ASSUME T # {}
               PROVE  FALSE
  <2>1. Q \in D
    BY DEF Chain
  <2>2. Good(Q)
    BY <1>3, <2>1
  <2> QED BY <2>2 DEF V, Ends, RoomIs
<1>4. PICK p \in T : \A j \in T : p <= j
  BY <1>2, <1>3, LeastOf
<1>5. PICK S \in [Threads -> D] : (\A t \in Threads : S[t] <= p) /\ ~ \E x \in D : Ends(p, S, x)
  OBVIOUS
<1>51. p \in D /\ \A j \in D : j < p => Good(j)
  <2>1. p \in D /\ p \in Nat /\ \A j \in D : j < p => ~ (p <= j)
    BY <1>2
  <2> HIDE DEF Good
  <2> QED BY <1>4, <2>1
<1> HIDE DEF T, Good
<1> DEFINE r == RingAt(first, p, S)
<1>6. r \in Ring
  BY <1>2, <1>51, RingAtInRing
<1>7. Fits(r, c) <=> p + Len(c) + 3 < maxsize
  BY DEF Fits, RingAt, headerSize
<1>8. MakeRoom(r, c) = IF Fits(r, c) THEN r ELSE MakeRoom(removeLastClause(elems, r), c)
  BY <1>6, RoomLoop
<1>9. CASE Fits(r, c)
  <2>0. \A t \in Threads : S[t] <= p
    BY <1>5
  <2>1. Capped(S, p) = S
    BY <1>1, <1>51, <2>0, CappedIs
  <2>2. Ends(p, S, p)
    BY <1>2, <1>51, <1>7, <1>8, <1>9, <2>1 DEF Ends
  <2> QED BY <1>5, <1>51, <2>2
<1>10. CASE ~ Fits(r, c)
  <2>1. p \in D \ {0}
    BY <1>2, <1>51, <1>7, <1>10
  <2>2. PICK y \in D : /\ y < p
                       /\ removeLastClause(elems, r) = RingAt(first, y, Capped(S, y))
                       /\ y > 0 => V[y - 2] # 0
    BY <1>5, <2>1, RemoveIs DEF V
  <2>3. Capped(S, y) \in [Threads -> D] /\ \A t \in Threads : Capped(S, y)[t] <= y
    BY <1>1, CappedIs
  <2>4. Good(y)
    BY <1>51, <2>2
  <2>5. PICK x \in D : Ends(y, Capped(S, y), x)
    BY <2>3, <2>4 DEF Good
  <2>6. x <= y
    BY <2>5 DEF Ends
  <2>7. Capped(Capped(S, y), x) = Capped(S, x)
    BY <1>1, <2>6, CappedIs
  <2>8. MakeRoom(r, c) = RingAt(first, x, Capped(S, x))
    BY <1>8, <1>10, <2>2, <2>5, <2>7 DEF Ends
  <2>9. x > 0 => V[x - 2] # 0
    <3>1. x = y \/ x < y
      BY <1>2, <2>6
    <3> QED BY <2>2, <2>5, <3>1 DEF Ends
  <2>10. x <= p
    BY <1>2, <1>51, <2>2, <2>6
  <2>11. Ends(p, S, x)
    BY <1>10, <2>5, <2>8, <2>9, <2>10 DEF Ends
  <2> QED BY <1>5, <2>11
<1> QED BY <1>9, <1>10

\* A thread passes over its own clauses, and over no other.
LEMMA SkipOwnIs ==
    ASSUME first \in Index, elems \in [Index -> Nat], NEW Q \in Index, NEW D,
           Chain(Cells(first, elems), Q, D), NEW q \in D, NEW t
    PROVE  \E x \in D :
             /\ x <= q
             /\ SkipOwn(t, At(first, q)) = At(first, x)
             /\ x > 0 => Cells(first, elems)[x - 3] # t
             /\ \A d \in D : x < d /\ d <= q => Cells(first, elems)[d - 3] = t
<1> DEFINE V == Cells(first, elems)
           Ends(p, x) ==
             /\ x <= p
             /\ SkipOwn(t, At(first, p)) = At(first, x)
             /\ x > 0 => V[x - 3] # t
             /\ \A d \in D : x < d /\ d <= p => V[d - 3] = t
           Good(p) == \E x \in D : Ends(p, x)
           T == {p \in D : ~ Good(p)}
<1>1. V \in [Index -> Nat] /\ Chain(V, Q, D)
  BY CellsAreNat
<1> HIDE DEF V, Ends
<1>2. \A d \in D : d \in Index /\ d \in Nat
  <2>1. \A d \in D : d \in Index
    BY <1>1, InChain
  <2> QED BY <2>1 DEF Index
<1>3. SUFFICES ASSUME T # {}
               PROVE  FALSE
  <2>1. Good(q)
    BY <1>3
  <2> QED BY <2>1 DEF V, Ends
<1>4. PICK p \in T : \A j \in T : p <= j
  BY <1>2, <1>3, LeastOf
<1> DEFINE a == At(first, p)
<1>5. p \in D /\ p \in Nat /\ p \in Index /\ a \in Index /\ ~ Good(p)
      /\ \A j \in D : j < p => Good(j)
  BY <1>2, <1>4, AtInverse
<1> HIDE DEF T, Good
<1>6. SkipOwn(t, a) = IF nextIndex(a) # first /\ originAt(elems, a) = t
                      THEN SkipOwn(t, behind(elems, a)) ELSE a
  BY <1>5, SkipLoop
<1>7. nextIndex(a) # first <=> p > 0
  BY <1>5, NextIndexIs
<1>8. p > 0 => originAt(elems, a) = V[p - 3] /\ behind(elems, a) = At(first, p - Width(V, p))
  BY <1>1, <1>5, InChain, FieldsAre DEF V
<1>9. CASE p > 0 /\ V[p - 3] = t
  <2> DEFINE y == p - Width(V, p)
  <2>1. y \in D /\ y < p /\ y \in Nat /\ \A d \in D : d < p => d <= y
    BY <1>1, <1>2, <1>5, <1>9, InChain DEF Chain
  <2>2. Good(y)
    BY <1>5, <2>1
  <2>3. PICK x \in D : Ends(y, x)
    BY <2>2 DEF Good
  <2>4. SkipOwn(t, a) = At(first, x)
    BY <1>6, <1>7, <1>8, <1>9, <2>3 DEF Ends
  <2> HIDE DEF y
  <2>5. \A d \in D : x < d /\ d <= p => V[d - 3] = t
    <3> TAKE d \in D
    <3> HAVE x < d /\ d <= p
    <3>1. d = p \/ d <= y
      BY <1>2, <1>5, <2>1
    <3> QED BY <1>9, <2>3, <3>1 DEF Ends
  <2>6. x <= p /\ (x > 0 => V[x - 3] # t)
    BY <1>2, <1>5, <2>1, <2>3 DEF Ends
  <2>7. Ends(p, x)
    BY <2>4, <2>5, <2>6 DEF Ends
  <2> QED BY <1>5, <2>7 DEF Good
<1>10. CASE ~ (p > 0 /\ V[p - 3] = t)
  <2>1. SkipOwn(t, a) = a
    BY <1>6, <1>7, <1>8, <1>10
  <2>2. \A d \in D : ~ (p < d /\ d <= p)
    BY <1>2, <1>5
  <2>3. Ends(p, p)
    BY <1>5, <1>10, <2>1, <2>2 DEF Ends
  <2> QED BY <1>5, <2>3 DEF Good
<1> QED BY <1>9, <1>10

-----------------------------------------------------------------------------
(***************************************************************************)
(* What is pending for a thread, and what becomes of it in a step.         *)
(***************************************************************************)

\* g puts the sequences of s together, from n on by the steps w.
IsConcat(g, N, A, w, s) ==
    /\ g \in [0..N-1 -> Seq(A)]
    /\ \A n \in 0..N-1 : g[n] = IF n < w[n] THEN <<>> ELSE s[n] \o g[n - w[n]]

LEMMA ConcatHasValues ==
    ASSUME NEW N \in Nat, NEW A, NEW w \in [0..N-1 -> Nat \ {0}], NEW s \in [0..N-1 -> Seq(A)]
    PROVE  \E g : IsConcat(g, N, A, w, s)
<1> DEFINE T == {k \in Nat : k <= N /\ ~ \E g : IsConcat(g, k, A, w, s)}
<1>1. SUFFICES ASSUME ~ \E g : IsConcat(g, N, A, w, s)
               PROVE  FALSE
  OBVIOUS
<1>2. PICK k \in T : \A j \in T : k <= j
  <2>1. N <= N
    OBVIOUS
  <2>2. N \in T
    BY <1>1, <2>1
  <2> QED BY <2>2, LeastOf
<1>3. k \in Nat /\ k <= N /\ ~ \E g : IsConcat(g, k, A, w, s)
  OBVIOUS
<1>4. k # 0
  <2>1. 0..0-1 = {}
    OBVIOUS
  <2>2. IsConcat([n \in 0..0-1 |-> <<>>], 0, A, w, s)
    BY <2>1 DEF IsConcat
  <2> QED BY <1>3, <2>2
<1>5. k - 1 \in Nat /\ k - 1 <= N /\ ~ (k <= k - 1)
  BY <1>3, <1>4
<1>6. PICK g : IsConcat(g, k - 1, A, w, s)
  BY <1>2, <1>5
<1> DEFINE h == [n \in 0..k-1 |-> IF n < k - 1 THEN g[n]
                                  ELSE IF n < w[n] THEN <<>> ELSE s[n] \o g[n - w[n]]]
<1>7. ASSUME NEW n \in 0..k-1
      PROVE  /\ n < k - 1 => g[n] \in Seq(A)
             /\ n \in 0..N-1 /\ w[n] \in Nat /\ w[n] # 0 /\ s[n] \in Seq(A)
             /\ ~ (n < w[n]) => n - w[n] \in 0..k-1 /\ n - w[n] < k - 1 /\ g[n - w[n]] \in Seq(A)
  <2>1. n \in 0..N-1
    BY <1>3
  <2>2. w[n] \in Nat \ {0} /\ s[n] \in Seq(A)
    BY <2>1
  <2>3. n < k - 1 => n \in 0..(k - 1) - 1
    BY <1>5
  <2>4. ~ (n < w[n]) => n - w[n] \in 0..(k - 1) - 1
    BY <1>5, <2>2
  <2>5. ~ (n < w[n]) => n - w[n] \in 0..k-1 /\ n - w[n] < k - 1
    BY <1>5, <2>2
  <2> QED BY <1>6, <2>1, <2>2, <2>3, <2>4, <2>5 DEF IsConcat
<1>8. ASSUME NEW n \in 0..k-1, ~ (n < w[n])
      PROVE  s[n] \o g[n - w[n]] \in Seq(A)
  BY <1>7, <1>8, ConcatProperties
<1>9. <<>> \in Seq(A)
  BY EmptySeq
<1>10. h \in [0..k-1 -> Seq(A)]
  BY <1>7, <1>8, <1>9
<1>11. ASSUME NEW n \in 0..k-1
       PROVE  h[n] = IF n < w[n] THEN <<>> ELSE s[n] \o h[n - w[n]]
  <2>1. ~ (n < w[n]) => h[n - w[n]] = g[n - w[n]]
    BY <1>7
  <2>2. CASE n < k - 1
    <3>1. n \in 0..(k - 1) - 1
      BY <1>5, <2>2
    <3>2. g[n] = IF n < w[n] THEN <<>> ELSE s[n] \o g[n - w[n]]
      BY <1>6, <3>1 DEF IsConcat
    <3>3. h[n] = g[n]
      BY <2>2
    <3> HIDE DEF h
    <3> QED BY <2>1, <3>2, <3>3
  <2>3. CASE ~ (n < k - 1)
    <3>1. h[n] = IF n < w[n] THEN <<>> ELSE s[n] \o g[n - w[n]]
      BY <2>3
    <3> HIDE DEF h
    <3> QED BY <2>1, <3>1
  <2> QED BY <2>2, <2>3
<1> HIDE DEF h
<1>12. IsConcat(h, k, A, w, s)
  BY <1>10, <1>11 DEF IsConcat
<1> QED BY <1>3, <1>12

Messages == [origin : Nat, lits : Seq(Nat)]

\* What the clause that begins at d is for thread t.
Told(V, t, d) == IF V[d - 3] = t THEN <<>> ELSE <<[origin |-> V[d - 3], lits |-> Clause(V, d)]>>

\* P is what is pending for a thread t that stands at a place of D.
Pending(V, D, t, P) ==
    /\ P \in [D -> Seq(Messages)]
    /\ P[0] = <<>>
    /\ \A d \in D \ {0} : P[d] = Told(V, t, d) \o P[d - Width(V, d)]

LEMMA MessageTypes ==
    ASSUME NEW e \in [Index -> Nat], NEW p \in Index
    PROVE  [origin |-> originAt(e, p), lits |-> litsAt(e, p)] \in Messages
<1>1. ASSUME NEW a \in Nat
      PROVE  e[addIndex(p, a)] \in Nat
  <2>1. p + a \in Nat
    BY DEF Index
  <2>2. addIndex(p, a) \in Index
    BY <2>1, ModuloIsIndex DEF addIndex
  <2> QED BY <2>2
<1>2. originAt(e, p) \in Nat
  BY <1>1 DEF originAt
<1>3. sizeAt(e, p) \in Nat
  BY FieldTypes
<1>4. \A n \in 1..sizeAt(e, p) : e[addIndex(p, headerSize + n)] \in Nat
  BY <1>1, <1>3 DEF headerSize
<1>5. litsAt(e, p) \in [1..sizeAt(e, p) -> Nat]
  BY <1>4 DEF litsAt
<1>6. litsAt(e, p) \in Seq(Nat)
  BY <1>3, <1>5, SeqDef
<1> QED BY <1>2, <1>6 DEF Messages

\* What the thread t that stands at p has not received yet, in the cells e of
\* which f is the first free.
PendingAt(f, e, t, p) ==
    LET from[n \in Index] ==
          LET q == At(f, n)
              w == sizeAt(e, q) + headerSize
          IN  IF n < w THEN <<>>
              ELSE (IF originAt(e, q) = t THEN <<>>
                    ELSE <<[origin |-> originAt(e, q), lits |-> litsAt(e, q)]>>)
                   \o from[n - w]
    IN  from[At(f, p)]

LEMMA PendingOfIs ==
    ASSUME NEW t
    PROVE  /\ pendingOf(t) = PendingAt(first, elems, t, lastOfThread[t])
           /\ pendingOf(t)' = PendingAt(first', elems', t, lastOfThread'[t])
  BY DEF pendingOf, PendingAt, leftBehind, At, sizeAt, originAt, litsAt, nextIndex, addIndex

LEMMA PendingIs ==
    ASSUME NEW f \in Index, NEW e \in [Index -> Nat], NEW Q \in Index, NEW D,
           Chain(Cells(f, e), Q, D), NEW t \in Threads
    PROVE  \E P : /\ Pending(Cells(f, e), D, t, P)
                  /\ \A p \in Index : At(f, p) \in D => PendingAt(f, e, t, p) = P[At(f, p)]
<1> DEFINE V == Cells(f, e)
           a(n) == At(f, n)
           m(n) == [origin |-> originAt(e, a(n)), lits |-> litsAt(e, a(n))]
           s(n) == IF originAt(e, a(n)) = t THEN <<>> ELSE <<m(n)>>
           w(n) == sizeAt(e, a(n)) + headerSize
           F == CHOOSE h : h = [n \in Index |-> IF n < w(n) THEN <<>> ELSE s(n) \o h[n - w(n)]]
           ww == [n \in Index |-> w(n)]
           ss == [n \in Index |-> s(n)]
<1>1. \A p \in Index : PendingAt(f, e, t, p) = F[At(f, p)]
  BY DEF PendingAt
<1>2. \A n \in Index : a(n) \in Index /\ a(n) = At(f, n)
  BY AtInverse
<1> HIDE DEF a
<1>3. ASSUME NEW n \in Index
      PROVE  w(n) \in Nat \ {0} /\ s(n) \in Seq(Messages)
  <2>1. w(n) \in Nat \ {0}
    BY <1>2, FieldTypes DEF headerSize
  <2>2. m(n) \in Messages
    BY <1>2, MessageTypes
  <2> HIDE DEF m
  <2>3. <<m(n)>> \in Seq(Messages) /\ <<>> \in Seq(Messages)
    BY <2>2
  <2> QED BY <2>1, <2>3
<1> HIDE DEF m
<1>4. V \in [Index -> Nat]
  BY CellsAreNat
<1>5. \A d \in D : d \in Index
  BY <1>4, InChain
<1>6. ASSUME NEW d \in D \ {0}
      PROVE  w(d) = Width(V, d) /\ s(d) = Told(V, t, d) /\ w(d) <= d /\ d - Width(V, d) \in D
  <2>1. d \in Index /\ d >= 3 /\ Width(V, d) <= d /\ d - Width(V, d) \in D
    BY <1>4, InChain
  <2>2. /\ sizeAt(e, a(d)) = V[d - 1] /\ originAt(e, a(d)) = V[d - 3]
        /\ litsAt(e, a(d)) = Clause(V, d)
    BY <1>2, <2>1, FieldsAre
  <2> HIDE DEF V
  <2> QED BY <2>1, <2>2 DEF headerSize, Width, Told, m
<1> HIDE DEF V, w, s
<1>7. ww \in [Index -> Nat \ {0}] /\ ss \in [Index -> Seq(Messages)]
      /\ \A n \in Index : ww[n] = w(n) /\ ss[n] = s(n)
  BY <1>3
<1> HIDE DEF ww, ss
<1>8. PICK g : IsConcat(g, maxsize, Messages, ww, ss)
  BY <1>7, ConcatHasValues DEF Index
<1>9. \A n \in Index : g[n] = IF n < w(n) THEN <<>> ELSE s(n) \o g[n - w(n)]
  BY <1>7, <1>8 DEF IsConcat, Index
<1>10. g = [n \in Index |-> g[n]]
  BY <1>8 DEF IsConcat, Index
<1>11. g = [n \in Index |-> IF n < w(n) THEN <<>> ELSE s(n) \o g[n - w(n)]]
  BY <1>9, <1>10
<1>12. F = [n \in Index |-> IF n < w(n) THEN <<>> ELSE s(n) \o F[n - w(n)]]
  BY <1>11
<1> HIDE DEF F
<1>13. \A n \in Index : F[n] = IF n < w(n) THEN <<>> ELSE s(n) \o F[n - w(n)]
  BY <1>12
<1> DEFINE T == {n \in Index : F[n] # g[n]}
<1>14. ASSUME T # {}
       PROVE  FALSE
  <2>1. T \in SUBSET Nat
    BY DEF Index
  <2>2. PICK n \in T : \A k \in T : n <= k
    BY <1>14, <2>1, LeastOf
  <2>3. n \in Index /\ F[n] # g[n] /\ w(n) \in Nat \ {0}
    BY <1>3
  <2>4. n - w(n) < n
    BY <2>3 DEF Index
  <2>5. ~ (n < w(n)) => n - w(n) \in Index
    BY <2>3 DEF Index
  <2>6. ~ (n < w(n)) => ~ (n <= n - w(n))
    BY <2>3, <2>4, <2>5 DEF Index
  <2>7. ~ (n < w(n)) => F[n - w(n)] = g[n - w(n)]
    BY <2>2, <2>5, <2>6
  <2> QED BY <1>9, <1>13, <2>3, <2>7
<1> DEFINE P == [d \in D |-> g[d]]
<1>15. \A d \in D : P[d] = g[d] /\ P[d] = F[d] /\ g[d] \in Seq(Messages)
  BY <1>5, <1>8, <1>14 DEF IsConcat, Index
<1>16. P \in [D -> Seq(Messages)]
  BY <1>15
<1>17. P[0] = <<>>
  <2>1. 0 \in D /\ 0 \in Index /\ w(0) \in Nat \ {0}
    BY <1>3, <1>5 DEF Chain
  <2>2. 0 < w(0)
    BY <2>1
  <2> QED BY <1>9, <1>15, <2>1, <2>2
<1> HIDE DEF P
<1>18. ASSUME NEW d \in D \ {0}
       PROVE  P[d] = Told(V, t, d) \o P[d - Width(V, d)]
  <2>1. w(d) = Width(V, d) /\ s(d) = Told(V, t, d) /\ w(d) <= d /\ d - Width(V, d) \in D
    BY <1>6
  <2>2. d \in Index /\ w(d) \in Nat
    BY <1>3, <1>5
  <2>3. ~ (d < w(d))
    BY <2>1, <2>2 DEF Index
  <2>4. g[d] = s(d) \o g[d - w(d)]
    BY <1>9, <2>2, <2>3
  <2> QED BY <1>15, <2>1, <2>4
<1>19. Pending(V, D, t, P)
  BY <1>16, <1>17, <1>18 DEF Pending
<1>20. \A p \in Index : At(f, p) \in D => PendingAt(f, e, t, p) = P[At(f, p)]
  BY <1>1, <1>15
<1> QED BY <1>19, <1>20 DEF V

LEMMA PendingTypes ==
    ASSUME NEW V \in [Index -> Nat], NEW Q \in Index, NEW D, Chain(V, Q, D),
           NEW t \in Threads, NEW d \in D \ {0}
    PROVE  /\ [origin |-> V[d - 3], lits |-> Clause(V, d)] \in Messages
           /\ Told(V, t, d) \in Seq(Messages)
<1>1. d - 1 \in Index /\ d - 3 \in Index /\ Width(V, d) <= d /\ d \in Index
  BY InChain
<1>2. V[d - 1] \in Nat /\ V[d - 3] \in Nat /\ V[d - 1] + 3 <= d
  BY <1>1 DEF Width
<1>3. \A n \in 1..V[d - 1] : V[d - 3 - n] \in Nat
  <2> TAKE n \in 1..V[d - 1]
  <2>1. d - 3 - n \in Index
    BY <1>1, <1>2 DEF Index
  <2> QED BY <2>1
<1>4. Clause(V, d) \in Seq(Nat)
  BY <1>2, <1>3, SeqDef DEF Clause
<1>5. [origin |-> V[d - 3], lits |-> Clause(V, d)] \in Messages
  BY <1>2, <1>4 DEF Messages
<1>6. Told(V, t, d) \in Seq(Messages)
  <2> DEFINE m == [origin |-> V[d - 3], lits |-> Clause(V, d)]
  <2>1. m \in Messages
    BY <1>5
  <2>2. Told(V, t, d) = IF V[d - 3] = t THEN <<>> ELSE <<m>>
    BY DEF Told
  <2> HIDE DEF m
  <2> QED BY <2>1, <2>2
<1> QED BY <1>5, <1>6

LEMMA MessagesConcat ==
    \A a, b, c \in Seq(Messages) : a \o b \in Seq(Messages) /\ (a \o b) \o c = a \o (b \o c)
  BY ConcatProperties, ConcatAssociative

PendingIn(V, D, t, P) ==
    V \in [Index -> Nat] /\ (\E Q \in Index : Chain(V, Q, D)) /\ Pending(V, D, t, P)

\* The clauses from q to x are those of thread t.
OnlyOwn(V, D, t, q, x) == \A d \in D : x < d /\ d <= q => V[d - 3] = t

LeavesOut(P, q, x) == \E s \in Seq(Messages) : P[q] = s \o P[x]

\* Further on less is pending, what is left out is the oldest, and nothing is
\* left out where a thread passes over its own clauses.
LEMMA PendingFurtherOn ==
    ASSUME NEW V, NEW D, NEW t \in Threads, NEW P, PendingIn(V, D, t, P),
           NEW x \in D, NEW q \in D, x <= q
    PROVE  /\ LeavesOut(P, q, x)
           /\ OnlyOwn(V, D, t, q, x) => P[q] = P[x]
<1>0. PICK Q \in Index : Chain(V, Q, D)
  BY DEF PendingIn
<1> V \in [Index -> Nat] /\ Pending(V, D, t, P)
  BY DEF PendingIn
<1> USE <1>0
<1> DEFINE Own(p) == OnlyOwn(V, D, t, p, x)
           Good(p) == (\E s \in Seq(Messages) : P[p] = s \o P[x]) /\ (Own(p) => P[p] = P[x])
           T == {p \in D : x <= p /\ ~ Good(p)}
<1>1. SUFFICES ASSUME T # {}
               PROVE  FALSE
  <2>1. Good(q)
    BY <1>1
  <2> QED BY <2>1 DEF LeavesOut
<1>2. \A d \in D : d \in Index /\ d \in Nat
  <2>1. \A d \in D : d \in Index
    BY InChain
  <2> QED BY <2>1 DEF Index
<1>3. PICK p \in T : \A j \in T : p <= j
  BY <1>1, <1>2, LeastOf
<1>4. p \in D /\ x <= p /\ ~ Good(p)
  OBVIOUS
<1>5. \A j \in D : x <= j /\ j < p => Good(j)
  <2>1. \A j \in D : j < p => ~ (p <= j)
    BY <1>2, <1>4
  <2> HIDE DEF Good
  <2> QED BY <1>3, <2>1
<1> HIDE DEF T, Good
<1>6. \A d \in D : P[d] \in Seq(Messages)
  BY DEF Pending
<1>7. CASE p = x
  <2>1. <<>> \in Seq(Messages) /\ P[x] = <<>> \o P[x]
    BY <1>6, ConcatEmptySeq
  <2> QED BY <1>4, <1>7, <2>1 DEF Good
<1>8. CASE p # x
  <2> DEFINE y == p - Width(V, p)
  <2>1. x < p /\ p # 0
    BY <1>2, <1>4, <1>8
  <2>2. y \in D /\ y < p
    BY <1>4, <2>1, InChain
  <2>3. x <= y
    BY <1>4, <2>1 DEF Chain
  <2>4. P[p] = Told(V, t, p) \o P[y]
    BY <1>4, <2>1 DEF Pending
  <2> HIDE DEF y
  <2>5. Good(y)
    BY <1>5, <2>2, <2>3
  <2>6. PICK s \in Seq(Messages) : P[y] = s \o P[x]
    BY <2>5 DEF Good
  <2>7. Told(V, t, p) \in Seq(Messages)
    BY <1>4, <2>1, PendingTypes
  <2>8. P[p] = (Told(V, t, p) \o s) \o P[x] /\ Told(V, t, p) \o s \in Seq(Messages)
    <3>1. P[x] \in Seq(Messages)
      BY <1>6
    <3>2. /\ (Told(V, t, p) \o s) \o P[x] = Told(V, t, p) \o (s \o P[x])
          /\ Told(V, t, p) \o s \in Seq(Messages)
      BY <2>7, <3>1, MessagesConcat
    <3> QED BY <2>4, <2>6, <3>2
  <2>9. ASSUME Own(p)
        PROVE  P[p] = P[x]
    <3>1. V[p - 3] = t
      BY <1>2, <1>4, <2>1, <2>9 DEF OnlyOwn
    <3>2. Told(V, t, p) = <<>>
      BY <3>1 DEF Told
    <3>3. Own(y)
      BY <1>2, <1>4, <2>2, <2>9 DEF OnlyOwn
    <3>4. P[y] = P[x]
      BY <2>5, <3>3 DEF Good
    <3> QED BY <1>6, <2>2, <2>4, <3>2, <3>4, ConcatEmptySeq
  <2> QED BY <1>4, <2>8, <2>9 DEF Good
<1> QED BY <1>7, <1>8

\* The clauses of D up to x are, but for their counts, in E with k more.
Moved(V, D, W, E, k, x) ==
    /\ \A d \in D : d <= x => d + k \in E
    /\ \A d \in D \ {0}, z \in E :
          d <= x /\ z = d + k => /\ Width(W, z) = Width(V, d)
                                /\ W[z - 3] = V[d - 3]
                                /\ Clause(W, z) = Clause(V, d)

Carried(D, x, k, P, S) == \A d \in D : d <= x => S[d + k] = P[d] \o S[k]

\* Clauses that move carry what is pending with them.
LEMMA PendingMoves ==
    ASSUME NEW V, NEW D, NEW W, NEW E, NEW k \in Nat, k \in E, NEW x \in D,
           NEW t \in Threads, NEW P, NEW S,
           PendingIn(V, D, t, P), PendingIn(W, E, t, S), Moved(V, D, W, E, k, x)
    PROVE  Carried(D, x, k, P, S)
<1>0. PICK Q \in Index, R \in Index : Chain(V, Q, D) /\ Chain(W, R, E)
  BY DEF PendingIn
<1> V \in [Index -> Nat] /\ W \in [Index -> Nat] /\ Pending(V, D, t, P) /\ Pending(W, E, t, S)
  BY DEF PendingIn
<1> USE <1>0
<1> DEFINE T == {d \in D : d <= x /\ S[d + k] # P[d] \o S[k]}
<1>1. SUFFICES ASSUME T # {}
               PROVE  FALSE
  BY DEF Carried
<1>2. \A d \in D : d \in Index /\ d \in Nat
  <2>1. \A d \in D : d \in Index
    BY InChain
  <2> QED BY <2>1 DEF Index
<1>3. PICK d \in T : \A j \in T : d <= j
  BY <1>1, <1>2, LeastOf
<1>4. d \in D /\ d <= x /\ S[d + k] # P[d] \o S[k]
  OBVIOUS
<1>5. \A j \in D : j < d => S[j + k] = P[j] \o S[k]
  <2>1. \A j \in D : j < d => ~ (d <= j) /\ j <= x
    BY <1>2, <1>4
  <2> QED BY <1>3, <2>1
<1> HIDE DEF T
<1>6. (\A j \in D : P[j] \in Seq(Messages)) /\ (\A j \in E : S[j] \in Seq(Messages))
  BY DEF Pending
<1>7. CASE d = 0
  <2>1. P[0] = <<>> /\ d + k = k
    BY <1>7 DEF Pending
  <2> QED BY <1>4, <1>6, <1>7, <2>1, ConcatEmptySeq
<1>8. CASE d # 0
  <2> DEFINE y == d - Width(V, d)
  <2>1. y \in D /\ y < d /\ Width(V, d) \in Nat
    BY <1>4, <1>8, InChain
  <2>2. PICK z \in E \ {0} : z = d + k
    BY <1>2, <1>4, <1>8 DEF Moved
  <2>20. Width(W, z) = Width(V, d) /\ W[z - 3] = V[d - 3] /\ Clause(W, z) = Clause(V, d)
    BY <1>4, <1>8, <2>2 DEF Moved
  <2>3. z - Width(W, z) = y + k
    BY <1>2, <1>4, <2>1, <2>2, <2>20
  <2>4. S[z] = Told(W, t, z) \o S[z - Width(W, z)]
    BY DEF Pending
  <2>5. P[d] = Told(V, t, d) \o P[y]
    BY <1>4, <1>8 DEF Pending
  <2>6. Told(W, t, z) = Told(V, t, d)
    BY <2>20 DEF Told
  <2> HIDE DEF y
  <2>7. S[y + k] = P[y] \o S[k]
    BY <1>5, <2>1
  <2>8. Told(V, t, d) \in Seq(Messages)
    BY <1>4, <1>8, PendingTypes
  <2>9. Told(V, t, d) \o (P[y] \o S[k]) = (Told(V, t, d) \o P[y]) \o S[k]
    <3>1. P[y] \in Seq(Messages) /\ S[k] \in Seq(Messages)
      BY <1>6, <2>1
    <3> QED BY <2>8, <3>1, MessagesConcat
  <2> QED BY <1>4, <2>2, <2>3, <2>4, <2>5, <2>6, <2>7, <2>9
<1> QED BY <1>7, <1>8

\* W is V but for the number of threads, n, that have not seen the clause x.
Written(V, D, x, n, W) ==
    /\ W \in [Index -> Nat] /\ W[x - 2] = n
    /\ \A d \in D \ {0} : /\ Width(W, d) = Width(V, d) /\ W[d - 3] = V[d - 3]
                          /\ Clause(W, d) = Clause(V, d)
                          /\ d # x => W[d - 2] = V[d - 2]

LEMMA CountWritten ==
    ASSUME NEW V \in [Index -> Nat], NEW Q \in Index, NEW D, Chain(V, Q, D),
           NEW x \in D \ {0}, NEW n \in Nat, NEW W, W = [V EXCEPT ![x - 2] = n]
    PROVE  Chain(W, Q, D) /\ Written(V, D, x, n, W)
<1>1. x \in Index /\ x - 2 \in Index /\ x >= 3 /\ Width(V, x) >= 3 /\ Width(V, x) \in Nat
  BY InChain
<1>2. W \in [Index -> Nat] /\ W[x - 2] = n /\ \A m \in Index : m # x - 2 => W[m] = V[m]
  BY <1>1
<1>3. ASSUME NEW d \in D \ {0}
      PROVE  /\ Width(W, d) = Width(V, d) /\ W[d - 3] = V[d - 3]
             /\ Clause(W, d) = Clause(V, d)
             /\ d # x => W[d - 2] = V[d - 2]
  <2>1. /\ d \in Index /\ d >= 3 /\ Width(V, d) <= d /\ Width(V, d) \in Nat
        /\ d - 1 \in Index /\ d - 2 \in Index /\ d - 3 \in Index
    BY InChain
  <2>2. /\ d < x => d <= x - Width(V, x)
        /\ x < d => x <= d - Width(V, d)
    BY DEF Chain
  <2>3. Width(V, d) = V[d - 1] + 3 /\ V[d - 1] \in Nat
    BY <2>1 DEF Width
  <2>4. ASSUME NEW a \in 1..Width(V, d), a = 2 => d # x
        PROVE  d - a \in Index /\ W[d - a] = V[d - a]
    <3>1. d - a \in Index
      BY <2>1, <2>4 DEF Index
    <3>2. d - a # x - 2
      BY <1>1, <2>1, <2>2, <2>4 DEF Index
    <3> QED BY <1>2, <3>1, <3>2
  <2>5. 1 \in 1..Width(V, d) /\ 2 \in 1..Width(V, d) /\ 3 \in 1..Width(V, d)
    BY <2>3
  <2>6. W[d - 1] = V[d - 1] /\ W[d - 3] = V[d - 3] /\ (d # x => W[d - 2] = V[d - 2])
    BY <2>4, <2>5
  <2>7. \A k \in 1..V[d - 1] : W[d - 3 - k] = V[d - 3 - k]
    <3> TAKE k \in 1..V[d - 1]
    <3>1. 3 + k \in 1..Width(V, d) /\ 3 + k # 2 /\ d - (3 + k) = d - 3 - k
      BY <2>1, <2>3 DEF Index
    <3>2. W[d - (3 + k)] = V[d - (3 + k)]
      BY <2>4, <3>1
    <3> QED BY <3>1, <3>2
  <2> QED BY <2>6, <2>7 DEF Width, Clause
<1>4. Chain(W, Q, D)
  BY <1>3 DEF Chain
<1> QED BY <1>2, <1>3, <1>4 DEF Written

-----------------------------------------------------------------------------
(***************************************************************************)
(* The inductive invariant.  The clauses follow each other without a gap,  *)
(* every thread stands before one of them or at the end, and each carries  *)
(* the number of other threads that stand before it.                       *)
(***************************************************************************)

\* Where the threads stand.
Stand == [t \in Threads |-> At(first, lastOfThread[t])]

\* The threads that have not seen the clause that begins at d.
Waiting(V, U, d) == {u \in Threads : u # V[d - 3] /\ U[u] >= d}

Counted(V, U, D) == nbThreads > 1 => \A d \in D \ {0} : V[d - 2] = Cardinality(Waiting(V, U, d))

Sound(V, q, U, D) == Chain(V, q, D) /\ U \in [Threads -> D] /\ Counted(V, U, D)

RingInv ==
    /\ BufferTypeOK
    /\ last = At(first, queuesize)
    /\ \E D : Sound(Cells(first, elems), queuesize, Stand, D)
    /\ queuesize > 0 /\ nbThreads > 1 => Cells(first, elems)[queuesize - 2] # 0

LEMMA ThreadsFinite == IsFiniteSet(Threads) /\ Cardinality(Threads) = nbThreads
<1>1. 0 \in Int /\ nbThreads - 1 \in Int
  OBVIOUS
<1> QED BY <1>1, FS_Interval DEF Threads

LEMMA WaitingFinite ==
    ASSUME NEW V, NEW U, NEW d
    PROVE  /\ IsFiniteSet(Waiting(V, U, d)) /\ Cardinality(Waiting(V, U, d)) \in Nat
           /\ Cardinality(Waiting(V, U, d)) = 0 <=> Waiting(V, U, d) = {}
<1>1. Waiting(V, U, d) \subseteq Threads
  BY DEF Waiting
<1>2. IsFiniteSet(Waiting(V, U, d))
  BY <1>1, ThreadsFinite, FS_Subset
<1> QED BY <1>2, FS_CardinalityType, FS_EmptySet

LEMMA StandIs ==
    ASSUME first \in Index, lastOfThread \in [Threads -> Index]
    PROVE  /\ Stand \in [Threads -> Index]
           /\ \A t \in Threads : lastOfThread[t] = At(first, Stand[t]) /\ Stand[t] = At(first, lastOfThread[t])
  BY AtInverse DEF Stand

LEMMA RingIs ==
    ASSUME BufferTypeOK, last = At(first, queuesize)
    PROVE  ring = RingAt(first, queuesize, Stand)
<1>1. lastOfThread = [t \in Threads |-> At(first, Stand[t])]
  BY StandIs DEF BufferTypeOK
<1> QED BY <1>1 DEF ring, RingAt

\* Where a thread goes on reading: only its own clauses are left out.
LEMMA ReadFromIs ==
    ASSUME BufferTypeOK, last = At(first, queuesize), NEW t \in Threads, NEW D,
           Chain(Cells(first, elems), queuesize, D), Stand[t] \in D
    PROVE  \E x \in D :
             /\ x <= Stand[t]
             /\ readFrom(t) = At(first, x)
             /\ nextIndex(readFrom(t)) = first <=> x = 0
             /\ x > 0 => Cells(first, elems)[x - 3] # t
             /\ \A d \in D : x < d /\ d <= Stand[t] => Cells(first, elems)[d - 3] = t
<1> DEFINE V == Cells(first, elems)
           p == Stand[t]
<1>1. first \in Index /\ elems \in [Index -> Nat] /\ lastOfThread \in [Threads -> Index] /\ queuesize \in Index
  BY DEF BufferTypeOK, Index
<1>2. lastOfThread[t] = At(first, p)
  BY <1>1, StandIs
<1>3. V \in [Index -> Nat]
  BY <1>1, CellsAreNat
<1>4. p \in D /\ p \in Index /\ p <= queuesize /\ \A d \in D : d \in Index
  BY <1>1, <1>3, InChain
<1> HIDE DEF V, p
<1>5. \A m \in Index : nextIndex(At(first, m)) = first <=> m = 0
  BY <1>1, NextIndexIs DEF Index
<1>6. readFrom(t) = IF p = 0 THEN At(first, p)
                    ELSE SkipOwn(t, IF Overtaken(At(first, p)) THEN last ELSE At(first, p))
  BY <1>2, <1>4, <1>5 DEF readFrom
<1>7. ~ Overtaken(At(first, p))
  BY <1>1, <1>4, NotOvertaken DEF Index
<1>8. readFrom(t) = IF p = 0 THEN At(first, p) ELSE SkipOwn(t, At(first, p))
  BY <1>6, <1>7
<1>9. CASE p = 0
  <2>1. readFrom(t) = At(first, p) /\ \A d \in D : ~ (p < d /\ d <= p)
    BY <1>4, <1>8, <1>9 DEF Index
  <2>2. p <= p /\ (nextIndex(readFrom(t)) = first <=> p = 0) /\ ~ (p > 0)
    BY <1>4, <1>5, <1>9, <2>1
  <2> QED BY <1>4, <2>1, <2>2 DEF p
<1>10. CASE p # 0
  <2>1. PICK x \in D : /\ x <= p
                       /\ SkipOwn(t, At(first, p)) = At(first, x)
                       /\ x > 0 => V[x - 3] # t
                       /\ \A d \in D : x < d /\ d <= p => V[d - 3] = t
    BY <1>1, <1>4, SkipOwnIs DEF V
  <2>2. readFrom(t) = At(first, x)
    BY <1>8, <1>10, <2>1
  <2>3. nextIndex(readFrom(t)) = first <=> x = 0
    BY <1>4, <1>5, <2>2
  <2> QED BY <2>1, <2>2, <2>3 DEF V, p
<1> QED BY <1>9, <1>10

LEMMA InvImpliesReclaimed ==
    ASSUME RingInv
    PROVE  RoomIsReclaimed
<1> DEFINE V == Cells(first, elems)
           q == queuesize
<1>1. BufferTypeOK /\ last = At(first, q)
  BY DEF RingInv
<1>2. /\ first \in Index /\ elems \in [Index -> Nat] /\ lastOfThread \in [Threads -> Index]
      /\ q \in Index /\ V \in [Index -> Nat]
  BY <1>1, CellsAreNat DEF BufferTypeOK, Index
<1>3. PICK D : Sound(V, q, Stand, D)
  BY DEF RingInv
<1>4. Chain(V, q, D) /\ Stand \in [Threads -> D] /\ Counted(V, Stand, D)
  BY <1>3 DEF Sound
<1>5. SUFFICES ASSUME q > 0, nbThreads > 1
               PROVE  \E t \in Threads : readFrom(t) = last
  BY DEF RoomIsReclaimed
<1>6. q \in D \ {0} /\ V[q - 2] # 0
  BY <1>4, <1>5 DEF Chain, RingInv
<1> HIDE DEF V
<1>7. Cardinality(Waiting(V, Stand, q)) # 0
  BY <1>4, <1>5, <1>6 DEF Counted
<1>8. PICK t \in Threads : t # V[q - 3] /\ Stand[t] >= q
  BY <1>7, WaitingFinite DEF Waiting
<1>9. Stand[t] = q
  <2>1. Stand[t] \in D
    BY <1>4
  <2>2. Stand[t] \in Index /\ Stand[t] <= q
    BY <1>2, <1>4, <2>1, InChain
  <2> QED BY <1>2, <1>8, <2>2 DEF Index
<1>10. PICK x \in D : /\ x <= q /\ readFrom(t) = At(first, x)
                      /\ \A d \in D : x < d /\ d <= q => V[d - 3] = t
  BY <1>1, <1>4, <1>6, <1>9, ReadFromIs DEF V
<1>11. x = q
  <2>1. x \in Index
    BY <1>2, <1>4, InChain
  <2> QED BY <1>2, <1>6, <1>8, <1>10, <2>1 DEF Index
<1> QED BY <1>1, <1>10, <1>11

\* In each state there is what is pending for a thread.
LEMMA PendingNow ==
    ASSUME BufferTypeOK, NEW D, Chain(Cells(first, elems), queuesize, D), NEW t \in Threads, Stand[t] \in D
    PROVE  \E P : Pending(Cells(first, elems), D, t, P) /\ pendingOf(t) = P[Stand[t]]
<1>1. first \in Index /\ elems \in [Index -> Nat] /\ lastOfThread[t] \in Index /\ queuesize \in Index
  BY DEF BufferTypeOK, Index
<1>2. PICK P : /\ Pending(Cells(first, elems), D, t, P)
               /\ \A p \in Index : At(first, p) \in D => PendingAt(first, elems, t, p) = P[At(first, p)]
  BY <1>1, PendingIs
<1> QED BY <1>1, <1>2, PendingOfIs DEF Stand

LEMMA PendingNext ==
    ASSUME BufferTypeOK', NEW D, Chain(Cells(first, elems), queuesize, D)',
           NEW t \in Threads, Stand'[t] \in D
    PROVE  \E P : Pending(Cells(first', elems'), D, t, P) /\ pendingOf(t)' = P[Stand'[t]]
<1>1. first' \in Index /\ elems' \in [Index -> Nat] /\ lastOfThread'[t] \in Index /\ queuesize' \in Index
  BY DEF BufferTypeOK, Index
<1>2. PICK P : /\ Pending(Cells(first', elems'), D, t, P)
               /\ \A p \in Index : At(first', p) \in D => PendingAt(first', elems', t, p) = P[At(first', p)]
  BY <1>1, PendingIs
<1> QED BY <1>1, <1>2, PendingOfIs DEF Stand

\* The pending clauses are the same when all places and the fields but the
\* counts are the same, and the thread has passed over its own at most.
LEMMA PendingSame ==
    ASSUME NEW V, NEW D, NEW W, NEW E, NEW x \in D, NEW t \in Threads, NEW P, NEW S,
           PendingIn(V, D, t, P), PendingIn(W, E, t, S), Moved(V, D, W, E, 0, x)
    PROVE  S[x] = P[x]
<1>1. PICK k \in Nat : k = 0
  OBVIOUS
<1>2. \A d \in D : d \in Nat /\ d + k = d
  <2>1. \A d \in D : d \in Index
    BY InChain DEF PendingIn
  <2> QED BY <1>1, <2>1 DEF Index
<1>3. k \in E
  BY <1>1 DEF Chain, PendingIn
<1>5. Moved(V, D, W, E, k, x)
  BY <1>1
<1>6. Carried(D, x, k, P, S)
  BY <1>3, <1>5, PendingMoves
<1>7. S[x] = P[x] \o S[k]
  <2>1. x <= x
    BY <1>2
  <2>2. S[x + k] = P[x] \o S[k]
    BY <1>6, <2>1 DEF Carried
  <2> QED BY <1>2, <2>2
<1>8. S[k] = <<>> /\ P[x] \in Seq(Messages)
  BY <1>1 DEF Pending, PendingIn
<1> QED BY <1>7, <1>8, ConcatEmptySeq

\* The parts of the invariant, by the names the steps use.
LEMMA InvParts ==
    ASSUME RingInv
    PROVE  /\ BufferTypeOK /\ last = At(first, queuesize)
           /\ first \in Index /\ elems \in [Index -> Nat] /\ lastOfThread \in [Threads -> Index]
           /\ queuesize \in Index
           /\ Cells(first, elems) \in [Index -> Nat]
           /\ \A m \in Index : Cells(first, elems)[m] = elems[At(first, m)]
           /\ \E D : /\ Sound(Cells(first, elems), queuesize, Stand, D)
                     /\ Chain(Cells(first, elems), queuesize, D)
                     /\ Stand \in [Threads -> D]
                     /\ Counted(Cells(first, elems), Stand, D)
<1>1. BufferTypeOK /\ last = At(first, queuesize)
  BY DEF RingInv
<1>2. /\ first \in Index /\ elems \in [Index -> Nat] /\ lastOfThread \in [Threads -> Index]
      /\ queuesize \in Index
  BY <1>1 DEF BufferTypeOK, Index
<1>3. /\ Cells(first, elems) \in [Index -> Nat]
      /\ \A m \in Index : Cells(first, elems)[m] = elems[At(first, m)]
  BY <1>2, CellsAreNat
<1>4. PICK D : Sound(Cells(first, elems), queuesize, Stand, D)
  BY DEF RingInv
<1>5. /\ Chain(Cells(first, elems), queuesize, D) /\ Stand \in [Threads -> D]
      /\ Counted(Cells(first, elems), Stand, D)
  BY <1>4 DEF Sound
<1> QED BY <1>1, <1>2, <1>3, <1>4, <1>5

\* Passing over own clauses leaves all others waiting as they were.
LEMMA WaitingSame ==
    ASSUME NEW V, NEW t \in Threads, NEW U, NEW S, NEW d,
           \A u \in Threads \ {t} : U[u] >= d <=> S[u] >= d,
           V[d - 3] = t \/ (U[t] >= d <=> S[t] >= d)
    PROVE  Waiting(V, S, d) = Waiting(V, U, d)
  BY DEF Waiting

LEMMA GetNothingStep ==
    ASSUME RingInv, NEW t \in Threads, getNothing(t)
    PROVE  RingInv' /\ \A u \in Threads : pendingOf(u)' = pendingOf(u)
<1> DEFINE V == Cells(first, elems)
           U == Stand
<1>1. /\ BufferTypeOK /\ last = At(first, queuesize)
      /\ first \in Index /\ elems \in [Index -> Nat] /\ lastOfThread \in [Threads -> Index]
      /\ queuesize \in Index /\ V \in [Index -> Nat]
  BY InvParts
<1>2. PICK D : Chain(V, queuesize, D) /\ U \in [Threads -> D] /\ Counted(V, U, D)
  BY InvParts
<1>3. PICK x \in D : /\ x <= U[t]
                     /\ readFrom(t) = At(first, x)
                     /\ \A d \in D : x < d /\ d <= U[t] => V[d - 3] = t
  BY <1>1, <1>2, ReadFromIs
<1>4. \A d \in D : d \in Index
  BY <1>1, <1>2, InChain
<1>5. /\ lastOfThread' = [lastOfThread EXCEPT ![t] = At(first, x)]
      /\ UNCHANGED <<whenFullRemoveOlder, elems, first, last, queuesize>>
  BY <1>3 DEF getNothing
<1>6. At(first, x) \in Index /\ At(first, At(first, x)) = x
  BY <1>1, <1>4, AtInverse
<1>7. BufferTypeOK'
  BY <1>1, <1>5, <1>6 DEF BufferTypeOK
<1>8. Stand' = [U EXCEPT ![t] = x]
  BY <1>1, <1>5, <1>6 DEF Stand
<1>9. Cells(first', elems') = V
  BY <1>5
<1> HIDE DEF V, U
<1>10. Stand' \in [Threads -> D] /\ \A u \in Threads : Stand'[u] = IF u = t THEN x ELSE U[u]
  BY <1>2, <1>8
<1>11. ASSUME NEW d \in D
       PROVE  Waiting(V, Stand', d) = Waiting(V, U, d)
  <2>1. \A u \in Threads \ {t} : U[u] >= d <=> Stand'[u] >= d
    BY <1>10
  <2>2. V[d - 3] = t \/ (U[t] >= d <=> x >= d)
    <3>1. d \in Index /\ x \in Index /\ U[t] \in Index /\ U[t] \in D
      BY <1>2, <1>4
    <3> QED BY <1>3, <3>1 DEF Index
  <2>3. V[d - 3] = t \/ (U[t] >= d <=> Stand'[t] >= d)
    BY <1>10, <2>2
  <2> QED BY <2>1, <2>3, WaitingSame
<1>12. Counted(V, Stand', D)
  BY <1>2, <1>11 DEF Counted
<1>13. Sound(V, queuesize', Stand', D)
  BY <1>2, <1>5, <1>10, <1>12 DEF Sound
<1>14. RingInv'
  <2>1. last' = At(first', queuesize')
    BY <1>1, <1>5
  <2>2. queuesize' > 0 /\ nbThreads > 1 => V[queuesize' - 2] # 0
    BY <1>5 DEF RingInv, V
  <2> QED BY <1>7, <1>9, <1>13, <2>1, <2>2 DEF RingInv
<1>15. ASSUME NEW u \in Threads
       PROVE  pendingOf(u)' = pendingOf(u)
  <2>1. CASE u # t
    <3>1. lastOfThread'[u] = lastOfThread[u]
      BY <1>1, <1>5, <2>1
    <3> QED BY <1>5, <3>1, PendingOfIs
  <2>2. CASE u = t
    <3>1. PICK P : /\ Pending(V, D, t, P)
                   /\ \A p \in Index : At(first, p) \in D => PendingAt(first, elems, t, p) = P[At(first, p)]
      BY <1>1, <1>2, PendingIs DEF V
    <3>2. P[U[t]] = P[x]
      <4>1. U[t] \in D
        BY <1>2
      <4>2. PendingIn(V, D, t, P)
        BY <1>1, <1>2, <3>1 DEF PendingIn
      <4>3. OnlyOwn(V, D, t, U[t], x)
        BY <1>3 DEF OnlyOwn
      <4>4. x <= U[t]
        BY <1>3
      <4> QED BY <4>1, <4>2, <4>3, <4>4, PendingFurtherOn
    <3>3. pendingOf(t) = P[U[t]]
      BY <1>1, <1>2, <3>1, PendingOfIs, StandIs DEF U
    <3>4. pendingOf(t)' = P[x]
      BY <1>1, <1>5, <1>6, <3>1, PendingOfIs
    <3> QED BY <2>2, <3>2, <3>3, <3>4
  <2> QED BY <2>1, <2>2
<1> QED BY <1>14, <1>15

Upto(D, z) == {d \in D : d <= z}

\* The ring is sound when its end is cut off before a clause.
LEMMA CutIsSound ==
    ASSUME NEW V \in [Index -> Nat], NEW q \in Index, NEW U, NEW D, Sound(V, q, U, D), NEW z \in D
    PROVE  Sound(V, z, Capped(U, z), Upto(D, z))
<1>1. Chain(V, q, D) /\ U \in [Threads -> D] /\ Counted(V, U, D)
  BY DEF Sound
<1>2. \A d \in D : d \in Index /\ d \in Nat
  <2>1. \A d \in D : d \in Index
    BY <1>1, InChain
  <2> QED BY <2>1 DEF Index
<1>3. Chain(V, z, Upto(D, z))
  <2>0. 0 \in D /\ z \in Nat
    BY <1>1, <1>2 DEF Chain
  <2>1. Upto(D, z) \subseteq 0..z /\ 0 \in Upto(D, z) /\ z \in Upto(D, z)
    <3>1. 0 <= z /\ z <= z
      BY <2>0
    <3>2. \A d \in Upto(D, z) : d \in Nat /\ d <= z
      BY <1>2 DEF Upto
    <3>3. \A d \in Upto(D, z) : d \in 0..z
      BY <2>0, <3>2
    <3> QED BY <2>0, <3>1, <3>3 DEF Upto
  <2>2. ASSUME NEW d \in Upto(D, z) \ {0}
        PROVE  d - Width(V, d) \in Upto(D, z)
    <3>1. d \in D \ {0} /\ d <= z /\ d \in Nat
      BY <1>2 DEF Upto
    <3>2. d - Width(V, d) \in D /\ d - Width(V, d) < d
      BY <1>1, <3>1, InChain
    <3>3. d - Width(V, d) <= z
      <4>1. d - Width(V, d) \in Nat /\ z \in Nat
        BY <1>2, <3>2
      <4> QED BY <3>1, <3>2, <4>1
    <3> QED BY <3>2, <3>3 DEF Upto
  <2> QED BY <1>1, <2>1, <2>2 DEF Chain, Upto
<1>4. Capped(U, z) \in [Threads -> Upto(D, z)]
  <2>1. Capped(U, z) \in [Threads -> D] /\ \A t \in Threads : Capped(U, z)[t] <= z
    BY <1>1, CappedIs
  <2> QED BY <2>1 DEF Upto
<1>5. ASSUME NEW d \in Upto(D, z)
      PROVE  Waiting(V, Capped(U, z), d) = Waiting(V, U, d)
  <2>1. d \in D /\ d <= z /\ d \in Nat /\ z \in Nat
    BY <1>2 DEF Upto
  <2>2. ASSUME NEW u \in Threads
        PROVE  Capped(U, z)[u] >= d <=> U[u] >= d
    <3>1. U[u] \in Nat
      BY <1>1, <1>2
    <3> QED BY <2>1, <3>1 DEF Capped
  <2> QED BY <2>2 DEF Waiting
<1>6. Counted(V, Capped(U, z), Upto(D, z))
  <2>1. \A d \in Upto(D, z) : d \in D
    BY DEF Upto
  <2> QED BY <1>1, <1>5, <2>1 DEF Counted
<1> QED BY <1>3, <1>4, <1>6 DEF Sound

\* Who is moved because all have seen the clauses before it has seen them, or
\* they are its own.
LEMMA CutPassesOwn ==
    ASSUME NEW V \in [Index -> Nat], NEW q \in Index, NEW U, NEW D, Sound(V, q, U, D), NEW z \in D,
           nbThreads > 1, \A d \in D : z < d => V[d - 2] = 0,
           NEW u \in Threads
    PROVE  OnlyOwn(V, D, u, U[u], Capped(U, z)[u])
<1>1. Chain(V, q, D) /\ U \in [Threads -> D] /\ Counted(V, U, D)
  BY DEF Sound
<1>2. \A d \in D : d \in Index /\ d \in Nat
  <2>1. \A d \in D : d \in Index
    BY <1>1, InChain
  <2> QED BY <2>1 DEF Index
<1>3. ASSUME NEW d \in D, Capped(U, z)[u] < d, d <= U[u]
      PROVE  V[d - 3] = u
  <2>1. U[u] \in Nat /\ d \in Nat /\ z \in Nat
    BY <1>1, <1>2
  <2>2. z < d /\ d # 0
    BY <1>3, <2>1 DEF Capped
  <2>3. Cardinality(Waiting(V, U, d)) = 0
    BY <1>1, <2>2 DEF Counted
  <2>4. u \notin Waiting(V, U, d)
    BY <2>3, WaitingFinite
  <2> QED BY <1>3, <2>1, <2>4 DEF Waiting
<1> QED BY <1>3 DEF OnlyOwn

\* A thread that is given a clause is one of those the clause waits for.
LEMMA SeenIsCounted ==
    ASSUME NEW V \in [Index -> Nat], NEW q \in Index, NEW U, NEW D, Sound(V, q, U, D),
           NEW t \in Threads, NEW x \in D \ {0}, x <= U[t], V[x - 3] # t
    PROVE  /\ nbThreads > 1 /\ V[x - 2] - 1 \in Nat
           /\ V[x - 2] - 1 = Cardinality(Waiting(V, U, x) \ {t})
<1>1. Chain(V, q, D) /\ U \in [Threads -> D] /\ Counted(V, U, D)
  BY DEF Sound
<1>2. \A d \in D : d \in Nat
  <2>1. \A d \in D : d \in Index
    BY <1>1, InChain
  <2> QED BY <2>1 DEF Index
<1>3. x - 2 \in Index /\ V[x - 2] \in Nat
  BY <1>1, InChain
<1>4. nbThreads > 1
  <2>1. V[x - 3] \in Threads
    BY <1>1 DEF Chain
  <2> QED BY <2>1 DEF Threads
<1>5. V[x - 2] = Cardinality(Waiting(V, U, x))
  BY <1>1, <1>4 DEF Counted
<1>6. t \in Waiting(V, U, x)
  <2>1. U[t] \in Nat /\ x \in Nat
    BY <1>1, <1>2
  <2> QED BY <2>1 DEF Waiting
<1>7. /\ V[x - 2] # 0
      /\ Cardinality(Waiting(V, U, x) \ {t}) = Cardinality(Waiting(V, U, x)) - 1
  BY <1>5, <1>6, WaitingFinite, FS_RemoveElement
<1>8. V[x - 2] - 1 \in Nat
  BY <1>3, <1>7
<1> QED BY <1>4, <1>5, <1>7, <1>8

\* Thread t has seen the clause x and stands behind it, before anything is
\* removed.
LEMMA SeenIsSound ==
    ASSUME NEW V \in [Index -> Nat], NEW q \in Index, NEW U, NEW D, Sound(V, q, U, D),
           NEW t \in Threads, NEW x \in D \ {0}, x <= U[t], V[x - 3] # t, OnlyOwn(V, D, t, U[t], x),
           NEW W, Chain(W, q, D), Written(V, D, x, V[x - 2] - 1, W),
           NEW S, S = [U EXCEPT ![t] = x - Width(V, x)]
    PROVE  Sound(W, q, S, D)
<1>1. Chain(V, q, D) /\ U \in [Threads -> D] /\ Counted(V, U, D)
  BY DEF Sound
<1>2. \A d \in D : d \in Nat
  <2>1. \A d \in D : d \in Index
    BY <1>1, InChain
  <2> QED BY <2>1 DEF Index
<1>3. PICK y \in D : y = x - Width(V, x) /\ y < x
  BY <1>1, InChain
<1>4. nbThreads > 1 /\ V[x - 2] - 1 = Cardinality(Waiting(V, U, x) \ {t})
  BY SeenIsCounted
<1>5. /\ W[x - 2] = V[x - 2] - 1
      /\ \A d \in D \ {0} : W[d - 3] = V[d - 3] /\ (d # x => W[d - 2] = V[d - 2])
  BY DEF Written
<1>6. S \in [Threads -> D] /\ \A u \in Threads : S[u] = IF u = t THEN y ELSE U[u]
  BY <1>1, <1>3
<1>7. Waiting(W, S, x) = Waiting(V, U, x) \ {t}
  <2>1. W[x - 3] = V[x - 3] /\ ~ (y >= x)
    BY <1>2, <1>3, <1>5
  <2> QED BY <1>6, <2>1 DEF Waiting
<1>8. ASSUME NEW d \in D \ {0, x}
      PROVE  Waiting(W, S, d) = Waiting(V, U, d)
  <2>1. \A u \in Threads \ {t} : U[u] >= d <=> S[u] >= d
    BY <1>6
  <2>2. V[d - 3] = t \/ (U[t] >= d <=> y >= d)
    <3>1. d \in Nat /\ x \in Nat /\ y \in Nat /\ U[t] \in Nat
      BY <1>1, <1>2
    <3>2. d < x => d <= y
      BY <1>1, <1>3 DEF Chain
    <3>3. x < d /\ d <= U[t] => V[d - 3] = t
      BY DEF OnlyOwn
    <3>4. y < x /\ x <= U[t] /\ d # x
      BY <1>3
    <3> QED BY <3>1, <3>2, <3>3, <3>4
  <2>3. V[d - 3] = t \/ (U[t] >= d <=> S[t] >= d)
    BY <1>6, <2>2
  <2>4. Waiting(V, S, d) = Waiting(V, U, d)
    BY <2>1, <2>3 DEF Waiting
  <2>5. W[d - 3] = V[d - 3]
    BY <1>5
  <2> QED BY <2>4, <2>5 DEF Waiting
<1>9. ASSUME NEW d \in D \ {0}
      PROVE  W[d - 2] = Cardinality(Waiting(W, S, d))
  <2>1. CASE d = x
    BY <1>4, <1>5, <1>7, <2>1
  <2>2. CASE d # x
    <3>1. V[d - 2] = Cardinality(Waiting(V, U, d))
      BY <1>1, <1>4 DEF Counted
    <3>2. W[d - 2] = V[d - 2] /\ Waiting(W, S, d) = Waiting(V, U, d)
      BY <1>5, <1>8, <2>2
    <3> QED BY <3>1, <3>2
  <2> QED BY <2>1, <2>2
<1>10. Counted(W, S, D)
  BY <1>9 DEF Counted
<1> QED BY <1>6, <1>10 DEF Sound

\* What getClause does, with its clause x by the number of its integers.
LEMMA GetClauseReads ==
    ASSUME RingInv, NEW t \in Threads, getClause(t), NEW D, Chain(Cells(first, elems), queuesize, D),
           NEW x \in D \ {0}, readFrom(t) = At(first, x),
           Cells(first, elems)[x - 2] - 1 \in Nat, NEW y \in D, y = x - Width(Cells(first, elems), x)
    PROVE  \E e \in [Index -> Nat] :
             /\ Cells(first, e) = [Cells(first, elems) EXCEPT ![x - 2] = Cells(first, elems)[x - 2] - 1]
             /\ elems' = e
             /\ received' = [received EXCEPT ![t] = <<[origin |-> Cells(first, elems)[x - 3],
                                                       lits |-> Clause(Cells(first, elems), x)]>>]
             /\ UNCHANGED <<first, whenFullRemoveOlder>>
             /\ IF last = At(first, x) /\ Cells(first, elems)[x - 2] - 1 = 0
                THEN /\ last' = removeLastClause(e, ring).last
                     /\ queuesize' = removeLastClause(e, ring).queuesize
                     /\ lastOfThread' = [removeLastClause(e, ring).lastOfThread
                                           EXCEPT ![t] = removeLastClause(e, ring).last]
                ELSE /\ lastOfThread' = [lastOfThread EXCEPT ![t] = At(first, y)]
                     /\ UNCHANGED <<last, queuesize>>
<1> DEFINE V == Cells(first, elems)
           p == At(first, x)
           n == V[x - 2] - 1
           e == [elems EXCEPT ![nseenAt(p)] = @ - 1]
           W == Cells(first, e)
<1>1. first \in Index /\ elems \in [Index -> Nat] /\ queuesize \in Index /\ V \in [Index -> Nat]
  BY InvParts
<1>2. x \in Index /\ x >= 3 /\ Width(V, x) <= x /\ x - 2 \in Index
  BY <1>1, InChain
<1>3. /\ nseenAt(p) = At(first, x - 2) /\ elems[nseenAt(p)] = V[x - 2]
  BY <1>1, <1>2, FieldsAre
<1>4. At(first, x - 2) \in Index
  BY <1>1, <1>2, AtInverse
<1>5. e = [elems EXCEPT ![At(first, x - 2)] = n] /\ e \in [Index -> Nat] /\ e[nseenAt(p)] = n
  BY <1>1, <1>3, <1>4
<1> HIDE DEF e, p, n, V
<1>6. W = [V EXCEPT ![x - 2] = n]
  <2> HIDE DEF W
  <2>1. Cells(first, e) = [Cells(first, elems) EXCEPT ![x - 2] = n]
    <3>1. Cells(first, Put(elems, At(first, x - 2), n)) = Put(Cells(first, elems), x - 2, n)
      BY <1>1, <1>2, CellsPut
    <3>2. e = Put(elems, At(first, x - 2), n)
      BY <1>5 DEF Put
    <3> QED BY <3>1, <3>2 DEF Put
  <2> QED BY <2>1 DEF V, W
<1>7. n \in Nat
  BY DEF n, V
<1> HIDE DEF W
<1>8. Written(V, D, x, n, W)
  BY <1>1, <1>6, <1>7, CountWritten DEF V
<1>9. W \in [Index -> Nat] /\ Width(W, x) = Width(V, x) /\ W[x - 3] = V[x - 3] /\ Clause(W, x) = Clause(V, x)
  BY <1>8 DEF Written
<1>10. originAt(e, p) = W[x - 3] /\ litsAt(e, p) = Clause(W, x) /\ behind(e, p) = At(first, x - Width(W, x))
  <2>1. Width(W, x) <= x
    BY <1>2, <1>9
  <2>2. W = Cells(first, e)
    BY DEF W
  <2>3. /\ originAt(e, At(first, x)) = W[x - 3] /\ litsAt(e, At(first, x)) = Clause(W, x)
        /\ behind(e, At(first, x)) = At(first, x - Width(W, x))
    <3>1. e \in [Index -> Nat] /\ x \in Index /\ first \in Index /\ x >= 3
      BY <1>1, <1>2, <1>5
    <3> QED BY <2>1, <2>2, <3>1, FieldsOf
  <2> QED BY <2>3 DEF p
<1>11. originAt(e, p) = V[x - 3] /\ litsAt(e, p) = Clause(V, x) /\ behind(e, p) = At(first, y)
  BY <1>9, <1>10 DEF V
<1>12. readFrom(t) = p
  BY DEF p
<1>13. /\ elems' = e
       /\ received' = [received EXCEPT ![t] = <<[origin |-> originAt(e, p), lits |-> litsAt(e, p)]>>]
       /\ UNCHANGED <<first, whenFullRemoveOlder>>
       /\ IF last = p /\ e[nseenAt(p)] = 0
                THEN /\ last' = removeLastClause(e, ring).last
                     /\ queuesize' = removeLastClause(e, ring).queuesize
                     /\ lastOfThread' = [removeLastClause(e, ring).lastOfThread
                                           EXCEPT ![t] = removeLastClause(e, ring).last]
                ELSE /\ lastOfThread' = [lastOfThread EXCEPT ![t] = behind(e, p)]
                     /\ UNCHANGED <<last, queuesize>>
  BY <1>12 DEF getClause, e
<1>14. /\ received' = [received EXCEPT ![t] = <<[origin |-> V[x - 3], lits |-> Clause(V, x)]>>]
       /\ IF last = p /\ n = 0
                THEN /\ last' = removeLastClause(e, ring).last
                     /\ queuesize' = removeLastClause(e, ring).queuesize
                     /\ lastOfThread' = [removeLastClause(e, ring).lastOfThread
                                           EXCEPT ![t] = removeLastClause(e, ring).last]
                ELSE /\ lastOfThread' = [lastOfThread EXCEPT ![t] = At(first, y)]
                     /\ UNCHANGED <<last, queuesize>>
  BY <1>5, <1>11, <1>13
<1>15. e \in [Index -> Nat] /\ Cells(first, e) = [V EXCEPT ![x - 2] = n]
  BY <1>5, <1>6 DEF W
<1> QED BY <1>13, <1>14, <1>15 DEF V, n, p

\* The ring ends at z and the threads stand at S, those of them that stood
\* before z behind what is removed.
Ends(D, W, S, z) ==
    /\ queuesize' = z /\ last' = At(first, z) /\ lastOfThread' \in [Threads -> Index]
    /\ \A u \in Threads : At(first, lastOfThread'[u]) = Capped(S, z)[u]
    /\ \A d \in D : z < d => W[d - 2] = 0
    /\ z > 0 => W[z - 2] # 0

\* Where the ring ends after t got the clause x, and where the threads stand.
LEMMA GetClauseEnds ==
    ASSUME RingInv, NEW t \in Threads, getClause(t),
           NEW D, Sound(Cells(first, elems), queuesize, Stand, D),
           NEW x \in D \ {0}, x <= Stand[t], Cells(first, elems)[x - 3] # t, readFrom(t) = At(first, x),
           NEW y \in D, y = x - Width(Cells(first, elems), x),
           NEW S, S = [Stand EXCEPT ![t] = y],
           NEW W, Chain(W, queuesize, D),
           Written(Cells(first, elems), D, x, Cells(first, elems)[x - 2] - 1, W),
           W = Cells(first, elems')
    PROVE  \E z \in D : Ends(D, W, S, z)
<1> DEFINE V == Cells(first, elems)
           U == Stand
           q == queuesize
           n == V[x - 2] - 1
<1>1. /\ last = At(first, q)
      /\ first \in Index /\ elems \in [Index -> Nat] /\ lastOfThread \in [Threads -> Index]
      /\ q \in Index /\ V \in [Index -> Nat]
  BY InvParts
<1>2. Chain(V, q, D) /\ U \in [Threads -> D]
  BY DEF Sound
<1>3. \A d \in D : d \in Index /\ d \in Nat /\ d <= q /\ At(first, d) \in Index /\ At(first, At(first, d)) = d
  <2>1. \A d \in D : d \in Index /\ d <= q
    BY <1>1, <1>2, InChain
  <2> QED BY <1>1, <2>1, AtInverse DEF Index
<1>4. n \in Nat /\ nbThreads > 1
  BY <1>1, SeenIsCounted
<1>5. PICK e \in [Index -> Nat] :
             /\ elems' = e
             /\ IF last = At(first, x) /\ n = 0
                THEN /\ last' = removeLastClause(e, ring).last
                     /\ queuesize' = removeLastClause(e, ring).queuesize
                     /\ lastOfThread' = [removeLastClause(e, ring).lastOfThread
                                           EXCEPT ![t] = removeLastClause(e, ring).last]
                ELSE /\ lastOfThread' = [lastOfThread EXCEPT ![t] = At(first, y)]
                     /\ UNCHANGED <<last, queuesize>>
  BY <1>2, <1>4, GetClauseReads
<1>6. S \in [Threads -> D] /\ \A u \in Threads : S[u] = IF u = t THEN y ELSE U[u]
  BY <1>2
<1>7. /\ W[x - 2] = n
      /\ \A d \in D \ {0} : d # x => W[d - 2] = V[d - 2]
  BY DEF Written
<1>8. x > 0 /\ x <= q /\ q \in D \ {0} /\ y < x
  <2>1. q \in D /\ x \in Nat /\ x <= q
    BY <1>2, <1>3 DEF Chain
  <2>2. y < x
    BY <1>1, <1>2, InChain
  <2> QED BY <1>1, <2>1, <2>2 DEF Index
<1>9. V[q - 2] # 0
  BY <1>1, <1>4, <1>8 DEF RingInv, Index
<1> HIDE DEF n, V
<1>10. CASE ~ (last = At(first, x) /\ n = 0)
  <2>1. lastOfThread' = [lastOfThread EXCEPT ![t] = At(first, y)] /\ queuesize' = q /\ last' = last
    BY <1>5, <1>10
  <2>2. At(first, y) \in Index /\ lastOfThread' \in [Threads -> Index]
    BY <1>1, <1>3, <2>1
  <2>3. \A u \in Threads : At(first, lastOfThread'[u]) = S[u]
    BY <1>1, <1>3, <1>6, <2>1 DEF Stand
  <2>4. Capped(S, q) = S
    <3>1. \A u \in Threads : S[u] = IF S[u] < q THEN S[u] ELSE q
      <4> TAKE u \in Threads
      <4>1. S[u] \in Nat /\ S[u] <= q /\ q \in Nat
        BY <1>3, <1>6, <1>8
      <4>2. S[u] < q \/ S[u] = q
        BY <4>1
      <4> QED BY <4>2
    <3> QED BY <1>6, <3>1 DEF Capped
  <2>5. \A d \in D : ~ (q < d)
    BY <1>1, <1>3 DEF Index
  <2>6. W[q - 2] # 0
    BY <1>1, <1>7, <1>8, <1>9, <1>10
  <2>7. Ends(D, W, S, q)
    BY <1>1, <2>1, <2>2, <2>3, <2>4, <2>5, <2>6 DEF Ends
  <2> QED BY <1>8, <2>7
<1>11. CASE last = At(first, x) /\ n = 0
  <2>1. x = q
    BY <1>1, <1>3, <1>11, AtIsInjective
  <2>2. ring = RingAt(first, q, U)
    BY RingIs DEF RingInv
  <2>3. \A u \in Threads : U[u] <= q
    BY <1>2, <1>3
  <2>4. W = Cells(first, e)
    BY <1>5
  <2>5. PICK z \in D :
             /\ z < q
             /\ removeLastClause(e, RingAt(first, q, U)) = RingAt(first, z, Capped(U, z))
             /\ z > 0 => W[z - 2] # 0
             /\ \A d \in D : z < d /\ d < q => W[d - 2] = 0
    BY <1>1, <1>2, <1>5, <1>8, <2>3, <2>4, RemoveIs
  <2>6. /\ last' = At(first, z) /\ queuesize' = z
        /\ lastOfThread' = [[u \in Threads |-> At(first, Capped(U, z)[u])] EXCEPT ![t] = At(first, z)]
    BY <1>5, <1>11, <2>2, <2>5 DEF RingAt
  <2>7. Capped(U, z) \in [Threads -> D]
    BY <1>1, <1>2, CappedIs DEF V
  <2>8. /\ lastOfThread' \in [Threads -> Index]
        /\ \A u \in Threads : At(first, lastOfThread'[u]) = IF u = t THEN z ELSE Capped(U, z)[u]
    BY <1>3, <2>6, <2>7
  <2>9. \A u \in Threads : Capped(S, z)[u] = IF u = t THEN z ELSE Capped(U, z)[u]
    <3>1. z <= y
      BY <1>2, <1>3, <1>8, <2>1, <2>5 DEF Chain, V
    <3>2. ~ (y < z)
      BY <1>3, <3>1
    <3> QED BY <1>6, <3>2 DEF Capped
  <2>10. \A d \in D : z < d => W[d - 2] = 0
    <3>1. \A d \in D : d = q \/ d < q
      BY <1>1, <1>3 DEF Index
    <3> QED BY <1>7, <1>11, <2>1, <2>5, <3>1
  <2>11. Ends(D, W, S, z)
    BY <2>5, <2>6, <2>8, <2>9, <2>10 DEF Ends
  <2> QED BY <2>11
<1> QED BY <1>10, <1>11

\* What is pending for a thread does not change when clauses that all have
\* seen are removed.
LEMMA CutKeepsPending ==
    ASSUME NEW V \in [Index -> Nat], NEW q \in Index, NEW D, Chain(V, q, D),
           NEW x \in D \ {0}, NEW n, NEW W, Written(V, D, x, n, W),
           NEW S, Sound(W, q, S, D), NEW z \in D, \A d \in D : z < d => W[d - 2] = 0,
           nbThreads > 1, NEW u \in Threads,
           NEW P, PendingIn(V, D, u, P), NEW R, PendingIn(W, Upto(D, z), u, R)
    PROVE  R[Capped(S, z)[u]] = P[S[u]]
<1>1. \A d \in D : d \in Nat
  <2>1. \A d \in D : d \in Index
    BY InChain
  <2> QED BY <2>1 DEF Index
<1>2. /\ W \in [Index -> Nat]
      /\ \A d \in D \ {0} : /\ Width(W, d) = Width(V, d) /\ W[d - 3] = V[d - 3]
                            /\ Clause(W, d) = Clause(V, d)
  BY DEF Written
<1>3. PICK v : v = Capped(S, z)[u]
  OBVIOUS
<1>4. S[u] \in D /\ v \in D /\ v <= z /\ v <= S[u]
  <2>1. S \in [Threads -> D] /\ Chain(W, q, D)
    BY DEF Sound
  <2> QED BY <1>2, <1>3, <2>1, CappedIs
<1>5. OnlyOwn(V, D, u, S[u], v)
  <2>1. OnlyOwn(W, D, u, S[u], v)
    BY <1>2, <1>3, CutPassesOwn
  <2>2. \A d \in D : v < d => d # 0
    BY <1>1, <1>4
  <2> QED BY <1>2, <2>1, <2>2 DEF OnlyOwn
<1>6. P[S[u]] = P[v]
  BY <1>4, <1>5, PendingFurtherOn
<1>7. R[v] = P[v]
  <2>1. ASSUME NEW d \in D, d <= v
        PROVE  d + 0 \in Upto(D, z)
    <3>1. d \in Nat /\ v \in Nat /\ z \in Nat
      BY <1>1, <1>4
    <3>2. d <= z /\ d + 0 = d
      BY <1>4, <2>1, <3>1
    <3> QED BY <3>2 DEF Upto
  <2>2. ASSUME NEW d \in D \ {0}, NEW c \in Upto(D, z), d <= v, c = d + 0
        PROVE  Width(W, c) = Width(V, d) /\ W[c - 3] = V[d - 3] /\ Clause(W, c) = Clause(V, d)
    <3>1. c = d
      BY <1>1, <2>2
    <3> QED BY <1>2, <3>1
  <2>3. Moved(V, D, W, Upto(D, z), 0, v)
    BY <2>1, <2>2 DEF Moved
  <2> QED BY <1>4, <2>3, PendingSame
<1> QED BY <1>3, <1>6, <1>7

Sent(V, x) == [origin |-> V[x - 3], lits |-> Clause(V, x)]

\* What a thread receives is the first that was pending for it.
LEMMA ReceivedIsFirst ==
    ASSUME NEW V \in [Index -> Nat], NEW q \in Index, NEW D, Chain(V, q, D),
           NEW t \in Threads, NEW s \in D, NEW x \in D \ {0}, x <= s, V[x - 3] # t, OnlyOwn(V, D, t, s, x),
           NEW y \in D, y = x - Width(V, x), NEW P, PendingIn(V, D, t, P)
    PROVE  /\ P[s] # <<>> /\ Tail(P[s]) = P[y]
           /\ Head(P[s]) = Sent(V, x)
<1>1. P[s] = P[x]
  BY PendingFurtherOn
<1>2. P[x] = Told(V, t, x) \o P[y] /\ P[y] \in Seq(Messages)
  BY DEF PendingIn, Pending
<1>3. PICK m \in Messages : m = Sent(V, x)
  BY PendingTypes DEF Sent
<1>4. Told(V, t, x) = <<m>>
  BY <1>3 DEF Told, Sent
<1>5. P[s] = <<m>> \o P[y]
  BY <1>1, <1>2, <1>4
<1>6. \A b \in Seq(Messages) : <<m>> \o b # <<>> /\ Head(<<m>> \o b) = m /\ Tail(<<m>> \o b) = b
  OBVIOUS
<1> QED BY <1>2, <1>3, <1>5, <1>6

LEMMA GetClauseStep ==
    ASSUME RingInv, NEW t \in Threads, getClause(t)
    PROVE  /\ RingInv'
           /\ pendingOf(t) # <<>>
           /\ received' = [received EXCEPT ![t] = <<Head(pendingOf(t))>>]
           /\ \A u \in Threads : pendingOf(u)' = IF u = t THEN Tail(pendingOf(t)) ELSE pendingOf(u)
           /\ UNCHANGED whenFullRemoveOlder
<1> DEFINE V == Cells(first, elems)
           U == Stand
           q == queuesize
<1>1. /\ BufferTypeOK /\ last = At(first, q)
      /\ first \in Index /\ elems \in [Index -> Nat] /\ lastOfThread \in [Threads -> Index]
      /\ q \in Index /\ V \in [Index -> Nat]
  BY InvParts
<1>2. PICK D : Sound(V, q, U, D) /\ Chain(V, q, D) /\ U \in [Threads -> D]
  BY InvParts
<1>3. PICK x \in D : /\ x <= U[t]
                     /\ readFrom(t) = At(first, x)
                     /\ nextIndex(readFrom(t)) = first <=> x = 0
                     /\ x > 0 => V[x - 3] # t
                     /\ \A d \in D : x < d /\ d <= U[t] => V[d - 3] = t
  BY <1>1, <1>2, ReadFromIs
<1>4. \A d \in D : d \in Index /\ d \in Nat
  <2>1. \A d \in D : d \in Index
    BY <1>1, <1>2, InChain
  <2> QED BY <2>1 DEF Index
<1>5. x \in D \ {0} /\ V[x - 3] # t /\ OnlyOwn(V, D, t, U[t], x)
  <2>1. x # 0
    BY <1>3 DEF getClause
  <2> QED BY <1>3, <1>4, <2>1 DEF OnlyOwn
<1>6. PICK y \in D : y = x - Width(V, x)
  BY <1>1, <1>2, <1>5, InChain
<1>7. PICK S : S = [U EXCEPT ![t] = y]
  OBVIOUS
<1>8. nbThreads > 1 /\ V[x - 2] - 1 \in Nat
  BY <1>1, <1>2, <1>3, <1>5, SeenIsCounted
<1>9. PICK e \in [Index -> Nat] :
          /\ Cells(first, e) = [V EXCEPT ![x - 2] = V[x - 2] - 1]
          /\ elems' = e
          /\ received' = [received EXCEPT ![t] = <<[origin |-> V[x - 3], lits |-> Clause(V, x)]>>]
          /\ UNCHANGED <<first, whenFullRemoveOlder>>
  BY <1>2, <1>3, <1>5, <1>6, <1>8, GetClauseReads
<1>10. PICK W : W = Cells(first, e)
  OBVIOUS
<1> HIDE DEF V, U, q
<1>11. Chain(W, q, D) /\ Written(V, D, x, V[x - 2] - 1, W) /\ W = Cells(first', elems')
  BY <1>1, <1>2, <1>5, <1>8, <1>9, <1>10, CountWritten
<1>12. Sound(W, q, S, D)
  <2>1. S = [U EXCEPT ![t] = x - Width(V, x)]
    BY <1>6, <1>7
  <2> QED BY <1>1, <1>2, <1>3, <1>5, <1>11, <2>1, SeenIsSound
<1>13. PICK z \in D : Ends(D, W, S, z)
  <2>1. Sound(Cells(first, elems), queuesize, Stand, D) /\ x <= Stand[t] /\ Cells(first, elems)[x - 3] # t
    BY <1>2, <1>3, <1>5 DEF V, U, q
  <2>2. y = x - Width(Cells(first, elems), x) /\ S = [Stand EXCEPT ![t] = y] /\ Chain(W, queuesize, D)
    BY <1>6, <1>7, <1>11 DEF V, U, q
  <2>3. /\ Written(Cells(first, elems), D, x, Cells(first, elems)[x - 2] - 1, W)
        /\ W = Cells(first, elems')
    BY <1>9, <1>10, <1>11 DEF V
  <2> QED BY <1>3, <1>5, <2>1, <2>2, <2>3, GetClauseEnds
<1>14. /\ queuesize' = z /\ last' = At(first, z) /\ lastOfThread' \in [Threads -> Index]
       /\ \A u \in Threads : At(first, lastOfThread'[u]) = Capped(S, z)[u]
       /\ \A d \in D : z < d => W[d - 2] = 0
       /\ z > 0 => W[z - 2] # 0
  BY <1>13 DEF Ends
<1>15. Stand' = Capped(S, z)
  <2>1. Stand' = [u \in Threads |-> At(first, lastOfThread'[u])]
    BY <1>9 DEF Stand
  <2>2. Capped(S, z) = [u \in Threads |-> Capped(S, z)[u]]
    BY DEF Capped
  <2>3. [u \in Threads |-> At(first, lastOfThread'[u])] = [u \in Threads |-> Capped(S, z)[u]]
    BY <1>14
  <2> QED BY <2>1, <2>2, <2>3
<1>16. Sound(W, z, Stand', Upto(D, z))
  <2>1. W \in [Index -> Nat]
    BY <1>11 DEF Written
  <2> QED BY <1>1, <1>12, <1>15, <2>1, CutIsSound
<1>17. BufferTypeOK'
  <2>1. z \in 0..maxsize-1 /\ At(first, z) \in Index
    BY <1>1, <1>4, AtInverse DEF Index
  <2>2. elems' \in [Index -> Nat] /\ first' = first /\ whenFullRemoveOlder' = whenFullRemoveOlder
    BY <1>9
  <2> QED BY <1>1, <1>14, <2>1, <2>2 DEF BufferTypeOK
<1>18. RingInv'
  <2>1. last' = At(first', queuesize')
    BY <1>9, <1>14
  <2>2. \E E : Sound(W, queuesize', Stand', E)
    BY <1>14, <1>16
  <2>3. queuesize' > 0 => W[queuesize' - 2] # 0
    BY <1>14
  <2> QED BY <1>11, <1>17, <2>1, <2>2, <2>3 DEF RingInv
<1>19. ASSUME NEW u \in Threads
       PROVE  \E P : PendingIn(V, D, u, P) /\ pendingOf(u) = P[U[u]] /\ pendingOf(u)' = P[S[u]]
  <2>1. PICK P : Pending(V, D, u, P) /\ pendingOf(u) = P[U[u]]
    BY <1>1, <1>2, PendingNow DEF V, U, q
  <2>2. PendingIn(V, D, u, P)
    BY <1>1, <1>2, <2>1 DEF PendingIn
  <2>3. PICK R : Pending(W, Upto(D, z), u, R) /\ pendingOf(u)' = R[Stand'[u]]
    <3>1. Chain(Cells(first, elems), queuesize, Upto(D, z))'
      BY <1>11, <1>14, <1>16 DEF Sound
    <3>2. Stand'[u] \in Upto(D, z)
      BY <1>16 DEF Sound
    <3> QED BY <1>11, <1>17, <3>1, <3>2, PendingNext
  <2>4. PendingIn(W, Upto(D, z), u, R)
    <3>1. W \in [Index -> Nat] /\ z \in Index /\ Chain(W, z, Upto(D, z))
      BY <1>4, <1>11, <1>16 DEF Written, Sound
    <3> QED BY <2>3, <3>1 DEF PendingIn
  <2>5. R[Capped(S, z)[u]] = P[S[u]]
    BY <1>1, <1>2, <1>5, <1>8, <1>11, <1>12, <1>14, <2>2, <2>4, CutKeepsPending
  <2> QED BY <1>15, <2>1, <2>2, <2>3, <2>5
<1>20. \A u \in Threads : S[u] = IF u = t THEN y ELSE U[u]
  BY <1>2, <1>7
<1>21. pendingOf(t) # <<>> /\ Head(pendingOf(t)) = [origin |-> V[x - 3], lits |-> Clause(V, x)]
       /\ pendingOf(t)' = Tail(pendingOf(t))
  <2>1. PICK P : PendingIn(V, D, t, P) /\ pendingOf(t) = P[U[t]] /\ pendingOf(t)' = P[y]
    BY <1>19, <1>20
  <2>2. PICK s \in D : s = U[t]
    BY <1>2
  <2>3. x <= s /\ OnlyOwn(V, D, t, s, x)
    BY <1>3, <1>5, <2>2
  <2>4. /\ P[s] # <<>> /\ Tail(P[s]) = P[y]
        /\ Head(P[s]) = Sent(V, x)
    <3>1. V \in [Index -> Nat] /\ q \in Index /\ Chain(V, q, D) /\ PendingIn(V, D, t, P)
      BY <1>1, <1>2, <2>1
    <3> QED BY <1>5, <1>6, <2>3, <3>1, ReceivedIsFirst
  <2> QED BY <2>1, <2>2, <2>4 DEF Sent
<1>22. \A u \in Threads \ {t} : pendingOf(u)' = pendingOf(u)
  BY <1>19, <1>20
<1>23. received' = [received EXCEPT ![t] = <<Head(pendingOf(t))>>] /\ UNCHANGED whenFullRemoveOlder
  BY <1>9, <1>21
<1>24. \A u \in Threads : pendingOf(u)' = IF u = t THEN Tail(pendingOf(t)) ELSE pendingOf(u)
  BY <1>21, <1>22
<1> QED BY <1>18, <1>21, <1>23, <1>24

-----------------------------------------------------------------------------
(***************************************************************************)
(* A clause is pushed: its integers s take the first k numbers, and the    *)
(* clauses in the ring have k more integers before them.                   *)
(***************************************************************************)

PushedCells(V, W, k, s) ==
    /\ \A m \in 0..k - 1 : W[m] = s[k - m]
    /\ \A m \in 0..maxsize - 1 - k : W[m + k] = V[m]

LEMMA CellsAfterPush ==
    ASSUME NEW f \in Index, NEW e \in [Index -> Nat], NEW k \in Index, NEW s, NEW w,
           w = [p \in Index |-> LET n == (p - f + maxsize) % maxsize IN IF n < k THEN s[n + 1] ELSE e[p]]
    PROVE  PushedCells(Cells(f, e), Cells(addIndex(f, k), w), k, s)
<1> DEFINE g == addIndex(f, k)
<1>1. /\ g \in Index
      /\ \A m \in 0..maxsize - 1 - k : At(g, m + k) = At(f, m)
      /\ \A m \in 0..k - 1 : (At(g, m) - f + maxsize) % maxsize = k - 1 - m
      /\ \A m \in 0..maxsize - 1 - k : (At(f, m) - f + maxsize) % maxsize = maxsize - 1 - m
  BY AtAfterPush
<1> HIDE DEF g
<1>2. ASSUME NEW m \in 0..k - 1
      PROVE  Cells(g, w)[m] = s[k - m]
  <2>0. m \in Index
    BY DEF Index
  <2>1. m \in Index /\ At(g, m) \in Index
    BY <1>1, <2>0, AtInverse
  <2>2. (At(g, m) - f + maxsize) % maxsize = k - 1 - m /\ k - 1 - m < k /\ (k - 1 - m) + 1 = k - m
    BY <1>1 DEF Index
  <2>3. w[At(g, m)] = s[k - m]
    BY <2>1, <2>2
  <2> QED BY <2>1, <2>3 DEF Cells
<1>3. ASSUME NEW m \in 0..maxsize - 1 - k
      PROVE  Cells(g, w)[m + k] = Cells(f, e)[m]
  <2>0. m \in Index /\ m + k \in Index
    BY DEF Index
  <2>1. m \in Index /\ m + k \in Index /\ At(f, m) \in Index
    BY <2>0, AtInverse
  <2>2. At(g, m + k) = At(f, m) /\ (At(f, m) - f + maxsize) % maxsize = maxsize - 1 - m
        /\ ~ (maxsize - 1 - m < k)
    BY <1>1 DEF Index
  <2>3. w[At(f, m)] = e[At(f, m)]
    BY <2>1, <2>2
  <2> QED BY <2>1, <2>2, <2>3 DEF Cells
<1> QED BY <1>2, <1>3 DEF PushedCells, g

\* The integers of a clause.
Block(t, c) == Header(t, c) \o c

\* The fields of the new clause.
NewClause(W, t, c, k) ==
    /\ Width(W, k) = k /\ W[k - 3] = t /\ Clause(W, k) = c
    /\ nbThreads > 1 => W[k - 2] = nbThreads - 1
    /\ \A m \in 0..k - 1 : W[m] \in Nat

LEMMA PushedClause ==
    ASSUME NEW V, NEW W, NEW t \in Threads, NEW c \in Seq(Nat), NEW k \in Index, k = Len(c) + 3,
           PushedCells(V, W, k, Block(t, c))
    PROVE  NewClause(W, t, c, k)
<1> DEFINE h == IF nbThreads > 1 THEN nbThreads - 1 ELSE 1
           s == Block(t, c)
<1>1. Len(c) \in Nat /\ h \in Nat /\ t \in Nat /\ \A n \in 1..Len(c) : c[n] \in Nat
  BY DEF Threads
<1>2. Header(t, c) = <<Len(c), h, t>> /\ Header(t, c) \in Seq(Nat)
  BY <1>1 DEF Header
<1> HIDE DEF h
<1>3. /\ Len(s) = k /\ s[1] = Len(c) /\ s[2] = h /\ s[3] = t
      /\ \A n \in 1..Len(c) : s[3 + n] = c[n]
      /\ s \in Seq(Nat)
  <2>1. /\ Len(s) = Len(Header(t, c)) + Len(c)
        /\ \A i \in 1..Len(Header(t, c)) + Len(c) :
             s[i] = IF i <= Len(Header(t, c)) THEN Header(t, c)[i] ELSE c[i - Len(Header(t, c))]
        /\ s \in Seq(Nat)
    BY <1>2, ConcatProperties DEF Block
  <2>2. Len(Header(t, c)) = 3 /\ Header(t, c)[1] = Len(c) /\ Header(t, c)[2] = h /\ Header(t, c)[3] = t
    BY <1>2
  <2> HIDE DEF s
  <2>3. \A i \in 1..3 + Len(c) : s[i] = IF i <= 3 THEN Header(t, c)[i] ELSE c[i - 3]
    BY <2>1, <2>2
  <2>4. s[1] = Len(c) /\ s[2] = h /\ s[3] = t
    <3>1. 1 \in 1..3 + Len(c) /\ 2 \in 1..3 + Len(c) /\ 3 \in 1..3 + Len(c)
      BY <1>1
    <3> QED BY <2>2, <2>3, <3>1
  <2>5. \A n \in 1..Len(c) : s[3 + n] = c[n]
    <3> TAKE n \in 1..Len(c)
    <3>1. 3 + n \in 1..3 + Len(c) /\ ~ (3 + n <= 3) /\ 3 + n - 3 = n
      BY <1>1
    <3> QED BY <2>3, <3>1
  <2> QED BY <1>1, <2>1, <2>2, <2>4, <2>5
<1> HIDE DEF s
<1>4. \A m \in 0..k - 1 : W[m] = s[k - m]
  BY DEF PushedCells, s
<1>5. W[k - 1] = Len(c) /\ W[k - 2] = h /\ W[k - 3] = t
  <2>1. /\ k - 1 \in 0..k - 1 /\ k - (k - 1) = 1
        /\ k - 2 \in 0..k - 1 /\ k - (k - 2) = 2
        /\ k - 3 \in 0..k - 1 /\ k - (k - 3) = 3
    BY <1>1
  <2> QED BY <1>3, <1>4, <2>1
<1>6. Clause(W, k) = c
  <2>1. ASSUME NEW n \in 1..Len(c)
        PROVE  W[k - 3 - n] = c[n]
    <3>1. k - 3 - n \in 0..k - 1 /\ k - (k - 3 - n) = 3 + n
      BY <1>1
    <3> QED BY <1>3, <1>4, <3>1
  <2>2. Clause(W, k) = [n \in 1..Len(c) |-> c[n]]
    BY <1>5, <2>1 DEF Clause
  <2>3. c = [n \in 1..Len(c) |-> c[n]]
    OBVIOUS
  <2> QED BY <2>2, <2>3
<1>7. ASSUME NEW m \in 0..k - 1
      PROVE  W[m] \in Nat
  <2>1. k - m \in 1..Len(s)
    BY <1>1, <1>3
  <2>2. s[k - m] \in Nat
    BY <1>3, <2>1
  <2> QED BY <1>4, <2>2
<1> QED BY <1>1, <1>5, <1>6, <1>7 DEF Width, h, NewClause

\* The clauses d of V and z of W have the same fields.
SameClause(V, W, d, z) ==
    /\ Width(W, z) = Width(V, d) /\ Clause(W, z) = Clause(V, d)
    /\ W[z - 3] = V[d - 3] /\ W[z - 2] = V[d - 2]

\* The fields of the clauses that were in the ring.
LEMMA MovedClause ==
    ASSUME NEW V \in [Index -> Nat], NEW W, NEW k \in Index, NEW s, PushedCells(V, W, k, s),
           NEW d \in Index, d + k < maxsize, d >= 3, Width(V, d) <= d, NEW z, z = d + k
    PROVE  SameClause(V, W, d, z)
<1>1. \A m \in 0..maxsize - 1 - k : W[m + k] = V[m]
  BY DEF PushedCells
<1>2. ASSUME NEW a \in 1..d
      PROVE  W[z - a] = V[d - a]
  <2>1. d - a \in 0..maxsize - 1 - k /\ d - a + k = z - a
    BY DEF Index
  <2> QED BY <1>1, <2>1
<1>3. 1 \in 1..d /\ 2 \in 1..d /\ 3 \in 1..d /\ d - 1 \in Index
  BY DEF Index
<1>4. W[z - 1] = V[d - 1] /\ W[z - 2] = V[d - 2] /\ W[z - 3] = V[d - 3] /\ V[d - 1] \in Nat
  BY <1>2, <1>3
<1>5. ASSUME NEW n \in 1..V[d - 1]
      PROVE  W[z - 3 - n] = V[d - 3 - n]
  <2>1. 3 + n \in 1..d /\ z - (3 + n) = z - 3 - n /\ d - (3 + n) = d - 3 - n
    BY <1>4 DEF Width, Index
  <2> QED BY <1>2, <2>1
<1> QED BY <1>4, <1>5 DEF Width, Clause, SameClause

Shifted(D, k) == {d + k : d \in D} \cup {0}

\* The ring with the new clause.
LEMMA PushIsSound ==
    ASSUME NEW V \in [Index -> Nat], NEW x \in Index, NEW U, NEW D, Sound(V, x, U, D),
           NEW t \in Threads, NEW c \in Seq(Nat), NEW k \in Index, k = Len(c) + 3, x + k < maxsize,
           NEW W, PushedCells(V, W, k, Block(t, c)),
           NEW S, S = [u \in Threads |-> U[u] + k]
    PROVE  Sound(W, x + k, S, Shifted(D, k)) /\ Moved(V, D, W, Shifted(D, k), k, x)
<1> DEFINE E == Shifted(D, k)
<1>1. Chain(V, x, D) /\ U \in [Threads -> D] /\ Counted(V, U, D)
  BY DEF Sound
<1>2. \A d \in D : d \in Index /\ d \in Nat /\ d <= x
  <2>1. \A d \in D : d \in Index /\ d <= x
    BY <1>1, InChain
  <2> QED BY <2>1 DEF Index
<1>3. k \in Nat /\ k >= 3 /\ x \in Nat
  BY DEF Index
<1>4. /\ Width(W, k) = k /\ W[k - 3] = t
      /\ nbThreads > 1 => W[k - 2] = nbThreads - 1
  <2>1. NewClause(W, t, c, k)
    BY PushedClause
  <2> QED BY <2>1 DEF NewClause
<1>5. ASSUME NEW d \in D \ {0}, NEW z, z = d + k
      PROVE  /\ Width(W, z) = Width(V, d) /\ Clause(W, z) = Clause(V, d)
             /\ W[z - 3] = V[d - 3] /\ W[z - 2] = V[d - 2]
  <2>1. d \in Index /\ d >= 3 /\ Width(V, d) <= d
    BY <1>1, InChain
  <2>2. d + k < maxsize
    BY <1>2, <1>3 DEF Index
  <2>3. SameClause(V, W, d, z)
    BY <1>5, <2>1, <2>2, MovedClause
  <2> QED BY <2>3 DEF SameClause
<1>6. /\ 0 \in E /\ \A d \in D : d + k \in E
      /\ \A z \in E : z = 0 \/ \E d \in D : z = d + k
  BY DEF Shifted
<1> HIDE DEF E
<1>7. 0 \in D /\ x \in D
  BY <1>1 DEF Chain
<1>8. k \in E
  <2>1. 0 + k \in E
    BY <1>6, <1>7
  <2> QED BY <1>3, <2>1
<1>9. ASSUME NEW z \in E \ {0}
      PROVE  z = k \/ \E d \in D \ {0} : z = d + k
  <2>1. PICK d \in D : z = d + k
    BY <1>6
  <2>2. d = 0 => z = k
    BY <1>3, <2>1
  <2> QED BY <2>1, <2>2
<1>10. Chain(W, x + k, E)
  <2>1. E \subseteq 0..x + k
    <3>1. ASSUME NEW d \in D
          PROVE  d + k \in 0..x + k
      BY <1>2, <1>3
    <3>2. 0 \in 0..x + k
      BY <1>3
    <3> QED BY <1>6, <3>1, <3>2
  <2>2. x + k \in E
    BY <1>6, <1>7
  <2>3. ASSUME NEW z \in E \ {0}
        PROVE  /\ z - Width(W, z) \in E
               /\ \A b \in E : b < z => b <= z - Width(W, z)
               /\ W[z - 3] \in Threads
    <3>1. CASE z = k
      <4>1. z - Width(W, z) = 0
        BY <1>3, <1>4, <3>1
      <4>2. \A b \in E : b < k => b = 0
        <5>1. \A d \in D : ~ (d + k < k)
          BY <1>2, <1>3
        <5> QED BY <1>6, <5>1
      <4> QED BY <1>4, <1>6, <3>1, <4>1, <4>2
    <3>2. ASSUME NEW d \in D \ {0}, z = d + k
          PROVE  /\ z - Width(W, z) \in E
                 /\ \A b \in E : b < z => b <= z - Width(W, z)
                 /\ W[z - 3] \in Threads
      <4>1. PICK y \in D : y = d - Width(V, d) /\ Width(V, d) \in Nat
        BY <1>1, InChain
      <4>2. z - Width(W, z) = y + k
        <5>1. Width(W, z) = Width(V, d) /\ d \in Nat
          BY <1>2, <1>5, <3>2
        <5> QED BY <1>3, <3>2, <4>1, <5>1
      <4>3. \A j \in D : j < d => j <= y
        BY <1>1, <4>1 DEF Chain
      <4>4. ASSUME NEW b \in E, b < z
            PROVE  b <= y + k
        <5>1. CASE b = 0
          BY <1>2, <1>3, <5>1
        <5>2. ASSUME NEW j \in D, b = j + k
              PROVE  b <= y + k
          <6>1. j < d
            BY <1>2, <1>3, <3>2, <4>4, <5>2
          <6>2. j <= y
            BY <4>3, <6>1
          <6> QED BY <1>2, <1>3, <5>2, <6>2
        <5> QED BY <1>6, <5>1, <5>2
      <4>5. W[z - 3] = V[d - 3] /\ V[d - 3] \in Threads
        BY <1>1, <1>5, <3>2 DEF Chain
      <4> QED BY <1>6, <4>2, <4>4, <4>5
    <3> QED BY <1>9, <3>1, <3>2
  <2> QED BY <1>6, <2>1, <2>2, <2>3 DEF Chain
<1>11. S \in [Threads -> E] /\ \A u \in Threads : S[u] = U[u] + k /\ U[u] \in Nat
  BY <1>1, <1>2, <1>6
<1>12. Counted(W, S, E)
  <2>1. ASSUME nbThreads > 1, NEW z \in E \ {0}
        PROVE  W[z - 2] = Cardinality(Waiting(W, S, z))
    <3>1. CASE z = k
      <4>1. \A u \in Threads : S[u] >= k
        BY <1>3, <1>11
      <4>2. Waiting(W, S, z) = Threads \ {t}
        BY <1>4, <3>1, <4>1 DEF Waiting
      <4>3. Cardinality(Threads \ {t}) = nbThreads - 1
        BY ThreadsFinite, FS_RemoveElement
      <4> QED BY <1>4, <2>1, <3>1, <4>2, <4>3
    <3>2. ASSUME NEW d \in D \ {0}, z = d + k
          PROVE  W[z - 2] = Cardinality(Waiting(W, S, z))
      <4>1. W[z - 3] = V[d - 3] /\ W[z - 2] = V[d - 2]
        BY <1>5, <3>2
      <4>2. \A u \in Threads : S[u] >= z <=> U[u] >= d
        BY <1>2, <1>3, <1>11, <3>2
      <4>3. Waiting(W, S, z) = Waiting(V, U, d)
        BY <4>1, <4>2 DEF Waiting
      <4>4. V[d - 2] = Cardinality(Waiting(V, U, d))
        BY <1>1, <2>1 DEF Counted
      <4> QED BY <4>1, <4>3, <4>4
    <3> QED BY <1>9, <3>1, <3>2
  <2> QED BY <2>1 DEF Counted
<1>13. Moved(V, D, W, E, k, x)
  BY <1>5, <1>6 DEF Moved
<1> QED BY <1>10, <1>11, <1>12, <1>13 DEF Sound, E

\* A sequence without its oldest is what the queue may keep of it.
LEMMA KeepsRest ==
    ASSUME NEW a \in Seq(Messages), NEW b \in Seq(Messages)
    PROVE  /\ Fifo!Keeps(a \o b, b, TRUE)
           /\ Fifo!Keeps(b, b, FALSE)
<1>1. Len(a) \in Nat /\ Len(b) \in Nat /\ Len(a \o b) = Len(a) + Len(b) /\ a \o b \in Seq(Messages)
  BY ConcatProperties
<1>2. SubSeq(a \o b, Len(a) + 1, Len(a \o b)) = b
  <2> DEFINE s == a \o b
             r == SubSeq(s, Len(a) + 1, Len(s))
  <2>1. \A i \in 1..Len(s) : s[i] = IF i <= Len(a) THEN a[i] ELSE b[i - Len(a)]
    BY ConcatProperties
  <2>2. \A i \in Len(a) + 1..Len(s) : s[i] \in Messages
    BY <1>1
  <2>3. Len(a) + 1 \in Int /\ Len(s) \in Int
    BY <1>1
  <2> HIDE DEF s
  <2>4. /\ r \in Seq(Messages)
        /\ Len(r) = IF Len(a) + 1 <= Len(s) THEN Len(s) - (Len(a) + 1) + 1 ELSE 0
        /\ \A i \in 1..Len(s) - (Len(a) + 1) + 1 : r[i] = s[Len(a) + 1 + i - 1]
    BY <2>2, <2>3, SubSeqProperties
  <2> HIDE DEF r
  <2>5. Len(s) = Len(a) + Len(b)
    BY <1>1 DEF s
  <2>6. Len(r) = Len(b)
    BY <1>1, <2>4, <2>5
  <2>7. ASSUME NEW i \in 1..Len(b)
        PROVE  r[i] = b[i]
    <3>1. i \in 1..Len(s) - (Len(a) + 1) + 1 /\ Len(a) + 1 + i - 1 = Len(a) + i
      BY <1>1, <2>5
    <3>2. Len(a) + i \in 1..Len(s) /\ ~ (Len(a) + i <= Len(a)) /\ Len(a) + i - Len(a) = i
      BY <1>1, <2>5
    <3>3. r[i] = s[Len(a) + i]
      BY <2>4, <3>1
    <3> QED BY <2>1, <3>2, <3>3
  <2>8. r = b
    BY <2>4, <2>6, <2>7, SeqEqual
  <2> QED BY <2>8 DEF r, s
<1>3. Len(a) \in 0..Len(a \o b)
  BY <1>1
<1>4. SubSeq(b, 1, Len(b)) = b
  BY SubSeqFull
<1>5. 0 \in 0..Len(b) /\ 0 + 1 = 1
  BY <1>1
<1> QED BY <1>2, <1>3, <1>4, <1>5 DEF Fifo!Keeps

\* What is pending for u, when t pushes c.
HandedOn(u, t, c, old, new, allowed) ==
    IF u = t THEN Fifo!Keeps(old, new, allowed)
    ELSE Fifo!Keeps(Append(old, [origin |-> t, lits |-> c]), new, allowed)

\* What is pending for u that stood at y and stands behind the removed ones,
\* at v, when t pushes the clause c.
LEMMA PushKeeps ==
    ASSUME NEW V, NEW D, NEW W, NEW E, NEW t \in Threads, NEW c, NEW k \in E \ {0}, k \in Nat,
           NewClause(W, t, c, k), NEW x \in D, Moved(V, D, W, E, k, x),
           NEW u \in Threads, NEW P, PendingIn(V, D, u, P), NEW R, PendingIn(W, E, u, R),
           NEW y \in D, NEW v \in D, v <= x, v <= y
    PROVE  /\ HandedOn(u, t, c, P[y], R[v + k], TRUE)
           /\ v = y => HandedOn(u, t, c, P[y], R[v + k], FALSE)
<1>1. PICK a \in Seq(Messages) : P[y] = a \o P[v]
  <2>1. LeavesOut(P, y, v)
    BY PendingFurtherOn
  <2> QED BY <2>1 DEF LeavesOut
<1>2. R[v + k] = P[v] \o R[k]
  <2>1. Carried(D, x, k, P, R)
    BY PendingMoves
  <2> QED BY <2>1 DEF Carried
<1>3. P[v] \in Seq(Messages) /\ P[y] \in Seq(Messages)
  BY DEF PendingIn, Pending
<1>4. R[k] = Told(W, u, k)
  <2>1. PICK Q \in Index : Chain(W, Q, E) /\ W \in [Index -> Nat]
    BY DEF PendingIn
  <2>2. R[k] = Told(W, u, k) \o R[k - Width(W, k)] /\ R[0] = <<>>
    BY DEF PendingIn, Pending
  <2>3. k - Width(W, k) = 0
    BY DEF NewClause
  <2>4. Told(W, u, k) \in Seq(Messages)
    BY <2>1, PendingTypes
  <2> QED BY <2>2, <2>3, <2>4, ConcatEmptySeq
<1>5. PICK m : m = [origin |-> t, lits |-> c]
  OBVIOUS
<1>6. m \in Messages
  <2>1. PICK Q \in Index : Chain(W, Q, E) /\ W \in [Index -> Nat]
    BY DEF PendingIn
  <2>2. [origin |-> W[k - 3], lits |-> Clause(W, k)] \in Messages
    BY <2>1, PendingTypes
  <2> QED BY <1>5, <2>2 DEF NewClause
<1>7. R[k] = IF u = t THEN <<>> ELSE <<m>>
  BY <1>4, <1>5 DEF Told, NewClause
<1>8. v = y => P[y] = P[v]
  OBVIOUS
<1>9. CASE u = t
  <2>1. R[v + k] = P[v]
    BY <1>2, <1>3, <1>7, <1>9, ConcatEmptySeq
  <2>2. Fifo!Keeps(a \o P[v], P[v], TRUE) /\ Fifo!Keeps(P[v], P[v], FALSE)
    BY <1>3, KeepsRest
  <2> QED BY <1>1, <1>8, <1>9, <2>1, <2>2 DEF HandedOn
<1>10. CASE u # t
  <2> DEFINE b == P[v] \o <<m>>
  <2>1. R[v + k] = b
    BY <1>2, <1>7, <1>10
  <2>2. <<m>> \in Seq(Messages) /\ b \in Seq(Messages)
    BY <1>3, <1>6, MessagesConcat
  <2>3. Append(P[y], m) = P[y] \o <<m>>
    BY <1>3, <1>6, AppendIsConcat
  <2>4. P[y] \o <<m>> = a \o b
    <3>1. PICK g \in Seq(Messages), n \in Seq(Messages) : g = P[v] /\ n = <<m>>
      BY <1>3, <2>2
    <3>2. (a \o g) \o n = a \o (g \o n)
      BY MessagesConcat
    <3> QED BY <1>1, <3>1, <3>2
  <2>5. v = y => Append(P[y], m) = b
    BY <2>3
  <2> HIDE DEF b
  <2>6. Fifo!Keeps(a \o b, b, TRUE) /\ Fifo!Keeps(b, b, FALSE)
    BY <2>2, KeepsRest
  <2>7. /\ Fifo!Keeps(Append(P[y], m), R[v + k], TRUE)
        /\ v = y => Fifo!Keeps(Append(P[y], m), R[v + k], FALSE)
    BY <2>1, <2>3, <2>4, <2>5, <2>6
  <2> QED BY <1>5, <1>10, <2>7 DEF HandedOn
<1> QED BY <1>9, <1>10

\* What pushClause does: the ring of the integers before x is kept.
LEMMA PushReads ==
    ASSUME RingInv, NEW t \in Threads, NEW c \in Seq(Nat), Len(c) + 3 < maxsize, pushClause(t, c),
           NEW D, Sound(Cells(first, elems), queuesize, Stand, D), NEW k, k = Len(c) + 3
    PROVE  \E x \in D :
             /\ x + k < maxsize /\ (whenFullRemoveOlder \/ x = queuesize)
             /\ x > 0 /\ nbThreads > 1 => Cells(first, elems)[x - 2] # 0
             /\ first' = addIndex(first, k) /\ queuesize' = x + k /\ last' = At(first, x)
             /\ lastOfThread' = [u \in Threads |-> At(first, Capped(Stand, x)[u])]
             /\ elems' = [p \in Index |-> LET n == (p - first + maxsize) % maxsize
                                          IN  IF n < k THEN Block(t, c)[n + 1] ELSE elems[p]]
             /\ UNCHANGED <<whenFullRemoveOlder, received>>
<1>1. first \in Index /\ elems \in [Index -> Nat] /\ queuesize \in Index /\ Cells(first, elems) \in [Index -> Nat]
  BY InvParts
<1>2. Chain(Cells(first, elems), queuesize, D) /\ Stand \in [Threads -> D]
  BY DEF Sound
<1>3. ring = RingAt(first, queuesize, Stand)
  BY RingIs DEF RingInv
<1>4. \A d \in D : d \in Index /\ d <= queuesize
  BY <1>1, <1>2, InChain
<1>5. \A u \in Threads : Stand[u] <= queuesize
  BY <1>2, <1>4
<1>6. Len(c) \in Nat
  OBVIOUS
<1>7. PICK x \in D :
             /\ MakeRoom(RingAt(first, queuesize, Stand), c) = RingAt(first, x, Capped(Stand, x))
             /\ x + Len(c) + 3 < maxsize
             /\ Fits(RingAt(first, queuesize, Stand), c) => x = queuesize
             /\ x > 0 /\ x < queuesize => Cells(first, elems)[x - 2] # 0
  <2>1. \E x \in D : RoomIs(queuesize, Stand, c, x)
    BY <1>1, <1>2, <1>5, <1>6, MakeRoomIs
  <2> QED BY <2>1 DEF RoomIs
<1>8. Len(Block(t, c)) = k
  <2>1. PICK h \in Seq(Nat) : h = Header(t, c) /\ Len(h) = 3
    <3>1. PICK i \in Nat, j \in Nat, l \in Nat :
             i = Len(c) /\ j = (IF nbThreads > 1 THEN nbThreads - 1 ELSE 1) /\ l = t
      BY <1>6 DEF Threads
    <3>2. <<i, j, l>> \in Seq(Nat) /\ Len(<<i, j, l>>) = 3
      OBVIOUS
    <3> QED BY <3>1, <3>2 DEF Header
  <2>2. Len(h \o c) = Len(h) + Len(c)
    BY ConcatProperties
  <2> QED BY <1>6, <2>1, <2>2 DEF Block
<1>9. /\ whenFullRemoveOlder \/ Fits(ring, c)
      /\ first' = addIndex(first, k)
      /\ queuesize' = MakeRoom(ring, c).queuesize + k
      /\ last' = MakeRoom(ring, c).last
      /\ lastOfThread' = MakeRoom(ring, c).lastOfThread
      /\ elems' = [p \in Index |-> LET n == (p - first + maxsize) % maxsize
                                   IN  IF n < k THEN Block(t, c)[n + 1] ELSE elems[p]]
      /\ UNCHANGED <<whenFullRemoveOlder, received>>
  BY <1>8 DEF pushClause, Block
<1>10. /\ whenFullRemoveOlder \/ x = queuesize
       /\ queuesize' = x + k /\ last' = At(first, x)
       /\ lastOfThread' = [u \in Threads |-> At(first, Capped(Stand, x)[u])]
  BY <1>3, <1>7, <1>9 DEF RingAt
<1>11. x > 0 /\ nbThreads > 1 => Cells(first, elems)[x - 2] # 0
  <2>1. x = queuesize \/ x < queuesize
    BY <1>1, <1>4 DEF Index
  <2> QED BY <1>7, <2>1 DEF RingInv
<1>12. x + k < maxsize
  BY <1>4, <1>6, <1>7 DEF Index
<1> QED BY <1>9, <1>10, <1>11, <1>12

LEMMA PushStep ==
    ASSUME RingInv, NEW t \in Threads, NEW c \in Seq(Nat), Len(c) + 3 < maxsize, pushClause(t, c)
    PROVE  /\ RingInv'
           /\ \A u \in Threads :
                IF u = t THEN Fifo!Keeps(pendingOf(u), pendingOf(u)', whenFullRemoveOlder)
                ELSE Fifo!Keeps(Append(pendingOf(u), [origin |-> t, lits |-> c]), pendingOf(u)', whenFullRemoveOlder)
           /\ UNCHANGED <<whenFullRemoveOlder, received>>
<1> DEFINE V == Cells(first, elems)
           U == Stand
           q == queuesize
<1>1. /\ BufferTypeOK /\ last = At(first, q)
      /\ first \in Index /\ elems \in [Index -> Nat] /\ lastOfThread \in [Threads -> Index]
      /\ q \in Index /\ V \in [Index -> Nat]
  BY InvParts
<1>2. PICK D : Sound(V, q, U, D) /\ Chain(V, q, D) /\ U \in [Threads -> D]
  BY InvParts
<1>3. PICK k \in Index : k = Len(c) + 3
  BY DEF Index
<1>4. PICK x \in D :
             /\ x + k < maxsize /\ (whenFullRemoveOlder \/ x = q)
             /\ x > 0 /\ nbThreads > 1 => V[x - 2] # 0
             /\ first' = addIndex(first, k) /\ queuesize' = x + k /\ last' = At(first, x)
             /\ lastOfThread' = [u \in Threads |-> At(first, Capped(U, x)[u])]
             /\ elems' = [p \in Index |-> LET n == (p - first + maxsize) % maxsize
                                          IN  IF n < k THEN Block(t, c)[n + 1] ELSE elems[p]]
             /\ UNCHANGED <<whenFullRemoveOlder, received>>
  BY <1>2, <1>3, PushReads
<1>5. \A d \in D : d \in Index /\ d \in Nat /\ d <= q
  <2>1. \A d \in D : d \in Index /\ d <= q
    BY <1>1, <1>2, InChain
  <2> QED BY <2>1 DEF Index
<1>6. PICK W : W = Cells(first', elems')
  OBVIOUS
<1>7. PICK C : C = Capped(U, x)
  OBVIOUS
<1> HIDE DEF V, U, q
<1>8. C \in [Threads -> D] /\ \A u \in Threads : C[u] <= x /\ C[u] <= U[u]
  BY <1>1, <1>2, <1>7, CappedIs
<1>9. PushedCells(V, W, k, Block(t, c))
  <2>1. PushedCells(Cells(first, elems), Cells(addIndex(first, k), elems'), k, Block(t, c))
    BY <1>1, <1>4, CellsAfterPush
  <2> QED BY <1>4, <1>6, <2>1 DEF V
<1>10. /\ first' \in Index
       /\ \A m \in 0..maxsize - 1 - k : At(first', m + k) = At(first, m)
  BY <1>1, <1>4, AtAfterPush
<1>11. \A d \in D : d <= x => d \in 0..maxsize - 1 - k /\ At(first', d + k) = At(first, d) /\ d + k \in Index
  <2>1. ASSUME NEW d \in D, d <= x
        PROVE  d \in 0..maxsize - 1 - k /\ d + k \in Index
    BY <1>4, <1>5, <2>1 DEF Index
  <2> QED BY <1>10, <2>1
<1>12. last' = At(first', queuesize') /\ queuesize' \in Index /\ last' \in Index
  <2>1. x <= x
    BY <1>5
  <2>2. At(first', x + k) = At(first, x) /\ x + k \in Index
    BY <1>11, <2>1
  <2>3. At(first, x) \in Index
    BY <1>1, <1>5, AtInverse
  <2> QED BY <1>4, <2>2, <2>3
<1>13. /\ lastOfThread' \in [Threads -> Index]
       /\ Stand' = [u \in Threads |-> C[u] + k]
  <2>1. \A u \in Threads : C[u] \in D /\ C[u] <= x /\ C[u] \in Index
    BY <1>5, <1>8
  <2>2. ASSUME NEW u \in Threads
        PROVE  lastOfThread'[u] \in Index /\ At(first', lastOfThread'[u]) = C[u] + k
    <3>1. lastOfThread'[u] = At(first, C[u])
      BY <1>4, <1>7
    <3>2. At(first', C[u] + k) = At(first, C[u]) /\ C[u] + k \in Index
      BY <1>11, <2>1
    <3>3. At(first', At(first', C[u] + k)) = C[u] + k /\ At(first', C[u] + k) \in Index
      BY <1>10, <3>2, AtInverse
    <3> QED BY <3>1, <3>2, <3>3
  <2>3. lastOfThread' = [u \in Threads |-> lastOfThread'[u]]
    BY <1>4
  <2>4. Stand' = [u \in Threads |-> At(first', lastOfThread'[u])]
    BY DEF Stand
  <2> QED BY <2>2, <2>3, <2>4
<1>14. NewClause(W, t, c, k)
  BY <1>3, <1>9, PushedClause
<1>15. elems' \in [Index -> Nat]
  <2>1. ASSUME NEW m \in Index
        PROVE  elems'[At(first', m)] \in Nat
    <3>1. W[m] = elems'[At(first', m)]
      BY <1>6 DEF Cells
    <3>2. CASE m < k
      <4>1. m \in 0..k - 1
        BY <3>2 DEF Index
      <4> QED BY <1>14, <3>1, <4>1 DEF NewClause
    <3>3. CASE ~ (m < k)
      <4>1. PICK i \in 0..maxsize - 1 - k : i + k = m
        <5>1. m - k \in 0..maxsize - 1 - k /\ m - k + k = m
          BY <3>3 DEF Index
        <5> QED BY <5>1
      <4>2. i \in Index
        BY DEF Index
      <4>3. W[i + k] = V[i]
        BY <1>9 DEF PushedCells
      <4> QED BY <1>1, <3>1, <4>1, <4>2, <4>3
    <3> QED BY <3>2, <3>3
  <2>2. \A p \in Index : elems'[p] \in Nat
    <3>1. \A p \in Index : At(first', p) \in Index /\ At(first', At(first', p)) = p
      BY <1>10, AtInverse
    <3> QED BY <2>1, <3>1
  <2>3. elems' = [p \in Index |-> elems'[p]]
    BY <1>4
  <2> QED BY <2>2, <2>3
<1>16. BufferTypeOK'
  <2>1. queuesize' \in 0..maxsize-1
    BY <1>12 DEF Index
  <2> QED BY <1>1, <1>4, <1>10, <1>12, <1>13, <1>15, <2>1 DEF BufferTypeOK
<1>17. Sound(V, x, C, Upto(D, x))
  BY <1>1, <1>2, <1>7, CutIsSound
<1>18. Sound(W, x + k, Stand', Shifted(Upto(D, x), k)) /\ Moved(V, Upto(D, x), W, Shifted(Upto(D, x), k), k, x)
  BY <1>1, <1>3, <1>4, <1>5, <1>9, <1>13, <1>17, PushIsSound
<1> DEFINE E == Shifted(Upto(D, x), k)
<1>19. Moved(V, D, W, E, k, x)
  <2>1. \A d \in D : d <= x => d \in Upto(D, x)
    BY DEF Upto
  <2> HIDE DEF E
  <2>2. Moved(V, Upto(D, x), W, E, k, x)
    BY <1>18 DEF E
  <2> QED BY <2>1, <2>2 DEF Moved
<1> HIDE DEF E
<1>20. RingInv'
  <2>1. \E F : Sound(W, queuesize', Stand', F)
    BY <1>4, <1>18
  <2>2. ASSUME nbThreads > 1
        PROVE  W[x + k - 2] # 0
    <3>1. CASE x = 0
      <4>1. x + k - 2 = k - 2
        BY <3>1 DEF Index
      <4> QED BY <1>14, <2>2, <4>1 DEF NewClause
    <3>2. CASE x # 0
      <4>1. x > 0 /\ x >= 3 /\ x - 2 \in 0..maxsize - 1 - k /\ x - 2 + k = x + k - 2
        <5>1. x >= 3
          BY <1>1, <1>2, <3>2, InChain
        <5>2. x \in Nat /\ k \in Nat /\ maxsize \in Nat /\ x + k < maxsize
          BY <1>4, <1>5 DEF Index
        <5> QED BY <5>1, <5>2
      <4>2. W[x - 2 + k] = V[x - 2]
        BY <1>9, <4>1 DEF PushedCells
      <4> QED BY <1>4, <2>2, <4>1, <4>2
    <3> QED BY <3>1, <3>2
  <2>3. \E F : Sound(Cells(first', elems'), queuesize', Stand', F)
    BY <1>6, <2>1
  <2>4. nbThreads > 1 => Cells(first', elems')[queuesize' - 2] # 0
    <3>1. PICK z \in Nat : z = x + k /\ queuesize' = z
      BY <1>4, <1>5 DEF Index
    <3>2. nbThreads > 1 => W[z - 2] # 0
      <4>1. x \in Nat /\ k \in Nat /\ z - 2 = x + k - 2
        BY <1>5, <3>1 DEF Index
      <4> QED BY <2>2, <4>1
    <3> QED BY <1>6, <3>1, <3>2
  <2>5. last' = At(first', queuesize')
    BY <1>12
  <2> QED BY <1>16, <2>3, <2>4, <2>5 DEF RingInv
<1>21. ASSUME NEW u \in Threads
       PROVE  HandedOn(u, t, c, pendingOf(u), pendingOf(u)', whenFullRemoveOlder)
  <2>1. PICK P : Pending(V, D, u, P) /\ pendingOf(u) = P[U[u]]
    BY <1>1, <1>2, PendingNow DEF V, U, q
  <2>2. PendingIn(V, D, u, P)
    BY <1>1, <1>2, <2>1 DEF PendingIn
  <2>3. Chain(W, x + k, E) /\ Stand'[u] \in E /\ Stand'[u] = C[u] + k
    BY <1>13, <1>18 DEF Sound, E
  <2>4. PICK R : Pending(W, E, u, R) /\ pendingOf(u)' = R[C[u] + k]
    <3>1. Chain(Cells(first, elems), queuesize, E)'
      BY <1>4, <1>6, <2>3
    <3> QED BY <1>6, <1>16, <2>3, <3>1, PendingNext
  <2>5. PendingIn(W, E, u, R)
    <3>1. W \in [Index -> Nat]
      BY <1>6, <1>10, <1>15, CellsAreNat
    <3>2. x + k \in Index
      BY <1>4, <1>12
    <3> QED BY <2>3, <2>4, <3>1, <3>2 DEF PendingIn
  <2>6. C[u] \in D /\ U[u] \in D /\ C[u] <= x /\ C[u] <= U[u]
    BY <1>2, <1>8
  <2>7. whenFullRemoveOlder \/ C[u] = U[u]
    <3>1. ASSUME x = q
          PROVE  C[u] = U[u]
      <4>1. U[u] \in Nat /\ U[u] <= q /\ q \in Nat
        BY <1>2, <1>5, <3>1
      <4> QED BY <1>7, <3>1, <4>1 DEF Capped
    <3> QED BY <1>4, <3>1
  <2>8. k \in E \ {0} /\ k \in Nat
    <3>1. 0 \in Upto(D, x) /\ k \in Nat /\ k >= 3
      BY <1>2, <1>3, <1>5 DEF Upto, Chain, Index
    <3>2. 0 + k \in Shifted(Upto(D, x), k)
      BY <3>1 DEF Shifted
    <3> QED BY <3>1, <3>2 DEF E
  <2>9. whenFullRemoveOlder \in BOOLEAN
    BY <1>1 DEF BufferTypeOK
  <2>10. HandedOn(u, t, c, P[U[u]], R[C[u] + k], whenFullRemoveOlder)
    <3>1. PICK y \in D, v \in D : y = U[u] /\ v = C[u]
      BY <2>6
    <3>2. v <= x /\ v <= y /\ (whenFullRemoveOlder \/ v = y)
      BY <2>6, <2>7, <3>1
    <3>3. /\ HandedOn(u, t, c, P[y], R[v + k], TRUE)
          /\ v = y => HandedOn(u, t, c, P[y], R[v + k], FALSE)
      BY <1>14, <1>19, <2>2, <2>5, <2>8, <3>2, PushKeeps
    <3>4. HandedOn(u, t, c, P[y], R[v + k], whenFullRemoveOlder)
      BY <2>9, <3>2, <3>3
    <3> QED BY <3>1, <3>4
  <2> QED BY <2>1, <2>4, <2>10
<1> QED BY <1>4, <1>20, <1>21 DEF HandedOn

-----------------------------------------------------------------------------
LEMMA InitRing ==
    ASSUME BufferInit
    PROVE  RingInv /\ \A t \in Threads : pendingOf(t) = <<>>
<1> DEFINE V == Cells(first, elems)
<1>1. /\ first = 0 /\ first \in Index /\ maxsize - 1 \in Index /\ 0 \in Index
      /\ elems \in [Index -> Nat] /\ lastOfThread \in [Threads -> Index]
      /\ \A t \in Threads : lastOfThread[t] = maxsize - 1
      /\ queuesize = 0 /\ last = maxsize - 1
  BY DEF BufferInit, Index
<1>2. At(first, 0) = maxsize - 1
  BY <1>1, AtIs
<1>3. At(first, maxsize - 1) = 0
  BY <1>1, <1>2, AtInverse
<1>4. Stand = [t \in Threads |-> 0]
  BY <1>1, <1>3 DEF Stand
<1>5. BufferTypeOK
  BY <1>1 DEF BufferTypeOK, BufferInit, Index
<1>6. Chain(V, queuesize, {0})
  BY <1>1 DEF Chain
<1>7. Sound(V, queuesize, Stand, {0})
  BY <1>4, <1>6 DEF Sound, Counted
<1>8. RingInv
  BY <1>1, <1>2, <1>5, <1>7 DEF RingInv
<1>9. ASSUME NEW t \in Threads
      PROVE  pendingOf(t) = <<>>
  <2>1. Stand[t] \in {0}
    BY <1>4
  <2>2. PICK P : Pending(V, {0}, t, P) /\ pendingOf(t) = P[Stand[t]]
    BY <1>5, <1>6, <2>1, PendingNow
  <2> QED BY <2>1, <2>2 DEF Pending
<1> QED BY <1>8, <1>9

LEMMA RingStep ==
    ASSUME RingInv, [BufferNext]_bufferVars
    PROVE  RingInv' /\ [Fifo!Next]_(Fifo!vars)
<1> DEFINE pending == [u \in Threads |-> pendingOf(u)]
<1>1. pending' = [u \in Threads |-> pendingOf(u)']
  OBVIOUS
<1>2. ASSUME NEW t \in Threads, NEW c \in Learnt(t), pushClause(t, c)
      PROVE  RingInv' /\ [Fifo!Next]_(Fifo!vars)
  <2>1. c \in Seq(Nat) /\ Len(c) + 3 < maxsize
    BY LearntAssumption
  <2>2. /\ RingInv'
        /\ \A u \in Threads : HandedOn(u, t, c, pendingOf(u), pendingOf(u)', whenFullRemoveOlder)
        /\ UNCHANGED <<whenFullRemoveOlder, received>>
    BY <1>2, <2>1, PushStep DEF HandedOn
  <2>3. \A u \in Threads :
          IF u = t THEN Fifo!Keeps(pending[u], pending'[u], whenFullRemoveOlder)
          ELSE Fifo!Keeps(Append(pending[u], [origin |-> t, lits |-> c]), pending'[u], whenFullRemoveOlder)
    BY <1>1, <2>2 DEF HandedOn
  <2>4. Fifo!Push(t, c)
    BY <2>2, <2>3 DEF Fifo!Push
  <2>5. c \in UNION {Learnt(u) : u \in Threads}
    OBVIOUS
  <2>6. Fifo!Next
    BY <2>4, <2>5 DEF Fifo!Next
  <2> QED BY <2>2, <2>6
<1>3. ASSUME NEW t \in Threads, getNothing(t)
      PROVE  RingInv' /\ [Fifo!Next]_(Fifo!vars)
  <2>1. RingInv' /\ \A u \in Threads : pendingOf(u)' = pendingOf(u)
    BY <1>3, GetNothingStep
  <2>2. UNCHANGED <<whenFullRemoveOlder, received>>
    BY <1>3 DEF getNothing
  <2>3. pending' = pending
    BY <1>1, <2>1
  <2> QED BY <2>1, <2>2, <2>3 DEF Fifo!vars
<1>4. ASSUME NEW t \in Threads, getClause(t)
      PROVE  RingInv' /\ [Fifo!Next]_(Fifo!vars)
  <2>1. /\ RingInv'
        /\ pendingOf(t) # <<>>
        /\ received' = [received EXCEPT ![t] = <<Head(pendingOf(t))>>]
        /\ \A u \in Threads : pendingOf(u)' = IF u = t THEN Tail(pendingOf(t)) ELSE pendingOf(u)
        /\ UNCHANGED whenFullRemoveOlder
    BY <1>4, GetClauseStep
  <2>2. pending[t] = pendingOf(t) /\ pending' = [pending EXCEPT ![t] = Tail(pending[t])]
    BY <1>1, <2>1
  <2>3. Fifo!Get(t)
    BY <2>1, <2>2 DEF Fifo!Get
  <2>4. Fifo!Next
    BY <2>3 DEF Fifo!Next
  <2> QED BY <2>1, <2>4
<1>5. ASSUME UNCHANGED bufferVars
      PROVE  RingInv' /\ [Fifo!Next]_(Fifo!vars)
  <2>1. \A u \in Threads : pendingOf(u)' = pendingOf(u)
    BY <1>5, PendingOfIs DEF bufferVars
  <2>2. UNCHANGED <<whenFullRemoveOlder, received>>
    BY <1>5 DEF bufferVars
  <2>3. pending' = pending
    BY <1>1, <2>1
  <2>4. Stand' = Stand
    BY <1>5 DEF bufferVars, Stand
  <2>5. RingInv'
    BY <1>5, <2>4 DEF bufferVars, RingInv, BufferTypeOK
  <2> QED BY <2>2, <2>3, <2>5 DEF Fifo!vars
<1> QED BY <1>2, <1>3, <1>4, <1>5 DEF BufferNext

(***************************************************************************)
(* Type correctness of the ring (ClausesBuffer.h 60-76): every position is *)
(* within the array, and the integers in use are fewer than its cells.     *)
(***************************************************************************)
THEOREM BufferTypesAreRight == BufferSpec => []BufferTypeOK
<1>1. BufferInit => RingInv
  BY InitRing
<1>2. RingInv /\ [BufferNext]_bufferVars => RingInv'
  BY RingStep
<1>3. RingInv => BufferTypeOK
  BY DEF RingInv
<1> QED BY <1>1, <1>2, <1>3, PTL DEF BufferSpec

(***************************************************************************)
(* The room of a clause is given back as soon as every thread that has to  *)
(* see it has seen it (removeLastClause, ClausesBuffer.cc 124-147).        *)
(***************************************************************************)
THEOREM RoomIsAlwaysReclaimed == BufferSpec => []RoomIsReclaimed
<1>1. BufferInit => RingInv
  BY InitRing
<1>2. RingInv /\ [BufferNext]_bufferVars => RingInv'
  BY RingStep
<1>3. RingInv => RoomIsReclaimed
  BY InvImpliesReclaimed
<1> QED BY <1>1, <1>2, <1>3, PTL DEF BufferSpec

(***************************************************************************)
(* The ring of integers is a queue with a position for each thread         *)
(* (pushClause and getClause, ClausesBuffer.cc 149-235): whatever threads  *)
(* push and get, no thread misses a clause, gets one twice or gets its     *)
(* own, but that a full ring may give up the oldest.                       *)
(***************************************************************************)
THEOREM RingIsFifo == BufferSpec => ImplementsFifo
<1>1. BufferInit => RingInv /\ Fifo!Init
  <2> SUFFICES ASSUME BufferInit
               PROVE  RingInv /\ Fifo!Init
    OBVIOUS
  <2>1. RingInv /\ \A t \in Threads : pendingOf(t) = <<>>
    BY InitRing
  <2> QED BY <2>1 DEF Fifo!Init, BufferInit
<1>2. RingInv /\ [BufferNext]_bufferVars => RingInv' /\ [Fifo!Next]_(Fifo!vars)
  BY RingStep
<1> QED BY <1>1, <1>2, PTL DEF BufferSpec, ImplementsFifo, Fifo!Spec

-----------------------------------------------------------------------------
(***************************************************************************)
(* The threads and their answer.                                           *)
(***************************************************************************)
Places == {"created", "loop", "units", "search", "finish", "first", "copy", "signal", "ended"}

Types ==
    /\ models \subseteq Assignment
    /\ unitLit \in Seq(Lit)
    /\ nextUnit \in [Thread -> Nat]
    /\ pc \in [Thread -> Places]
    /\ trail \in [Thread -> SUBSET Lit]
    /\ status \in [Thread -> Statuses]
    /\ threadModel \in [Thread -> Assignment \cup {None}]
    /\ bjobFinished \in BOOLEAN

Implied(l) == \A m \in models : Holds(m, l)

\* What is shared, and what a thread that has not answered holds, follows.
Searching == {"created", "loop", "units", "search"}

UnitsImplied == \A n \in 1..Len(unitLit) : Implied(unitLit[n])

TrailImplied == \A t \in Thread : pc[t] \in Searching => \A l \in trail[t] : Implied(l)

RightStatus == IF models = {} THEN "l_False" ELSE "l_True"

\* The literals that make up the model m.
LitsOf(m) == {[var |-> v, sign |-> ~m[v]] : v \in Var}

AnswerRight ==
    \A t \in Thread : pc[t] \in {"finish", "first", "copy"} =>
        /\ status[t] = RightStatus
        /\ models # {} => \E m \in models : trail[t] = LitsOf(m)

\* Exactly one thread is first; what it leaves behind is complete at its end.
FirstOwnsJob ==
    /\ \A t \in Thread : pc[t] \in {"first", "copy"} => bjobFinished /\ jobFinishedBy = t
    /\ \A t \in Thread : pc[t] \in {"signal", "ended"} => bjobFinished
    /\ bjobFinished => jobFinishedBy \in Thread /\ pc[jobFinishedBy] \in {"first", "copy", "signal", "ended"}

JobComplete ==
    bjobFinished =>
        /\ pc[jobFinishedBy] \in {"copy", "signal", "ended"} => jobStatus = RightStatus
        /\ pc[jobFinishedBy] = "copy" => models # {}
        /\ pc[jobFinishedBy] \in {"signal", "ended"} /\ models # {} => threadModel[jobFinishedBy] \in models

Inv == Types /\ UnitsImplied /\ TrailImplied /\ AnswerRight /\ FirstOwnsJob /\ JobComplete /\ AnswerIsRight

\* As nothing a thread holds rules a model out, it searches all of them.
LEMMA ConsistentIsModels ==
    ASSUME TrailImplied, NEW t \in Thread, pc[t] = "search"
    PROVE  Consistent(t) = models
  BY DEF TrailImplied, Searching, Implied, Consistent

\* A model is copied literal by literal from the trail.
LEMMA CopiedModel ==
    ASSUME NEW m \in Assignment
    PROVE  [v \in Var |-> \E l \in LitsOf(m) : l.var = v /\ ~l.sign] = m
<1>1. ASSUME NEW v \in Var
      PROVE  (\E l \in LitsOf(m) : l.var = v /\ ~l.sign) = m[v]
  <2>1. m[v] \in BOOLEAN
    BY DEF Assignment
  <2>2. ASSUME m[v]
        PROVE  \E l \in LitsOf(m) : l.var = v /\ ~l.sign
    <3> DEFINE l == [var |-> v, sign |-> ~m[v]]
    <3>1. l \in LitsOf(m)
      BY DEF LitsOf
    <3>2. l.var = v /\ l.sign = ~m[v]
      OBVIOUS
    <3> HIDE DEF l
    <3>3. ~l.sign
      BY <2>2, <3>2, Zenon
    <3> QED BY <3>1, <3>2, <3>3
  <2>3. ASSUME NEW l \in LitsOf(m), l.var = v, ~l.sign
        PROVE  m[v]
    <3>1. PICK w \in Var : l = [var |-> w, sign |-> ~m[w]]
      BY DEF LitsOf
    <3>2. l.var = w /\ l.sign = ~m[w]
      BY <3>1
    <3>3. l.sign = ~m[v]
      BY <2>3, <3>2
    <3> QED BY <2>3, <3>3, Zenon
  <2> QED BY <2>1, <2>2, <2>3
<1> QED BY <1>1 DEF Assignment

\* The threads get literals from the list and put their own on it.
LEMMA ImportKeepsInv ==
    ASSUME Inv, NEW t \in Thread, ImportUnit(t)
    PROVE  Inv'
<1> USE DEF Inv, Types
<1> UNCHANGED <<models, unitLit, job, status, threadModel, mainPc, result, model>>
  BY DEF ImportUnit, main
<1>1. CASE nextUnit[t] < Len(unitLit)
  <2>1. PICK l : l = unitLit[nextUnit[t] + 1]
    OBVIOUS
  <2>2. l \in Lit /\ Implied(l)
    BY <1>1, <2>1 DEF UnitsImplied
  <2>3. trail' = [trail EXCEPT ![t] = Enqueued(t, l)] /\ UNCHANGED pc
    BY <1>1, <2>1 DEF ImportUnit
  <2>4. Enqueued(t, l) \in SUBSET Lit /\ \A k \in Enqueued(t, l) : k \in trail[t] \/ k = l
    BY <2>2 DEF Enqueued
  <2>5. Types'
    BY <1>1, <2>3, <2>4 DEF ImportUnit, NextTaken, job
  <2>6. TrailImplied'
    BY <2>2, <2>3, <2>4 DEF TrailImplied, Implied
  <2>7. pc[t] = "units"
    BY DEF ImportUnit
  <2>8. AnswerRight'
    BY <2>3, <2>7 DEF AnswerRight, RightStatus
  <2> QED BY <2>3, <2>5, <2>6, <2>8
         DEF UnitsImplied, Implied, FirstOwnsJob, JobComplete, RightStatus, AnswerIsRight, job
<1>2. CASE ~(nextUnit[t] < Len(unitLit))
  <2>1. pc[t] = "units" /\ pc' = [pc EXCEPT ![t] = "search"] /\ UNCHANGED <<nextUnit, trail>>
    BY <1>2 DEF ImportUnit
  <2> QED BY <2>1 DEF Places, UnitsImplied, TrailImplied, Searching, Implied, AnswerRight, FirstOwnsJob,
                      JobComplete, RightStatus, AnswerIsRight, job
<1> QED BY <1>1, <1>2

LEMMA LearnKeepsInv ==
    ASSUME Inv, NEW t \in Thread, LearnUnit(t)
    PROVE  Inv'
<1> USE DEF Inv, Types
<1> UNCHANGED <<models, nextUnit, job, status, threadModel, mainPc, result, model>>
  BY DEF LearnUnit, main
<1>1. PICK l \in Lit :
        /\ \A m \in Consistent(t) : Holds(m, l)
        /\ trail' = [trail EXCEPT ![t] = @ \union {l}]
        /\ unitLit' = Listed(l)
  BY DEF LearnUnit
<1>2. pc[t] = "search" /\ pc' = [pc EXCEPT ![t] = "units"]
  BY DEF LearnUnit
<1>3. Implied(l)
  BY <1>1, <1>2, ConsistentIsModels DEF Implied
<1>4. unitLit' = unitLit \/ unitLit' = Append(unitLit, l)
  BY <1>1 DEF Listed
<1>5. Types'
  <2>1. unitLit' \in Seq(Lit)
    <3>1. Append(unitLit, l) \in Seq(Lit)
      BY AppendProperties
    <3> QED BY <1>4, <3>1
  <2>2. trail' \in [Thread -> SUBSET Lit]
    BY <1>1
  <2> QED BY <1>2, <2>1, <2>2 DEF Places, job
<1>6. UnitsImplied'
  <2>1. ASSUME NEW n \in 1..Len(unitLit')
        PROVE  Implied(unitLit'[n])
    <3>1. \A k \in 1..Len(unitLit) : Implied(unitLit[k])
      BY DEF UnitsImplied
    <3>2. CASE unitLit' = unitLit
      BY <3>1, <3>2
    <3>3. CASE unitLit' = Append(unitLit, l)
      <4>1. Len(unitLit') = Len(unitLit) + 1
        BY <3>3, AppendProperties
      <4>2. n \in 1..Len(unitLit) \/ n = Len(unitLit) + 1
        BY <4>1
      <4> QED BY <1>3, <3>1, <3>3, <4>2, AppendProperties
    <3> QED BY <1>4, <3>2, <3>3
  <2> QED BY <2>1 DEF UnitsImplied, Implied
<1>7. TrailImplied'
  BY <1>1, <1>2, <1>3 DEF TrailImplied, Searching, Implied
<1>8. AnswerRight'
  BY <1>1, <1>2 DEF AnswerRight, RightStatus
<1> QED BY <1>2, <1>5, <1>6, <1>7, <1>8
       DEF FirstOwnsJob, JobComplete, RightStatus, AnswerIsRight, job

\* Its search has looked at all models: its answer is the right one.
LEMMA AnswerKeepsInv ==
    ASSUME Inv, NEW t \in Thread, Answer(t)
    PROVE  Inv'
<1> USE DEF Inv, Types
<1> UNCHANGED <<models, shared, job, threadModel, mainPc, result, model>>
  BY DEF Answer, main
<1>1. pc[t] = "search" /\ pc' = [pc EXCEPT ![t] = "finish"] /\ Consistent(t) = models
  BY ConsistentIsModels DEF Answer
<1>2. CASE models = {}
  <2>1. status' = [status EXCEPT ![t] = "l_False"] /\ UNCHANGED trail
    BY <1>1, <1>2 DEF Answer
  <2> QED BY <1>1, <1>2, <2>1
         DEF Places, Statuses, UnitsImplied, TrailImplied, Searching, Implied, AnswerRight, FirstOwnsJob,
             JobComplete, RightStatus, AnswerIsRight, job, shared
<1>3. CASE models # {}
  <2>1. PICK m \in models : /\ trail' = [trail EXCEPT ![t] = LitsOf(m)]
                            /\ status' = [status EXCEPT ![t] = "l_True"]
    BY <1>1, <1>3 DEF Answer, LitsOf
  <2>2. LitsOf(m) \in SUBSET Lit
    <3>1. \A v \in Var : m[v] \in BOOLEAN
      BY DEF Assignment
    <3>2. \A v \in Var : [var |-> v, sign |-> ~m[v]] \in Lit
      BY <3>1 DEF Lit
    <3> QED BY <3>2 DEF LitsOf
  <2>3. Types'
    BY <1>1, <2>1, <2>2 DEF Places, Statuses, job, shared
  <2>4. TrailImplied'
    BY <1>1, <2>1 DEF TrailImplied, Searching, Implied
  <2>5. AnswerRight'
    BY <1>1, <1>3, <2>1 DEF AnswerRight, RightStatus
  <2> QED BY <1>1, <2>3, <2>4, <2>5
         DEF UnitsImplied, Implied, FirstOwnsJob, JobComplete, RightStatus, AnswerIsRight, job, shared
<1> QED BY <1>2, <1>3

\* Whether a thread is first is settled under the mutex; what follows is not.
LEMMA FinishKeepsInv ==
    ASSUME Inv, NEW t \in Thread, IFinished(t) \/ SetStatus(t) \/ CopyModel(t)
    PROVE  Inv'
<1> USE DEF Inv, Types
<1>1. CASE IFinished(t)
  <2>1. UNCHANGED <<models, shared, own, mainPc, result, model, jobStatus, RightStatus>>
    BY <1>1 DEF IFinished, main, job, RightStatus
  <2>2. /\ pc[t] = "finish"
        /\ \/ bjobFinished /\ pc' = [pc EXCEPT ![t] = "signal"] /\ UNCHANGED <<bjobFinished, jobFinishedBy>>
           \/ ~bjobFinished /\ pc' = [pc EXCEPT ![t] = "first"] /\ bjobFinished' /\ jobFinishedBy' = t
    BY <1>1 DEF IFinished, job
  <2>3. Types'
    BY <2>1, <2>2 DEF Places, shared, own
  <2>4. UnitsImplied' /\ TrailImplied' /\ AnswerIsRight'
    BY <2>1, <2>2 DEF UnitsImplied, TrailImplied, Searching, Implied, AnswerIsRight, shared, own
  <2>5. AnswerRight'
    BY <2>1, <2>2 DEF AnswerRight, own
  <2>6. FirstOwnsJob' /\ JobComplete'
    BY <2>1, <2>2 DEF FirstOwnsJob, JobComplete, own
  <2> QED BY <2>3, <2>4, <2>5, <2>6
<1>2. CASE SetStatus(t)
  <2>1. /\ pc[t] = "first" /\ bjobFinished /\ jobFinishedBy = t /\ status[t] = RightStatus
        /\ jobStatus' = RightStatus
        /\ pc' = [pc EXCEPT ![t] = IF models # {} THEN "copy" ELSE "signal"]
    BY <1>2 DEF SetStatus, AnswerRight, FirstOwnsJob, RightStatus
  <2>2. UNCHANGED <<models, shared, bjobFinished, jobFinishedBy, own, mainPc, result, model, RightStatus>>
    BY <1>2 DEF SetStatus, main, RightStatus
  <2>3. Types'
    BY <2>1, <2>2 DEF Places, shared, own
  <2>4. UnitsImplied' /\ TrailImplied' /\ AnswerIsRight'
    BY <2>1, <2>2 DEF UnitsImplied, TrailImplied, Searching, Implied, AnswerIsRight, shared, own
  <2>5. AnswerRight'
    BY <2>1, <2>2 DEF AnswerRight, own
  <2>6. FirstOwnsJob' /\ JobComplete'
    BY <2>1, <2>2 DEF FirstOwnsJob, JobComplete
  <2> QED BY <2>3, <2>4, <2>5, <2>6
<1>3. CASE CopyModel(t)
  <2>1. models # {} /\ jobFinishedBy = t
    BY <1>3 DEF CopyModel, FirstOwnsJob, JobComplete
  <2>2. PICK m \in models : trail[t] = LitsOf(m)
    BY <1>3, <2>1 DEF CopyModel, AnswerRight
  <2>3. threadModel' = [threadModel EXCEPT ![t] = m]
    <3>1. m \in Assignment
      OBVIOUS
    <3> DEFINE copied == [v \in Var |-> \E l \in trail[t] : l.var = v /\ ~l.sign]
    <3>2. copied = m
      BY <2>2, <3>1, CopiedModel
    <3>3. threadModel' = [threadModel EXCEPT ![t] = copied]
      BY <1>3 DEF CopyModel
    <3> HIDE DEF copied
    <3> QED BY <3>2, <3>3
  <2> QED BY <1>3, <2>1, <2>3
         DEF CopyModel, Places, UnitsImplied, TrailImplied, Searching, Implied, AnswerRight, FirstOwnsJob,
             JobComplete, RightStatus, AnswerIsRight, job, shared, main
<1> QED BY <1>1, <1>2, <1>3

\* Steps that only move a thread or main on.
LEMMA MoveKeepsInv ==
    ASSUME Inv, NEW t \in Thread, Begin(t) \/ Restart(t) \/ SignalFinished(t)
    PROVE  Inv'
<1> USE DEF Inv, Types, Places, UnitsImplied, TrailImplied, Searching, Implied, AnswerRight, FirstOwnsJob,
            JobComplete, RightStatus, AnswerIsRight, job, shared, own, main
<1>1. CASE Begin(t)
  BY <1>1 DEF Begin
<1>2. CASE Restart(t)
  BY <1>2 DEF Restart
<1>3. CASE SignalFinished(t)
  BY <1>3 DEF SignalFinished
<1> QED BY <1>1, <1>2, <1>3

LEMMA MainKeepsInv ==
    ASSUME Inv, MainNext
    PROVE  Inv'
<1> USE DEF Inv, Types, Places, UnitsImplied, TrailImplied, Searching, Implied, AnswerRight, FirstOwnsJob,
            JobComplete, RightStatus, AnswerIsRight, job, shared, own
<1>1. CASE Launch
  BY <1>1 DEF Launch
<1>2. CASE Wait \/ TimeOut \/ WakeUp
  <2>1. UNCHANGED <<models, shared, job, own, pc, result, model>> /\ mainPc' # "returned"
    BY <1>2 DEF Wait, TimeOut, WakeUp
  <2> QED BY <2>1
<1>3. CASE Result
  <2>1. 0 \in Thread
    BY SolversAssumption DEF Thread
  <2>2. bjobFinished /\ jobFinishedBy \in Thread /\ pc[jobFinishedBy] = "ended"
    BY <1>3, <2>1 DEF Result, AllJoined
  <2> QED BY <1>3, <2>2 DEF Result
<1> QED BY <1>1, <1>2, <1>3 DEF MainNext

LEMMA InitInv ==
    ASSUME SyrupInit \/ JobIdle
    PROVE  Inv
<1>0. /\ models \subseteq Assignment /\ unitLit = <<>> /\ bjobFinished = FALSE
      /\ nextUnit = [t \in Thread |-> 0] /\ trail = [t \in Thread |-> {}]
      /\ status = [t \in Thread |-> "l_Undef"] /\ threadModel = [t \in Thread |-> None]
      /\ pc = [t \in Thread |-> "created"] /\ mainPc # "returned"
  BY DEF SyrupInit, JobIdle
<1>1. Types
  <2>1. <<>> \in Seq(Lit)
    OBVIOUS
  <2>2. models \subseteq Assignment /\ unitLit \in Seq(Lit) /\ bjobFinished \in BOOLEAN
    BY <1>0, <2>1
  <2>3. /\ nextUnit \in [Thread -> Nat] /\ pc \in [Thread -> Places]
        /\ trail \in [Thread -> SUBSET Lit] /\ status \in [Thread -> Statuses]
        /\ threadModel \in [Thread -> Assignment \cup {None}]
    BY <1>0 DEF Places, Statuses
  <2> QED BY <2>2, <2>3 DEF Types
<1>2. UnitsImplied /\ TrailImplied
  BY <1>0 DEF UnitsImplied, TrailImplied
<1>3. AnswerRight /\ FirstOwnsJob /\ JobComplete /\ AnswerIsRight
  BY <1>0 DEF AnswerRight, FirstOwnsJob, JobComplete, AnswerIsRight
<1> QED BY <1>1, <1>2, <1>3 DEF Inv

LEMMA StepInv ==
    ASSUME Inv, [SyrupNext]_jobVars
    PROVE  Inv'
<1>1. ASSUME NEW t \in Thread, ThreadNext(t) PROVE Inv'
  BY <1>1, ImportKeepsInv, LearnKeepsInv, AnswerKeepsInv, FinishKeepsInv, MoveKeepsInv DEF ThreadNext
<1>2. CASE UNCHANGED jobVars
  BY <1>2 DEF Inv, Types, UnitsImplied, TrailImplied, Implied, AnswerRight, FirstOwnsJob, JobComplete,
              RightStatus, AnswerIsRight, jobVars, job, shared, own, main
<1> QED BY <1>1, <1>2, MainKeepsInv DEF SyrupNext

(***************************************************************************)
(* Whatever the threads tell each other and whichever of them is first:    *)
(* when MultiSolvers::solve returns, its result is the answer for the      *)
(* formula and its model is a model of it (MultiSolvers.cc 655-689).       *)
(***************************************************************************)
THEOREM SpecAnswerIsRight == SyrupSpec => []AnswerIsRight
<1>1. SyrupInit => Inv
  BY InitInv
<1>2. Inv /\ [SyrupNext]_jobVars => Inv'
  BY StepInv
<1>3. Inv => AnswerIsRight
  BY DEF Inv
<1> QED BY <1>1, <1>2, <1>3, PTL DEF SyrupSpec

-----------------------------------------------------------------------------
(***************************************************************************)
(* The types.  A variable is listed once, which bounds the list, and a     *)
(* thread holds one literal of a variable at most.                         *)
(***************************************************************************)

ListedVars == {v \in Var : isUnary[v]}

UnitsListed ==
    /\ isUnary = [v \in Var |-> \E n \in DOMAIN unitLit : unitLit[n].var = v]
    /\ Cardinality(ListedVars) = Len(unitLit)
    /\ \A t \in Thread : nextUnit[t] \in 0..Len(unitLit)

OneLiteral(L) == \A l1, l2 \in L : l1.var = l2.var => l1 = l2

Trails == \A t \in Thread : OneLiteral(trail[t])

JobTypes ==
    /\ jobFinishedBy \in Thread \cup {None} /\ (jobFinishedBy = None) = ~bjobFinished
    /\ jobStatus \in Statuses /\ result \in Statuses
    /\ model \in Assignment \cup {None}

TypesInv == Inv /\ UnitsListed /\ Trails /\ JobTypes

LEMMA TypesFollow ==
    ASSUME TypesInv
    PROVE  SyrupTypeOK
<1>1. ListedVars \subseteq Var
  BY DEF ListedVars
<1>2. Cardinality(ListedVars) <= Cardinality(Var)
  BY <1>1, VarAssumption, FS_Subset
<1>3. Len(unitLit) <= Cardinality(Var)
  BY <1>2 DEF TypesInv, UnitsListed
<1> QED BY <1>3 DEF TypesInv, Inv, Types, UnitsListed, Trails, OneLiteral, JobTypes, SyrupTypeOK

LEMMA InitTypes ==
    ASSUME SyrupInit \/ JobIdle
    PROVE  TypesInv
<1>0. /\ unitLit = <<>> /\ isUnary = [v \in Var |-> FALSE]
      /\ nextUnit = [t \in Thread |-> 0] /\ trail = [t \in Thread |-> {}]
      /\ bjobFinished = FALSE /\ jobFinishedBy = None /\ jobStatus = "l_Undef"
      /\ result = "l_Undef" /\ model = None
  BY DEF SyrupInit, JobIdle
<1>1. UnitsListed
  <2>1. ListedVars = {}
    BY <1>0 DEF ListedVars
  <2>2. Len(unitLit) = 0 /\ DOMAIN unitLit = {} /\ Cardinality(ListedVars) = 0
    BY <1>0, <2>1, FS_EmptySet
  <2> QED BY <1>0, <2>2 DEF UnitsListed
<1>2. Trails
  BY <1>0 DEF Trails, OneLiteral
<1>3. JobTypes
  BY <1>0 DEF JobTypes, Statuses
<1> QED BY <1>1, <1>2, <1>3, InitInv DEF TypesInv

\* The list of the shared literals.
LEMMA UnitsStayListed ==
    ASSUME TypesInv, [SyrupNext]_jobVars
    PROVE  UnitsListed'
<1>0. unitLit \in Seq(Lit) /\ Len(unitLit) \in Nat /\ nextUnit \in [Thread -> Nat]
  BY DEF TypesInv, Inv, Types
<1>1. CASE UNCHANGED shared
  BY <1>1 DEF TypesInv, UnitsListed, ListedVars, shared
<1>2. ASSUME NEW t \in Thread, ImportUnit(t)
      PROVE  UnitsListed'
  <2>1. UNCHANGED <<unitLit, isUnary>>
    BY <1>2 DEF ImportUnit
  <2>2. \/ nextUnit' = nextUnit
        \/ nextUnit[t] < Len(unitLit) /\ nextUnit' = [nextUnit EXCEPT ![t] = nextUnit[t] + 1]
    BY <1>2 DEF ImportUnit, NextTaken
  <2>3. \A u \in Thread : nextUnit'[u] \in 0..Len(unitLit)
    BY <1>0, <2>2 DEF TypesInv, UnitsListed
  <2> QED BY <2>1, <2>3 DEF TypesInv, UnitsListed, ListedVars
<1>3. ASSUME NEW t \in Thread, LearnUnit(t)
      PROVE  UnitsListed'
  <2>1. PICK l \in Lit : unitLit' = Listed(l) /\ isUnary' = [isUnary EXCEPT ![l.var] = TRUE]
    <3>1. \E l \in Lit : /\ ~Assigned(t, l.var)
                         /\ \A m \in Consistent(t) : Holds(m, l)
                         /\ trail' = [trail EXCEPT ![t] = @ \union {l}]
                         /\ unitLit' = Listed(l)
                         /\ isUnary' = [isUnary EXCEPT ![l.var] = TRUE]
      BY <1>3, Zenon DEF LearnUnit
    <3> QED BY <3>1, Zenon
  <2>2. nextUnit' = nextUnit
    BY <1>3 DEF LearnUnit
  <2>3. l.var \in Var
    BY DEF Lit
  <2>4. /\ isUnary = [v \in Var |-> \E n \in DOMAIN unitLit : unitLit[n].var = v]
        /\ Cardinality(ListedVars) = Len(unitLit)
        /\ \A u \in Thread : nextUnit[u] \in 0..Len(unitLit)
    BY DEF TypesInv, UnitsListed
  <2>5. ListedVars' = ListedVars \cup {l.var}
    BY <2>1, <2>3, <2>4 DEF ListedVars
  <2>6. IsFiniteSet(ListedVars)
    <3>1. ListedVars \subseteq Var
      BY DEF ListedVars
    <3> QED BY <3>1, VarAssumption, FS_Subset
  <2>7. CASE isUnary[l.var]
    <3>1. unitLit' = unitLit
      BY <2>1, <2>7 DEF Listed
    <3>2. isUnary' = isUnary
      BY <2>1, <2>3, <2>4, <2>7
    <3> QED BY <2>2, <3>1, <3>2 DEF TypesInv, UnitsListed, ListedVars
  <2>8. CASE ~ isUnary[l.var]
    <3>1. unitLit' = Append(unitLit, l)
      BY <2>1, <2>8 DEF Listed
    <3>2. /\ Len(unitLit') = Len(unitLit) + 1 /\ DOMAIN unitLit' = 1..Len(unitLit) + 1
          /\ \A n \in 1..Len(unitLit) : unitLit'[n] = unitLit[n]
          /\ unitLit'[Len(unitLit) + 1] = l
      BY <1>0, <3>1, AppendProperties
    <3>3. DOMAIN unitLit = 1..Len(unitLit)
      BY <1>0
    <3>4. ASSUME NEW v \in Var
          PROVE  isUnary'[v] = \E n \in DOMAIN unitLit' : unitLit'[n].var = v
      <4>1. (\E n \in DOMAIN unitLit' : unitLit'[n].var = v)
              <=> (\E n \in DOMAIN unitLit : unitLit[n].var = v) \/ l.var = v
        <5>1. \A n \in 1..Len(unitLit) + 1 : n \in 1..Len(unitLit) \/ n = Len(unitLit) + 1
          BY <1>0
        <5>2. Len(unitLit) + 1 \in 1..Len(unitLit) + 1 /\ \A n \in 1..Len(unitLit) : n \in 1..Len(unitLit) + 1
          BY <1>0
        <5> QED BY <3>2, <3>3, <5>1, <5>2
      <4>2. isUnary[v] = \E n \in DOMAIN unitLit : unitLit[n].var = v
        BY <2>4
      <4>3. isUnary'[v] = IF v = l.var THEN TRUE ELSE isUnary[v]
        BY <2>1, <2>3, <2>4
      <4> QED BY <4>1, <4>2, <4>3
    <3>5. isUnary' = [v \in Var |-> isUnary'[v]]
      BY <2>1, <2>4
    <3>6. Cardinality(ListedVars') = Len(unitLit')
      <4>1. l.var \notin ListedVars
        BY <2>8 DEF ListedVars
      <4>2. \A L : IsFiniteSet(L) /\ l.var \notin L => Cardinality(L \cup {l.var}) = Cardinality(L) + 1
        BY FS_AddElement
      <4>3. Cardinality(ListedVars \cup {l.var}) = Cardinality(ListedVars) + 1
        BY <2>6, <4>1, <4>2
      <4>4. Cardinality(ListedVars') = Cardinality(ListedVars \cup {l.var})
        BY <2>5
      <4> QED BY <2>4, <3>2, <4>3, <4>4
    <3>7. \A u \in Thread : nextUnit'[u] \in 0..Len(unitLit')
      BY <1>0, <2>2, <2>4, <3>2
    <3> QED BY <3>4, <3>5, <3>6, <3>7 DEF UnitsListed
  <2> QED BY <2>7, <2>8
<1>4. ASSUME NEW t \in Thread, ThreadNext(t)
      PROVE  UNCHANGED shared \/ ImportUnit(t) \/ LearnUnit(t)
  BY <1>4 DEF ThreadNext, Begin, Restart, Answer, IFinished, SetStatus, CopyModel, SignalFinished
<1>5. MainNext \/ UNCHANGED jobVars => UNCHANGED shared
  BY DEF MainNext, Launch, Wait, TimeOut, WakeUp, Result, jobVars
<1> QED BY <1>1, <1>2, <1>3, <1>4, <1>5 DEF SyrupNext

\* A literal goes on a trail only if its variable has none there; an answer is
\* one literal of each variable.
LEMMA TrailsStay ==
    ASSUME TypesInv, [SyrupNext]_jobVars
    PROVE  Trails'
<1>0. trail \in [Thread -> SUBSET Lit] /\ \A u \in Thread : OneLiteral(trail[u])
  BY DEF TypesInv, Inv, Types, Trails
<1>1. CASE UNCHANGED trail
  BY <1>0, <1>1 DEF Trails
<1>2. ASSUME NEW t \in Thread, NEW L, OneLiteral(L), trail' = [trail EXCEPT ![t] = L]
      PROVE  Trails'
  <2>1. \A u \in Thread : trail'[u] = IF u = t THEN L ELSE trail[u]
    BY <1>0, <1>2
  <2>2. \A u \in Thread : OneLiteral(trail'[u])
    BY <1>0, <1>2, <2>1
  <2> QED BY <2>2 DEF Trails
<1>3. ASSUME NEW t \in Thread, NEW l, ~Assigned(t, l.var)
      PROVE  OneLiteral(trail[t] \cup {l})
  BY <1>0, <1>3 DEF Assigned, OneLiteral
<1>4. ASSUME NEW t \in Thread, ImportUnit(t)
      PROVE  Trails'
  <2>1. CASE ~(nextUnit[t] < Len(unitLit))
    BY <1>1, <1>4, <2>1 DEF ImportUnit
  <2>2. CASE nextUnit[t] < Len(unitLit)
    <3>1. PICK l : l = unitLit[nextUnit[t] + 1]
      OBVIOUS
    <3>2. trail' = [trail EXCEPT ![t] = Enqueued(t, l)]
      BY <1>4, <2>2, <3>1 DEF ImportUnit
    <3>3. OneLiteral(Enqueued(t, l))
      BY <1>0, <1>3 DEF Enqueued
    <3> QED BY <1>2, <3>2, <3>3
  <2> QED BY <2>1, <2>2
<1>5. ASSUME NEW t \in Thread, LearnUnit(t)
      PROVE  Trails'
  <2>1. PICK l \in Lit : ~Assigned(t, l.var) /\ trail' = [trail EXCEPT ![t] = @ \union {l}]
    BY <1>5 DEF LearnUnit
  <2>2. OneLiteral(trail[t] \cup {l})
    BY <1>3, <2>1
  <2>3. trail' = [trail EXCEPT ![t] = trail[t] \cup {l}]
    BY <2>1
  <2> QED BY <1>2, <2>2, <2>3
<1>6. ASSUME NEW t \in Thread, Answer(t)
      PROVE  Trails'
  <2>1. CASE UNCHANGED trail
    BY <1>1, <2>1
  <2>2. ASSUME NEW m, trail' = [trail EXCEPT ![t] = LitsOf(m)]
        PROVE  Trails'
    <3>1. \A l \in LitsOf(m) : l = [var |-> l.var, sign |-> ~m[l.var]]
      BY DEF LitsOf
    <3>2. OneLiteral(LitsOf(m))
      <4>1. ASSUME NEW k \in LitsOf(m), NEW l \in LitsOf(m), k.var = l.var
            PROVE  k = l
        BY <3>1, <4>1
      <4> QED BY <4>1 DEF OneLiteral
    <3> QED BY <1>2, <2>2, <3>2
  <2>3. UNCHANGED trail \/ \E m \in Consistent(t) : trail' = [trail EXCEPT ![t] = LitsOf(m)]
    BY <1>6 DEF Answer, LitsOf
  <2> QED BY <2>1, <2>2, <2>3
<1>7. ASSUME NEW t \in Thread, ThreadNext(t)
      PROVE  UNCHANGED trail \/ ImportUnit(t) \/ LearnUnit(t) \/ Answer(t)
  BY <1>7 DEF ThreadNext, Begin, Restart, IFinished, SetStatus, CopyModel, SignalFinished, own
<1>8. MainNext \/ UNCHANGED jobVars => UNCHANGED trail
  BY DEF MainNext, Launch, Wait, TimeOut, WakeUp, Result, jobVars, own
<1> QED BY <1>1, <1>4, <1>5, <1>6, <1>7, <1>8 DEF SyrupNext

\* Who was first, and what main returns.
LEMMA JobTypesStay ==
    ASSUME TypesInv, [SyrupNext]_jobVars
    PROVE  JobTypes'
<1>0. /\ JobTypes /\ FirstOwnsJob /\ bjobFinished \in BOOLEAN
      /\ status \in [Thread -> Statuses] /\ threadModel \in [Thread -> Assignment \cup {None}]
  BY DEF TypesInv, Inv, Types
<1>1. CASE UNCHANGED <<job, result, model>>
  BY <1>0, <1>1 DEF JobTypes, job
<1>2. ASSUME NEW t \in Thread, IFinished(t) \/ SetStatus(t)
      PROVE  JobTypes'
  <2>1. t # None /\ status[t] \in Statuses
    BY <1>0, NoneAssumption
  <2>2. CASE IFinished(t)
    <3>1. UNCHANGED <<jobStatus, result, model>>
      BY <2>2 DEF IFinished, job, main
    <3>2. UNCHANGED <<bjobFinished, jobFinishedBy>> \/ (bjobFinished' = TRUE /\ jobFinishedBy' = t)
      BY <2>2 DEF IFinished, job
    <3> QED BY <1>0, <2>1, <3>1, <3>2 DEF JobTypes
  <2>3. CASE SetStatus(t)
    <3>1. UNCHANGED <<bjobFinished, jobFinishedBy, result, model>> /\ jobStatus' = status[t]
      BY <2>3 DEF SetStatus, main
    <3> QED BY <1>0, <2>1, <3>1 DEF JobTypes
  <2> QED BY <1>2, <2>2, <2>3
<1>3. CASE Result
  <2>1. 0 \in Thread
    BY SolversAssumption DEF Thread
  <2>2. jobFinishedBy \in Thread
    BY <1>0, <1>3, <2>1 DEF Result, AllJoined, FirstOwnsJob
  <2>3. model' \in Assignment \cup {None}
    BY <1>0, <1>3, <2>2 DEF Result
  <2>4. UNCHANGED job /\ result' = jobStatus
    BY <1>3 DEF Result
  <2> QED BY <1>0, <2>3, <2>4 DEF JobTypes, job
<1>4. ASSUME NEW t \in Thread, ThreadNext(t)
      PROVE  UNCHANGED <<job, result, model>> \/ IFinished(t) \/ SetStatus(t)
  BY <1>4 DEF ThreadNext, Begin, ImportUnit, LearnUnit, Restart, Answer, CopyModel, SignalFinished, main
<1>5. MainNext \/ UNCHANGED jobVars => UNCHANGED <<job, result, model>> \/ Result
  BY DEF MainNext, Launch, Wait, TimeOut, WakeUp, jobVars, main
<1> QED BY <1>1, <1>2, <1>3, <1>4, <1>5 DEF SyrupNext

LEMMA TypesStep ==
    ASSUME TypesInv, [SyrupNext]_jobVars
    PROVE  TypesInv'
<1>1. Inv'
  BY StepInv DEF TypesInv
<1> QED BY <1>1, UnitsStayListed, TrailsStay, JobTypesStay DEF TypesInv

(***************************************************************************)
(* Every value has its type: of the ring, whether a pointer lies within    *)
(* it, and of the job, that no variable is on the list of the shared       *)
(* literals twice, no position in it is past its end, no thread holds a    *)
(* literal and its opposite, and somebody is named as the first as soon as *)
(* the job is done (SharedCompanion.cc 100-164, ClausesBuffer.h 60-76).    *)
(***************************************************************************)
THEOREM SpecTypesOK == Spec => []TypesOK
<1>1. Init => RingInv /\ TypesInv
  BY InitRing, InitTypes DEF Init, BufferIdle
<1>2. RingInv /\ TypesInv /\ [Next]_<<bufferVars, jobVars>> => RingInv' /\ TypesInv'
  <2>1. Next => [BufferNext]_bufferVars /\ [SyrupNext]_jobVars
    BY DEF Next
  <2>2. UNCHANGED <<bufferVars, jobVars>> => [BufferNext]_bufferVars /\ [SyrupNext]_jobVars
    OBVIOUS
  <2> QED BY <2>1, <2>2, RingStep, TypesStep
<1>3. RingInv /\ TypesInv => TypesOK
  BY TypesFollow DEF RingInv, TypesOK
<1> QED BY <1>1, <1>2, <1>3, PTL DEF Spec
=============================================================================
