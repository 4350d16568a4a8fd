-------------------------- MODULE ColouringLemmas --------------------------
(***************************************************************************)
(* What both depth-first searches rest on: which colours a cubic graph has *)
(* where, told by the parity of the vertices, the orders of the colours at *)
(* the root, and that the reference computes nothing but proper colourings.*)
(***************************************************************************)
EXTENDS RootedGraph, ColouringReference, SequenceLemmas, FiniteSetTheorems

LEMMA LeastIn ==
    ASSUME NEW S \in SUBSET Nat, S # {}
    PROVE  Least(S) \in S /\ \A y \in S : Least(S) <= y
<1>1. PICK x \in S : \A y \in S : x <= y
  BY LeastOf
<1> QED BY <1>1 DEF Least

LEMMA VIsNat == V \subseteq Nat /\ IsFiniteSet(V)
  BY SizeAssumption, FS_Interval DEF V

LEMMA VIsFinite == IsFiniteSet(V) /\ V \subseteq Nat /\ IsFiniteSet(V \X V)
  BY VIsNat, FS_Product

LEMMA PermsAre ==
    /\ Len(Perms) = 6
    /\ \A p \in 1..6 : \A n \in 1..3 : Perms[p][n] \in 2..4
    /\ \A p \in 1..6 : \A n, m \in 1..3 : n # m => Perms[p][n] # Perms[p][m]
  BY DEF Perms

LEMMA CubicIsSubcubic == \A g : IsCubic(g) => IsSubcubic(g)
<1> SUFFICES ASSUME NEW g, IsCubic(g), NEW v \in V
             PROVE  \E a, b, c \in V : \A w \in V : g[v][w] = 1 => w \in {a, b, c}
  BY DEF IsSubcubic
<1> QED BY DEF IsCubic

-----------------------------------------------------------------------------
\* What is paired off without remainder is even.
Paired(S, f) == \A x \in S : f[x] \in S /\ f[x] # x /\ f[f[x]] = x

LEMMA EvenByPairs ==
    ASSUME NEW S, IsFiniteSet(S), NEW f, Paired(S, f)
    PROVE  \E n \in Nat : Cardinality(S) = 2 * n
<1> DEFINE Odd(A) == IsFiniteSet(A) /\ Paired(A, f) /\ ~ \E n \in Nat : Cardinality(A) = 2 * n
           Failing == {m \in Nat : \E A : Odd(A) /\ Cardinality(A) = m}
<1> SUFFICES ASSUME Failing # {} PROVE FALSE
  BY FS_CardinalityType
<1>1. PICK m \in Failing : \A y \in Failing : m <= y
  BY LeastOf
<1>2. PICK A : Odd(A) /\ Cardinality(A) = m
  BY <1>1
<1>3. m \in Nat
  OBVIOUS
<1>4. A # {}
  <2> SUFFICES ASSUME A = {} PROVE FALSE
    OBVIOUS
  <2>1. Cardinality(A) = 2 * 0
    BY FS_EmptySet
  <2> QED BY <1>2, <2>1
<1>5. PICK x \in A : TRUE
  BY <1>4
<1>6. PICK y : y = f[x]
  OBVIOUS
<1>7. y \in A /\ y # x /\ f[y] = x
  BY <1>2, <1>6 DEF Paired
<1>8. PICK R : R = (A \ {x}) \ {y}
  OBVIOUS
<1>9. IsFiniteSet(R) /\ Cardinality(R) = m - 2
  <2>1. IsFiniteSet(A \ {x}) /\ Cardinality(A \ {x}) = m - 1
    BY <1>2, FS_RemoveElement
  <2>2. PICK B : B = A \ {x}
    OBVIOUS
  <2>3. IsFiniteSet(B) /\ y \in B /\ R = B \ {y}
    BY <1>7, <1>8, <2>1, <2>2
  <2>4. IsFiniteSet(R) /\ Cardinality(R) = Cardinality(B) - 1
    BY <2>3, FS_RemoveElement
  <2> QED BY <1>3, <2>1, <2>2, <2>4
<1>10. Paired(R, f)
  <2> SUFFICES ASSUME NEW z \in R PROVE f[z] \in R /\ f[z] # z /\ f[f[z]] = z
    BY DEF Paired
  <2>1. z \in A /\ z # x /\ z # y
    BY <1>8
  <2>2. f[z] \in A /\ f[z] # z /\ f[f[z]] = z
    BY <1>2, <2>1 DEF Paired
  <2>3. f[z] # x /\ f[z] # y
    BY <1>6, <1>7, <2>1, <2>2
  <2> QED BY <1>8, <2>2, <2>3
<1>11. m - 2 \in Nat
  BY <1>9, FS_CardinalityType
<1>12. ~ Odd(R)
  <2>1. ~ (m <= m - 2)
    BY <1>3
  <2>2. m - 2 \notin Failing
    BY <1>1, <1>11, <2>1
  <2> QED BY <1>9, <1>11, <2>2
<1>13. PICK n \in Nat : Cardinality(R) = 2 * n
  BY <1>9, <1>10, <1>12
<1>14. m = 2 * (n + 1) /\ n + 1 \in Nat
  BY <1>3, <1>9, <1>13
<1> QED BY <1>2, <1>14

\* So two sets that are paired off do not differ by one element.
LEMMA NoneToSpare ==
    ASSUME NEW S, IsFiniteSet(S), NEW f, Paired(S, f), NEW R, NEW h, Paired(R, h),
           NEW k, k \notin R, S = R \cup {k}
    PROVE  FALSE
<1>1. IsFiniteSet(R)
  BY FS_Subset
<1>2. Cardinality(S) = Cardinality(R) + 1 /\ Cardinality(R) \in Nat
  BY <1>1, FS_AddElement, FS_CardinalityType
<1>3. PICK n \in Nat : Cardinality(S) = 2 * n
  BY EvenByPairs
<1>4. PICK m \in Nat : Cardinality(R) = 2 * m
  BY <1>1, EvenByPairs
<1> QED BY <1>2, <1>3, <1>4

-----------------------------------------------------------------------------
\* A matrix that colours some edges of g, and no two at a vertex alike.
Partial(g, G) ==
    /\ G \in Matrices
    /\ \A u, w \in V : G[u][w] = G[w][u] /\ (G[u][w] = 0 <=> g[u][w] = 0)
    /\ \A u, w, x \in V : G[u][w] > 1 /\ w # x => G[u][w] # G[u][x]

\* A colouring of all the edges of g, as a matrix.
Whole(g, h) ==
    /\ h \in Matrices
    /\ \A u, w \in V : h[u][w] = h[w][u] /\ h[u][w] # 1 /\ (h[u][w] = 0 <=> g[u][w] = 0)
    /\ \A u, w, x \in V : h[u][w] > 1 /\ w # x => h[u][w] # h[u][x]

\* h has the colours of G, or those but for the edge between v and k.
Completes(h, G) == \A u, w \in V : G[u][w] > 1 => h[u][w] = G[u][w]

CompletesBut(h, G, v, k) ==
    \A u, w \in V : G[u][w] > 1 /\ ~ (u = v /\ w = k) /\ ~ (u = k /\ w = v) => h[u][w] = G[u][w]

\* There is a colouring of all edges with the colours of G.
Completable(g, G) == \E h : Whole(g, h) /\ Completes(h, G)

\* No edge of u lacks a colour.
RowFilled(G, u) == \A w \in V : G[u][w] # 1

\* Q has the colours of G, and all of them at the vertices where it has more.
GrowsTo(G, Q) ==
    /\ \A u, w \in V : G[u][w] # 1 => Q[u][w] = G[u][w]
    /\ \A u, w \in V : G[u][w] = 1 /\ Q[u][w] # 1 => RowFilled(Q, u)

\* What has grown that way takes nothing away: where it has touched a vertex it
\* has coloured all around it, and elsewhere the old colouring will do.
LEMMA GrownIsCompletable ==
    ASSUME NEW g, NEW G, Partial(g, G), NEW Q, Partial(g, Q), GrowsTo(G, Q), Completable(g, G)
    PROVE  Completable(g, Q)
<1>1. PICK h : Whole(g, h) /\ Completes(h, G)
  BY DEF Completable
<1>2. /\ Q \in Matrices /\ G \in Matrices
      /\ \A u, w \in V : Q[u][w] = Q[w][u] /\ (Q[u][w] = 0 <=> g[u][w] = 0)
      /\ \A u, w, x \in V : Q[u][w] > 1 /\ w # x => Q[u][w] # Q[u][x]
  BY DEF Partial
<1>3. \A u, w \in V : G[u][w] # 1 => Q[u][w] = G[u][w]
  BY DEF GrowsTo
<1>4. \A u, w \in V : G[u][w] = 1 /\ Q[u][w] # 1 => \A x \in V : Q[u][x] # 1
  BY DEF GrowsTo, RowFilled
<1>5. /\ h \in Matrices
      /\ \A u, w \in V : h[u][w] = h[w][u] /\ h[u][w] # 1 /\ (h[u][w] = 0 <=> g[u][w] = 0)
      /\ \A u, w, x \in V : h[u][w] > 1 /\ w # x => h[u][w] # h[u][x]
  BY <1>1 DEF Whole
<1>6. \A u, w \in V : G[u][w] > 1 => h[u][w] = G[u][w]
  BY <1>1 DEF Completes
<1>7. \A u, w \in V : Q[u][w] \in 0..4 /\ G[u][w] \in 0..4 /\ h[u][w] \in 0..4
  BY <1>2, <1>5 DEF Matrices
<1>8. PICK m : m = [u \in V |-> [w \in V |-> IF Q[u][w] # 1 THEN Q[u][w] ELSE h[u][w]]]
  OBVIOUS
<1>9. m \in Matrices /\ \A u, w \in V : m[u][w] = IF Q[u][w] # 1 THEN Q[u][w] ELSE h[u][w]
  BY <1>7, <1>8 DEF Matrices
<1>10. \A u, w \in V : m[u][w] = m[w][u] /\ m[u][w] # 1 /\ (m[u][w] = 0 <=> g[u][w] = 0)
  BY <1>2, <1>5, <1>9
<1>11. ASSUME NEW u \in V
       PROVE  (\A w \in V : m[u][w] = Q[u][w]) \/ (\A w \in V : m[u][w] = h[u][w])
  <2>1. CASE \E w \in V : G[u][w] = 1 /\ Q[u][w] # 1
    BY <1>4, <1>9, <2>1
  <2>2. CASE \A w \in V : G[u][w] = 1 => Q[u][w] = 1
    <3>1. ASSUME NEW w \in V PROVE m[u][w] = h[u][w]
      <4>1. CASE G[u][w] = 1
        BY <1>9, <2>2, <4>1
      <4>2. CASE G[u][w] > 1
        BY <1>3, <1>6, <1>9, <4>2
      <4>3. CASE G[u][w] = 0
        BY <1>2, <1>3, <1>5, <1>9, <4>3
      <4> QED BY <1>7, <4>1, <4>2, <4>3
    <3> QED BY <3>1
  <2> QED BY <2>1, <2>2
<1>12. ASSUME NEW u \in V, NEW w \in V, NEW x \in V, m[u][w] > 1, w # x
       PROVE  m[u][w] # m[u][x]
  <2>1. CASE \A y \in V : m[u][y] = Q[u][y]
    BY <1>2, <1>12, <2>1
  <2>2. CASE \A y \in V : m[u][y] = h[u][y]
    BY <1>5, <1>12, <2>2
  <2> QED BY <1>11, <2>1, <2>2
<1>13. Whole(g, m)
  BY <1>9, <1>10, <1>12 DEF Whole
<1>14. \A u, w \in V : Q[u][w] > 1 => m[u][w] = Q[u][w]
  BY <1>7, <1>9
<1> QED BY <1>13, <1>14 DEF Completable, Completes

\* At a vertex of a cubic graph each colour occurs once all edges have one.
LEMMA EveryColour ==
    ASSUME NEW g, IsCubic(g), NEW m \in Matrices, NEW u \in V,
           \A w \in V : m[u][w] # 1 /\ (g[u][w] = 1 => m[u][w] # 0),
           \A w, x \in V : m[u][w] > 1 /\ w # x => m[u][w] # m[u][x],
           NEW d \in 2..4
    PROVE  \E y \in V : m[u][y] = d
<1>1. PICK a, b, c \in V : a # b /\ a # c /\ b # c /\ \A w \in V : g[u][w] = 1 <=> w \in {a, b, c}
  BY DEF IsCubic
<1>2. \A w \in V : m[u][w] \in 0..4
  BY DEF Matrices
<1>3. m[u][a] \in 2..4 /\ m[u][b] \in 2..4 /\ m[u][c] \in 2..4
  <2>1. ASSUME NEW w \in {a, b, c} PROVE m[u][w] \in 2..4
    <3>1. w \in V /\ m[u][w] # 1 /\ m[u][w] # 0 /\ m[u][w] \in 0..4
      BY <1>1, <1>2
    <3> QED BY <3>1
  <2> QED BY <2>1
<1>4. m[u][a] # m[u][b] /\ m[u][a] # m[u][c] /\ m[u][b] # m[u][c]
  BY <1>1, <1>3
<1>5. m[u][a] = d \/ m[u][b] = d \/ m[u][c] = d
  BY <1>3, <1>4
<1> QED BY <1>5

\* The other end of the edge of colour d at u.
Partner(m, d, u) == CHOOSE y \in V : m[u][y] = d

\* The vertices of C whose edge of colour d stays within C.
Inside(m, d, C) == {u \in C : Partner(m, d, u) \in C}

\* Each vertex of C has one edge of colour d.
Matched(g, m, d, C) ==
    \A u \in C : /\ Partner(m, d, u) \in V /\ Partner(m, d, u) # u
                 /\ \A y \in V : m[u][y] = d <=> y = Partner(m, d, u)

LEMMA AreMatched ==
    ASSUME NEW g, IsGraph(g), IsCubic(g), NEW m \in Matrices, NEW C \in SUBSET V, NEW d \in 2..4,
           \A u, w \in V : m[u][w] = 0 <=> g[u][w] = 0,
           \A u \in C : \A w \in V : m[u][w] # 1,
           \A u, w, x \in V : m[u][w] > 1 /\ w # x => m[u][w] # m[u][x]
    PROVE  Matched(g, m, d, C)
<1> SUFFICES ASSUME NEW u \in C
             PROVE  /\ Partner(m, d, u) \in V /\ Partner(m, d, u) # u
                    /\ \A y \in V : m[u][y] = d <=> y = Partner(m, d, u)
  BY DEF Matched
<1>1. \E y \in V : m[u][y] = d
  <2>1. \A w \in V : m[u][w] # 1 /\ (g[u][w] = 1 => m[u][w] # 0)
    OBVIOUS
  <2>2. \A w, x \in V : m[u][w] > 1 /\ w # x => m[u][w] # m[u][x]
    OBVIOUS
  <2> QED BY <2>1, <2>2, EveryColour
<1>2. PICK z : z = Partner(m, d, u)
  OBVIOUS
<1>3. z \in V /\ m[u][z] = d
  BY <1>1, <1>2 DEF Partner
<1>4. d > 1 /\ g[u][u] = 0
  BY DEF IsGraph
<1>5. z # u
  BY <1>3, <1>4
<1>6. \A y \in V : m[u][y] = d => y = z
  BY <1>3, <1>4
<1> QED BY <1>2, <1>3, <1>5, <1>6

LEMMA InsideIsPaired ==
    ASSUME NEW g, NEW m, NEW d, NEW C \in SUBSET V, Matched(g, m, d, C),
           \A u, w \in V : m[u][w] = m[w][u]
    PROVE  Paired(Inside(m, d, C), [u \in C |-> Partner(m, d, u)])
<1> SUFFICES ASSUME NEW u \in Inside(m, d, C), NEW w, w = Partner(m, d, u)
             PROVE  w \in Inside(m, d, C) /\ w # u /\ Partner(m, d, w) = u
  BY DEF Paired, Inside
<1>1. u \in C /\ w \in C
  BY DEF Inside
<1>2. m[u][w] = d /\ w # u
  BY <1>1 DEF Matched
<1>3. m[w][u] = d
  BY <1>1, <1>2
<1>4. u = Partner(m, d, w)
  BY <1>1, <1>3 DEF Matched
<1> QED BY <1>1, <1>2, <1>4 DEF Inside

\* If the edge between v and k has a colour that a colouring h with the other
\* colours has not there, and all is coloured from k on, then v has been come
\* back to: the vertices that were touched could not be paired off both by the
\* edges of that colour now and by those in h.
LEMMA CameBack ==
    ASSUME NEW g, IsGraph(g), IsCubic(g), NEW G, Partial(g, G), NEW Q, Partial(g, Q), GrowsTo(G, Q),
           NEW v \in V, NEW k \in V, NEW d \in 2..4, G[v][k] = d, RowFilled(Q, k),
           NEW h, Whole(g, h), CompletesBut(h, G, v, k), h[v][k] # d
    PROVE  RowFilled(Q, v)
<1> SUFFICES ASSUME ~ RowFilled(Q, v) PROVE FALSE
  OBVIOUS
<1>2. /\ Q \in Matrices /\ G \in Matrices /\ h \in Matrices
      /\ \A u, w \in V : Q[u][w] = Q[w][u] /\ (Q[u][w] = 0 <=> g[u][w] = 0)
      /\ \A u, w, x \in V : Q[u][w] > 1 /\ w # x => Q[u][w] # Q[u][x]
  BY DEF Partial, Whole
<1>3. \A u, w \in V : G[u][w] # 1 => Q[u][w] = G[u][w]
  BY DEF GrowsTo
<1>4. \A u, w \in V : G[u][w] = 1 /\ Q[u][w] # 1 => RowFilled(Q, u)
  BY DEF GrowsTo
<1>5. /\ \A u, w \in V : h[u][w] = h[w][u] /\ h[u][w] # 1 /\ (h[u][w] = 0 <=> g[u][w] = 0)
      /\ \A u, w, x \in V : h[u][w] > 1 /\ w # x => h[u][w] # h[u][x]
  BY DEF Whole
<1>6. /\ \A u, w \in V : G[u][w] > 1 /\ ~ (u = v /\ w = k) /\ ~ (u = k /\ w = v) => h[u][w] = G[u][w]
      /\ \A u, w \in V : G[u][w] = G[w][u] /\ (G[u][w] = 0 <=> g[u][w] = 0)
      /\ \A u, w, x \in V : G[u][w] > 1 /\ w # x => G[u][w] # G[u][x]
      /\ \A u, w \in V : G[u][w] \in 0..4
  BY DEF CompletesBut, Partial, Matrices
<1>9. PICK C \in SUBSET V : C = {u \in V : u = k \/ \E x \in V : G[u][x] = 1 /\ Q[u][x] # 1}
  OBVIOUS
<1>10. \A u \in C : RowFilled(Q, u)
  BY <1>4, <1>9
<1>11. k \in C /\ v \notin C
  BY <1>9, <1>10
<1>12. ASSUME NEW u \in C, NEW x \in V \ C
       PROVE  G[u][x] # 1 /\ Q[u][x] = G[u][x]
  <2>1. ASSUME G[u][x] = 1 PROVE FALSE
    <3>1. Q[u][x] # 1
      BY <1>10 DEF RowFilled
    <3>2. G[x][u] = 1 /\ Q[x][u] # 1
      BY <1>2, <1>6, <2>1, <3>1
    <3> QED BY <1>9, <3>2
  <2> QED BY <1>3, <2>1
<1>13. ASSUME NEW u \in C, NEW x \in V \ C, u # k \/ x # v
       PROVE  Q[u][x] = G[u][x] /\ h[u][x] = G[u][x]
  <2>1. G[u][x] # 1 /\ Q[u][x] = G[u][x]
    BY <1>12
  <2>2. G[u][x] = 0 => h[u][x] = 0
    BY <1>5, <1>6
  <2>3. G[u][x] = 0 \/ G[u][x] > 1
    <3>1. G[u][x] \in 0..4
      BY <1>6
    <3> QED BY <2>1, <3>1
  <2>4. ~ (u = v /\ x = k)
    BY <1>11
  <2>5. G[u][x] > 1 => h[u][x] = G[u][x]
    BY <1>6, <1>13, <2>4
  <2> QED BY <2>1, <2>2, <2>3, <2>5
<1>14. Matched(g, Q, d, C)
  <2>1. \A u \in C : \A w \in V : Q[u][w] # 1
    BY <1>10 DEF RowFilled
  <2> QED BY <1>2, <2>1, AreMatched
<1>15. Matched(g, h, d, C)
  BY <1>2, <1>5, AreMatched
<1>16. ASSUME NEW u \in C, u # k
       PROVE  Partner(Q, d, u) \in C <=> Partner(h, d, u) \in C
  <2>1. PICK y \in V : y = Partner(Q, d, u) /\ Q[u][y] = d
    BY <1>14 DEF Matched
  <2>2. PICK z \in V : z = Partner(h, d, u) /\ h[u][z] = d
    BY <1>15 DEF Matched
  <2>3. y \notin C => y = z
    <3>1. ASSUME y \notin C PROVE h[u][y] = d
      BY <1>13, <1>16, <2>1, <3>1
    <3> QED BY <1>15, <2>2, <3>1 DEF Matched
  <2>4. z \notin C => y = z
    <3>1. ASSUME z \notin C PROVE Q[u][z] = d
      BY <1>13, <1>16, <2>2, <3>1
    <3> QED BY <1>14, <2>1, <3>1 DEF Matched
  <2> QED BY <2>1, <2>2, <2>3, <2>4
<1>17. Partner(Q, d, k) = v
  <2>1. Q[k][v] = d
    BY <1>6, <1>11, <1>12
  <2> QED BY <1>11, <1>14, <2>1 DEF Matched
<1>18. Partner(h, d, k) \in C
  <2>1. PICK z \in V : z = Partner(h, d, k) /\ h[k][z] = d
    BY <1>11, <1>15 DEF Matched
  <2>2. z # v
    BY <1>5, <2>1
  <2>3. ASSUME z \notin C PROVE FALSE
    <3>1. G[k][z] = d
      BY <1>11, <1>13, <2>1, <2>2, <2>3
    <3>2. G[k][v] = d /\ d > 1
      BY <1>6
    <3> QED BY <1>6, <2>2, <3>1, <3>2
  <2> QED BY <2>1, <2>3
<1>19. Inside(h, d, C) = Inside(Q, d, C) \cup {k} /\ k \notin Inside(Q, d, C)
  BY <1>11, <1>16, <1>17, <1>18 DEF Inside
<1>20. Paired(Inside(Q, d, C), [u \in C |-> Partner(Q, d, u)])
  BY <1>2, <1>14, InsideIsPaired
<1>21. Paired(Inside(h, d, C), [u \in C |-> Partner(h, d, u)])
  BY <1>5, <1>15, InsideIsPaired
<1>22. IsFiniteSet(Inside(h, d, C))
  BY VIsFinite, FS_Subset DEF Inside
<1> QED BY <1>19, <1>20, <1>21, <1>22, NoneToSpare

\* In a cubic graph that has a colouring the root is no cut vertex: what is
\* joined to it by an edge of one colour only, and not by one of another, would
\* have both an even and an odd number of vertices.
LEMMA ColouredRootIsNoCut ==
    ASSUME NEW g, IsGraph(g), IsCubic(g), NEW h, Whole(g, h)
    PROVE  RootIsNoCut(g)
<1> SUFFICES ASSUME NEW S \in SUBSET (V \ {root}), ClosedOff(g, S, {root}),
                    NEW n \in S, g[root][n] = 1, NEW m \in V, g[root][m] = 1, m \notin S
             PROVE  FALSE
  BY DEF RootIsNoCut
<1>1. /\ h \in Matrices /\ root \in V /\ S \in SUBSET V /\ n \in V /\ n # m
      /\ \A u, w \in V : h[u][w] = h[w][u] /\ h[u][w] # 1 /\ (h[u][w] = 0 <=> g[u][w] = 0)
      /\ \A u, w, x \in V : h[u][w] > 1 /\ w # x => h[u][w] # h[u][x]
  BY RootAssumption DEF Whole
<1>2. ASSUME NEW x \in V, g[root][x] = 1 PROVE h[root][x] \in 2..4
  <2>1. h[root][x] \in 0..4 /\ h[root][x] # 1 /\ h[root][x] # 0
    BY <1>1, <1>2 DEF Matrices
  <2> QED BY <2>1
<1>3. PICK d \in 2..4 : d = h[root][n]
  BY <1>1, <1>2
<1>4. PICK e \in 2..4 : e = h[root][m]
  BY <1>2
<1>5. \A c \in 2..4 : Matched(g, h, c, S)
  BY <1>1, AreMatched
\* An edge that leaves S goes to the root.
<1>6. ASSUME NEW u \in S, NEW w \in V, w \notin S, h[u][w] > 1
      PROVE  w = root
  <2>1. g[u][w] = 1
    <3>1. g[u][w] # 0 /\ g[u][w] \in {0, 1}
      BY <1>1, <1>6 DEF IsGraph
    <3> QED BY <3>1
  <2>2. \A x \in V \ {root} : u \notin {root} /\ g[u][x] = 1 => x \in S
    BY DEF ClosedOff
  <2> QED BY <1>6, <2>1, <2>2
<1>7. ASSUME NEW u \in S, NEW c \in 2..4, Partner(h, c, u) \notin S
      PROVE  h[root][u] = c
  <2>1. PICK y \in V : y = Partner(h, c, u) /\ h[u][y] = c
    BY <1>5 DEF Matched
  <2>2. y = root
    BY <1>6, <1>7, <2>1
  <2> QED BY <1>1, <2>1, <2>2
<1>8. ASSUME NEW u \in S, NEW c \in 2..4, h[root][u] = c
      PROVE  Partner(h, c, u) = root
  <2>1. h[u][root] = c
    BY <1>1, <1>8
  <2> QED BY <1>1, <1>5, <2>1 DEF Matched
<1>9. S = Inside(h, d, S) \cup {n} /\ n \notin Inside(h, d, S)
  <2>1. Partner(h, d, n) = root
    BY <1>3, <1>8
  <2>2. ASSUME NEW u \in S, u # n PROVE Partner(h, d, u) \in S
    <3>1. h[root][u] # d
      BY <1>1, <1>3, <2>2
    <3> QED BY <1>7, <3>1
  <2> QED BY <2>1, <2>2 DEF Inside
<1>10. S = Inside(h, e, S)
  <2>1. ASSUME NEW u \in S PROVE Partner(h, e, u) \in S
    <3>1. h[root][u] # e
      BY <1>1, <1>4
    <3> QED BY <1>7, <3>1
  <2> QED BY <2>1 DEF Inside
<1>11. Paired(S, [u \in S |-> Partner(h, e, u)])
  <2>1. Paired(Inside(h, e, S), [u \in S |-> Partner(h, e, u)])
    BY <1>1, <1>5, InsideIsPaired
  <2> QED BY <1>10, <2>1
<1>12. Paired(Inside(h, d, S), [u \in S |-> Partner(h, d, u)])
  BY <1>1, <1>5, InsideIsPaired
<1>13. IsFiniteSet(S)
  BY <1>1, VIsFinite, FS_Subset
<1> QED BY <1>9, <1>11, <1>12, <1>13, NoneToSpare

-----------------------------------------------------------------------------
\* Each order of the three colours is one of the permutations.
LEMMA PermFor ==
    ASSUME NEW x \in 2..4, NEW y \in 2..4, NEW z \in 2..4, x # y, x # z, y # z
    PROVE  \E perm \in 1..6 : Perms[perm][1] = x /\ Perms[perm][2] = y /\ Perms[perm][3] = z
<1>1. /\ Perms[1][1] = 2 /\ Perms[1][2] = 3 /\ Perms[1][3] = 4
      /\ Perms[2][1] = 2 /\ Perms[2][2] = 4 /\ Perms[2][3] = 3
      /\ Perms[3][1] = 3 /\ Perms[3][2] = 2 /\ Perms[3][3] = 4
      /\ Perms[4][1] = 3 /\ Perms[4][2] = 4 /\ Perms[4][3] = 2
      /\ Perms[5][1] = 4 /\ Perms[5][2] = 3 /\ Perms[5][3] = 2
      /\ Perms[6][1] = 4 /\ Perms[6][2] = 2 /\ Perms[6][3] = 3
  BY DEF Perms
<1>2. CASE x = 2 /\ y = 3 /\ z = 4
  BY <1>1, <1>2
<1>3. CASE x = 2 /\ y = 4 /\ z = 3
  BY <1>1, <1>3
<1>4. CASE x = 3 /\ y = 2 /\ z = 4
  BY <1>1, <1>4
<1>5. CASE x = 3 /\ y = 4 /\ z = 2
  BY <1>1, <1>5
<1>6. CASE x = 4 /\ y = 3 /\ z = 2
  BY <1>1, <1>6
<1>7. CASE x = 4 /\ y = 2 /\ z = 3
  BY <1>1, <1>7
<1> QED BY <1>2, <1>3, <1>4, <1>5, <1>6, <1>7

\* The neighbours of the root in the order of the loop.
InOrder(g, a, b, c) ==
    a < b /\ b < c /\ \A w \in V : g[root][w] = 1 <=> w \in {a, b, c}

LEMMA NeighboursInOrder ==
    ASSUME NEW g, IsCubic(g)
    PROVE  \E a, b, c \in V : InOrder(g, a, b, c)
<1>1. PICK a, b, c \in V : a # b /\ a # c /\ b # c /\ \A w \in V : g[root][w] = 1 <=> w \in {a, b, c}
  BY RootAssumption DEF IsCubic
<1>2. a \in Nat /\ b \in Nat /\ c \in Nat
  BY VIsFinite
<1>3. \/ a < b /\ b < c
      \/ a < c /\ c < b
      \/ b < a /\ a < c
      \/ b < c /\ c < a
      \/ c < a /\ a < b
      \/ c < b /\ b < a
  BY <1>1, <1>2
<1> QED BY <1>1, <1>3 DEF InOrder

\* The permutation that h has at the root, and how far the loop has come in it.
Fits(h, perm, a, b, c) ==
    h[root][a] = Perms[perm][1] /\ h[root][b] = Perms[perm][2] /\ h[root][c] = Perms[perm][3]

Passed(m, a, b, c) == IF m <= a THEN 0 ELSE IF m <= b THEN 1 ELSE IF m <= c THEN 2 ELSE 3

-----------------------------------------------------------------------------
(***************************************************************************)
(* What the reference computes: a fold over a set is a recursive function  *)
(* on its subsets.                                                         *)
(***************************************************************************)
\* f colours the edges of A with colours of C, and no two that meet the same.
ColoursProperly(f, A, C) ==
    /\ DOMAIN f = A /\ \A e \in A : f[e] \in C
    /\ \A d, e \in A : d # e /\ d \cap e # {} => f[d] # f[e]

LEMMA ExtensionsAre ==
    ASSUME NEW A, NEW C, NEW e, e \notin A, NEW f, ColoursProperly(f, A, C), NEW h \in Extensions(f, e, C)
    PROVE  ColoursProperly(h, A \cup {e}, C)
<1>1. PICK c \in C : /\ \A d \in DOMAIN f : d \cap e # {} => f[d] # c
                    /\ h = [d \in DOMAIN f \cup {e} |-> IF d = e THEN c ELSE f[d]]
  BY DEF Extensions
<1>2. DOMAIN f = A /\ (\A d \in A : f[d] \in C)
  BY DEF ColoursProperly
<1>3. h = [d \in A \cup {e} |-> IF d = e THEN c ELSE f[d]]
  BY <1>1, <1>2
<1>4. DOMAIN h = A \cup {e} /\ \A d \in A \cup {e} : h[d] = IF d = e THEN c ELSE f[d]
  BY <1>3
<1>5. \A d \in A \cup {e} : h[d] \in C
  BY <1>2, <1>4
<1>6. ASSUME NEW d \in A \cup {e}, NEW x \in A \cup {e}, d # x, d \cap x # {}
      PROVE  h[d] # h[x]
  <2>1. CASE d \in A /\ x \in A
    BY <1>4, <1>6, <2>1 DEF ColoursProperly
  <2>2. CASE d \in A /\ x = e
    BY <1>1, <1>2, <1>4, <1>6, <2>2
  <2>3. CASE d = e /\ x \in A
    <3>1. x \cap e # {}
      BY <1>6, <2>3
    <3>2. f[x] # c
      BY <1>1, <1>2, <2>3, <3>1
    <3> QED BY <1>4, <2>3, <3>2
  <2> QED BY <1>6, <2>1, <2>2, <2>3
<1> QED BY <1>4, <1>5, <1>6 DEF ColoursProperly

\* One step of the fold over A, with what it gives for the rest of A.
FoldBody(f, A, C) ==
    IF A = {} THEN {<<>>}
    ELSE LET e == CHOOSE x \in A : TRUE IN UNION {Extensions(h, e, C) : h \in f[A \ {e}]}

FoldsTo(f, E, C, n) ==
    \A A \in SUBSET E : Cardinality(A) < n => f[A] = FoldBody(f, A, C)

LEMMA FoldBodyIs ==
    ASSUME NEW f, NEW A, NEW C, A # {}
    PROVE  \E e \in A : FoldBody(f, A, C) = UNION {Extensions(x, e, C) : x \in f[A \ {e}]}
<1>1. PICK e : e = CHOOSE x \in A : TRUE
  OBVIOUS
<1>2. e \in A
  BY <1>1
<1>3. FoldBody(f, A, C) = UNION {Extensions(x, e, C) : x \in f[A \ {e}]}
  BY <1>1 DEF FoldBody
<1> QED BY <1>2, <1>3

AllProper(f, A, C) == \A h \in f[A] : ColoursProperly(h, A, C)

LEMMA FoldAgrees ==
    ASSUME NEW E, IsFiniteSet(E), NEW C, NEW A \in SUBSET E, NEW f, NEW h,
           \A B \in SUBSET E : Cardinality(B) < Cardinality(A) => f[B] = h[B]
    PROVE  FoldBody(f, A, C) = FoldBody(h, A, C)
<1>1. CASE A = {}
  BY <1>1 DEF FoldBody
<1>2. CASE A # {}
  <2>1. PICK e : e = CHOOSE x \in A : TRUE
    OBVIOUS
  <2>2. e \in A
    BY <1>2, <2>1
  <2>3. PICK B \in SUBSET E : B = A \ {e}
    OBVIOUS
  <2>4. IsFiniteSet(A)
    BY FS_Subset
  <2>5. Cardinality(B) = Cardinality(A) - 1 /\ Cardinality(A) \in Nat
    BY <2>2, <2>3, <2>4, FS_RemoveElement, FS_CardinalityType
  <2>6. f[B] = h[B]
    BY <2>5
  <2>7. /\ FoldBody(f, A, C) = UNION {Extensions(x, e, C) : x \in f[B]}
        /\ FoldBody(h, A, C) = UNION {Extensions(x, e, C) : x \in h[B]}
    BY <1>2, <2>1, <2>3 DEF FoldBody
  <2> QED BY <2>6, <2>7
<1> QED BY <1>1, <1>2

LEMMA FoldTo ==
    ASSUME NEW E, IsFiniteSet(E), NEW C, NEW n \in Nat
    PROVE  \E f : FoldsTo(f, E, C, n)
<1> DEFINE Failing == {k \in Nat : ~ \E f : FoldsTo(f, E, C, k)}
<1> SUFFICES ASSUME Failing # {} PROVE FALSE
  OBVIOUS
<1>1. PICK k \in Failing : \A y \in Failing : k <= y
  BY LeastOf
<1>2. \A A \in SUBSET E : Cardinality(A) \in Nat
  BY FS_Subset, FS_CardinalityType
<1>3. \A f : FoldsTo(f, E, C, 0)
  BY <1>2 DEF FoldsTo
<1>4. k # 0
  BY <1>3
<1>5. PICK m \in Nat : m = k - 1 /\ m \notin Failing
  BY <1>1, <1>4
<1>6. PICK f : FoldsTo(f, E, C, m)
  BY <1>5
<1>7. PICK h : h = [A \in SUBSET E |-> IF Cardinality(A) < m THEN f[A] ELSE FoldBody(f, A, C)]
  OBVIOUS
<1>8. ASSUME NEW A \in SUBSET E, Cardinality(A) < k
      PROVE  h[A] = FoldBody(h, A, C)
  <2>1. h[A] = FoldBody(f, A, C)
    BY <1>6, <1>7 DEF FoldsTo
  <2>2. ASSUME NEW B \in SUBSET E, Cardinality(B) < Cardinality(A)
        PROVE  f[B] = h[B]
    <3>1. Cardinality(B) \in Nat /\ Cardinality(A) \in Nat
      BY <1>2
    <3>2. Cardinality(B) < m
      BY <1>5, <1>8, <2>2, <3>1
    <3> QED BY <1>7, <3>2
  <2>3. FoldBody(f, A, C) = FoldBody(h, A, C)
    BY <2>2, FoldAgrees
  <2> QED BY <2>1, <2>3
<1> QED BY <1>8 DEF FoldsTo

LEMMA FoldIsProper ==
    ASSUME NEW E, IsFiniteSet(E), NEW C, NEW f, \A A \in SUBSET E : f[A] = FoldBody(f, A, C)
    PROVE  AllProper(f, E, C)
<1> DEFINE Failing == {k \in Nat : \E A \in SUBSET E : Cardinality(A) = k /\ ~ AllProper(f, A, C)}
<1>1. \A A \in SUBSET E : IsFiniteSet(A) /\ Cardinality(A) \in Nat
  BY FS_Subset, FS_CardinalityType
<1> SUFFICES ASSUME Failing # {} PROVE FALSE
  BY <1>1
<1>2. PICK k \in Failing : \A y \in Failing : k <= y
  BY LeastOf
<1>3. PICK A \in SUBSET E : Cardinality(A) = k /\ ~ AllProper(f, A, C)
  BY <1>2
<1>4. PICK h \in f[A] : ~ ColoursProperly(h, A, C)
  BY <1>3 DEF AllProper
<1>5. h \in FoldBody(f, A, C)
  BY <1>4
<1>6. CASE A = {}
  <2>1. h = <<>>
    BY <1>5, <1>6 DEF FoldBody
  <2>2. DOMAIN h = {}
    BY <2>1
  <2> QED BY <1>4, <1>6, <2>2 DEF ColoursProperly
<1>7. CASE A # {}
  <2>1. \E e \in A : FoldBody(f, A, C) = UNION {Extensions(x, e, C) : x \in f[A \ {e}]}
    BY <1>7, FoldBodyIs
  <2>2. PICK e \in A : FoldBody(f, A, C) = UNION {Extensions(x, e, C) : x \in f[A \ {e}]}
    BY <2>1
  <2>3. PICK B \in SUBSET E : B = A \ {e}
    OBVIOUS
  <2>4. \E x \in f[A \ {e}] : h \in Extensions(x, e, C)
    BY <1>5, <2>2
  <2>5. PICK x \in f[B] : h \in Extensions(x, e, C)
    BY <2>3, <2>4
  <2>6. Cardinality(B) = k - 1 /\ k \in Nat /\ Cardinality(B) \in Nat
    BY <1>1, <1>3, <2>2, <2>3, FS_RemoveElement
  <2>7. Cardinality(B) \notin Failing
    BY <1>2, <2>6
  <2>8. AllProper(f, B, C)
    BY <2>6, <2>7
  <2>9. ColoursProperly(x, B, C)
    BY <2>5, <2>8 DEF AllProper
  <2>10. e \notin B /\ A = B \cup {e}
    BY <2>2, <2>3
  <2>11. ColoursProperly(h, B \cup {e}, C)
    BY <2>5, <2>9, <2>10, ExtensionsAre
  <2> QED BY <1>4, <2>10, <2>11
<1> QED BY <1>6, <1>7

LEMMA ReferenceIsProper ==
    ASSUME NEW E, IsFiniteSet(E), NEW C
    PROVE  \A h \in ProperColourings(E, C) : ColoursProperly(h, E, C)
<1> DEFINE IsFold(f) == f = [A \in SUBSET E |-> FoldBody(f, A, C)]
<1>1. Cardinality(E) \in Nat /\ \A A \in SUBSET E : Cardinality(A) <= Cardinality(E) /\ Cardinality(A) \in Nat
  BY FS_Subset, FS_CardinalityType
<1>2. PICK n \in Nat : n = Cardinality(E) + 1
  BY <1>1
<1>3. PICK f : FoldsTo(f, E, C, n)
  BY FoldTo
<1>4. PICK g : g = [A \in SUBSET E |-> f[A]]
  OBVIOUS
<1>5. ASSUME NEW A \in SUBSET E
      PROVE  g[A] = FoldBody(g, A, C)
  <2>1. Cardinality(A) < n
    BY <1>1, <1>2
  <2>2. g[A] = FoldBody(f, A, C)
    BY <1>3, <1>4, <2>1 DEF FoldsTo
  <2>3. \A B \in SUBSET E : Cardinality(B) < Cardinality(A) => f[B] = g[B]
    BY <1>4
  <2>4. FoldBody(f, A, C) = FoldBody(g, A, C)
    BY <2>3, FoldAgrees
  <2> QED BY <2>2, <2>4
<1>6. IsFold(g)
  <2>1. g = [A \in SUBSET E |-> g[A]]
    BY <1>4
  <2> QED BY <1>5, <2>1
<1>7. ProperColourings(E, C) = (CHOOSE f_1 : IsFold(f_1))[E]
  BY DEF ProperColourings, FoldSet, MapThenFoldSet, FoldBody
<1>8. PICK r : IsFold(r) /\ ProperColourings(E, C) = r[E]
  BY <1>6, <1>7
<1>9. \A A \in SUBSET E : r[A] = FoldBody(r, A, C)
  BY <1>8
<1>10. AllProper(r, E, C)
  BY <1>9, FoldIsProper
<1> QED BY <1>8, <1>10 DEF AllProper

\* A colouring of the set of edges is a colouring of the matrix.
LEMMA ColourableHasWhole ==
    ASSUME NEW g, IsGraph(g), Colourable(EdgesOf(g), Colours)
    PROVE  \E h : Whole(g, h)
<1>1. PICK E : E = EdgesOf(g)
  OBVIOUS
<1>2. E \subseteq SUBSET V /\ \A u, w \in V : g[u][w] = 1 => {u, w} \in E
  <2>1. E \subseteq SUBSET V
    BY <1>1 DEF EdgesOf
  <2>2. ASSUME NEW u \in V, NEW w \in V, g[u][w] = 1 PROVE {u, w} \in E
    BY <1>1, <2>2 DEF EdgesOf
  <2> QED BY <2>1, <2>2
<1>3. IsFiniteSet(E)
  BY <1>2, VIsFinite, FS_SUBSET, FS_Subset
<1>4. PICK f \in ProperColourings(E, Colours) : TRUE
  BY <1>1 DEF Colourable
<1>5. ColoursProperly(f, E, Colours)
  BY <1>3, <1>4, ReferenceIsProper
<1>6. /\ \A e \in E : f[e] \in Colours
      /\ \A d, e \in E : d # e /\ d \cap e # {} => f[d] # f[e]
  BY <1>5 DEF ColoursProperly
<1>7. PICK h : h = [u \in V |-> [w \in V |-> IF g[u][w] = 1 THEN f[{u, w}] + 2 ELSE 0]]
  OBVIOUS
<1>8. \A u, w \in V : h[u][w] = IF g[u][w] = 1 THEN f[{u, w}] + 2 ELSE 0
  BY <1>7
<1>9. \A u, w \in V : g[u][w] \in {0, 1} /\ g[u][w] = g[w][u]
  BY DEF IsGraph
<1>10. ASSUME NEW u \in V, NEW w \in V
       PROVE  h[u][w] \in 0..4 /\ h[u][w] # 1 /\ (h[u][w] = 0 <=> g[u][w] = 0) /\ h[u][w] = h[w][u]
  <2>1. CASE g[u][w] = 1
    <3>1. f[{u, w}] \in 0..2 /\ {u, w} = {w, u} /\ g[w][u] = 1
      BY <1>2, <1>6, <1>9, <2>1 DEF Colours
    <3>2. h[u][w] = f[{u, w}] + 2 /\ h[w][u] = f[{u, w}] + 2
      BY <1>8, <2>1, <3>1
    <3> QED BY <2>1, <3>1, <3>2
  <2>2. CASE g[u][w] = 0
    <3>1. g[u][w] # 1 /\ g[w][u] # 1
      BY <1>9, <2>2
    <3>2. h[u][w] = 0 /\ h[w][u] = 0
      BY <1>8, <3>1
    <3> QED BY <2>2, <3>2
  <2> QED BY <1>9, <2>1, <2>2
<1>11. ASSUME NEW u \in V, NEW w \in V, NEW x \in V, h[u][w] > 1, w # x
       PROVE  h[u][w] # h[u][x]
  <2>1. g[u][w] = 1 /\ h[u][w] = f[{u, w}] + 2 /\ {u, w} \in E
    BY <1>2, <1>8, <1>11
  <2>2. CASE g[u][x] = 1
    <3>1. h[u][x] = f[{u, x}] + 2 /\ {u, x} \in E
      BY <1>2, <1>8, <2>2
    <3>2. {u, w} # {u, x} /\ {u, w} \cap {u, x} # {}
      BY <1>11
    <3>3. f[{u, w}] # f[{u, x}]
      BY <1>6, <2>1, <3>1, <3>2
    <3>4. f[{u, w}] \in 0..2 /\ f[{u, x}] \in 0..2
      BY <1>6, <2>1, <3>1 DEF Colours
    <3> QED BY <2>1, <3>1, <3>3, <3>4
  <2>3. CASE g[u][x] # 1
    <3>1. h[u][x] = 0
      BY <1>8, <2>3
    <3> QED BY <1>11, <3>1
  <2> QED BY <2>2, <2>3
<1>12. h \in Matrices
  BY <1>7, <1>10 DEF Matrices
<1>13. Whole(g, h)
  BY <1>10, <1>11, <1>12 DEF Whole
<1> QED BY <1>13
=============================================================================
