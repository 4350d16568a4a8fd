--------------------------- MODULE SequenceLemmas ---------------------------
(***************************************************************************)
(* Facts about the sequences that stand for the call stacks and the work   *)
(* lists: their ends, and a stack whose top is replaced and pushed on;     *)
(* the least element of a set of naturals, which stands for induction; and *)
(* what the fold of an operator over a sequence keeps.                     *)
(***************************************************************************)
EXTENDS Integers, Sequences, SequencesExt, SequenceTheorems, WellFoundedInduction, TLAPS

\* A set of naturals has a least element.
LEMMA LeastOf ==
    ASSUME NEW T \in SUBSET Nat, T # {}
    PROVE  \E x \in T : \A y \in T : x <= y
<1> DEFINE Rel == OpToRel(<, Nat)
<1>1. IsWellFoundedOn(Rel, Nat)
  BY NatLessThanWellFounded
<1>2. \A x, y \in Nat : <<x, y>> \in Rel <=> x < y
  BY DEF OpToRel
<1> HIDE DEF Rel
<1>3. PICK x \in T : \A y \in T : ~ (<<y, x>> \in Rel)
  BY <1>1, WFMin
<1>4. \A y \in T : y \in Nat /\ x \in Nat
  OBVIOUS
<1>5. \A y \in T : ~ (y < x)
  BY <1>2, <1>3, <1>4
<1>6. \A y \in T : x <= y
  BY <1>4, <1>5
<1> QED BY <1>6

\* The two ends of a sequence.
LEMMA FrontOf ==
    ASSUME NEW S, NEW s \in Seq(S), s # <<>>
    PROVE  /\ Front(s) \in Seq(S)
           /\ Len(Front(s)) = Len(s) - 1
           /\ \A n \in 1..Len(s) - 1 : Front(s)[n] = s[n]
<1>1. Len(s) \in Nat \ {0}
  BY EmptySeq
<1>2. \A n \in 1..Len(s) - 1 : s[n] \in S
  BY <1>1, ElementOfSeq
<1>3. Len(s) - 1 \in Int /\ 1 \in Int
  BY <1>1
<1>4. /\ SubSeq(s, 1, Len(s) - 1) \in Seq(S)
      /\ Len(SubSeq(s, 1, Len(s) - 1)) = IF 1 <= Len(s) - 1 THEN Len(s) - 1 - 1 + 1 ELSE 0
      /\ \A n \in 1..Len(s) - 1 - 1 + 1 : SubSeq(s, 1, Len(s) - 1)[n] = s[1 + n - 1]
  BY <1>2, <1>3, SubSeqProperties
<1>5. Len(s) - 1 - 1 + 1 = Len(s) - 1 /\ \A n \in 1..Len(s) - 1 : 1 + n - 1 = n
  BY <1>1
<1>6. (IF 1 <= Len(s) - 1 THEN Len(s) - 1 - 1 + 1 ELSE 0) = Len(s) - 1
  <2>1. CASE 1 <= Len(s) - 1
    BY <1>5, <2>1
  <2>2. CASE ~ (1 <= Len(s) - 1)
    <3>1. \A n \in Nat \ {0} : ~ (1 <= n - 1) => n - 1 = 0
      OBVIOUS
    <3>2. Len(s) - 1 = 0
      BY <1>1, <2>2, <3>1
    <3> QED BY <2>2, <3>2
  <2> QED BY <2>1, <2>2
<1> QED BY <1>4, <1>5, <1>6 DEF Front

LEMMA LastOf ==
    ASSUME NEW S, NEW s \in Seq(S), s # <<>>
    PROVE  Last(s) \in S
  BY EmptySeq, ElementOfSeq DEF Last

LEMMA LastOfAppend ==
    ASSUME NEW S, NEW s \in Seq(S), NEW e \in S
    PROVE  Last(Append(s, e)) = e
  BY AppendProperties, LenProperties DEF Last

\* The top of a stack is replaced.
LEMMA ReplaceTop ==
    ASSUME NEW S, NEW s \in Seq(S), s # <<>>, NEW f \in S
    PROVE  LET t == [s EXCEPT ![Len(s)] = f]
           IN  /\ t \in Seq(S) /\ Len(t) = Len(s)
               /\ t[Len(s)] = f
               /\ \A n \in 1..Len(s) - 1 : t[n] = s[n]
<1>1. Len(s) \in Nat \ {0}
  BY EmptySeq
<1>2. Len(s) \in 1..Len(s) /\ \A n \in 1..Len(s) - 1 : n \in 1..Len(s) /\ n # Len(s)
  BY <1>1
<1> QED BY <1>1, <1>2, ExceptSeq

\* The top of a stack is replaced and an element is put on it.
LEMMA ReplaceTopAndPush ==
    ASSUME NEW S, NEW s \in Seq(S), s # <<>>, NEW f \in S, NEW g \in S
    PROVE  LET t == Append([s EXCEPT ![Len(s)] = f], g)
           IN  /\ t \in Seq(S) /\ Len(t) = Len(s) + 1
               /\ t[Len(s)] = f /\ t[Len(s) + 1] = g
               /\ \A n \in 1..Len(s) - 1 : t[n] = s[n]
<1> DEFINE r == [s EXCEPT ![Len(s)] = f]
<1>1. Len(s) \in Nat \ {0}
  BY EmptySeq
<1>2. /\ r \in Seq(S) /\ Len(r) = Len(s) /\ r[Len(s)] = f
      /\ \A n \in 1..Len(s) - 1 : r[n] = s[n]
  BY ReplaceTop
<1> HIDE DEF r
<1>3. /\ Append(r, g) \in Seq(S) /\ Len(Append(r, g)) = Len(r) + 1
      /\ \A n \in 1..Len(r) : Append(r, g)[n] = r[n]
      /\ Append(r, g)[Len(r) + 1] = g
  BY <1>2, AppendProperties
<1> DEFINE t == Append(r, g)
<1>4. t \in Seq(S) /\ Len(t) = Len(s) + 1
  BY <1>2, <1>3
<1>5. t[Len(s)] = f /\ t[Len(s) + 1] = g
  BY <1>1, <1>2, <1>3
<1>6. \A n \in 1..Len(s) - 1 : t[n] = s[n]
  BY <1>1, <1>2, <1>3
<1> HIDE DEF t
<1> QED BY <1>4, <1>5, <1>6 DEF t, r

Occurs(s, x) == \E n \in 1..Len(s) : s[n] = x

\* An element is put at the front.
LEMMA PutFirst ==
    ASSUME NEW S, NEW s \in Seq(S), NEW e \in S
    PROVE  LET t == <<e>> \o s
           IN  /\ t \in Seq(S) /\ Len(t) = Len(s) + 1 /\ t[1] = e
               /\ Occurs(t, e) /\ \A x : Occurs(s, x) => Occurs(t, x)
               /\ \A n \in 1..Len(t) : t[n] = e \/ \E m \in 1..Len(s) : t[n] = s[m]
<1>1. <<e>> \in Seq(S) /\ Len(<<e>>) = 1 /\ <<e>>[1] = e
  OBVIOUS
<1>2. Len(s) \in Nat
  BY LenProperties
<1> DEFINE o == <<e>>
           t == o \o s
<1> HIDE DEF o
<1>3. /\ t \in Seq(S) /\ Len(t) = Len(o) + Len(s)
      /\ \A n \in 1..Len(o) + Len(s) : t[n] = IF n <= Len(o) THEN o[n] ELSE s[n - Len(o)]
  BY <1>1, ConcatProperties DEF o
<1>4. Len(o) = 1 /\ o[1] = e
  BY <1>1 DEF o
<1> HIDE DEF t
<1>5. t \in Seq(S) /\ Len(t) = Len(s) + 1
  BY <1>2, <1>3, <1>4
<1>6. \A n \in 1..Len(s) + 1 : t[n] = IF n = 1 THEN e ELSE s[n - 1]
  <2> TAKE n \in 1..Len(s) + 1
  <2>1. n \in 1..1 + Len(s) /\ (n <= 1 <=> n = 1)
    BY <1>2
  <2>2. t[n] = IF n <= 1 THEN o[n] ELSE s[n - 1]
    BY <1>3, <1>4, <2>1
  <2> QED BY <1>4, <2>1, <2>2
<1>7. 1 \in 1..Len(s) + 1 /\ \A n \in 1..Len(s) : n + 1 \in 1..Len(s) + 1 /\ n + 1 # 1 /\ n + 1 - 1 = n
  BY <1>2
<1>8. t[1] = e /\ Occurs(t, e)
  BY <1>5, <1>6, <1>7 DEF Occurs
<1>9. ASSUME NEW x, Occurs(s, x)
      PROVE  Occurs(t, x)
  <2>1. PICK n \in 1..Len(s) : s[n] = x
    BY <1>9 DEF Occurs
  <2>2. t[n + 1] = x
    BY <1>6, <1>7, <2>1
  <2> QED BY <1>5, <1>7, <2>2 DEF Occurs
<1>10. \A n \in 1..Len(t) : t[n] = e \/ \E m \in 1..Len(s) : t[n] = s[m]
  <2> TAKE n \in 1..Len(t)
  <2>1. n = 1 \/ n - 1 \in 1..Len(s)
    BY <1>2, <1>5
  <2> QED BY <1>5, <1>6, <2>1
<1> QED BY <1>5, <1>8, <1>9, <1>10 DEF t, o
\* No element is in the sequence twice.
AllDistinct(s) == \A m, n \in 1..Len(s) : s[m] = s[n] => m = n

\* An element is put at the end.
LEMMA PutLast ==
    ASSUME NEW S, NEW s \in Seq(S), NEW e \in S
    PROVE  LET t == Append(s, e)
           IN  /\ t \in Seq(S) /\ Len(t) = Len(s) + 1 /\ t[Len(s) + 1] = e
               /\ \A n \in 1..Len(s) : t[n] = s[n]
               /\ \A x : Occurs(t, x) <=> Occurs(s, x) \/ x = e
               /\ AllDistinct(s) /\ ~ Occurs(s, e) => AllDistinct(t)
<1> DEFINE t == Append(s, e)
<1>1. /\ t \in Seq(S) /\ Len(t) = Len(s) + 1 /\ t[Len(s) + 1] = e
      /\ \A n \in 1..Len(s) : t[n] = s[n]
  BY AppendProperties
<1>2. Len(s) \in Nat
  BY LenProperties
<1> HIDE DEF t
<1>3. 1..Len(t) = 1..Len(s) \cup {Len(s) + 1} /\ Len(s) + 1 \notin 1..Len(s)
  BY <1>1, <1>2
<1>4. \A x : Occurs(t, x) <=> Occurs(s, x) \/ x = e
  BY <1>1, <1>3 DEF Occurs
<1>5. AllDistinct(s) /\ ~ Occurs(s, e) => AllDistinct(t)
  BY <1>1, <1>3 DEF Occurs, AllDistinct
<1> QED BY <1>1, <1>4, <1>5 DEF t

LEMMA RangeListed ==
    ASSUME NEW S, NEW s \in Seq(S)
    PROVE  /\ \A x : x \in Range(s) <=> Occurs(s, x)
           /\ IsInjective(s) <=> AllDistinct(s)
<1>1. DOMAIN s = 1..Len(s)
  BY LenProperties
<1> QED BY <1>1 DEF Range, Occurs, IsInjective, AllDistinct

-----------------------------------------------------------------------------
(* Bounds of a sequence of numbers and of a set of them. *)

\* The first k numbers of a sequence have a bound.
Bounded(s, k) == \E b \in Nat : \A n \in 1..k : s[n] <= b

LEMMA NextBounded ==
    ASSUME NEW s \in Seq(Nat), NEW k \in Nat, k + 1 \in 1..Len(s), Bounded(s, k)
    PROVE  Bounded(s, k + 1)
<1>1. PICK b \in Nat : \A n \in 1..k : s[n] <= b
  BY DEF Bounded
<1>2. PICK x \in Nat : x = s[k + 1]
  BY ElementOfSeq
<1>3. \A n \in 1..k+1 : n = k + 1 \/ n \in 1..k
  OBVIOUS
<1>4. \A n \in 1..k : s[n] \in Nat
  <2>1. \A n \in 1..k : n \in 1..Len(s)
    BY LenProperties
  <2> QED BY <2>1, ElementOfSeq
<1>5. \A n \in 1..k+1 : s[n] <= b + x
  <2> TAKE n \in 1..k+1
  <2>1. CASE n = k + 1
    BY <1>2, <2>1
  <2>2. CASE n \in 1..k
    <3>1. s[n] \in Nat /\ s[n] <= b
      BY <1>1, <1>4, <2>2
    <3> QED BY <3>1
  <2> QED BY <1>3, <2>1, <2>2
<1>6. b + x \in Nat
  OBVIOUS
<1> QED BY <1>5, <1>6 DEF Bounded

LEMMA BoundOf ==
    ASSUME NEW s \in Seq(Nat)
    PROVE  Bounded(s, Len(s))
<1> DEFINE Failing == {k \in Nat : k <= Len(s) /\ ~ Bounded(s, k)}
<1>0. Len(s) \in Nat
  BY LenProperties
<1> SUFFICES ASSUME Failing # {} PROVE FALSE
  BY <1>0
<1>1. PICK k \in Failing : \A y \in Failing : k <= y
  BY LeastOf
<1>2. Bounded(s, 0)
  <2>1. 0 \in Nat /\ \A n \in 1..0 : s[n] <= 0
    OBVIOUS
  <2> QED BY <2>1 DEF Bounded
<1>3. k \in Nat /\ k <= Len(s) /\ ~ Bounded(s, k)
  OBVIOUS
<1>4. k # 0
  BY <1>2, <1>3
<1>5. k - 1 \in Nat /\ k - 1 <= Len(s) /\ (k - 1) + 1 = k /\ k \in 1..Len(s)
  BY <1>0, <1>3, <1>4
<1>6. k - 1 \notin Failing
  BY <1>1, <1>5
<1>7. Bounded(s, k - 1)
  BY <1>5, <1>6
<1>8. Bounded(s, (k - 1) + 1)
  BY <1>5, <1>7, NextBounded
<1> QED BY <1>3, <1>5, <1>8

LEMMA GreatestOf ==
    ASSUME NEW S \in SUBSET Nat, S # {}, NEW b \in Nat, \A x \in S : x <= b
    PROVE  Max(S) \in S /\ \A x \in S : x <= Max(S)
<1> DEFINE T == {n \in Nat : b - n \in S}
<1>1. T \in SUBSET Nat /\ T # {}
  <2>1. PICK x \in S : x <= b
    OBVIOUS
  <2>2. b - x \in Nat /\ b - (b - x) = x
    BY <2>1
  <2> QED BY <2>2
<1>2. PICK n \in T : \A y \in T : n <= y
  <2> HIDE DEF T
  <2> QED BY <1>1, LeastOf
<1>3. ASSUME NEW x \in S
      PROVE  b - n >= x
  <2>1. x \in Nat /\ b - x \in Nat /\ b - (b - x) = x /\ n \in Nat
    OBVIOUS
  <2>2. n <= b - x
    BY <1>2, <2>1
  <2> QED BY <2>1, <2>2
<1>4. PICK g \in S : \A x \in S : g >= x
  BY <1>2, <1>3
<1>5. PICK x : x = Max(S)
  OBVIOUS
<1>6. x = CHOOSE y \in S : \A z \in S : y >= z
  BY <1>5 DEF Max
<1>7. x \in S /\ \A z \in S : x >= z
  BY <1>4, <1>6
<1>8. \A z \in S : z <= x
  BY <1>7
<1> QED BY <1>5, <1>7, <1>8

LEMMA LargestIs ==
    ASSUME NEW m \in Nat, NEW s \in SUBSET (1..m), m \in s
    PROVE  Max(s) = m
<1>1. s \in SUBSET Nat /\ s # {} /\ \A x \in s : x <= m
  OBVIOUS
<1>2. Max(s) \in s /\ \A x \in s : x <= Max(s)
  BY <1>1, GreatestOf
<1>3. PICK x \in s : x = Max(s)
  BY <1>2
<1>4. x \in Nat /\ m <= x /\ x <= m
  BY <1>1, <1>2, <1>3
<1> QED BY <1>3, <1>4

LEMMA LargestIn ==
    ASSUME NEW m \in Nat, NEW s \in SUBSET (1..m), s # {}
    PROVE  Max(s) \in 1..m
<1>1. s \in SUBSET Nat /\ \A x \in s : x <= m
  OBVIOUS
<1>2. Max(s) \in s
  BY <1>1, GreatestOf
<1> QED BY <1>2

-----------------------------------------------------------------------------
(* FoldsUpTo over a sequence. *)

\* it has the fold of g over the places in each set up to m, largest place last.
FoldsUpTo(it, X, m, B, g) ==
    /\ it \in [SUBSET (1..m) -> X]
    /\ \A s \in SUBSET (1..m) : it[s] = IF s = {} THEN B ELSE g[<<it[s \ {Max(s)}], Max(s)>>]

LEMMA FoldGoesOn ==
    ASSUME NEW X, NEW L \in Nat, NEW B \in X, NEW g \in [X \X (1..L) -> X],
           NEW m \in Nat, m + 1 \in 1..L, NEW it, FoldsUpTo(it, X, m, B, g)
    PROVE  \E jt : FoldsUpTo(jt, X, m + 1, B, g)
<1> DEFINE jt == [s \in SUBSET (1..(m + 1)) |->
                     IF m + 1 \in s THEN g[<<it[s \ {m + 1}], m + 1>>] ELSE it[s]]
<1>1. ASSUME NEW s \in SUBSET (1..(m + 1))
      PROVE  jt[s] \in X /\ jt[s] = IF s = {} THEN B ELSE g[<<jt[s \ {Max(s)}], Max(s)>>]
  <2>1. CASE m + 1 \in s
    <3>1. Max(s) = m + 1
      BY <2>1, LargestIs
    <3>2. /\ s \ {m + 1} \in SUBSET (1..(m + 1)) /\ m + 1 \notin s \ {m + 1}
          /\ s \ {m + 1} \in SUBSET (1..m)
      OBVIOUS
    <3>3. jt[s \ {m + 1}] = it[s \ {m + 1}]
      BY <3>2
    <3>4. jt[s] = g[<<it[s \ {m + 1}], m + 1>>]
      BY <2>1
    <3>5. it[s \ {m + 1}] \in X
      BY <3>2 DEF FoldsUpTo
    <3>6. g[<<it[s \ {m + 1}], m + 1>>] \in X
      BY <3>5
    <3> QED BY <2>1, <3>1, <3>3, <3>4, <3>6
  <2>2. CASE m + 1 \notin s
    <3>1. s \in SUBSET (1..m) /\ jt[s] = it[s]
      BY <2>2
    <3>2. it[s] \in X /\ it[s] = IF s = {} THEN B ELSE g[<<it[s \ {Max(s)}], Max(s)>>]
      BY <3>1 DEF FoldsUpTo
    <3>3. s \ {Max(s)} \in SUBSET (1..(m + 1)) /\ m + 1 \notin s \ {Max(s)}
      BY <2>2
    <3>4. jt[s \ {Max(s)}] = it[s \ {Max(s)}]
      BY <3>3
    <3> QED BY <3>1, <3>2, <3>4
  <2> QED BY <2>1, <2>2
<1>2. PICK kt : kt = jt
  OBVIOUS
<1>3. kt \in [SUBSET (1..(m + 1)) -> X]
  BY <1>1, <1>2
<1>4. FoldsUpTo(kt, X, m + 1, B, g)
  BY <1>1, <1>2, <1>3 DEF FoldsUpTo
<1> QED BY <1>4

LEMMA FoldHasValues ==
    ASSUME NEW X, NEW L \in Nat, NEW B \in X, NEW g \in [X \X (1..L) -> X]
    PROVE  \E it : FoldsUpTo(it, X, L, B, g)
<1> DEFINE Failing == {n \in Nat : n <= L /\ ~ \E it : FoldsUpTo(it, X, n, B, g)}
<1> SUFFICES ASSUME Failing # {} PROVE FALSE
  OBVIOUS
<1>1. PICK n \in Failing : \A m \in Failing : n <= m
  BY LeastOf
<1>2. n \in Nat /\ n <= L /\ ~ \E it : FoldsUpTo(it, X, n, B, g)
  OBVIOUS
<1>3. \E it : FoldsUpTo(it, X, 0, B, g)
  <2>1. PICK it : it = [s \in SUBSET (1..0) |-> B]
    OBVIOUS
  <2>2. \A s \in SUBSET (1..0) : s = {}
    OBVIOUS
  <2>3. it \in [SUBSET (1..0) -> X] /\ \A s \in SUBSET (1..0) : it[s] = B
    BY <2>1
  <2>4. FoldsUpTo(it, X, 0, B, g)
    BY <2>2, <2>3 DEF FoldsUpTo
  <2> QED BY <2>4
<1>4. n # 0
  BY <1>2, <1>3
<1>5. n - 1 \in Nat /\ n - 1 <= L /\ (n - 1) + 1 = n /\ n \in 1..L /\ ~ (n <= n - 1)
  BY <1>2, <1>4
<1>6. n - 1 \notin Failing
  BY <1>1, <1>5
<1>7. PICK it : FoldsUpTo(it, X, n - 1, B, g)
  BY <1>5, <1>6
<1>8. \E jt : FoldsUpTo(jt, X, (n - 1) + 1, B, g)
  BY <1>5, <1>7, FoldGoesOn
<1> QED BY <1>2, <1>5, <1>8

\* What is folded stays in X, if each step does.
LEMMA FoldStays ==
    ASSUME NEW X, NEW L \in Nat, NEW B \in X, NEW g \in [X \X (1..L) -> X], NEW it,
           it[{}] = B,
           \A s \in SUBSET (1..L) : s # {} => (it[s \ {Max(s)}] \in X => it[s] = g[<<it[s \ {Max(s)}], Max(s)>>])
    PROVE  it[1..L] \in X
<1> DEFINE Failing == {n \in Nat : n <= L /\ it[1..n] \notin X}
<1> SUFFICES ASSUME Failing # {} PROVE FALSE
  OBVIOUS
<1>1. PICK n \in Failing : \A m \in Failing : n <= m
  BY LeastOf
<1>2. n \in Nat /\ n <= L /\ it[1..n] \notin X
  OBVIOUS
<1>3. n # 0
  <2>1. 1..0 = {}
    OBVIOUS
  <2> QED BY <1>2, <2>1
<1>4. n - 1 \in Nat /\ n - 1 <= L /\ n \in 1..L /\ ~ (n <= n - 1)
  BY <1>2, <1>3
<1>5. n - 1 \notin Failing
  BY <1>1, <1>4
<1>6. it[1..(n - 1)] \in X
  BY <1>4, <1>5
<1>7. 1..n \in SUBSET (1..L) /\ 1..n # {} /\ n \in 1..n
  BY <1>4
<1>8. (1..n) \ {n} = 1..(n - 1)
  BY <1>4
<1>9. Max(1..n) = n
  <2>1. 1..n \in SUBSET (1..n)
    OBVIOUS
  <2> QED BY <1>2, <1>7, <2>1, LargestIs
<1>10. it[1..n] = g[<<it[1..(n - 1)], n>>]
  BY <1>6, <1>7, <1>8, <1>9
<1>11. g[<<it[1..(n - 1)], n>>] \in X
  BY <1>4, <1>6
<1> QED BY <1>2, <1>10, <1>11
=============================================================================
