---------------------- MODULE ParallelDepthFirst_proofs ----------------------
(***************************************************************************)
(* What the barrier of the parallel loop is worth: whatever the searches   *)
(* find, for any graph and any number of threads, nothing shared changes   *)
(* once findColoring has returned, and finderId and flag fit its result.   *)
(* That one search, on a matrix of its own, finds a colouring or leaves    *)
(* the graph as it was, if the graph is searchable.                        *)
(* And what the order of the unguarded stores is worth: on such a graph no *)
(* search starts on a half-copied matrix, what is returned is a colouring  *)
(* of every edge, and none is overlooked: on a cubic graph six failures    *)
(* mean that there is no colouring.                                        *)
(***************************************************************************)
EXTENDS ParallelDepthFirst, ColouringLemmas

Labels == {"copyIn", "loop", "search", "found", "flag", "finder", "copyOut", "barrier"}

Types ==
    /\ pc \in [Threads -> Labels]
    /\ flag \in BOOLEAN /\ found \in {0, 1} /\ finderId \in {-1} \cup Threads
    /\ returned \in {-1, 0, 1}

\* The stores of a finder come in the order found, flag, finderId.
NothingFound ==
    found = 0 => /\ ~flag /\ finderId = -1
                 /\ \A t \in Threads : pc[t] \notin {"flag", "finder", "copyOut"}

FinderComes ==
    found = 1 => finderId \in Threads \/ \E t \in Threads : pc[t] \in {"flag", "finder"}

Inv == Types /\ NothingFound /\ FinderComes /\ NobodyWrites /\ FinderIsNamed

LEMMA ThreadKeepsInv ==
    ASSUME Inv, NEW t \in Threads, Thread(t)
    PROVE  Inv'
<1> USE DEF Inv, Types, NothingFound, FinderComes, NobodyWrites, FinderIsNamed, Goto, shared
<1>1. CASE CopyIn(t)
  BY <1>1 DEF CopyIn
<1>2. CASE EnterLoop(t)
  BY <1>2 DEF EnterLoop, Labels
<1>3. CASE Skip(t)
  BY <1>3 DEF Skip
<1>4. CASE Begin(t)
  BY <1>4 DEF Begin, Labels
<1>5. CASE LoopDone(t)
  BY <1>5 DEF LoopDone, Labels
<1>6. CASE SearchPermutation(t)
  <2>1. /\ pc[t] = "search" /\ UNCHANGED <<shared, at>>
        /\ pc' = [pc EXCEPT ![t] = "found"] \/ pc' = [pc EXCEPT ![t] = "loop"]
    BY <1>6 DEF SearchPermutation
  <2> QED BY <2>1 DEF Labels
<1>7. CASE SetFound(t)
  BY <1>7 DEF SetFound, Labels
<1>8. CASE SetFlag(t)
  BY <1>8 DEF SetFlag, Labels
<1>9. CASE SetFinder(t)
  BY <1>9 DEF SetFinder, Labels, Threads
<1>10. CASE CopyOut(t)
  BY <1>10 DEF CopyOut
<1>11. CASE CopyOutDone(t)
  BY <1>11 DEF CopyOutDone, Labels
<1> QED BY <1>1, <1>2, <1>3, <1>4, <1>5, <1>6, <1>7, <1>8, <1>9, <1>10, <1>11 DEF Thread

LEMMA InitInv == Init => Inv
<1> SUFFICES ASSUME Init PROVE Inv
  OBVIOUS
<1>1. Types /\ NothingFound
  BY DEF Init, Types, Labels, NothingFound
<1>2. FinderComes /\ NobodyWrites /\ FinderIsNamed
  BY DEF Init, FinderComes, NobodyWrites, FinderIsNamed
<1> QED BY <1>1, <1>2 DEF Inv

(***************************************************************************)
(* What findColoring of depthFirst.c returns is still what found says, no  *)
(* thread is still at work, finderId names a thread if and only if there   *)
(* is a colouring, and without one no permutation was skipped (231-323).   *)
(***************************************************************************)
THEOREM SpecNobodyWrites == Spec => [](NobodyWrites /\ FinderIsNamed)
<1>1. Init => Inv
  BY InitInv
<1>2. Inv /\ [Next]_vars => Inv'
  <2> SUFFICES ASSUME Inv, [Next]_vars PROVE Inv'
    OBVIOUS
  <2>1. CASE Return
    BY <2>1 DEF Return, Inv, Types, NothingFound, FinderComes, NobodyWrites, FinderIsNamed
  <2>2. CASE UNCHANGED vars
    BY <2>2 DEF vars, shared, Inv, Types, NothingFound, FinderComes, NobodyWrites, FinderIsNamed
  <2> QED BY <2>1, <2>2, ThreadKeepsInv DEF Next
<1>3. Inv => NobodyWrites /\ FinderIsNamed
  BY DEF Inv
<1> QED BY <1>1, <1>2, <1>3, PTL DEF Spec

-----------------------------------------------------------------------------
\* The cell that a copy is at, and the ones that are done.
Before(n, u, w) == u * N + w < n

LEMMA CellAt ==
    ASSUME NEW n \in 0..N*N, n < N*N
    PROVE  /\ Row(n) \in V /\ Column(n) \in V
           /\ \A u, w \in V : Before(n + 1, u, w) <=> Before(n, u, w) \/ (u = Row(n) /\ w = Column(n))
<1>1. N \in Nat /\ N > 0 /\ n \in Nat
  BY SizeAssumption DEF V
<1> DEFINE q == n \div N
           r == n % N
<1>2. q \in Int /\ r \in 0..N-1 /\ n = N * q + r
  BY <1>1
<1> HIDE DEF q, r
<1>3. q \in 0..N-1
  <2>1. ASSUME q < 0 PROVE FALSE
    <3>1. q <= -1 /\ N * q <= N * (-1)
      BY <1>1, <1>2, <2>1
    <3> QED BY <1>1, <1>2, <3>1
  <2>2. ASSUME q >= N PROVE FALSE
    <3>1. N * q >= N * N
      BY <1>1, <1>2, <2>2
    <3> QED BY <1>1, <1>2, <3>1
  <2> QED BY <1>1, <1>2, <2>1, <2>2
<1>4. ASSUME NEW u \in V, NEW w \in V
      PROVE  u * N + w = n <=> u = q /\ w = r
  <2>1. u \in 0..N-1 /\ w \in 0..N-1
    BY DEF V
  <2>2. ASSUME u < q PROVE u * N + w < n
    <3>1. (u + 1) * N <= q * N
      BY <1>1, <1>3, <2>1, <2>2
    <3>2. (u + 1) * N = u * N + N /\ N * q = q * N
      BY <1>1, <1>3, <2>1
    <3> QED BY <1>1, <1>2, <1>3, <2>1, <3>1, <3>2
  <2>3. ASSUME u > q PROVE u * N + w > n
    <3>1. (q + 1) * N <= u * N
      BY <1>1, <1>3, <2>1, <2>3
    <3>2. (q + 1) * N = q * N + N /\ N * q = q * N
      BY <1>1, <1>3, <2>1
    <3> QED BY <1>1, <1>2, <1>3, <2>1, <3>1, <3>2
  <2>4. ASSUME u = q PROVE u * N + w = n <=> w = r
    <3>1. u * N = N * q
      BY <1>1, <1>3, <2>4
    <3> QED BY <1>1, <1>2, <1>3, <2>1, <3>1
  <2>5. u * N \in Int
    BY <1>1, <2>1
  <2> QED BY <1>1, <1>2, <1>3, <2>1, <2>2, <2>3, <2>4, <2>5
<1>5. \A u, w \in V : Before(n + 1, u, w) <=> Before(n, u, w) \/ (u = q /\ w = r)
  <2> TAKE u, w \in V
  <2>1. u * N + w \in Int
    BY <1>1 DEF V
  <2>2. u * N + w < n + 1 <=> u * N + w < n \/ u * N + w = n
    BY <1>1, <2>1
  <2> QED BY <1>4, <2>2 DEF Before
<1> QED BY <1>2, <1>3, <1>5 DEF V, Row, Column, q, r

LEMMA CellsAtEnds ==
    ASSUME NEW u \in V, NEW w \in V
    PROVE  ~ Before(0, u, w) /\ Before(N * N, u, w)
<1>1. N \in Nat /\ N > 0 /\ u \in 0..N-1 /\ w \in 0..N-1
  BY SizeAssumption DEF V
<1>2. u * N \in Int /\ u * N >= 0
  BY <1>1
<1>3. (u + 1) * N <= N * N /\ (u + 1) * N = u * N + N
  BY <1>1
<1>4. N * N \in Int
  BY <1>1
<1> QED BY <1>1, <1>2, <1>3, <1>4 DEF Before

-----------------------------------------------------------------------------
\* Nothing of a search is left.
Clean(t) == my[t] = graph /\ used[t] = AllUnused

\* The thread has found a colouring and begun to publish it.
Finished(t) == pc[t] \in {"copyOut", "loop", "barrier"} /\ ColouringOf(graph, my[t]) /\ HasFound(t)

DataTypes ==
    /\ graph \in Graphs /\ graphColors \in Matrices
    /\ my \in [Threads -> Matrices] /\ used \in [Threads -> Tables]
    /\ i \in [Threads -> Nat \ {0}] /\ at \in [Threads -> 0..N*N]

\* The flag is up before the first cell of graphColors changes.
FlagUp ==
    /\ ~ flag => graphColors = graph
    /\ \A t \in Threads : pc[t] \in {"finder", "copyOut"} => flag
    /\ finderId # -1 => flag

\* As long as it is down, what was copied is the graph.
Copying ==
    \A t \in Threads :
        pc[t] = "copyIn" =>
            /\ used[t] = AllUnused
            /\ ~ flag => \A u, w \in V : Before(at[t], u, w) => my[t][u][w] = graph[u][w]

Searching ==
    \A t \in Threads :
        /\ pc[t] = "loop" /\ ~ flag => Clean(t)
        /\ pc[t] = "search" => Clean(t) /\ i[t] <= Len(Perms)

Finders ==
    \A t \in Threads :
        pc[t] \in {"found", "flag", "finder", "copyOut"} => ColouringOf(graph, my[t]) /\ HasFound(t)

\* A cell of graphColors is that of the graph or of a colouring.
Published ==
    \A u, w \in V :
        \/ graphColors[u][w] = graph[u][w]
        \/ \E s \in Threads : Finished(s) /\ graphColors[u][w] = my[s][u][w]

Copied ==
    \A t \in Threads :
        pc[t] = "copyOut" => \A u, w \in V : Before(at[t], u, w) => graphColors[u][w] # 1

Named == finderId \in Threads => Finished(finderId)

Filled ==
    found = 1 => \/ \E t \in Threads : pc[t] \in {"flag", "finder", "copyOut"}
                 \/ \A u, w \in V : graphColors[u][w] # 1

\* The permutations that schedule(static, 1) gives to a thread.
Share(t) == {t + 1 + m * T : m \in Nat}

Tried ==
    \A t \in Threads :
        /\ i[t] \in Share(t) /\ (pc[t] = "barrier" => i[t] > Len(Perms))
        /\ found = 0 => \A perm \in 1..Len(Perms) : perm \in Share(t) /\ perm < i[t] => Fails(graph, perm)

TeamInv ==
    /\ Inv /\ DataTypes /\ FlagUp /\ Copying /\ Searching /\ Finders
    /\ Published /\ Copied /\ Named /\ Filled /\ Tried

LEMMA GraphIsMatrix == \A g \in Graphs : g \in Matrices
<1>1. \A g \in [V -> [V -> {0, 1}]] : g \in Matrices
  BY DEF Matrices
<1> QED BY <1>1, GraphsAssumption

LEMMA NoneIsUsed == AllUnused \in Tables
  BY DEF AllUnused, Tables

LEMMA NextShare ==
    ASSUME NEW t \in Threads, NEW n \in Share(t)
    PROVE  /\ n \in Nat \ {0} /\ n + T \in Share(t)
           /\ \A p \in Share(t) : p < n + T => p < n \/ p = n
<1>1. T \in Nat \ {0} /\ t \in 0..T-1
  BY ThreadsAssumption DEF Threads
<1>2. PICK m \in Nat : n = t + 1 + m * T
  BY DEF Share
<1>3. m * T \in Nat
  BY <1>1, <1>2
<1>4. (m + 1) * T = m * T + T /\ m + 1 \in Nat
  BY <1>1, <1>2
<1>5. n + T = t + 1 + (m + 1) * T
  BY <1>1, <1>2, <1>3, <1>4
<1>6. ASSUME NEW p \in Share(t), p < n + T
      PROVE  p < n \/ p = n
  <2>1. PICK k \in Nat : p = t + 1 + k * T
    BY DEF Share
  <2>2. CASE k >= m + 1
    <3>1. k * T >= (m + 1) * T /\ k * T \in Nat
      BY <1>1, <1>2, <2>1, <2>2
    <3> QED BY <1>1, <1>2, <1>3, <1>4, <1>6, <2>1, <3>1
  <2>3. CASE k <= m
    <3>1. k * T <= m * T /\ k * T \in Nat
      BY <1>1, <1>2, <2>1, <2>3
    <3> QED BY <1>1, <1>2, <1>3, <2>1, <3>1
  <2> QED BY <1>2, <2>1, <2>2, <2>3
<1> QED BY <1>1, <1>2, <1>3, <1>4, <1>5, <1>6 DEF Share

\* The threads between them leave no permutation out.
LEMMA EveryShare == \A n \in Nat \ {0} : \E t \in Threads : n \in Share(t)
<1> TAKE n \in Nat \ {0}
<1>1. T \in Nat \ {0}
  BY ThreadsAssumption
<1> DEFINE t == (n - 1) % T
           m == (n - 1) \div T
<1>2. t \in 0..T-1 /\ m \in Int /\ n - 1 = T * m + t
  BY <1>1
<1> HIDE DEF t, m
<1>3. m \in Nat
  <2>1. ASSUME m < 0 PROVE FALSE
    <3>1. m <= -1 /\ T * m <= T * (-1)
      BY <1>1, <1>2, <2>1
    <3> QED BY <1>1, <1>2, <3>1
  <2> QED BY <1>2, <2>1
<1>4. n = t + 1 + m * T
  <2>1. T * m = m * T /\ m * T \in Int
    BY <1>1, <1>2
  <2> QED BY <1>1, <1>2, <2>1
<1> QED BY <1>2, <1>3, <1>4 DEF Threads, Share

LEMMA TeamStarts ==
    ASSUME Init
    PROVE  DataTypes /\ FlagUp /\ Copying /\ Searching /\ Finders /\ Published /\ Copied
             /\ Named /\ Filled /\ Tried
<1> USE DEF Init
<1>0. N \in Nat /\ T \in Nat \ {0} /\ 0 \in 0..N*N
  <2>1. N \in Nat /\ N * N \in Nat
    BY SizeAssumption
  <2> QED BY <2>1, ThreadsAssumption
<1>1. DataTypes
  <2>1. graphColors \in Matrices
    BY GraphIsMatrix
  <2>2. [u \in V |-> [w \in V |-> 0]] \in Matrices
    BY DEF Matrices
  <2>3. \A t \in Threads : t + 1 \in Nat \ {0}
    BY <1>0 DEF Threads
  <2> QED BY <1>0, <2>1, <2>2, <2>3, NoneIsUsed DEF DataTypes
<1>2. FlagUp /\ Searching /\ Finders /\ Copied
  BY DEF FlagUp, Searching, Finders, Copied
<1>3. Copying
  BY CellsAtEnds DEF Copying
<1>4. Published /\ Filled
  BY DEF Published, Filled
<1>5. Named
  BY <1>0 DEF Named, Threads
<1>6. Tried
  <2>1. ASSUME NEW t \in Threads
        PROVE  /\ t + 1 \in Share(t)
               /\ \A p \in Share(t) : ~ (p < t + 1)
    <3>1. t \in 0..T-1
      BY DEF Threads
    <3>2. t + 1 = t + 1 + 0 * T
      BY <1>0, <3>1
    <3>3. \A m \in Nat : m * T \in Nat
      BY <1>0
    <3> QED BY <1>0, <3>1, <3>2, <3>3 DEF Share
  <2> QED BY <2>1 DEF Tried
<1> QED BY <1>1, <1>2, <1>3, <1>4, <1>5, <1>6

-----------------------------------------------------------------------------
LEMMA CopyInKeeps ==
    ASSUME TeamInv, NEW t \in Threads, CopyIn(t)
    PROVE  TeamInv'
<1> DEFINE r == Row(at[t])
           c == Column(at[t])
<1>1. /\ pc[t] = "copyIn" /\ at[t] < N * N /\ UNCHANGED <<shared, used, i, pc>>
      /\ my' = [my EXCEPT ![t][r][c] = graphColors[r][c]]
      /\ at' = [at EXCEPT ![t] = @ + 1]
  BY DEF CopyIn
<1>2. at[t] \in 0..N*N /\ my \in [Threads -> Matrices] /\ graphColors \in Matrices
      /\ at \in [Threads -> 0..N*N]
  BY DEF TeamInv, DataTypes
<1>3. /\ r \in V /\ c \in V
      /\ \A u, w \in V : Before(at[t] + 1, u, w) <=> Before(at[t], u, w) \/ (u = r /\ w = c)
  BY <1>1, <1>2, CellAt
<1> HIDE DEF r, c
<1>4. /\ my'[t] \in Matrices /\ \A s \in Threads \ {t} : my'[s] = my[s]
      /\ \A u, w \in V : my'[t][u][w] = IF u = r /\ w = c THEN graphColors[r][c] ELSE my[t][u][w]
      /\ my' \in [Threads -> Matrices]
  BY <1>1, <1>2, <1>3 DEF Matrices
<1>5. /\ at'[t] = at[t] + 1 /\ \A s \in Threads \ {t} : at'[s] = at[s]
      /\ at[t] + 1 \in 0..N*N
  <2>1. N * N \in Int
    BY SizeAssumption
  <2> QED BY <1>1, <1>2, <2>1
<1>6. UNCHANGED <<graph, graphColors, flag, found, finderId, returned, used, i, pc>>
  BY <1>1 DEF shared
<1>7. Inv'
  BY <1>6 DEF TeamInv, Inv, Types, NothingFound, FinderComes, NobodyWrites, FinderIsNamed
<1>8. DataTypes'
  BY <1>1, <1>2, <1>4, <1>5, <1>6 DEF TeamInv, DataTypes
<1>9. FlagUp' /\ Filled' /\ Tried'
  BY <1>6 DEF TeamInv, FlagUp, Filled, Tried
<1>10. Copying'
  <2> SUFFICES ASSUME NEW s \in Threads, pc[s] = "copyIn"
               PROVE  /\ used[s] = AllUnused
                      /\ ~ flag => \A u, w \in V : Before(at'[s], u, w) => my'[s][u][w] = graph[u][w]
    BY <1>6 DEF Copying
  <2>1. /\ used[s] = AllUnused
        /\ ~ flag => \A u, w \in V : Before(at[s], u, w) => my[s][u][w] = graph[u][w]
    BY DEF TeamInv, Copying
  <2>2. ~ flag => graphColors = graph
    BY DEF TeamInv, FlagUp
  <2>3. CASE s = t
    BY <1>3, <1>4, <1>5, <2>1, <2>2, <2>3
  <2>4. CASE s # t
    BY <1>4, <1>5, <2>1, <2>4
  <2> QED BY <2>3, <2>4
<1>11. Searching' /\ Finders'
  BY <1>1, <1>4, <1>6 DEF TeamInv, Searching, Finders, Clean, HasFound
<1>12. Published' /\ Named'
  BY <1>1, <1>4, <1>6 DEF TeamInv, Published, Named, Finished, HasFound
<1>13. Copied'
  BY <1>1, <1>5, <1>6 DEF TeamInv, Copied
<1> QED BY <1>7, <1>8, <1>9, <1>10, <1>11, <1>12, <1>13 DEF TeamInv

LEMMA EnterLoopKeeps ==
    ASSUME TeamInv, NEW t \in Threads, EnterLoop(t)
    PROVE  TeamInv'
<1>0. Inv'
  BY ThreadKeepsInv DEF TeamInv, Thread
<1>1. /\ pc[t] = "copyIn" /\ at[t] = N * N /\ pc' = [pc EXCEPT ![t] = "loop"]
      /\ UNCHANGED <<graph, graphColors, flag, found, finderId, returned, my, used, i, at>>
  BY DEF EnterLoop, Goto, shared
<1>2. /\ pc'[t] = "loop" /\ \A s \in Threads \ {t} : pc'[s] = pc[s]
  BY <1>1 DEF TeamInv, Inv, Types
<1>3. ~ flag => Clean(t)
  <2> SUFFICES ASSUME ~ flag PROVE Clean(t)
    OBVIOUS
  <2>1. used[t] = AllUnused /\ \A u, w \in V : my[t][u][w] = graph[u][w]
    BY <1>1, CellsAtEnds DEF TeamInv, Copying
  <2>2. graph \in Matrices /\ my[t] \in Matrices
    BY GraphIsMatrix DEF TeamInv, DataTypes
  <2>3. my[t] = graph
    BY <2>1, <2>2 DEF Matrices
  <2> QED BY <2>1, <2>3 DEF Clean
<1>4. DataTypes' /\ FlagUp' /\ Copying'
  BY <1>1, <1>2 DEF TeamInv, DataTypes, FlagUp, Copying
<1>5. Searching'
  BY <1>1, <1>2, <1>3 DEF TeamInv, Searching, Clean
<1>6. Finders' /\ Copied'
  BY <1>1, <1>2 DEF TeamInv, Finders, Copied, HasFound
<1>7. \A s \in Threads : Finished(s) => Finished(s)'
  BY <1>1, <1>2 DEF Finished, HasFound
<1>8. Published' /\ Named'
  BY <1>1, <1>7 DEF TeamInv, Published, Named
<1>9. Filled' /\ Tried'
  BY <1>1, <1>2 DEF TeamInv, Filled, Tried
<1> QED BY <1>0, <1>4, <1>5, <1>6, <1>8, <1>9 DEF TeamInv

LEMMA SkipKeeps ==
    ASSUME TeamInv, NEW t \in Threads, Skip(t)
    PROVE  TeamInv'
<1>0. Inv'
  BY ThreadKeepsInv DEF TeamInv, Thread
<1>1. /\ pc[t] = "loop" /\ flag /\ i' = [i EXCEPT ![t] = @ + T]
      /\ UNCHANGED <<graph, graphColors, flag, found, finderId, returned, my, used, at, pc>>
  BY DEF Skip, shared
<1>2. i[t] \in Nat \ {0} /\ i \in [Threads -> Nat \ {0}] /\ i[t] \in Share(t)
  BY DEF TeamInv, DataTypes, Tried
<1>3. i[t] + T \in Nat \ {0} /\ i[t] + T \in Share(t)
  BY <1>2, NextShare, ThreadsAssumption
<1>4. i'[t] = i[t] + T /\ \A s \in Threads \ {t} : i'[s] = i[s]
  BY <1>1, <1>2
<1>5. DataTypes'
  BY <1>1, <1>2, <1>3 DEF TeamInv, DataTypes
<1>6. FlagUp' /\ Copying' /\ Finders' /\ Copied' /\ Filled'
  BY <1>1 DEF TeamInv, FlagUp, Copying, Finders, Copied, Filled, HasFound
<1>7. Searching'
  BY <1>1, <1>4 DEF TeamInv, Searching, Clean
<1>8. Published' /\ Named'
  BY <1>1 DEF TeamInv, Published, Named, Finished, HasFound
<1>9. found # 0
  BY <1>1 DEF TeamInv, Inv, NothingFound
<1>10. Tried'
  BY <1>1, <1>3, <1>4, <1>9 DEF TeamInv, Tried
<1> QED BY <1>0, <1>5, <1>6, <1>7, <1>8, <1>10 DEF TeamInv

LEMMA BeginKeeps ==
    ASSUME TeamInv, NEW t \in Threads, Begin(t)
    PROVE  TeamInv'
<1>0. Inv'
  BY ThreadKeepsInv DEF TeamInv, Thread
<1>1. /\ pc[t] = "loop" /\ i[t] <= Len(Perms) /\ ~ flag /\ pc' = [pc EXCEPT ![t] = "search"]
      /\ UNCHANGED <<graph, graphColors, flag, found, finderId, returned, my, used, i, at>>
  BY DEF Begin, Goto, shared
<1>2. /\ pc'[t] = "search" /\ \A s \in Threads \ {t} : pc'[s] = pc[s]
  BY <1>1 DEF TeamInv, Inv, Types
<1>3. graphColors = graph /\ finderId = -1
  BY <1>1 DEF TeamInv, FlagUp
<1>4. DataTypes' /\ FlagUp' /\ Copying'
  BY <1>1, <1>2 DEF TeamInv, DataTypes, FlagUp, Copying
<1>5. Searching'
  BY <1>1, <1>2 DEF TeamInv, Searching, Clean
<1>6. Finders' /\ Copied' /\ Filled' /\ Tried'
  BY <1>1, <1>2 DEF TeamInv, Finders, Copied, Filled, Tried, HasFound
<1>7. Published' /\ Named'
  BY <1>1, <1>3, ThreadsAssumption DEF Published, Named, Threads
<1> QED BY <1>0, <1>4, <1>5, <1>6, <1>7 DEF TeamInv

LEMMA LoopDoneKeeps ==
    ASSUME TeamInv, NEW t \in Threads, LoopDone(t)
    PROVE  TeamInv'
<1>0. Inv'
  BY ThreadKeepsInv DEF TeamInv, Thread
<1>1. /\ pc[t] = "loop" /\ i[t] > Len(Perms) /\ pc' = [pc EXCEPT ![t] = "barrier"]
      /\ UNCHANGED <<graph, graphColors, flag, found, finderId, returned, my, used, i, at>>
  BY DEF LoopDone, Goto, shared
<1>2. /\ pc'[t] = "barrier" /\ \A s \in Threads \ {t} : pc'[s] = pc[s]
  BY <1>1 DEF TeamInv, Inv, Types
<1>3. DataTypes' /\ FlagUp' /\ Copying'
  BY <1>1, <1>2 DEF TeamInv, DataTypes, FlagUp, Copying
<1>4. Searching'
  BY <1>1, <1>2 DEF TeamInv, Searching, Clean
<1>5. Finders' /\ Copied' /\ Filled' /\ Tried'
  BY <1>1, <1>2 DEF TeamInv, Finders, Copied, Filled, Tried, HasFound
<1>6. \A s \in Threads : Finished(s) => Finished(s)'
  BY <1>1, <1>2 DEF Finished, HasFound
<1>7. Published' /\ Named'
  BY <1>1, <1>6 DEF TeamInv, Published, Named
<1> QED BY <1>0, <1>3, <1>4, <1>5, <1>7 DEF TeamInv

LEMMA SearchKeeps ==
    ASSUME SearchIsRight(graph), TeamInv, NEW t \in Threads, SearchPermutation(t)
    PROVE  TeamInv'
<1>0. Inv'
  BY ThreadKeepsInv DEF TeamInv, Thread
<1>1. /\ pc[t] = "search"
      /\ UNCHANGED <<graph, graphColors, flag, found, finderId, returned, at>>
  BY DEF SearchPermutation, shared
<1>2. /\ my[t] = graph /\ used[t] = AllUnused /\ i[t] \in 1..Len(Perms)
      /\ i[t] \in Nat \ {0} /\ i[t] \in Share(t)
      /\ my \in [Threads -> Matrices] /\ used \in [Threads -> Tables]
      /\ i \in [Threads -> Nat \ {0}] /\ pc \in [Threads -> Labels]
  <2>1. my[t] = graph /\ used[t] = AllUnused /\ i[t] <= Len(Perms)
    BY <1>1 DEF TeamInv, Searching, Clean
  <2>2. i[t] \in Nat \ {0} /\ Len(Perms) = 6
    BY PermsAre DEF TeamInv, DataTypes
  <2> QED BY <2>1, <2>2 DEF TeamInv, DataTypes, Tried, Inv, Types
<1>3. PICK s \in OutcomesOf(<<graph, AllUnused>>, i[t]) :
        \E p \in {IF s.ok THEN s.p ELSE RowUndone(graph, s.p)} :
          /\ my'   = [my EXCEPT ![t] = p[1]]
          /\ used' = [used EXCEPT ![t] = p[2]]
          /\ i'    = [i EXCEPT ![t] = IF s.ok THEN @ ELSE @ + T]
          /\ pc'   = [pc EXCEPT ![t] = IF s.ok THEN "found" ELSE "loop"]
  BY <1>2 DEF SearchPermutation, Outcomes, Goto
<1>4. IF s.ok THEN ColouringOf(graph, s.p[1]) /\ s.p[2] \in Tables \ {AllUnused}
              ELSE RowUndone(graph, s.p) = <<graph, AllUnused>>
  BY <1>2, <1>3 DEF SearchIsRight
<1>5. \A u \in Threads \ {t} : my'[u] = my[u] /\ used'[u] = used[u] /\ i'[u] = i[u] /\ pc'[u] = pc[u]
  BY <1>2, <1>3
<1>6. FlagUp'
  BY <1>1, <1>2, <1>3 DEF TeamInv, FlagUp
<1>7. Copying'
  BY <1>1, <1>2, <1>3, <1>5 DEF TeamInv, Copying
<1>8. \A u \in Threads : Finished(u) => Finished(u)' /\ my'[u] = my[u]
  BY <1>1, <1>5 DEF Finished, HasFound
<1>9. Published' /\ Named'
  BY <1>1, <1>8 DEF TeamInv, Published, Named
<1>10. Copied'
  BY <1>1, <1>2, <1>3, <1>5 DEF TeamInv, Copied
<1>11. Filled'
  <2>1. \A u \in Threads : pc[u] \in {"flag", "finder", "copyOut"} => pc'[u] = pc[u]
    BY <1>1, <1>5
  <2> QED BY <1>1, <2>1 DEF TeamInv, Filled
<1>12. CASE s.ok
  <2>1. /\ my' = [my EXCEPT ![t] = s.p[1]] /\ used' = [used EXCEPT ![t] = s.p[2]]
        /\ i' = i /\ pc'[t] = "found"
    BY <1>2, <1>3, <1>12
  <2>2. /\ s.p[1] \in Matrices /\ s.p[2] \in Tables /\ s.p[2] # AllUnused
        /\ my'[t] = s.p[1] /\ used'[t] = s.p[2]
    BY <1>2, <1>4, <1>12, <2>1 DEF ColouringOf
  <2>3. DataTypes'
    BY <1>1, <1>2, <2>1, <2>2 DEF TeamInv, DataTypes
  <2>4. Searching' /\ Finders'
    BY <1>1, <1>4, <1>5, <1>12, <2>1, <2>2 DEF TeamInv, Searching, Finders, Clean, HasFound
  <2>5. Tried'
    BY <1>1, <1>5, <2>1 DEF TeamInv, Tried
  <2> QED BY <1>0, <1>6, <1>7, <1>9, <1>10, <1>11, <2>3, <2>4, <2>5 DEF TeamInv
<1>13. CASE ~ s.ok
  <2>1. /\ my' = [my EXCEPT ![t] = graph] /\ used' = [used EXCEPT ![t] = AllUnused]
        /\ i' = [i EXCEPT ![t] = @ + T] /\ pc'[t] = "loop"
    <3>1. PICK p : /\ p = RowUndone(graph, s.p)
                   /\ my' = [my EXCEPT ![t] = p[1]] /\ used' = [used EXCEPT ![t] = p[2]]
                   /\ i' = [i EXCEPT ![t] = @ + T] /\ pc' = [pc EXCEPT ![t] = "loop"]
      BY <1>3, <1>13
    <3>2. p[1] = graph /\ p[2] = AllUnused
      BY <1>4, <1>13, <3>1
    <3> QED BY <1>2, <3>1, <3>2
  <2>2. my'[t] = graph /\ used'[t] = AllUnused /\ i'[t] = i[t] + T
    BY <1>2, <2>1
  <2>3. i[t] + T \in Nat \ {0} /\ i[t] + T \in Share(t)
    BY <1>2, NextShare, ThreadsAssumption
  <2>4. DataTypes'
    BY <1>1, <1>2, <2>1, <2>3, GraphIsMatrix, NoneIsUsed DEF TeamInv, DataTypes
  <2>5. Searching' /\ Finders'
    BY <1>1, <1>5, <2>1, <2>2 DEF TeamInv, Searching, Finders, Clean, HasFound
  <2>6. Fails(graph, i[t])
    BY <1>3, <1>13 DEF Fails
  <2>7. Tried'
    <3> SUFFICES ASSUME NEW u \in Threads
                 PROVE  /\ i'[u] \in Share(u) /\ (pc'[u] = "barrier" => i'[u] > Len(Perms))
                        /\ found = 0 => \A perm \in 1..Len(Perms) :
                                          perm \in Share(u) /\ perm < i'[u] => Fails(graph, perm)
      BY <1>1 DEF Tried
    <3>1. CASE u = t
      <4>1. found = 0 => \A perm \in 1..Len(Perms) :
                           perm \in Share(t) /\ perm < i[t] => Fails(graph, perm)
        BY DEF TeamInv, Tried
      <4>2. \A perm \in Share(t) : perm < i[t] + T => perm < i[t] \/ perm = i[t]
        BY <1>2, NextShare
      <4> QED BY <2>1, <2>2, <2>3, <2>6, <3>1, <4>1, <4>2
    <3>2. CASE u # t
      BY <1>5, <3>2 DEF TeamInv, Tried
    <3> QED BY <3>1, <3>2
  <2> QED BY <1>0, <1>6, <1>7, <1>9, <1>10, <1>11, <2>4, <2>5, <2>7 DEF TeamInv
<1> QED BY <1>12, <1>13

LEMMA SetFoundKeeps ==
    ASSUME TeamInv, NEW t \in Threads, SetFound(t)
    PROVE  TeamInv'
<1>0. Inv'
  BY ThreadKeepsInv DEF TeamInv, Thread
<1>1. /\ pc[t] = "found" /\ found' = 1 /\ pc' = [pc EXCEPT ![t] = "flag"]
      /\ UNCHANGED <<graph, graphColors, flag, finderId, returned, my, used, i, at>>
  BY DEF SetFound, Goto
<1>2. /\ pc'[t] = "flag" /\ \A s \in Threads \ {t} : pc'[s] = pc[s]
  BY <1>1 DEF TeamInv, Inv, Types
<1>3. DataTypes' /\ FlagUp' /\ Copying'
  BY <1>1, <1>2 DEF TeamInv, DataTypes, FlagUp, Copying
<1>4. Searching' /\ Finders'
  BY <1>1, <1>2 DEF TeamInv, Searching, Finders, Clean, HasFound
<1>5. Copied' /\ Filled' /\ Tried'
  BY <1>1, <1>2 DEF TeamInv, Copied, Filled, Tried
<1>6. \A s \in Threads : Finished(s) => Finished(s)'
  BY <1>1, <1>2 DEF Finished, HasFound
<1>7. Published' /\ Named'
  BY <1>1, <1>6 DEF TeamInv, Published, Named
<1> QED BY <1>0, <1>3, <1>4, <1>5, <1>7 DEF TeamInv

LEMMA SetFlagKeeps ==
    ASSUME TeamInv, NEW t \in Threads, SetFlag(t)
    PROVE  TeamInv'
<1>0. Inv'
  BY ThreadKeepsInv DEF TeamInv, Thread
<1>1. /\ pc[t] = "flag" /\ flag' = TRUE /\ pc' = [pc EXCEPT ![t] = "finder"]
      /\ UNCHANGED <<graph, graphColors, found, finderId, returned, my, used, i, at>>
  BY DEF SetFlag, Goto
<1>2. /\ pc'[t] = "finder" /\ \A s \in Threads \ {t} : pc'[s] = pc[s]
  BY <1>1 DEF TeamInv, Inv, Types
<1>3. DataTypes' /\ FlagUp' /\ Copying'
  BY <1>1, <1>2 DEF TeamInv, DataTypes, FlagUp, Copying
<1>4. Searching' /\ Finders'
  BY <1>1, <1>2 DEF TeamInv, Searching, Finders, Clean, HasFound
<1>5. Copied' /\ Filled' /\ Tried'
  BY <1>1, <1>2 DEF TeamInv, Copied, Filled, Tried
<1>6. \A s \in Threads : Finished(s) => Finished(s)'
  BY <1>1, <1>2 DEF Finished, HasFound
<1>7. Published' /\ Named'
  BY <1>1, <1>6 DEF TeamInv, Published, Named
<1> QED BY <1>0, <1>3, <1>4, <1>5, <1>7 DEF TeamInv

LEMMA SetFinderKeeps ==
    ASSUME TeamInv, NEW t \in Threads, SetFinder(t)
    PROVE  TeamInv'
<1>0. Inv'
  BY ThreadKeepsInv DEF TeamInv, Thread
<1>1. /\ pc[t] = "finder" /\ finderId' = t /\ pc' = [pc EXCEPT ![t] = "copyOut"]
      /\ at' = [at EXCEPT ![t] = 0]
      /\ UNCHANGED <<graph, graphColors, flag, found, returned, my, used, i>>
  BY DEF SetFinder, Goto
<1>2. /\ pc'[t] = "copyOut" /\ \A s \in Threads \ {t} : pc'[s] = pc[s]
      /\ at'[t] = 0 /\ \A s \in Threads \ {t} : at'[s] = at[s]
  BY <1>1 DEF TeamInv, Inv, Types, DataTypes
<1>3. flag
  BY <1>1 DEF TeamInv, FlagUp
<1>4. FlagUp' /\ Copying'
  BY <1>1, <1>2, <1>3 DEF TeamInv, FlagUp, Copying
<1>5. DataTypes'
  <2>1. 0 \in 0..N*N
    <3>1. N * N \in Nat
      BY SizeAssumption
    <3> QED BY <3>1
  <2> QED BY <1>1, <2>1 DEF TeamInv, DataTypes
<1>6. Searching' /\ Finders'
  BY <1>1, <1>2 DEF TeamInv, Searching, Finders, Clean, HasFound
<1>7. Copied'
  BY <1>1, <1>2, CellsAtEnds DEF TeamInv, Copied
<1>8. Filled' /\ Tried'
  BY <1>1, <1>2 DEF TeamInv, Filled, Tried
<1>9. \A s \in Threads : Finished(s) => Finished(s)'
  BY <1>1, <1>2 DEF Finished, HasFound
<1>10. Published'
  BY <1>1, <1>9 DEF TeamInv, Published
<1>11. Named'
  BY <1>1, <1>2 DEF TeamInv, Named, Finders, Finished, HasFound
<1> QED BY <1>0, <1>4, <1>5, <1>6, <1>7, <1>8, <1>10, <1>11 DEF TeamInv

LEMMA CopyOutKeeps ==
    ASSUME TeamInv, NEW t \in Threads, CopyOut(t)
    PROVE  TeamInv'
<1>0. Inv'
  BY ThreadKeepsInv DEF TeamInv, Thread
<1> DEFINE r == Row(at[t])
           c == Column(at[t])
<1>1. /\ pc[t] = "copyOut" /\ at[t] < N * N
      /\ UNCHANGED <<graph, flag, found, finderId, returned, my, used, i, pc>>
      /\ graphColors' = [graphColors EXCEPT ![r][c] = my[t][r][c]]
      /\ at' = [at EXCEPT ![t] = @ + 1]
  BY DEF CopyOut
<1>2. at[t] \in 0..N*N /\ my \in [Threads -> Matrices] /\ graphColors \in Matrices
      /\ at \in [Threads -> 0..N*N]
  BY DEF TeamInv, DataTypes
<1>3. /\ r \in V /\ c \in V
      /\ \A u, w \in V : Before(at[t] + 1, u, w) <=> Before(at[t], u, w) \/ (u = r /\ w = c)
  BY <1>1, <1>2, CellAt
<1> HIDE DEF r, c
<1>4. /\ graphColors' \in Matrices
      /\ \A u, w \in V : graphColors'[u][w] = IF u = r /\ w = c THEN my[t][r][c] ELSE graphColors[u][w]
  BY <1>1, <1>2, <1>3 DEF Matrices
<1>5. /\ at'[t] = at[t] + 1 /\ \A s \in Threads \ {t} : at'[s] = at[s]
      /\ at[t] + 1 \in 0..N*N
  <2>1. N * N \in Int
    BY SizeAssumption
  <2> QED BY <1>1, <1>2, <2>1
<1>6. ColouringOf(graph, my[t]) /\ HasFound(t) /\ flag
  BY <1>1 DEF TeamInv, Finders, FlagUp
<1>7. my[t][r][c] # 1
  BY <1>3, <1>6 DEF ColouringOf
<1>8. DataTypes'
  BY <1>1, <1>2, <1>4, <1>5 DEF TeamInv, DataTypes
<1>9. FlagUp' /\ Copying'
  BY <1>1, <1>5, <1>6 DEF TeamInv, FlagUp, Copying
<1>10. Searching' /\ Finders' /\ Named' /\ Tried'
  BY <1>1 DEF TeamInv, Searching, Clean, Finders, Named, Finished, Tried, HasFound
<1>11. Published'
  <2>1. Finished(t)
    BY <1>1, <1>6 DEF Finished
  <2> QED BY <1>1, <1>4, <2>1 DEF TeamInv, Published, Finished, HasFound
<1>12. Copied' /\ Filled'
  BY <1>1, <1>3, <1>4, <1>5, <1>7 DEF TeamInv, Copied, Filled
<1> QED BY <1>0, <1>8, <1>9, <1>10, <1>11, <1>12 DEF TeamInv

LEMMA CopyOutDoneKeeps ==
    ASSUME TeamInv, NEW t \in Threads, CopyOutDone(t)
    PROVE  TeamInv'
<1>0. Inv'
  BY ThreadKeepsInv DEF TeamInv, Thread
<1>1. /\ pc[t] = "copyOut" /\ at[t] = N * N /\ i' = [i EXCEPT ![t] = @ + T]
      /\ pc' = [pc EXCEPT ![t] = "loop"]
      /\ UNCHANGED <<graph, graphColors, flag, found, finderId, returned, my, used, at>>
  BY DEF CopyOutDone, Goto, shared
<1>2. i[t] \in Nat \ {0} /\ i \in [Threads -> Nat \ {0}] /\ i[t] \in Share(t)
  BY DEF TeamInv, DataTypes, Tried
<1>3. i[t] + T \in Nat \ {0} /\ i[t] + T \in Share(t)
  BY <1>2, NextShare, ThreadsAssumption
<1>4. /\ i'[t] = i[t] + T /\ \A s \in Threads \ {t} : i'[s] = i[s]
      /\ pc'[t] = "loop" /\ \A s \in Threads \ {t} : pc'[s] = pc[s]
  BY <1>1, <1>2 DEF TeamInv, Inv, Types
<1>5. DataTypes'
  BY <1>1, <1>2, <1>3 DEF TeamInv, DataTypes
<1>6. flag /\ found # 0
  BY <1>1 DEF TeamInv, FlagUp, Inv, NothingFound
<1>7. FlagUp' /\ Copying' /\ Finders' /\ Copied'
  BY <1>1, <1>4, <1>6 DEF TeamInv, FlagUp, Copying, Finders, Copied, HasFound
<1>8. Searching'
  BY <1>1, <1>4, <1>6 DEF TeamInv, Searching, Clean
<1>9. Filled'
  BY <1>1, CellsAtEnds DEF TeamInv, Copied, Filled
<1>10. \A s \in Threads : Finished(s) => Finished(s)'
  BY <1>1, <1>4 DEF Finished, HasFound
<1>11. Published' /\ Named'
  BY <1>1, <1>10 DEF TeamInv, Published, Named
<1>12. Tried'
  BY <1>1, <1>3, <1>4, <1>6 DEF TeamInv, Tried
<1> QED BY <1>0, <1>5, <1>7, <1>8, <1>9, <1>11, <1>12 DEF TeamInv

-----------------------------------------------------------------------------
(***************************************************************************)
(* What one search computes.  Search is a recursive function, so it has to *)
(* be shown first that there is one: each call is on a pair with fewer     *)
(* edges without a colour.                                                 *)
(***************************************************************************)
Pairs == Matrices \X Tables

Blank(p) == {x \in V \X V : p[1][x[1]][x[2]] = 1}
Left(p, v) == {w \in V : p[1][v][w] = 1}

\* q has fewer edges without a colour than p.
Below(q, p) == Blank(q) \subseteq Blank(p) /\ Blank(q) # Blank(p)

Size(p) == Cardinality(Blank(p))

LEMMA BelowIsSmaller ==
    ASSUME NEW p, NEW q, Below(q, p)
    PROVE  Size(q) \in Nat /\ Size(p) \in Nat /\ Size(q) < Size(p)
<1>1. IsFiniteSet(Blank(p))
  BY VIsFinite, FS_Subset DEF Blank
<1>2. /\ IsFiniteSet(Blank(q)) /\ Cardinality(Blank(q)) <= Cardinality(Blank(p))
      /\ Cardinality(Blank(q)) # Cardinality(Blank(p))
  BY <1>1, FS_Subset DEF Below
<1>3. Cardinality(Blank(q)) \in Nat /\ Cardinality(Blank(p)) \in Nat
  BY <1>1, <1>2, FS_CardinalityType
<1> QED BY <1>2, <1>3 DEF Size

LEMMA SizeIsNat ==
    ASSUME NEW p
    PROVE  Size(p) \in Nat /\ Size(p) <= Cardinality(V \X V)
BY VIsFinite, FS_Subset, FS_CardinalityType DEF Blank, Size

\* q is p with colour c on the edge {u, w}.
IsPainted(p, u, w, c, q) ==
    /\ q \in Pairs
    /\ \A a, b \in V : q[1][a][b] = IF (a = u /\ b = w) \/ (a = w /\ b = u) THEN c + 2 ELSE p[1][a][b]
    /\ \A a \in V : \A d \in Colours : q[2][a][d] = IF a \in {u, w} /\ d = c THEN 1 ELSE p[2][a][d]

LEMMA PaintedIs ==
    ASSUME NEW p \in Pairs, NEW u \in V, NEW w \in V, NEW c \in Colours
    PROVE  IsPainted(p, u, w, c, Painted(p, u, w, c))
<1>0. PICK q : q = Painted(p, u, w, c)
  OBVIOUS
<1>1. PICK M \in Matrices, B \in Tables : p = <<M, B>>
  BY DEF Pairs
<1>2. c + 2 \in 0..4
  BY DEF Colours
<1>3. q = <<[M EXCEPT ![u][w] = c + 2, ![w][u] = c + 2], [B EXCEPT ![u][c] = 1, ![w][c] = 1]>>
  BY <1>0, <1>1 DEF Painted
<1>4. PICK H : H = [M EXCEPT ![u][w] = c + 2, ![w][u] = c + 2]
  OBVIOUS
<1>5. PICK D : D = [B EXCEPT ![u][c] = 1, ![w][c] = 1]
  OBVIOUS
<1>6. /\ H \in Matrices
      /\ \A a, b \in V : H[a][b] = IF (a = u /\ b = w) \/ (a = w /\ b = u) THEN c + 2 ELSE M[a][b]
  BY <1>2, <1>4 DEF Matrices
<1>7. /\ D \in Tables
      /\ \A a \in V : \A d \in Colours : D[a][d] = IF a \in {u, w} /\ d = c THEN 1 ELSE B[a][d]
  BY <1>5 DEF Tables
<1>8. q = <<H, D>>
  BY <1>3, <1>4, <1>5
<1>9. IsPainted(p, u, w, c, q)
  BY <1>1, <1>6, <1>7, <1>8 DEF Pairs, IsPainted
<1> QED BY <1>0, <1>9

LEMMA PaintedIsBelow ==
    ASSUME NEW p \in Pairs, NEW u \in V, NEW w \in V, NEW c \in Colours, p[1][u][w] = 1
    PROVE  Painted(p, u, w, c) \in Pairs /\ Below(Painted(p, u, w, c), p)
<1>1. PICK q : q = Painted(p, u, w, c)
  OBVIOUS
<1>2. /\ q \in Pairs
      /\ \A a, b \in V : q[1][a][b] = IF (a = u /\ b = w) \/ (a = w /\ b = u) THEN c + 2 ELSE p[1][a][b]
  <2>1. IsPainted(p, u, w, c, q)
    BY <1>1, PaintedIs
  <2> QED BY <2>1 DEF IsPainted
<1>3. c + 2 # 1
  BY DEF Colours
<1>4. Blank(q) \subseteq Blank(p)
  BY <1>2, <1>3 DEF Blank
<1>5. <<u, w>> \in Blank(p) /\ <<u, w>> \notin Blank(q)
  BY <1>2, <1>3 DEF Blank
<1> QED BY <1>1, <1>2, <1>4, <1>5 DEF Below

-----------------------------------------------------------------------------
\* The definition of Search, with f for what the inner calls compute.
SearchBody(f, v, p) ==
    LET left == Left(p, v)
        k    == Least(left)
        free == FreeColours(p, v, k)
        c1   == Least(free)
        c2   == Least(free \ {c1})
        first  == f[<<k, Painted(p, v, k, c1)>>]
        result == IF first # {} \/ free = {c1} THEN first ELSE f[<<k, Painted(p, v, k, c2)>>]
    IN  IF left = {} THEN {p}
        ELSE IF free = {} THEN {}
        ELSE UNION {f[<<v, q>>] : q \in result}

\* The cases of SearchBody: what the first edge is, and which colours it gets.
LEMMA BodyCases ==
    ASSUME NEW f, NEW v \in V, NEW p \in Pairs
    PROVE  \/ Left(p, v) = {} /\ SearchBody(f, v, p) = {p}
           \/ SearchBody(f, v, p) = {}
           \/ \E k \in Left(p, v) : \E c \in FreeColours(p, v, k) :
                SearchBody(f, v, p) = UNION {f[<<v, q>>] : q \in f[<<k, Painted(p, v, k, c)>>]}
<1>1. CASE Left(p, v) = {}
  BY <1>1 DEF SearchBody
<1>2. CASE Left(p, v) # {}
  <2>1. PICK k : k = Least(Left(p, v))
    OBVIOUS
  <2>2. k \in Left(p, v) /\ k \in V
    BY <1>2, <2>1, LeastIn, VIsFinite DEF Left
  <2>3. PICK free : free = FreeColours(p, v, k)
    OBVIOUS
  <2>4. CASE free = {}
    BY <1>2, <2>1, <2>3, <2>4 DEF SearchBody
  <2>5. CASE free # {}
    <3>1. free \in SUBSET Nat
      BY <2>3 DEF FreeColours, Colours
    <3>2. PICK c1 : c1 = Least(free)
      OBVIOUS
    <3>3. c1 \in free
      BY <2>5, <3>1, <3>2, LeastIn
    <3>4. PICK c2 : c2 = Least(free \ {c1})
      OBVIOUS
    <3>5. free # {c1} => c2 \in free
      <4>1. ASSUME free # {c1} PROVE c2 \in free \ {c1}
        BY <3>1, <3>3, <3>4, <4>1, LeastIn
      <4> QED BY <4>1
    <3>6. PICK first : first = f[<<k, Painted(p, v, k, c1)>>]
      OBVIOUS
    <3>7. PICK second : second = f[<<k, Painted(p, v, k, c2)>>]
      OBVIOUS
    <3>8. PICK result : result = IF first # {} \/ free = {c1} THEN first ELSE second
      OBVIOUS
    <3>9. SearchBody(f, v, p) = UNION {f[<<v, q>>] : q \in result}
      BY <1>2, <2>1, <2>3, <2>5, <3>2, <3>4, <3>6, <3>7, <3>8 DEF SearchBody
    <3>10. \E c \in free : result = f[<<k, Painted(p, v, k, c)>>]
      BY <3>3, <3>5, <3>6, <3>7, <3>8
    <3>11. PICK c \in free : result = f[<<k, Painted(p, v, k, c)>>]
      BY <3>10
    <3> QED BY <2>2, <2>3, <3>9, <3>11
  <2> QED BY <2>4, <2>5
<1> QED BY <1>1, <1>2

\* What f computes for a pair with less to do is a pair with less to do yet.
Descends(f, p) ==
    \A u \in V : \A q \in Pairs : Below(q, p) =>
        \A r \in f[<<u, q>>] : r \in Pairs /\ Blank(r) \subseteq Blank(q)

LEMMA BodyDescends ==
    ASSUME NEW f, NEW v \in V, NEW p \in Pairs, Descends(f, p)
    PROVE  \A r \in SearchBody(f, v, p) : r \in Pairs /\ Blank(r) \subseteq Blank(p)
<1> SUFFICES ASSUME NEW r \in SearchBody(f, v, p)
             PROVE  r \in Pairs /\ Blank(r) \subseteq Blank(p)
  OBVIOUS
<1>1. CASE \E k \in Left(p, v) : \E c \in FreeColours(p, v, k) :
             SearchBody(f, v, p) = UNION {f[<<v, q>>] : q \in f[<<k, Painted(p, v, k, c)>>]}
  <2>0. PICK k \in Left(p, v) : \E c \in FreeColours(p, v, k) :
             SearchBody(f, v, p) = UNION {f[<<v, q>>] : q \in f[<<k, Painted(p, v, k, c)>>]}
    BY <1>1
  <2>1. PICK c \in FreeColours(p, v, k) :
             SearchBody(f, v, p) = UNION {f[<<v, q>>] : q \in f[<<k, Painted(p, v, k, c)>>]}
    BY <2>0
  <2>2. k \in V /\ p[1][v][k] = 1 /\ c \in Colours
    BY DEF Left, FreeColours
  <2>3. PICK q1 : q1 = Painted(p, v, k, c)
    OBVIOUS
  <2>4. q1 \in Pairs /\ Below(q1, p)
    BY <2>2, <2>3, PaintedIsBelow
  <2>5. PICK q \in f[<<k, q1>>] : r \in f[<<v, q>>]
    BY <2>1, <2>3
  <2>6. q \in Pairs /\ Blank(q) \subseteq Blank(q1)
    BY <2>2, <2>4, <2>5 DEF Descends
  <2>7. Below(q, p)
    BY <2>4, <2>6 DEF Below
  <2>8. r \in Pairs /\ Blank(r) \subseteq Blank(q)
    BY <2>5, <2>6, <2>7 DEF Descends
  <2> QED BY <2>7, <2>8 DEF Below
<1>2. CASE SearchBody(f, v, p) = {p}
  BY <1>2
<1>3. CASE SearchBody(f, v, p) = {}
  BY <1>3
<1>4. \/ SearchBody(f, v, p) = {p} \/ SearchBody(f, v, p) = {}
      \/ \E k \in Left(p, v) : \E c \in FreeColours(p, v, k) :
           SearchBody(f, v, p) = UNION {f[<<v, q>>] : q \in f[<<k, Painted(p, v, k, c)>>]}
  BY BodyCases
<1> QED BY <1>1, <1>2, <1>3, <1>4

Agree(f, h, p) == \A u \in V : \A q \in Pairs : Below(q, p) => f[<<u, q>>] = h[<<u, q>>]

LEMMA BodyAgrees ==
    ASSUME NEW f, NEW h, NEW v \in V, NEW p \in Pairs, Agree(f, h, p), Descends(f, p)
    PROVE  SearchBody(f, v, p) = SearchBody(h, v, p)
<1>1. CASE Left(p, v) = {}
  BY <1>1 DEF SearchBody
<1>2. CASE Left(p, v) # {}
  <2>1. PICK k : k = Least(Left(p, v))
    OBVIOUS
  <2>2. k \in Left(p, v) /\ k \in V /\ p[1][v][k] = 1
    BY <1>2, <2>1, LeastIn, VIsFinite DEF Left
  <2>3. PICK free : free = FreeColours(p, v, k)
    OBVIOUS
  <2>4. CASE free = {}
    BY <1>2, <2>1, <2>3, <2>4 DEF SearchBody
  <2>5. CASE free # {}
    <3>1. free \in SUBSET Nat /\ free \subseteq Colours
      BY <2>3 DEF FreeColours, Colours
    <3>2. PICK c1 : c1 = Least(free)
      OBVIOUS
    <3>3. c1 \in free
      BY <2>5, <3>1, <3>2, LeastIn
    <3>4. PICK c2 : c2 = Least(free \ {c1})
      OBVIOUS
    <3>5. free # {c1} => c2 \in free
      <4>1. ASSUME free # {c1} PROVE c2 \in free \ {c1}
        BY <3>1, <3>3, <3>4, <4>1, LeastIn
      <4> QED BY <4>1
    <3>6. ASSUME NEW c \in free
          PROVE  /\ f[<<k, Painted(p, v, k, c)>>] = h[<<k, Painted(p, v, k, c)>>]
                 /\ \A q \in f[<<k, Painted(p, v, k, c)>>] : f[<<v, q>>] = h[<<v, q>>]
      <4>1. PICK q1 : q1 = Painted(p, v, k, c)
        OBVIOUS
      <4>2. q1 \in Pairs /\ Below(q1, p)
        BY <2>2, <3>1, <4>1, PaintedIsBelow
      <4>3. f[<<k, q1>>] = h[<<k, q1>>]
        BY <2>2, <4>2 DEF Agree
      <4>4. ASSUME NEW q \in f[<<k, q1>>]
            PROVE  f[<<v, q>>] = h[<<v, q>>]
        <5>1. q \in Pairs /\ Blank(q) \subseteq Blank(q1)
          BY <2>2, <4>2 DEF Descends
        <5>2. Below(q, p)
          BY <4>2, <5>1 DEF Below
        <5> QED BY <5>1, <5>2 DEF Agree
      <4> QED BY <4>1, <4>3, <4>4
    <3> DEFINE First(g)  == g[<<k, Painted(p, v, k, c1)>>]
               Second(g) == g[<<k, Painted(p, v, k, c2)>>]
               Result(g) == IF First(g) # {} \/ free = {c1} THEN First(g) ELSE Second(g)
               All(g, R) == UNION {g[<<v, q>>] : q \in R}
    <3>7. SearchBody(f, v, p) = All(f, Result(f)) /\ SearchBody(h, v, p) = All(h, Result(h))
      BY <1>2, <2>1, <2>3, <2>5, <3>2, <3>4 DEF SearchBody
    <3>8. First(f) = First(h) /\ \A q \in First(f) : f[<<v, q>>] = h[<<v, q>>]
      BY <3>3, <3>6
    <3>9. free # {c1} => Second(f) = Second(h) /\ \A q \in Second(f) : f[<<v, q>>] = h[<<v, q>>]
      BY <3>5, <3>6
    <3>10. Result(f) = Result(h) /\ \A q \in Result(f) : f[<<v, q>>] = h[<<v, q>>]
      <4> HIDE DEF First, Second
      <4> QED BY <3>8, <3>9
    <3> HIDE DEF Result
    <3>11. All(f, Result(f)) = All(h, Result(h))
      BY <3>10
    <3> QED BY <3>7, <3>11
  <2> QED BY <2>4, <2>5
<1> QED BY <1>1, <1>2

\* f does what the definition says, for pairs with fewer than n edges left.
SolvesTo(f, n) ==
    \A v \in V : \A p \in Pairs : Size(p) < n =>
        /\ f[<<v, p>>] = SearchBody(f, v, p)
        /\ \A r \in f[<<v, p>>] : r \in Pairs /\ Blank(r) \subseteq Blank(p)

LEMMA SolvesDescends ==
    ASSUME NEW f, NEW n \in Nat, SolvesTo(f, n), NEW p \in Pairs, Size(p) < n + 1
    PROVE  Descends(f, p)
<1> SUFFICES ASSUME NEW u \in V, NEW q \in Pairs, Below(q, p)
             PROVE  \A r \in f[<<u, q>>] : r \in Pairs /\ Blank(r) \subseteq Blank(q)
  BY DEF Descends
<1>1. Size(q) < n
  BY BelowIsSmaller
<1> QED BY <1>1 DEF SolvesTo

LEMMA SolutionGrows ==
    ASSUME NEW m \in Nat, NEW f, SolvesTo(f, m)
    PROVE  \E h : SolvesTo(h, m + 1)
<1> DEFINE h == [x \in V \X Pairs |-> IF Size(x[2]) < m THEN f[x] ELSE SearchBody(f, x[1], x[2])]
<1>1. \A v \in V : \A p \in Pairs :
        h[<<v, p>>] = IF Size(p) < m THEN f[<<v, p>>] ELSE SearchBody(f, v, p)
  OBVIOUS
<1> HIDE DEF h
<1>2. ASSUME NEW v \in V, NEW p \in Pairs, Size(p) < m + 1
      PROVE  /\ h[<<v, p>>] = SearchBody(h, v, p)
             /\ \A r \in h[<<v, p>>] : r \in Pairs /\ Blank(r) \subseteq Blank(p)
  <2>1. Descends(f, p)
    BY <1>2, SolvesDescends
  <2>2. Agree(f, h, p)
    <3> SUFFICES ASSUME NEW u \in V, NEW q \in Pairs, Below(q, p)
                 PROVE  f[<<u, q>>] = h[<<u, q>>]
      BY DEF Agree
    <3>1. Size(q) < m
      BY <1>2, BelowIsSmaller
    <3> QED BY <1>1, <3>1
  <2>3. SearchBody(f, v, p) = SearchBody(h, v, p)
    BY <2>1, <2>2, BodyAgrees
  <2>4. h[<<v, p>>] = SearchBody(f, v, p)
    BY <1>1 DEF SolvesTo
  <2>5. \A r \in SearchBody(f, v, p) : r \in Pairs /\ Blank(r) \subseteq Blank(p)
    BY <2>1, BodyDescends
  <2> QED BY <2>3, <2>4, <2>5
<1>3. SolvesTo(h, m + 1)
  BY <1>2 DEF SolvesTo
<1> QED BY <1>3

LEMMA SolutionTo ==
    ASSUME NEW n \in Nat
    PROVE  \E f : SolvesTo(f, n)
<1> DEFINE Failing == {k \in Nat : ~ \E f : SolvesTo(f, k)}
<1> SUFFICES ASSUME Failing # {} PROVE FALSE
  OBVIOUS
<1>1. PICK k \in Failing : \A y \in Failing : k <= y
  BY LeastOf
<1>2. \A f : SolvesTo(f, 0)
  <2>1. \A p \in Pairs : ~ (Size(p) < 0)
    BY SizeIsNat
  <2> QED BY <2>1 DEF SolvesTo
<1>3. k # 0
  BY <1>2
<1>4. k - 1 \in Nat /\ k - 1 \notin Failing
  BY <1>1, <1>3
<1>5. PICK f : SolvesTo(f, k - 1)
  BY <1>4
<1>6. \E h : SolvesTo(h, (k - 1) + 1)
  BY <1>4, <1>5, SolutionGrows
<1>7. (k - 1) + 1 = k
  OBVIOUS
<1> QED BY <1>6, <1>7

\* Search is what its definition says.
LEMMA SearchIs ==
    ASSUME NEW v \in V, NEW p \in Pairs
    PROVE  Search[<<v, p>>] = SearchBody(Search, v, p)
<1> DEFINE B == Cardinality(V \X V)
           IsSearch(g) == g = [x \in V \X Pairs |-> SearchBody(g, x[1], x[2])]
<1>1. B \in Nat
  BY VIsFinite, FS_CardinalityType
<1> HIDE DEF B
<1>2. PICK f : SolvesTo(f, B + 1)
  BY <1>1, SolutionTo
<1>3. PICK g : g = [x \in V \X Pairs |-> f[x]]
  OBVIOUS
<1>4. ASSUME NEW u \in V, NEW q \in Pairs
      PROVE  g[<<u, q>>] = SearchBody(g, u, q)
  <2>1. \A w \in V : \A r \in Pairs : g[<<w, r>>] = f[<<w, r>>]
    BY <1>3
  <2>2. Size(q) < B + 1
    BY <1>1, SizeIsNat DEF B
  <2>3. f[<<u, q>>] = SearchBody(f, u, q)
    BY <1>2, <2>2 DEF SolvesTo
  <2>4. Descends(f, q)
    <3>1. Size(q) < (B + 1) + 1 /\ B + 1 \in Nat
      BY <1>1, <2>2, SizeIsNat
    <3> QED BY <1>2, <3>1, SolvesDescends
  <2>5. Agree(f, g, q)
    BY <2>1 DEF Agree
  <2>6. SearchBody(f, u, q) = SearchBody(g, u, q)
    BY <2>4, <2>5, BodyAgrees
  <2> QED BY <2>1, <2>3, <2>6
<1>5. IsSearch(g)
  <2>1. \A x \in V \X Pairs : g[x] = SearchBody(g, x[1], x[2])
    <3> TAKE x \in V \X Pairs
    <3>1. PICK u \in V, q \in Pairs : x = <<u, q>>
      OBVIOUS
    <3>2. g[<<u, q>>] = SearchBody(g, u, q)
      BY <1>4
    <3>3. x[1] = u /\ x[2] = q
      BY <3>1
    <3> QED BY <3>1, <3>2, <3>3
  <2>2. g = [x \in V \X Pairs |-> g[x]]
    BY <1>3
  <2> QED BY <2>1, <2>2
<1>6. Search = CHOOSE h : IsSearch(h)
  BY DEF Search, SearchBody, Left, Pairs
<1> HIDE DEF IsSearch
<1>7. IsSearch(Search)
  BY <1>5, <1>6
<1>8. Search = [x \in V \X Pairs |-> SearchBody(Search, x[1], x[2])]
  BY <1>7 DEF IsSearch
<1> QED BY <1>8

-----------------------------------------------------------------------------
\* A matrix of g with some edges coloured properly, and the table for it.
Sound(g, p) ==
    /\ p \in Pairs
    /\ \A u, w \in V : p[1][u][w] = p[1][w][u] /\ (p[1][u][w] = 0 <=> g[u][w] = 0)
    /\ \A u, w, x \in V : p[1][u][w] > 1 /\ w # x => p[1][u][w] # p[1][u][x]
    /\ \A u \in V : \A c \in Colours : p[2][u][c] = 1 <=> \E w \in V : p[1][u][w] = c + 2

LEMMA PairTypes ==
    ASSUME NEW p \in Pairs
    PROVE  /\ p = <<p[1], p[2]>> /\ p[1] \in Matrices /\ p[2] \in Tables
           /\ \A u, w \in V : p[1][u][w] \in 0..4
           /\ \A u \in V : \A c \in Colours : p[2][u][c] \in {0, 1}
<1>1. p = <<p[1], p[2]>> /\ p[1] \in Matrices /\ p[2] \in Tables
  BY DEF Pairs
<1> QED BY <1>1 DEF Matrices, Tables

LEMMA PaintedSound ==
    ASSUME NEW g, IsGraph(g), NEW p, Sound(g, p), NEW u \in V, NEW w \in V, p[1][u][w] = 1,
           NEW c \in Colours, p[2][u][c] = 0, p[2][w][c] = 0
    PROVE  Sound(g, Painted(p, u, w, c))
<1>1. PICK q : q = Painted(p, u, w, c)
  OBVIOUS
<1>2. p \in Pairs /\ IsPainted(p, u, w, c, q)
  BY <1>1, PaintedIs DEF Sound
<1>3. q \in Pairs
  BY <1>2 DEF IsPainted
<1>4. \A a, b \in V : q[1][a][b] = IF (a = u /\ b = w) \/ (a = w /\ b = u) THEN c + 2 ELSE p[1][a][b]
  BY <1>2 DEF IsPainted
<1>5. \A a \in V : \A d \in Colours : q[2][a][d] = IF a \in {u, w} /\ d = c THEN 1 ELSE p[2][a][d]
  BY <1>2 DEF IsPainted
<1>6. u # w /\ c \in Int /\ c >= 0
  <2>1. g[u][w] # 0
    BY DEF Sound
  <2> QED BY <2>1 DEF IsGraph, Colours
<1>7. \A a, b \in V : p[1][a][b] \in Int
  BY <1>2, PairTypes
<1>8. \A a, b \in V : p[1][a][b] = p[1][b][a] /\ (p[1][a][b] = 0 <=> g[a][b] = 0)
  BY DEF Sound
<1>9. \A a, b, x \in V : p[1][a][b] > 1 /\ b # x => p[1][a][b] # p[1][a][x]
  BY DEF Sound
<1>10. \A a \in V : \A d \in Colours : p[2][a][d] = 1 <=> \E b \in V : p[1][a][b] = d + 2
  BY DEF Sound
<1>11. \A b \in V : p[1][u][b] # c + 2 /\ p[1][w][b] # c + 2
  BY <1>10
<1>12. \A a, b \in V : q[1][a][b] = q[1][b][a]
  BY <1>4, <1>8
<1>13. \A a, b \in V : q[1][a][b] = 0 <=> g[a][b] = 0
  BY <1>4, <1>6, <1>8
<1>14. ASSUME NEW a \in V, NEW b \in V, NEW x \in V, q[1][a][b] > 1, b # x
       PROVE  q[1][a][b] # q[1][a][x]
  <2>1. CASE (a = u /\ b = w) \/ (a = w /\ b = u)
    <3>1. q[1][a][b] = c + 2 /\ q[1][a][x] = p[1][a][x]
      BY <1>4, <1>6, <1>14, <2>1
    <3> QED BY <1>11, <2>1, <3>1
  <2>2. CASE (a = u /\ x = w) \/ (a = w /\ x = u)
    <3>1. q[1][a][x] = c + 2 /\ q[1][a][b] = p[1][a][b]
      BY <1>4, <1>6, <1>14, <2>2
    <3> QED BY <1>11, <2>2, <3>1
  <2>3. CASE ~ ((a = u /\ b = w) \/ (a = w /\ b = u)) /\ ~ ((a = u /\ x = w) \/ (a = w /\ x = u))
    <3>1. q[1][a][x] = p[1][a][x] /\ q[1][a][b] = p[1][a][b]
      BY <1>4, <2>3
    <3> QED BY <1>9, <1>14, <3>1
  <2> QED BY <2>1, <2>2, <2>3
<1>15. ASSUME NEW a \in V, NEW d \in Colours
       PROVE  q[2][a][d] = 1 <=> \E b \in V : q[1][a][b] = d + 2
  <2>0. d \in Int
    BY DEF Colours
  <2>1. CASE a \in {u, w} /\ d = c
    <3>1. q[2][a][d] = 1 /\ \E b \in V : q[1][a][b] = d + 2
      BY <1>4, <1>5, <2>1
    <3> QED BY <3>1
  <2>2. CASE ~ (a \in {u, w} /\ d = c)
    <3>1. q[2][a][d] = p[2][a][d]
      BY <1>5, <2>2
    <3>2. \A b \in V : q[1][a][b] = d + 2 <=> p[1][a][b] = d + 2
      <4> TAKE b \in V
      <4>1. CASE (a = u /\ b = w) \/ (a = w /\ b = u)
        <5>1. q[1][a][b] = c + 2 /\ p[1][a][b] = 1 /\ d # c
          BY <1>4, <1>8, <2>2, <4>1
        <5> QED BY <1>6, <2>0, <5>1 DEF Colours
      <4>2. CASE ~ ((a = u /\ b = w) \/ (a = w /\ b = u))
        BY <1>4, <4>2
      <4> QED BY <4>1, <4>2
    <3> QED BY <1>10, <3>1, <3>2
  <2> QED BY <2>1, <2>2
<1>16. Sound(g, q)
  BY <1>3, <1>12, <1>13, <1>14, <1>15 DEF Sound
<1> QED BY <1>1, <1>16

\* Every edge at u has a colour.
Full(p, u) == \A x \in V : p[1][u][x] # 1

\* Colours stay.
Keeps(p, q) == \A u, w \in V : p[1][u][w] # 1 => q[1][u][w] = p[1][u][w]

\* An end of an edge that got its colour after p has no edge without one.
Closes(p, q) == \A u, w \in V : p[1][u][w] = 1 /\ q[1][u][w] # 1 => Full(q, u)

\* What a call on v that was given p leaves when it returns 1.
Reached(g, v, p, q) == Sound(g, q) /\ Keeps(p, q) /\ Closes(p, q) /\ Full(q, v)

LEMMA ReachedOn ==
    ASSUME NEW g, NEW v \in V, NEW k \in V, NEW c \in Colours, NEW p, Sound(g, p), p[1][v][k] = 1,
           NEW p1, IsPainted(p, v, k, c, p1),
           NEW q1, Reached(g, k, p1, q1), NEW q, Reached(g, v, q1, q)
    PROVE  Reached(g, v, p, q)
<1>1. \A a, b \in V : p1[1][a][b] = IF (a = v /\ b = k) \/ (a = k /\ b = v) THEN c + 2 ELSE p[1][a][b]
  BY DEF IsPainted
<1>2. p[1][k][v] = 1 /\ c + 2 # 1
  BY DEF Sound, Colours
<1>3. /\ \A u, w \in V : p1[1][u][w] # 1 => q1[1][u][w] = p1[1][u][w]
      /\ \A u, w \in V : q1[1][u][w] # 1 => q[1][u][w] = q1[1][u][w]
  BY DEF Reached, Keeps
<1>4. Keeps(p, q)
  BY <1>1, <1>2, <1>3 DEF Keeps
<1>5. \A u \in V : Full(q1, u) => Full(q, u)
  BY <1>3 DEF Full
<1>6. Full(q, v) /\ Full(q, k)
  BY <1>5 DEF Reached
<1>7. ASSUME NEW u \in V, NEW w \in V, p[1][u][w] = 1, q[1][u][w] # 1
      PROVE  Full(q, u)
  <2>1. CASE q1[1][u][w] = 1
    BY <1>7, <2>1 DEF Reached, Closes
  <2>2. CASE q1[1][u][w] # 1 /\ p1[1][u][w] = 1
    BY <1>5, <2>2 DEF Reached, Closes
  <2>3. CASE p1[1][u][w] # 1
    <3>1. u = v \/ u = k
      BY <1>1, <1>7, <2>3
    <3> QED BY <1>6, <3>1
  <2> QED BY <2>1, <2>2, <2>3
<1>8. Closes(p, q)
  BY <1>7 DEF Closes
<1> QED BY <1>4, <1>6, <1>8 DEF Reached

SearchReaches(g, p) == Sound(g, p) => \A v \in V : \A q \in Search[<<v, p>>] : Reached(g, v, p, q)

\* Keeps and a cell that is no longer blank.
LEMMA ReachedIsBelow ==
    ASSUME NEW g, NEW k \in V, NEW p \in Pairs, NEW p1 \in Pairs, Below(p1, p), NEW q1, Reached(g, k, p1, q1)
    PROVE  q1 \in Pairs /\ Below(q1, p)
<1>1. q1 \in Pairs /\ \A u, w \in V : p1[1][u][w] # 1 => q1[1][u][w] = p1[1][u][w]
  BY DEF Reached, Sound, Keeps
<1>2. Blank(q1) \subseteq Blank(p1)
  BY <1>1 DEF Blank
<1> QED BY <1>1, <1>2 DEF Below

LEMMA ReachesStep ==
    ASSUME NEW g, IsGraph(g), NEW p \in Pairs,
           \A q \in Pairs : Below(q, p) => SearchReaches(g, q)
    PROVE  SearchReaches(g, p)
<1> SUFFICES ASSUME Sound(g, p), NEW v \in V, NEW q \in Search[<<v, p>>]
             PROVE  Reached(g, v, p, q)
  BY DEF SearchReaches
<1>1. q \in SearchBody(Search, v, p)
  BY SearchIs
<1>2. CASE Left(p, v) = {} /\ SearchBody(Search, v, p) = {p}
  <2>1. q = p /\ \A x \in V : p[1][v][x] # 1
    BY <1>1, <1>2 DEF Left
  <2> QED BY <2>1 DEF Reached, Keeps, Closes, Full
<1>3. CASE SearchBody(Search, v, p) = {}
  BY <1>1, <1>3
<1>4. CASE \E k \in Left(p, v) : \E c \in FreeColours(p, v, k) :
             SearchBody(Search, v, p) = UNION {Search[<<v, r>>] : r \in Search[<<k, Painted(p, v, k, c)>>]}
  <2>0. PICK k \in Left(p, v) : \E c \in FreeColours(p, v, k) :
             SearchBody(Search, v, p) = UNION {Search[<<v, r>>] : r \in Search[<<k, Painted(p, v, k, c)>>]}
    BY <1>4
  <2>1. PICK c \in FreeColours(p, v, k) :
             SearchBody(Search, v, p) = UNION {Search[<<v, r>>] : r \in Search[<<k, Painted(p, v, k, c)>>]}
    BY <2>0
  <2>2. k \in V /\ p[1][v][k] = 1 /\ c \in Colours /\ p[2][v][c] = 0 /\ p[2][k][c] = 0
    BY DEF Left, FreeColours
  <2>3. PICK p1 : p1 = Painted(p, v, k, c)
    OBVIOUS
  <2>4. p1 \in Pairs /\ Below(p1, p)
    BY <2>2, <2>3, PaintedIsBelow
  <2>5. Sound(g, p1)
    BY <2>2, <2>3, PaintedSound
  <2>6. IsPainted(p, v, k, c, p1)
    BY <2>2, <2>3, PaintedIs
  <2>7. PICK q1 \in Search[<<k, p1>>] : q \in Search[<<v, q1>>]
    BY <1>1, <2>1, <2>3
  <2>8. Reached(g, k, p1, q1)
    BY <2>2, <2>4, <2>5, <2>7 DEF SearchReaches
  <2>9. q1 \in Pairs /\ Below(q1, p) /\ Sound(g, q1)
    <3>1. q1 \in Pairs /\ Below(q1, p)
      BY <2>2, <2>4, <2>8, ReachedIsBelow
    <3> QED BY <2>8, <3>1 DEF Reached
  <2>10. Reached(g, v, q1, q)
    BY <2>7, <2>9 DEF SearchReaches
  <2> QED BY <2>2, <2>6, <2>8, <2>10, ReachedOn
<1> QED BY <1>2, <1>3, <1>4, BodyCases

LEMMA SearchReachesAll ==
    ASSUME NEW g, IsGraph(g), NEW p \in Pairs
    PROVE  SearchReaches(g, p)
<1> DEFINE Failing == {n \in Nat : \E q \in Pairs : Size(q) = n /\ ~ SearchReaches(g, q)}
<1> SUFFICES Failing = {}
  BY SizeIsNat
<1> SUFFICES ASSUME Failing # {} PROVE FALSE
  OBVIOUS
<1>1. PICK n \in Failing : \A m \in Failing : n <= m
  BY LeastOf
<1>2. PICK q \in Pairs : Size(q) = n /\ ~ SearchReaches(g, q)
  BY <1>1
<1>3. ASSUME NEW r \in Pairs, Below(r, q)
      PROVE  SearchReaches(g, r)
  <2>1. Size(r) < n /\ Size(r) \in Nat /\ n \in Nat
    BY <1>2, <1>3, BelowIsSmaller
  <2>2. Size(r) \notin Failing
    BY <1>1, <2>1
  <2> QED BY <2>1, <2>2
<1> QED BY <1>2, <1>3, ReachesStep

\* A call on a vertex whose edges have colours returns 1 at once.
LEMMA SearchOfFull ==
    ASSUME NEW v \in V, NEW p \in Pairs, Full(p, v)
    PROVE  Search[<<v, p>>] = {p}
<1>1. Left(p, v) = {}
  BY DEF Full, Left
<1> QED BY <1>1, SearchIs DEF SearchBody

-----------------------------------------------------------------------------
LEMMA GreatestIs ==
    ASSUME NEW m \in Nat, NEW s \in SUBSET (1..m), m \in s
    PROVE  Max(s) = m
<1>1. \A y \in s : m >= y /\ y \in Nat
  OBVIOUS
<1>2. PICK x : x = Max(s)
  OBVIOUS
<1>3. x = CHOOSE y \in s : \A z \in s : y >= z
  BY <1>2 DEF Max
<1>4. x \in s /\ \A z \in s : x >= z
  BY <1>1, <1>3
<1>5. x = m
  BY <1>1, <1>4
<1> QED BY <1>2, <1>5

\* The root's loop, from one neighbour to the next.
RootLoop(perm, p, st) ==
    /\ st[0] = [p |-> p, stack |-> <<>>]
    /\ \A n \in 1..N : st[n] = RootEdge(perm, st[n - 1], n - 1)
    /\ RootPainted(p, perm) = st[N]

LEMMA RootLoopIs ==
    ASSUME NEW perm, NEW p
    PROVE  \E st : RootLoop(perm, p, st)
<1> DEFINE B == [p |-> p, stack |-> <<>>]
           row == [n \in 1..N |-> n - 1]
           F(x, n) == RootEdge(perm, x, row[n])
           IsFold(it, S) == it = [s \in SUBSET S |-> IF s = {} THEN B ELSE F(it[s \ {Max(s)}], Max(s))]
<1>1. N \in Nat /\ DOMAIN row = 1..N /\ \A n \in 1..N : row[n] = n - 1
  BY SizeAssumption
<1>2. RootPainted(p, perm) = (CHOOSE it : IsFold(it, 1..N))[1..N]
  BY <1>1 DEF RootPainted, FoldLeft, MapThenFoldSet
<1> HIDE DEF B, F, row
<1>3. ASSUME NEW m \in Nat, NEW it, IsFold(it, 1..m)
      PROVE  \E jt : IsFold(jt, 1..(m + 1))
  <2> DEFINE jt == [s \in SUBSET (1..(m + 1)) |-> IF m + 1 \in s THEN F(it[s \ {m + 1}], m + 1) ELSE it[s]]
  <2>1. ASSUME NEW s \in SUBSET (1..(m + 1))
        PROVE  jt[s] = IF s = {} THEN B ELSE F(jt[s \ {Max(s)}], Max(s))
    <3>1. CASE m + 1 \in s
      <4>1. Max(s) = m + 1
        BY <3>1, GreatestIs
      <4>2. s \ {m + 1} \in SUBSET (1..(m + 1)) /\ m + 1 \notin s \ {m + 1}
        OBVIOUS
      <4>3. jt[s \ {m + 1}] = it[s \ {m + 1}]
        BY <4>2
      <4>4. jt[s] = F(it[s \ {m + 1}], m + 1)
        BY <3>1
      <4> QED BY <3>1, <4>1, <4>3, <4>4
    <3>2. CASE m + 1 \notin s
      <4>1. s \in SUBSET (1..m) /\ jt[s] = it[s]
        BY <3>2
      <4>2. it[s] = IF s = {} THEN B ELSE F(it[s \ {Max(s)}], Max(s))
        BY <1>3, <4>1
      <4>3. s \ {Max(s)} \in SUBSET (1..(m + 1)) /\ m + 1 \notin s \ {Max(s)}
        BY <3>2
      <4>4. jt[s \ {Max(s)}] = it[s \ {Max(s)}]
        BY <4>3
      <4> QED BY <4>1, <4>2, <4>4
    <3> QED BY <3>1, <3>2
  <2>2. PICK kt : kt = jt
    OBVIOUS
  <2>3. kt = [s \in SUBSET (1..(m + 1)) |-> IF s = {} THEN B ELSE F(kt[s \ {Max(s)}], Max(s))]
    BY <2>1, <2>2
  <2> QED BY <2>3
<1>4. \E it : IsFold(it, 1..0)
  <2>1. PICK it : it = [s \in SUBSET (1..0) |-> B]
    OBVIOUS
  <2>2. \A s \in SUBSET (1..0) : s = {}
    OBVIOUS
  <2>3. it = [s \in SUBSET (1..0) |-> IF s = {} THEN B ELSE F(it[s \ {Max(s)}], Max(s))]
    BY <2>1, <2>2
  <2> QED BY <2>3
<1> HIDE DEF IsFold
<1>5. \E it : IsFold(it, 1..N)
  <2> DEFINE Failing == {n \in Nat : ~ \E it : IsFold(it, 1..n)}
  <2> SUFFICES ASSUME Failing # {} PROVE FALSE
    BY <1>1
  <2>1. PICK n \in Failing : \A m \in Failing : n <= m
    BY LeastOf
  <2>2. n # 0
    BY <1>4
  <2>3. n - 1 \in Nat /\ n - 1 \notin Failing /\ (n - 1) + 1 = n
    BY <2>1, <2>2
  <2>4. PICK it : IsFold(it, 1..(n - 1))
    BY <2>3
  <2>5. \E jt : IsFold(jt, 1..((n - 1) + 1))
    BY <1>3, <2>3, <2>4
  <2> QED BY <2>3, <2>5
<1>6. PICK it : IsFold(it, 1..N) /\ RootPainted(p, perm) = it[1..N]
  BY <1>2, <1>5
<1>7. \A s \in SUBSET (1..N) : it[s] = IF s = {} THEN B ELSE F(it[s \ {Max(s)}], Max(s))
  BY <1>6 DEF IsFold
<1> DEFINE st == [n \in 0..N |-> it[1..n]]
<1>8. st[0] = B
  <2>1. 1..0 = {} /\ 0 \in 0..N
    BY <1>1
  <2> QED BY <1>7, <2>1
<1>9. ASSUME NEW n \in 1..N
      PROVE  st[n] = RootEdge(perm, st[n - 1], n - 1)
  <2>1. /\ 1..n \in SUBSET (1..N) /\ 1..n # {} /\ n \in 1..n /\ n \in Nat
        /\ (1..n) \ {n} = 1..(n - 1) /\ n - 1 \in 0..N /\ n \in 0..N
    BY <1>1
  <2>2. Max(1..n) = n
    BY <2>1, GreatestIs
  <2>3. it[1..n] = F(it[1..(n - 1)], n)
    BY <1>7, <2>1, <2>2
  <2>4. F(it[1..(n - 1)], n) = RootEdge(perm, it[1..(n - 1)], n - 1)
    BY <1>1 DEF F
  <2> QED BY <2>1, <2>3, <2>4
<1>10. RootPainted(p, perm) = st[N]
  BY <1>1, <1>6
<1> HIDE DEF st
<1>11. RootLoop(perm, p, st)
  BY <1>8, <1>9, <1>10 DEF RootLoop, B
<1> QED BY <1>11

-----------------------------------------------------------------------------
\* t is s with e put in front.
IsPutFirst(S, s, e, t) ==
    /\ t \in Seq(S) /\ Len(t) = Len(s) + 1 /\ t[1] = e /\ AllDistinct(t)
    /\ \A n \in 1..Len(t) : t[n] = e \/ Occurs(s, t[n])

LEMMA DistinctPutFirst ==
    ASSUME NEW S, NEW s \in Seq(S), NEW e \in S, AllDistinct(s), ~ Occurs(s, e)
    PROVE  IsPutFirst(S, s, e, <<e>> \o s)
<1>0. PICK t : t = <<e>> \o s
  OBVIOUS
<1>1. Len(s) \in Nat
  BY LenProperties
<1>2. PICK o : o = <<e>> /\ Len(o) = 1 /\ o[1] = e /\ o \in Seq(S)
  <2>1. <<e>> \in Seq(S) /\ Len(<<e>>) = 1 /\ <<e>>[1] = e
    OBVIOUS
  <2> QED BY <2>1
<1>3. /\ t \in Seq(S) /\ Len(t) = Len(o) + Len(s)
      /\ \A n \in 1..Len(o) + Len(s) : t[n] = IF n <= Len(o) THEN o[n] ELSE s[n - Len(o)]
  <2>1. t = o \o s
    BY <1>0, <1>2
  <2>2. o \in Seq(S)
    BY <1>2
  <2>3. /\ o \o s \in Seq(S) /\ Len(o \o s) = Len(o) + Len(s)
        /\ \A n \in 1..Len(o) + Len(s) : (o \o s)[n] = IF n <= Len(o) THEN o[n] ELSE s[n - Len(o)]
    BY <2>2, ConcatProperties
  <2> QED BY <2>1, <2>3
<1>4. t \in Seq(S) /\ Len(t) = Len(s) + 1
  BY <1>1, <1>2, <1>3
<1>5. ASSUME NEW n \in 1..Len(t)
      PROVE  t[n] = IF n = 1 THEN e ELSE s[n - 1]
  <2>1. n \in 1..Len(o) + Len(s) /\ (n <= Len(o) <=> n = 1)
    BY <1>1, <1>2, <1>4
  <2>2. t[n] = IF n <= Len(o) THEN o[n] ELSE s[n - Len(o)]
    BY <1>3, <2>1
  <2> QED BY <1>2, <2>1, <2>2
<1>6. 1 \in 1..Len(t) /\ \A n \in 1..Len(t) : n # 1 => n - 1 \in 1..Len(s)
  BY <1>1, <1>4
<1>7. \A n \in 1..Len(t) : t[n] = e \/ Occurs(s, t[n])
  BY <1>5, <1>6 DEF Occurs
<1>8. ASSUME NEW n \in 1..Len(t), NEW m \in 1..Len(t), t[n] = t[m]
      PROVE  n = m
  <2>1. CASE n = 1 /\ m # 1
    BY <1>5, <1>6, <1>8, <2>1 DEF Occurs
  <2>2. CASE m = 1 /\ n # 1
    BY <1>5, <1>6, <1>8, <2>2 DEF Occurs
  <2>3. CASE m # 1 /\ n # 1
    <3>1. s[n - 1] = s[m - 1] /\ n - 1 \in 1..Len(s) /\ m - 1 \in 1..Len(s)
      BY <1>5, <1>6, <1>8, <2>3
    <3>2. n - 1 = m - 1
      BY <3>1 DEF AllDistinct
    <3> QED BY <3>2
  <2> QED BY <2>1, <2>2, <2>3
<1>9. AllDistinct(t)
  BY <1>8 DEF AllDistinct
<1>10. IsPutFirst(S, s, e, t)
  BY <1>4, <1>5, <1>6, <1>7, <1>9 DEF IsPutFirst
<1> QED BY <1>0, <1>10

LEMMA NoFourth ==
    ASSUME NEW S, NEW s \in Seq(S), AllDistinct(s), NEW a, NEW b, NEW c, NEW k \in {a, b, c}, ~ Occurs(s, k),
           \A n \in 1..Len(s) : s[n] \in {a, b, c}
    PROVE  Len(s) <= 2
<1>1. Len(s) \in Nat
  BY LenProperties
<1> SUFFICES ASSUME Len(s) >= 3 PROVE FALSE
  BY <1>1
<1>2. 1 \in 1..Len(s) /\ 2 \in 1..Len(s) /\ 3 \in 1..Len(s)
  BY <1>1
<1>3. s[1] # k /\ s[2] # k /\ s[3] # k
  BY <1>2 DEF Occurs
<1>4. s[1] # s[2] /\ s[1] # s[3] /\ s[2] # s[3]
  BY <1>2 DEF AllDistinct
<1>5. s[1] \in {a, b, c} /\ s[2] \in {a, b, c} /\ s[3] \in {a, b, c}
  BY <1>2
<1> QED BY <1>3, <1>4, <1>5

\* The loop over the root's row has passed the vertices below m.
RootInv(g, perm, m, x) ==
    /\ Sound(g, x.p)
    /\ x.stack \in Seq(V) /\ AllDistinct(x.stack)
    /\ \A n \in 1..Len(x.stack) : x.stack[n] < m /\ g[root][x.stack[n]] = 1
    /\ \A u, w \in V : u # root /\ w # root => x.p[1][u][w] = g[u][w]
    /\ \A w \in V : IF w < m THEN x.p[1][root][w] # 1 ELSE x.p[1][root][w] = g[root][w]
    /\ \A w \in V : x.p[1][root][w] > 1 =>
         \E n \in 1..Len(x.stack) : x.p[1][root][w] = Perms[perm][n]

LEMMA RootStarts ==
    ASSUME NEW g, IsGraph(g), NEW perm
    PROVE  RootInv(g, perm, 0, [p |-> <<g, AllUnused>>, stack |-> <<>>])
<1>1. PICK x : x = [p |-> <<g, AllUnused>>, stack |-> <<>>]
  OBVIOUS
<1>2. x.p = <<g, AllUnused>> /\ x.p[1] = g /\ x.p[2] = AllUnused
  BY <1>1
<1>3. \A u, w \in V : g[u][w] \in {0, 1} /\ g[u][w] = g[w][u]
  BY DEF IsGraph
<1>4. g \in Matrices /\ AllUnused \in Tables /\ \A u \in V : \A c \in Colours : AllUnused[u][c] = 0
  BY DEF IsGraph, Matrices, Tables, AllUnused
<1>5. \A c \in Colours : c + 2 > 1
  BY DEF Colours
<1>6. Sound(g, x.p)
  BY <1>2, <1>3, <1>4, <1>5 DEF Sound, Pairs
<1>7. x.stack = <<>> /\ x.stack \in Seq(V) /\ Len(x.stack) = 0
  BY <1>1
<1>8. AllDistinct(x.stack) /\ \A n \in 1..Len(x.stack) : FALSE
  BY <1>7 DEF AllDistinct
<1>9. \A w \in V : ~ (w < 0)
  BY VIsFinite
<1>10. RootInv(g, perm, 0, x)
  BY <1>2, <1>3, <1>6, <1>7, <1>8, <1>9, RootAssumption DEF RootInv
<1> QED BY <1>1, <1>10

LEMMA RootStep ==
    ASSUME NEW g, IsGraph(g), IsSubcubic(g), NEW perm \in 1..6, NEW k \in V, NEW x, RootInv(g, perm, k, x)
    PROVE  RootInv(g, perm, k + 1, RootEdge(perm, x, k))
<1>0. k \in Nat /\ V \subseteq Nat /\ root \in V
  BY VIsFinite, RootAssumption
<1>1. PICK y : y = RootEdge(perm, x, k)
  OBVIOUS
<1>2. PICK p : p = x.p
  OBVIOUS
<1>3. PICK s : s = x.stack
  OBVIOUS
<1>4. /\ Sound(g, p) /\ s \in Seq(V) /\ AllDistinct(s) /\ p \in Pairs
      /\ \A n \in 1..Len(s) : s[n] < k /\ g[root][s[n]] = 1
      /\ \A u, w \in V : u # root /\ w # root => p[1][u][w] = g[u][w]
      /\ \A w \in V : IF w < k THEN p[1][root][w] # 1 ELSE p[1][root][w] = g[root][w]
      /\ \A w \in V : p[1][root][w] > 1 => \E n \in 1..Len(s) : p[1][root][w] = Perms[perm][n]
  BY <1>2, <1>3 DEF RootInv, Sound
<1>5. CASE p[1][root][k] # 1
  <2>1. y = x
    BY <1>1, <1>2, <1>5 DEF RootEdge
  <2>2. \A w \in V : IF w < k + 1 THEN p[1][root][w] # 1 ELSE p[1][root][w] = g[root][w]
    <3> TAKE w \in V
    <3>1. w \in Nat /\ (w < k + 1 <=> w < k \/ w = k)
      BY <1>0
    <3> QED BY <1>4, <1>5, <3>1
  <2>3. \A n \in 1..Len(s) : s[n] < k + 1 /\ g[root][s[n]] = 1
    <3> TAKE n \in 1..Len(s)
    <3>1. s[n] \in Nat
      BY <1>0, <1>4, ElementOfSeq
    <3> QED BY <1>0, <1>4, <3>1
  <2>4. RootInv(g, perm, k + 1, x)
    BY <1>2, <1>3, <1>4, <2>2, <2>3 DEF RootInv
  <2> QED BY <1>1, <2>1, <2>4
<1>6. CASE p[1][root][k] = 1
  <2>1. g[root][k] = 1 /\ k # root /\ g[k][root] = 1
    <3>1. g[root][k] = 1
      BY <1>0, <1>4, <1>6
    <3> QED BY <1>0, <3>1 DEF IsGraph
  <2>2. ~ Occurs(s, k)
    BY <1>0, <1>4 DEF Occurs
  <2>3. Len(s) \in Nat /\ Len(s) <= 2
    <3>1. PICK a, b, c \in V : \A w \in V : g[root][w] = 1 => w \in {a, b, c}
      BY <1>0 DEF IsSubcubic
    <3>2. k \in {a, b, c} /\ \A n \in 1..Len(s) : s[n] \in {a, b, c}
      <4>1. \A n \in 1..Len(s) : s[n] \in V
        BY <1>4, ElementOfSeq
      <4> QED BY <1>4, <2>1, <3>1, <4>1
    <3>3. Len(s) <= 2
      BY <1>4, <2>2, <3>2, NoFourth
    <3> QED BY <1>4, <3>3, LenProperties
  <2>4. PICK l \in 1..3 : l = Len(s) + 1
    BY <2>3
  <2>5. PICK c : c = Perms[perm][l] - 2
    OBVIOUS
  <2>6. c \in Colours /\ c + 2 = Perms[perm][l] /\ c + 2 > 1
    <3>1. Perms[perm][l] \in 2..4
      BY PermsAre
    <3> QED BY <2>5, <3>1 DEF Colours
  <2>7. PICK q : q = Painted(p, root, k, c)
    OBVIOUS
  <2>8. PICK t : t = <<k>> \o s
    OBVIOUS
  <2>9. y = [p |-> q, stack |-> t]
    BY <1>1, <1>2, <1>3, <1>6, <2>4, <2>5, <2>7, <2>8 DEF RootEdge
  <2>10. p[2][root][c] = 0
    <3>1. ASSUME p[2][root][c] = 1 PROVE FALSE
      <4>1. PICK w \in V : p[1][root][w] = c + 2
        BY <1>0, <1>4, <2>6, <3>1 DEF Sound
      <4>2. PICK n \in 1..Len(s) : p[1][root][w] = Perms[perm][n]
        BY <1>4, <2>6, <4>1
      <4>3. n \in 1..3 /\ n # l
        BY <2>3, <2>4
      <4> QED BY <2>6, <4>1, <4>2, <4>3, PermsAre
    <3> QED BY <1>0, <1>4, <2>6, <3>1, PairTypes
  <2>11. p[2][k][c] = 0
    <3>1. ASSUME p[2][k][c] = 1 PROVE FALSE
      <4>1. PICK w \in V : p[1][k][w] = c + 2
        BY <1>4, <2>6, <3>1 DEF Sound
      <4>2. CASE w = root
        <5>1. p[1][k][root] = 1
          BY <1>0, <1>4, <1>6 DEF Sound
        <5> QED BY <2>6, <4>1, <4>2, <5>1
      <4>3. CASE w # root
        <5>1. p[1][k][w] = g[k][w] /\ g[k][w] \in {0, 1}
          BY <1>4, <2>1, <4>3 DEF IsGraph
        <5> QED BY <2>6, <4>1, <5>1
      <4> QED BY <4>2, <4>3
    <3> QED BY <1>4, <2>6, <3>1, PairTypes
  <2>12. Sound(g, q)
    BY <1>0, <1>4, <1>6, <2>6, <2>7, <2>10, <2>11, PaintedSound
  <2>13. IsPainted(p, root, k, c, q)
    BY <1>0, <1>4, <2>6, <2>7, PaintedIs
  <2>14. \A a, b \in V : q[1][a][b] = IF (a = root /\ b = k) \/ (a = k /\ b = root) THEN c + 2 ELSE p[1][a][b]
    BY <2>13 DEF IsPainted
  <2>15. /\ t \in Seq(V) /\ Len(t) = Len(s) + 1 /\ t[1] = k /\ AllDistinct(t)
         /\ \A n \in 1..Len(t) : t[n] = k \/ Occurs(s, t[n])
    <3>1. IsPutFirst(V, s, k, t)
      BY <1>4, <2>2, <2>8, DistinctPutFirst
    <3> QED BY <3>1 DEF IsPutFirst
  <2>16. \A n \in 1..Len(t) : t[n] < k + 1 /\ g[root][t[n]] = 1
    <3> TAKE n \in 1..Len(t)
    <3>1. CASE t[n] = k
      BY <1>0, <2>1, <3>1
    <3>2. CASE Occurs(s, t[n])
      <4>1. PICK m \in 1..Len(s) : s[m] = t[n]
        BY <3>2 DEF Occurs
      <4>2. s[m] \in Nat
        BY <1>0, <1>4, ElementOfSeq
      <4> QED BY <1>0, <1>4, <4>1, <4>2
    <3> QED BY <2>15, <3>1, <3>2
  <2>17. \A u, w \in V : u # root /\ w # root => q[1][u][w] = g[u][w]
    BY <1>4, <2>14
  <2>18. \A w \in V : q[1][root][w] = IF w = k THEN c + 2 ELSE p[1][root][w]
    BY <1>0, <2>1, <2>14
  <2>19. \A w \in V : IF w < k + 1 THEN q[1][root][w] # 1 ELSE q[1][root][w] = g[root][w]
    <3> TAKE w \in V
    <3>1. w \in Nat /\ (w < k + 1 <=> w < k \/ w = k)
      BY <1>0
    <3>2. c + 2 # 1
      BY <2>6 DEF Colours
    <3> QED BY <1>0, <1>4, <2>18, <3>1, <3>2
  <2>20. \A w \in V : q[1][root][w] > 1 => \E n \in 1..Len(t) : q[1][root][w] = Perms[perm][n]
    <3> SUFFICES ASSUME NEW w \in V, q[1][root][w] > 1
                 PROVE  \E n \in 1..Len(t) : q[1][root][w] = Perms[perm][n]
      OBVIOUS
    <3>1. CASE w = k
      <4>1. l \in 1..Len(t) /\ q[1][root][w] = Perms[perm][l]
        BY <2>3, <2>4, <2>6, <2>15, <2>18, <3>1
      <4> QED BY <4>1
    <3>2. CASE w # k
      <4>1. PICK n \in 1..Len(s) : p[1][root][w] = Perms[perm][n]
        BY <1>4, <2>18, <3>2
      <4>2. n \in 1..Len(t)
        BY <2>3, <2>15
      <4> QED BY <2>18, <3>2, <4>1, <4>2
    <3> QED BY <3>1, <3>2
  <2>21. y.p = q /\ y.stack = t
    BY <2>9
  <2>22. RootInv(g, perm, k + 1, y)
    BY <2>12, <2>15, <2>16, <2>17, <2>19, <2>20, <2>21 DEF RootInv
  <2> QED BY <1>1, <2>22
<1> QED BY <1>5, <1>6

\* What the root's loop leaves.
LEMMA RootIsPainted ==
    ASSUME NEW g, IsGraph(g), IsSubcubic(g), NEW perm \in 1..6
    PROVE  RootInv(g, perm, N, RootPainted(<<g, AllUnused>>, perm))
<1>1. PICK st : RootLoop(perm, <<g, AllUnused>>, st)
  BY RootLoopIs
<1>2. /\ st[0] = [p |-> <<g, AllUnused>>, stack |-> <<>>]
      /\ \A n \in 1..N : st[n] = RootEdge(perm, st[n - 1], n - 1)
      /\ RootPainted(<<g, AllUnused>>, perm) = st[N]
  BY <1>1 DEF RootLoop
<1>3. N \in Nat
  BY SizeAssumption
<1> DEFINE Failing == {n \in Nat : n <= N /\ ~ RootInv(g, perm, n, st[n])}
<1>4. Failing = {}
  <2> SUFFICES ASSUME Failing # {} PROVE FALSE
    OBVIOUS
  <2>1. PICK n \in Failing : \A m \in Failing : n <= m
    BY LeastOf
  <2>2. RootInv(g, perm, 0, st[0])
    BY <1>2, RootStarts
  <2>3. n # 0 /\ n \in 1..N
    BY <1>3, <2>2
  <2>4. n - 1 \in Nat /\ n - 1 \in V /\ (n - 1) + 1 = n /\ n - 1 \notin Failing
    BY <1>3, <2>1, <2>3 DEF V
  <2>5. RootInv(g, perm, n - 1, st[n - 1])
    BY <1>3, <2>3, <2>4
  <2>6. RootInv(g, perm, (n - 1) + 1, RootEdge(perm, st[n - 1], n - 1))
    BY <2>4, <2>5, RootStep
  <2> QED BY <1>2, <2>3, <2>4, <2>6
<1> QED BY <1>2, <1>3, <1>4

-----------------------------------------------------------------------------
\* The calls from the stack, one after the other.
CallsLoop(p, stack, st) ==
    /\ st[0] = {[p |-> p, ok |-> stack # <<>>]}
    /\ \A n \in 1..Len(stack) : st[n] = UNION {Call(x, stack[n]) : x \in st[n - 1]}
    /\ Calls(p, stack) = st[Len(stack)]

LEMMA CallsLoopIs ==
    ASSUME NEW p, NEW stack \in Seq(V)
    PROVE  \E st : CallsLoop(p, stack, st)
<1> DEFINE B == {[p |-> p, ok |-> stack # <<>>]}
           F(s, n) == UNION {Call(x, stack[n]) : x \in s}
           IsFold(it, S) == it = [s \in SUBSET S |-> IF s = {} THEN B ELSE F(it[s \ {Max(s)}], Max(s))]
           L == Len(stack)
<1>1. L \in Nat /\ DOMAIN stack = 1..L
  BY LenProperties
<1>2. Calls(p, stack) = (CHOOSE it : IsFold(it, 1..L))[1..L]
  BY <1>1 DEF Calls, FoldLeft, MapThenFoldSet
<1> HIDE DEF B, F, L
<1>3. ASSUME NEW m \in Nat, NEW it, IsFold(it, 1..m)
      PROVE  \E jt : IsFold(jt, 1..(m + 1))
  <2> DEFINE jt == [s \in SUBSET (1..(m + 1)) |-> IF m + 1 \in s THEN F(it[s \ {m + 1}], m + 1) ELSE it[s]]
  <2>1. ASSUME NEW s \in SUBSET (1..(m + 1))
        PROVE  jt[s] = IF s = {} THEN B ELSE F(jt[s \ {Max(s)}], Max(s))
    <3>1. CASE m + 1 \in s
      <4>1. Max(s) = m + 1
        BY <3>1, GreatestIs
      <4>2. s \ {m + 1} \in SUBSET (1..(m + 1)) /\ m + 1 \notin s \ {m + 1}
        OBVIOUS
      <4>3. jt[s \ {m + 1}] = it[s \ {m + 1}]
        BY <4>2
      <4>4. jt[s] = F(it[s \ {m + 1}], m + 1)
        BY <3>1
      <4> QED BY <3>1, <4>1, <4>3, <4>4
    <3>2. CASE m + 1 \notin s
      <4>1. s \in SUBSET (1..m) /\ jt[s] = it[s]
        BY <3>2
      <4>2. it[s] = IF s = {} THEN B ELSE F(it[s \ {Max(s)}], Max(s))
        BY <1>3, <4>1
      <4>3. s \ {Max(s)} \in SUBSET (1..(m + 1)) /\ m + 1 \notin s \ {Max(s)}
        BY <3>2
      <4>4. jt[s \ {Max(s)}] = it[s \ {Max(s)}]
        BY <4>3
      <4> QED BY <4>1, <4>2, <4>4
    <3> QED BY <3>1, <3>2
  <2>2. PICK kt : kt = jt
    OBVIOUS
  <2>3. kt = [s \in SUBSET (1..(m + 1)) |-> IF s = {} THEN B ELSE F(kt[s \ {Max(s)}], Max(s))]
    BY <2>1, <2>2
  <2> QED BY <2>3
<1>4. \E it : IsFold(it, 1..0)
  <2>1. PICK it : it = [s \in SUBSET (1..0) |-> B]
    OBVIOUS
  <2>2. \A s \in SUBSET (1..0) : s = {}
    OBVIOUS
  <2>3. it = [s \in SUBSET (1..0) |-> IF s = {} THEN B ELSE F(it[s \ {Max(s)}], Max(s))]
    BY <2>1, <2>2
  <2> QED BY <2>3
<1> HIDE DEF IsFold
<1>5. \E it : IsFold(it, 1..L)
  <2> DEFINE Failing == {n \in Nat : ~ \E it : IsFold(it, 1..n)}
  <2> SUFFICES ASSUME Failing # {} PROVE FALSE
    BY <1>1
  <2>1. PICK n \in Failing : \A m \in Failing : n <= m
    BY LeastOf
  <2>2. n # 0
    BY <1>4
  <2>3. n - 1 \in Nat /\ n - 1 \notin Failing /\ (n - 1) + 1 = n
    BY <2>1, <2>2
  <2>4. PICK it : IsFold(it, 1..(n - 1))
    BY <2>3
  <2>5. \E jt : IsFold(jt, 1..((n - 1) + 1))
    BY <1>3, <2>3, <2>4
  <2> QED BY <2>3, <2>5
<1>6. PICK it : IsFold(it, 1..L) /\ Calls(p, stack) = it[1..L]
  BY <1>2, <1>5
<1>7. \A s \in SUBSET (1..L) : it[s] = IF s = {} THEN B ELSE F(it[s \ {Max(s)}], Max(s))
  BY <1>6 DEF IsFold
<1> DEFINE st == [n \in 0..L |-> it[1..n]]
<1>8. st[0] = B
  <2>1. 1..0 = {} /\ 0 \in 0..L
    BY <1>1
  <2> QED BY <1>7, <2>1
<1>9. ASSUME NEW n \in 1..L
      PROVE  st[n] = F(st[n - 1], n)
  <2>1. /\ 1..n \in SUBSET (1..L) /\ 1..n # {} /\ n \in 1..n /\ n \in Nat
        /\ (1..n) \ {n} = 1..(n - 1) /\ n - 1 \in 0..L /\ n \in 0..L
    <3>1. L \in Nat
      BY <1>1
    <3>2. n \in Nat /\ n >= 1 /\ n <= L
      BY <3>1
    <3> HIDE DEF st
    <3>3. 1..n \in SUBSET (1..L) /\ n \in 1..n
      BY <3>1, <3>2
    <3>4. (1..n) \ {n} = 1..(n - 1)
      BY <3>2
    <3>5. n - 1 \in 0..L /\ n \in 0..L
      BY <3>1, <3>2
    <3> QED BY <3>2, <3>3, <3>4, <3>5
  <2>2. Max(1..n) = n
    BY <2>1, GreatestIs
  <2>3. it[1..n] = F(it[1..(n - 1)], n)
    BY <1>7, <2>1, <2>2
  <2> QED BY <2>1, <2>3
<1>10. Calls(p, stack) = st[L]
  BY <1>1, <1>6
<1> HIDE DEF st
<1>11. CallsLoop(p, stack, st)
  BY <1>8, <1>9, <1>10 DEF CallsLoop, B, F, L
<1> QED BY <1>11

\* Every edge has a colour.
Complete(p) == \A u \in V : Full(p, u)

LEMMA FirstCallColoursAll ==
    ASSUME NEW g, Searchable(g), NEW p, Sound(g, p), NEW k \in V, g[root][k] = 1,
           \A u, w \in V : u # root /\ w # root => p[1][u][w] = g[u][w],
           Full(p, root), NEW q, Reached(g, k, p, q)
    PROVE  Complete(q)
<1> DEFINE S == {u \in V \ {root} : Full(q, u)}
<1>1. root \in V /\ k # root /\ \A u, w \in V : g[u][w] = g[w][u]
  BY RootAssumption DEF Searchable, IsGraph
<1>2. k \in S
  BY <1>1 DEF Reached
<1>3. ASSUME NEW u \in S, NEW w \in V \ {root}, g[u][w] = 1
      PROVE  w \in S
  <2>1. u \in V /\ u # root /\ Full(q, u)
    OBVIOUS
  <2>2. p[1][u][w] = 1 /\ p[1][w][u] = 1
    BY <1>1, <1>3, <2>1
  <2>3. q[1][u][w] # 1
    BY <2>1 DEF Full
  <2>4. q[1][w][u] # 1
    BY <2>1, <2>3 DEF Reached, Sound
  <2>5. Full(q, w)
    BY <2>1, <2>2, <2>4 DEF Reached, Closes
  <2> QED BY <2>5
<1>4. S \in SUBSET (V \ {root})
  OBVIOUS
<1> HIDE DEF S
<1>5. ClosedOff(g, S, {root})
  BY <1>3 DEF ClosedOff
<1>6. \A n \in V : g[root][n] = 1 => n \in S
  BY <1>2, <1>4, <1>5 DEF Searchable, RootIsNoCut
<1>7. ClosedOff(g, S \cup {root}, {})
  BY <1>3, <1>4, <1>6 DEF ClosedOff
<1>8. \A u \in V \ (S \cup {root}) : \A w \in V : g[u][w] = 0
  BY <1>1, <1>4, <1>7 DEF Searchable, JoinedToRoot
<1>9. ASSUME NEW u \in V
      PROVE  Full(q, u)
  <2>1. CASE u \in S
    BY <2>1 DEF S
  <2>2. CASE u = root
    <3>1. \A x \in V : p[1][root][x] # 1 /\ q[1][root][x] = p[1][root][x]
      BY <1>1 DEF Reached, Keeps, Full
    <3> QED BY <2>2, <3>1 DEF Full
  <2>3. CASE u \notin S /\ u # root
    <3>1. \A x \in V : q[1][u][x] = 0
      BY <1>8, <2>3 DEF Reached, Sound
    <3> QED BY <3>1 DEF Full
  <2> QED BY <2>1, <2>2, <2>3
<1> QED BY <1>9 DEF Complete

\* What is known after some of the calls: all is coloured, or the first failed.
CallsInv(g, p, x) ==
    \/ x = [p |-> p, ok |-> FALSE]
    \/ x = [p |-> x.p, ok |-> TRUE] /\ Sound(g, x.p) /\ Complete(x.p)

LEMMA CallKeeps ==
    ASSUME NEW g, NEW p, NEW k \in V, NEW x, CallsInv(g, p, x), NEW y \in Call(x, k)
    PROVE  CallsInv(g, p, y)
<1>1. CASE x = [p |-> p, ok |-> FALSE]
  <2>1. ~ x.ok
    BY <1>1
  <2>2. Call(x, k) = {x}
    BY <2>1 DEF Call
  <2> QED BY <2>2
<1>2. CASE x = [p |-> x.p, ok |-> TRUE] /\ Sound(g, x.p) /\ Complete(x.p)
  <2>1. x.ok /\ x.p \in Pairs /\ Full(x.p, k)
    <3>1. x.ok
      BY <1>2
    <3> QED BY <1>2, <3>1 DEF Sound, Complete
  <2>2. Search[<<k, x.p>>] = {x.p}
    BY <2>1, SearchOfFull
  <2>3. Call(x, k) = {[p |-> q, ok |-> TRUE] : q \in {x.p}}
    BY <2>1, <2>2 DEF Call
  <2>4. y = [p |-> x.p, ok |-> TRUE]
    BY <2>3
  <2> QED BY <1>2, <2>4
<1> QED BY <1>1, <1>2 DEF CallsInv

LEMMA FirstCall ==
    ASSUME NEW g, Searchable(g), NEW p, Sound(g, p), NEW k \in V, g[root][k] = 1,
           \A u, w \in V : u # root /\ w # root => p[1][u][w] = g[u][w],
           Full(p, root), NEW y \in Call([p |-> p, ok |-> TRUE], k)
    PROVE  CallsInv(g, p, y)
<1>1. PICK x : x = [p |-> p, ok |-> TRUE]
  OBVIOUS
<1>2. x.ok /\ x.p = p /\ p \in Pairs
  BY <1>1 DEF Sound
<1>3. CASE Search[<<k, p>>] = {}
  <2>1. Call(x, k) = {[x EXCEPT !.ok = FALSE]}
    BY <1>2, <1>3 DEF Call
  <2>2. [x EXCEPT !.ok = FALSE] = [p |-> p, ok |-> FALSE]
    <3>1. PICK z : z = [x EXCEPT !.ok = FALSE]
      OBVIOUS
    <3>2. DOMAIN x = {"p", "ok"} /\ x.p = p
      BY <1>1
    <3>3. z = [l \in {"p", "ok"} |-> IF l = "ok" THEN FALSE ELSE x[l]]
      BY <3>1, <3>2
    <3>4. z = [p |-> p, ok |-> FALSE]
      BY <3>2, <3>3
    <3> QED BY <3>1, <3>4
  <2>3. y = [p |-> p, ok |-> FALSE]
    BY <1>1, <2>1, <2>2
  <2> QED BY <2>3 DEF CallsInv
<1>4. CASE Search[<<k, p>>] # {}
  <2>1. Call(x, k) = {[p |-> q, ok |-> TRUE] : q \in Search[<<k, p>>]}
    BY <1>2, <1>4 DEF Call
  <2>2. PICK q \in Search[<<k, p>>] : y = [p |-> q, ok |-> TRUE]
    BY <1>1, <2>1
  <2>3. SearchReaches(g, p)
    BY <1>2, SearchReachesAll DEF Searchable
  <2>4. Reached(g, k, p, q)
    BY <2>3 DEF SearchReaches
  <2>5. Complete(q)
    BY <2>4, FirstCallColoursAll
  <2>6. y.p = q /\ Sound(g, q)
    BY <2>2, <2>4 DEF Reached
  <2> QED BY <2>2, <2>5, <2>6 DEF CallsInv
<1> QED BY <1>3, <1>4

LEMMA CallsAre ==
    ASSUME NEW g, Searchable(g), NEW p, Sound(g, p), NEW stack \in Seq(V), stack # <<>>,
           \A n \in 1..Len(stack) : g[root][stack[n]] = 1,
           \A u, w \in V : u # root /\ w # root => p[1][u][w] = g[u][w],
           Full(p, root), NEW y \in Calls(p, stack)
    PROVE  CallsInv(g, p, y)
<1>1. PICK st : CallsLoop(p, stack, st)
  BY CallsLoopIs
<1>2. /\ st[0] = {[p |-> p, ok |-> TRUE]}
      /\ \A n \in 1..Len(stack) : st[n] = UNION {Call(x, stack[n]) : x \in st[n - 1]}
      /\ y \in st[Len(stack)]
  BY <1>1 DEF CallsLoop
<1>3. Len(stack) \in Nat /\ Len(stack) # 0
  BY LenProperties, EmptySeq
<1>4. \A n \in 1..Len(stack) : stack[n] \in V
  BY ElementOfSeq
<1> DEFINE Failing == {n \in Nat : n \in 1..Len(stack) /\ ~ \A x \in st[n] : CallsInv(g, p, x)}
<1>5. Failing = {}
  <2> SUFFICES ASSUME Failing # {} PROVE FALSE
    OBVIOUS
  <2>1. PICK n \in Failing : \A m \in Failing : n <= m
    BY LeastOf
  <2>2. PICK x \in st[n] : ~ CallsInv(g, p, x)
    BY <2>1
  <2>3. n \in 1..Len(stack) /\ n \in Nat
    OBVIOUS
  <2>4. PICK z \in st[n - 1] : x \in Call(z, stack[n])
    BY <1>2, <2>3
  <2>5. CASE n = 1
    <3>1. z = [p |-> p, ok |-> TRUE]
      BY <1>2, <2>4, <2>5
    <3>2. stack[n] \in V /\ g[root][stack[n]] = 1
      BY <1>4, <2>3
    <3> QED BY <2>2, <2>4, <3>1, <3>2, FirstCall
  <2>6. CASE n # 1
    <3>1. n - 1 \in 1..Len(stack) /\ n - 1 \in Nat /\ ~ (n <= n - 1)
      BY <1>3, <2>3, <2>6
    <3>2. n - 1 \notin Failing
      BY <2>1, <3>1
    <3>3. CallsInv(g, p, z)
      BY <2>4, <3>1, <3>2
    <3> QED BY <1>4, <2>2, <2>3, <2>4, <3>3, CallKeeps
  <2> QED BY <2>5, <2>6
<1>6. Len(stack) \in 1..Len(stack)
  BY <1>3
<1> QED BY <1>2, <1>3, <1>5, <1>6

\* undo takes back what the root's loop did.
LEMMA RowUndoneIs ==
    ASSUME NEW g, IsGraph(g), NEW p, Sound(g, p),
           \A u, w \in V : u # root /\ w # root => p[1][u][w] = g[u][w]
    PROVE  RowUndone(g, p) = <<g, AllUnused>>
<1> DEFINE changed == {k \in V : p[1][root][k] # g[root][k]}
           M == [u \in V |-> [w \in V |->
                   IF (u = root /\ w \in changed) \/ (w = root /\ u \in changed) THEN g[u][w] ELSE p[1][u][w]]]
           B == [u \in V |-> [c \in Colours |->
                   IF \E k \in changed : c = p[1][root][k] - 2 /\ u \in {root, k} THEN 0 ELSE p[2][u][c]]]
<1>1. RowUndone(g, p) = <<M, B>>
  BY DEF RowUndone
<1>2. root \in V /\ g \in [V -> [V -> {0, 1}]] /\ \A u, w \in V : g[u][w] = g[w][u] /\ g[u][w] \in {0, 1}
  BY RootAssumption DEF IsGraph
<1>3. \A u, w \in V : p[1][u][w] = p[1][w][u] /\ p[1][u][w] \in Int
  BY PairTypes DEF Sound
<1>4. ASSUME NEW u \in V, NEW w \in V
      PROVE  M[u][w] = g[u][w]
  <2>1. M[u][w] = IF (u = root /\ w \in changed) \/ (w = root /\ u \in changed) THEN g[u][w] ELSE p[1][u][w]
    OBVIOUS
  <2>2. CASE u = root
    BY <2>1, <2>2
  <2>3. CASE w = root
    BY <1>2, <1>3, <2>1, <2>3
  <2>4. CASE u # root /\ w # root
    BY <2>1, <2>4
  <2> QED BY <2>2, <2>3, <2>4
<1>5. M = g
  <2>1. M \in [V -> [V -> {0, 1}]]
    <3>1. \A u, w \in V : M[u][w] \in {0, 1}
      BY <1>2, <1>4
    <3>2. M = [u \in V |-> [w \in V |-> M[u][w]]]
      OBVIOUS
    <3> HIDE DEF M
    <3> QED BY <3>1, <3>2
  <2> HIDE DEF M
  <2> QED BY <1>2, <1>4, <2>1
<1>6. ASSUME NEW u \in V, NEW c \in Colours
      PROVE  B[u][c] = 0
  <2>1. B[u][c] = IF \E k \in changed : c = p[1][root][k] - 2 /\ u \in {root, k} THEN 0 ELSE p[2][u][c]
    OBVIOUS
  <2>2. p[2][u][c] \in {0, 1}
    BY PairTypes DEF Sound
  <2>3. CASE p[2][u][c] = 1
    <3>1. PICK w \in V : p[1][u][w] = c + 2
      BY <2>3 DEF Sound
    <3>2. c \in Int /\ c + 2 > 1
      BY DEF Colours
    <3>3. p[1][u][w] # g[u][w]
      BY <1>2, <3>1, <3>2
    <3>4. CASE u = root
      <4>1. w \in changed /\ c = p[1][root][w] - 2
        BY <3>1, <3>2, <3>3, <3>4
      <4> HIDE DEF changed
      <4> QED BY <2>1, <3>4, <4>1
    <3>5. CASE w = root
      <4>1. p[1][root][u] = c + 2 /\ p[1][root][u] # g[root][u]
        BY <1>2, <1>3, <3>1, <3>3, <3>5
      <4>2. u \in changed /\ c = p[1][root][u] - 2
        BY <3>2, <4>1
      <4> HIDE DEF changed
      <4> QED BY <2>1, <4>2
    <3> QED BY <3>3, <3>4, <3>5
  <2> HIDE DEF B
  <2> QED BY <2>1, <2>2, <2>3
<1>7. B = AllUnused
  <2>1. B = [u \in V |-> [c \in Colours |-> B[u][c]]]
    OBVIOUS
  <2> HIDE DEF B
  <2> QED BY <1>6, <2>1 DEF AllUnused
<1> QED BY <1>1, <1>5, <1>7

(*****************************************************************************)
(* What findColoringRecursive and the loop around it do on a matrix of their *)
(* own (234-303): if every call returns 1, all edges have a colour and no    *)
(* two at a vertex the same; if one returns 0, it is the first, and undo,    *)
(* which looks at the root's row only, leaves the graph without a colour.    *)
(*****************************************************************************)
THEOREM SearchesAreRight == \A g : Searchable(g) => SearchIsRight(g)
<1> SUFFICES ASSUME NEW g, Searchable(g), NEW perm \in 1..6, NEW s \in OutcomesOf(<<g, AllUnused>>, perm)
             PROVE  IF s.ok THEN ColouringOf(g, s.p[1]) /\ s.p[2] \in Tables \ {AllUnused}
                            ELSE RowUndone(g, s.p) = <<g, AllUnused>>
  <2> QED BY PermsAre DEF SearchIsRight
<1>1. IsGraph(g) /\ IsSubcubic(g) /\ root \in V
  BY RootAssumption DEF Searchable
<1>2. PICK r : r = RootPainted(<<g, AllUnused>>, perm)
  OBVIOUS
<1>3. RootInv(g, perm, N, r)
  BY <1>1, <1>2, RootIsPainted
<1>4. PICK p : p = r.p
  OBVIOUS
<1>5. PICK stack : stack = r.stack
  OBVIOUS
<1>6. s \in Calls(p, stack)
  BY <1>2, <1>4, <1>5 DEF OutcomesOf
<1>7. /\ Sound(g, p) /\ stack \in Seq(V)
      /\ \A n \in 1..Len(stack) : g[root][stack[n]] = 1
      /\ \A u, w \in V : u # root /\ w # root => p[1][u][w] = g[u][w]
  BY <1>3, <1>4, <1>5 DEF RootInv
<1>8. Full(p, root)
  <2>1. \A w \in V : w < N
    BY SizeAssumption DEF V
  <2> QED BY <1>3, <1>4, <2>1 DEF RootInv, Full
<1>9. CASE stack # <<>>
  <2>1. CallsInv(g, p, s)
    BY <1>6, <1>7, <1>8, <1>9, CallsAre
  <2>2. CASE s = [p |-> p, ok |-> FALSE]
    <3>1. ~ s.ok /\ s.p = p
      BY <2>2
    <3>2. RowUndone(g, p) = <<g, AllUnused>>
      BY <1>1, <1>7, RowUndoneIs
    <3> QED BY <3>1, <3>2
  <2>3. CASE s = [p |-> s.p, ok |-> TRUE] /\ Sound(g, s.p) /\ Complete(s.p)
    <3>1. s.ok
      BY <2>3
    <3>2. PICK q : q = s.p
      OBVIOUS
    <3>3. Sound(g, q) /\ Complete(q) /\ q \in Pairs
      BY <2>3, <3>2 DEF Sound
    <3>4. q[1] \in Matrices /\ q[2] \in Tables
      BY <3>3, PairTypes
    <3>5. IsProper(q[1])
      BY <3>3 DEF Sound, IsProper
    <3>6. \A u, w \in V : q[1][u][w] # 1 /\ (q[1][u][w] = 0 <=> g[u][w] = 0)
      BY <3>3 DEF Sound, Complete, Full
    <3>7. \E u, w \in V : g[u][w] = 1
      <4>1. Len(stack) \in Nat /\ Len(stack) # 0
        BY <1>7, <1>9, LenProperties, EmptySeq
      <4>2. 1 \in 1..Len(stack) /\ stack[1] \in V
        BY <1>7, <4>1, ElementOfSeq
      <4> QED BY <1>1, <1>7, <4>2
    <3>8. ColouringOf(g, q[1])
      BY <3>4, <3>5, <3>6, <3>7 DEF ColouringOf
    <3>9. q[2] # AllUnused
      <4>1. PICK u \in V, w \in V : g[u][w] = 1
        BY <3>7
      <4>2. q[1][u][w] \in 0..4 /\ q[1][u][w] \notin {0, 1}
        BY <3>4, <3>6, <4>1 DEF Matrices
      <4>3. PICK c \in Colours : q[1][u][w] = c + 2
        <5>1. q[1][u][w] - 2 \in Colours /\ q[1][u][w] = (q[1][u][w] - 2) + 2
          BY <4>2 DEF Colours
        <5> QED BY <5>1
      <4>4. q[2][u][c] = 1
        BY <3>3, <4>3 DEF Sound
      <4> QED BY <4>4 DEF AllUnused
    <3> QED BY <3>1, <3>2, <3>4, <3>8, <3>9
  <2> QED BY <2>1, <2>2, <2>3 DEF CallsInv
<1>10. CASE stack = <<>>
  <2>1. PICK st : CallsLoop(p, stack, st)
    BY <1>7, CallsLoopIs
  <2>2. st[0] = {[p |-> p, ok |-> FALSE]} /\ s \in st[0]
    BY <1>6, <1>10, <2>1 DEF CallsLoop
  <2>3. ~ s.ok /\ s.p = p
    BY <2>2
  <2>4. RowUndone(g, p) = <<g, AllUnused>>
    BY <1>1, <1>7, RowUndoneIs
  <2> QED BY <2>3, <2>4
<1> QED BY <1>9, <1>10

-----------------------------------------------------------------------------
\* There is a colouring of all edges with the colours of p.
Extends(h, p) == \A u, w \in V : p[1][u][w] > 1 => h[u][w] = p[1][u][w]

Extendable(g, p) == \E h : Whole(g, h) /\ Extends(h, p)

LEMMA ExtendableIs == \A g, p : Extendable(g, p) <=> Completable(g, p[1])
BY DEF Extendable, Extends, Completable, Completes

\* The matrices before and after a search as the lemmas on colourings have them.
LEMMA ReachedGrows ==
    ASSUME NEW g, NEW v \in V, NEW p, NEW q, Sound(g, p), Reached(g, v, p, q)
    PROVE  Partial(g, p[1]) /\ Partial(g, q[1]) /\ GrowsTo(p[1], q[1]) /\ RowFilled(q[1], v)
<1>1. Sound(g, q) /\ p[1] \in Matrices /\ q[1] \in Matrices
  BY PairTypes DEF Sound, Reached
<1>2. Partial(g, p[1])
  BY <1>1 DEF Partial, Sound
<1>3. Partial(g, q[1])
  BY <1>1 DEF Partial, Sound
<1>4. GrowsTo(p[1], q[1])
  BY DEF Reached, Keeps, Closes, Full, GrowsTo, RowFilled
<1>5. RowFilled(q[1], v)
  BY DEF Reached, Full, RowFilled
<1> QED BY <1>2, <1>3, <1>4, <1>5

\* A search takes nothing away.
LEMMA ReachedIsExtendable ==
    ASSUME NEW g, NEW v \in V, NEW p, NEW q, Sound(g, p), Reached(g, v, p, q), Extendable(g, p)
    PROVE  Extendable(g, q)
<1>1. PICK G, Q : G = p[1] /\ Q = q[1]
  OBVIOUS
<1>2. Partial(g, G) /\ Partial(g, Q) /\ GrowsTo(G, Q)
  BY <1>1, ReachedGrows
<1>3. Completable(g, G)
  BY <1>1, ExtendableIs
<1>4. Completable(g, Q)
  BY <1>2, <1>3, GrownIsCompletable
<1> QED BY <1>1, <1>4, ExtendableIs

\* A search with a colour that h has not at the edge comes back to v.
LEMMA ComesBack ==
    ASSUME NEW g, IsGraph(g), IsCubic(g), NEW p, Sound(g, p), NEW v \in V, NEW k \in V, p[1][v][k] = 1,
           NEW c \in Colours, NEW p1, Sound(g, p1), IsPainted(p, v, k, c, p1),
           NEW q, Reached(g, k, p1, q), NEW h, Whole(g, h), Extends(h, p), h[v][k] # c + 2
    PROVE  Full(q, v)
<1>1. PICK d \in 2..4 : d = c + 2
  BY DEF Colours
<1>2. PICK G, Q : G = p1[1] /\ Q = q[1]
  OBVIOUS
<1>3. Partial(g, G) /\ Partial(g, Q) /\ GrowsTo(G, Q) /\ RowFilled(Q, k)
  BY <1>2, ReachedGrows
<1>4. \A u, w \in V : G[u][w] = IF (u = v /\ w = k) \/ (u = k /\ w = v) THEN d ELSE p[1][u][w]
  BY <1>1, <1>2 DEF IsPainted
<1>5. G[v][k] = d
  BY <1>4
<1>6. CompletesBut(h, G, v, k)
  BY <1>4 DEF CompletesBut, Extends
<1>7. h[v][k] # d
  BY <1>1
<1>8. RowFilled(Q, v)
  BY <1>3, <1>5, <1>6, <1>7, CameBack
<1> QED BY <1>2, <1>8 DEF RowFilled, Full

-----------------------------------------------------------------------------
\* The colours a neighbour of v has to choose from are two at most.
LEMMA TwoAreFree ==
    ASSUME NEW p, NEW v \in V, NEW k \in V, NEW a \in Colours, p[2][v][a] # 0
    PROVE  \A b \in FreeColours(p, v, k) : \A d, e \in FreeColours(p, v, k) : b = d \/ b = e \/ d = e
BY DEF FreeColours, Colours

\* A colour at v.
Started(p, v) == \E a \in Colours : p[2][v][a] # 0

Succeeds(g, p) ==
    Sound(g, p) /\ Extendable(g, p) => \A v \in V : Started(p, v) => Search[<<v, p>>] # {}

SmallerSucceed(g, p) == \A q \in Pairs : Below(q, p) => Succeeds(g, q)

\* A colour that some colouring h has at the edge leads to a full one.
LEMMA RightColourSucceeds ==
    ASSUME NEW g, IsGraph(g), NEW p \in Pairs, Sound(g, p), SmallerSucceed(g, p),
           NEW v \in V, NEW k \in V, p[1][v][k] = 1, NEW h, Whole(g, h), Extends(h, p),
           NEW c \in FreeColours(p, v, k), h[v][k] = c + 2
    PROVE  \E q \in Search[<<k, Painted(p, v, k, c)>>] : Search[<<v, q>>] # {}
<1>1. c \in Colours /\ p[2][v][c] = 0 /\ p[2][k][c] = 0
  BY DEF FreeColours
<1>2. PICK p1 : p1 = Painted(p, v, k, c)
  OBVIOUS
<1>3. p1 \in Pairs /\ Below(p1, p)
  BY <1>1, <1>2, PaintedIsBelow
<1>4. Sound(g, p1)
  BY <1>1, <1>2, PaintedSound
<1>5. IsPainted(p, v, k, c, p1)
  BY <1>1, <1>2, PaintedIs
<1>6. Extends(h, p1)
  <2>1. \A u, w \in V : p1[1][u][w] = IF (u = v /\ w = k) \/ (u = k /\ w = v) THEN c + 2 ELSE p[1][u][w]
    BY <1>5 DEF IsPainted
  <2>2. h[k][v] = c + 2
    BY DEF Whole
  <2>3. \A u, w \in V : p[1][u][w] > 1 => h[u][w] = p[1][u][w]
    BY DEF Extends
  <2>4. \A u, w \in V : p1[1][u][w] > 1 => h[u][w] = p1[1][u][w]
    BY <2>1, <2>2, <2>3
  <2> QED BY <2>4 DEF Extends
<1>7. Extendable(g, p1)
  BY <1>6 DEF Extendable
<1>8. p1[2][v][c] = 1 /\ p1[2][k][c] = 1
  BY <1>1, <1>5 DEF IsPainted
<1>9. Started(p1, v) /\ Started(p1, k)
  BY <1>1, <1>8 DEF Started
<1>10. PICK q \in Search[<<k, p1>>] : TRUE
  <2>1. Succeeds(g, p1)
    BY <1>3 DEF SmallerSucceed
  <2> QED BY <1>4, <1>7, <1>9, <2>1 DEF Succeeds
<1>11. Reached(g, k, p1, q)
  <2>1. SearchReaches(g, p1)
    BY <1>3, SearchReachesAll
  <2> QED BY <1>4, <1>10, <2>1 DEF SearchReaches
<1>12. q \in Pairs /\ Below(q, p) /\ Sound(g, q)
  <2>1. q \in Pairs /\ Below(q, p)
    BY <1>3, <1>11, ReachedIsBelow
  <2> QED BY <1>11, <2>1 DEF Reached
<1>13. Extendable(g, q)
  BY <1>4, <1>7, <1>11, ReachedIsExtendable
<1>14. Started(q, v)
  <2>1. PICK w \in V : p1[1][v][w] = c + 2
    BY <1>1, <1>4, <1>8 DEF Sound
  <2>2. c + 2 # 1
    BY <1>1 DEF Colours
  <2>3. q[1][v][w] = c + 2
    BY <1>11, <2>1, <2>2 DEF Reached, Keeps
  <2>4. q[2][v][c] = 1
    BY <1>1, <1>12, <2>3 DEF Sound
  <2> QED BY <1>1, <2>4 DEF Started
<1>15. Search[<<v, q>>] # {}
  <2>1. Succeeds(g, q)
    BY <1>12 DEF SmallerSucceed
  <2> QED BY <1>12, <1>13, <1>14, <2>1 DEF Succeeds
<1> QED BY <1>2, <1>10, <1>15

\* A colour that no extension of p has there does no harm if the search with
\* it succeeds.
LEMMA WrongColourSucceeds ==
    ASSUME NEW g, IsGraph(g), IsCubic(g), NEW p \in Pairs, Sound(g, p),
           NEW v \in V, NEW k \in V, p[1][v][k] = 1, NEW h, Whole(g, h), Extends(h, p),
           NEW c \in FreeColours(p, v, k), h[v][k] # c + 2, NEW q \in Search[<<k, Painted(p, v, k, c)>>]
    PROVE  Search[<<v, q>>] # {}
<1>1. c \in Colours /\ p[2][v][c] = 0 /\ p[2][k][c] = 0
  BY DEF FreeColours
<1>2. PICK p1 : p1 = Painted(p, v, k, c)
  OBVIOUS
<1>3. p1 \in Pairs /\ Below(p1, p)
  BY <1>1, <1>2, PaintedIsBelow
<1>4. Sound(g, p1)
  BY <1>1, <1>2, PaintedSound
<1>5. IsPainted(p, v, k, c, p1)
  BY <1>1, <1>2, PaintedIs
<1>6. Reached(g, k, p1, q)
  <2>1. SearchReaches(g, p1)
    BY <1>3, SearchReachesAll
  <2> QED BY <1>2, <1>4, <2>1 DEF SearchReaches
<1>7. Full(q, v)
  BY <1>1, <1>4, <1>5, <1>6, ComesBack
<1>8. q \in Pairs
  BY <1>6 DEF Reached, Sound
<1>9. Search[<<v, q>>] = {q}
  BY <1>7, <1>8, SearchOfFull
<1> QED BY <1>9

LEMMA SucceedsStep ==
    ASSUME NEW g, IsGraph(g), IsCubic(g), NEW p \in Pairs, SmallerSucceed(g, p)
    PROVE  Succeeds(g, p)
<1> SUFFICES ASSUME Sound(g, p), Extendable(g, p), NEW v \in V, Started(p, v)
             PROVE  Search[<<v, p>>] # {}
  BY DEF Succeeds
<1>1. Search[<<v, p>>] = SearchBody(Search, v, p)
  BY SearchIs
<1>2. CASE Left(p, v) = {}
  BY <1>1, <1>2 DEF SearchBody
<1>3. CASE Left(p, v) # {}
  <2>1. PICK k : k = Least(Left(p, v))
    OBVIOUS
  <2>2. k \in V /\ p[1][v][k] = 1
    BY <1>3, <2>1, LeastIn, VIsFinite DEF Left
  <2>3. PICK free : free = FreeColours(p, v, k)
    OBVIOUS
  <2>4. PICK h : Whole(g, h) /\ Extends(h, p)
    BY DEF Extendable
  <2>5. PICK e \in Colours : h[v][k] = e + 2
    <3>1. h[v][k] \in 0..4 /\ h[v][k] # 1 /\ h[v][k] # 0
      BY <2>2, <2>4 DEF Whole, Matrices, Sound
    <3>2. h[v][k] - 2 \in Colours /\ h[v][k] = (h[v][k] - 2) + 2
      BY <3>1 DEF Colours
    <3> QED BY <3>2
  <2>6. e \in free
    <3>1. /\ \A u, w \in V : h[u][w] = h[w][u]
          /\ \A u, w, x \in V : h[u][w] > 1 /\ w # x => h[u][w] # h[u][x]
      BY <2>4 DEF Whole
    <3>2. \A u, w \in V : p[1][u][w] > 1 => h[u][w] = p[1][u][w]
      BY <2>4 DEF Extends
    <3>3. e + 2 > 1 /\ h[k][v] = e + 2 /\ p[1][k][v] = 1
      BY <2>2, <2>5, <3>1 DEF Colours, Sound
    <3>4. ASSUME NEW w \in V, p[1][v][w] = e + 2 PROVE FALSE
      <4>1. h[v][w] = e + 2 /\ w # k
        BY <2>2, <3>2, <3>3, <3>4
      <4> QED BY <2>2, <2>5, <3>1, <3>3, <4>1
    <3>5. ASSUME NEW w \in V, p[1][k][w] = e + 2 PROVE FALSE
      <4>1. h[k][w] = e + 2 /\ w # v
        BY <2>2, <3>2, <3>3, <3>5
      <4> QED BY <2>2, <3>1, <3>3, <4>1
    <3>6. p[2][v][e] # 1 /\ p[2][k][e] # 1
      BY <2>2, <3>4, <3>5 DEF Sound
    <3>7. p[2][v][e] = 0 /\ p[2][k][e] = 0
      BY <2>2, <3>6, PairTypes
    <3> QED BY <2>3, <3>7 DEF FreeColours
  <2>7. free \in SUBSET Nat /\ free # {}
    BY <2>3, <2>6 DEF FreeColours, Colours
  <2>8. PICK c1 : c1 = Least(free)
    OBVIOUS
  <2>9. c1 \in free
    BY <2>7, <2>8, LeastIn
  <2>10. PICK c2 : c2 = Least(free \ {c1})
    OBVIOUS
  <2>11. e # c1 => free # {c1} /\ c2 = e
    <3>1. ASSUME e # c1 PROVE c2 \in free \ {c1}
      BY <2>6, <2>7, <2>10, <3>1, LeastIn
    <3>2. PICK a \in Colours : p[2][v][a] # 0
      BY DEF Started
    <3>3. \A b, d, x \in free : b = d \/ b = x \/ d = x
      BY <2>2, <2>3, <3>2, TwoAreFree
    <3> QED BY <2>6, <2>9, <3>1, <3>3
  <2>12. PICK first : first = Search[<<k, Painted(p, v, k, c1)>>]
    OBVIOUS
  <2>13. PICK second : second = Search[<<k, Painted(p, v, k, c2)>>]
    OBVIOUS
  <2>14. PICK result : result = IF first # {} \/ free = {c1} THEN first ELSE second
    OBVIOUS
  <2>15. SearchBody(Search, v, p) = UNION {Search[<<v, q>>] : q \in result}
    BY <1>3, <2>1, <2>3, <2>7, <2>8, <2>10, <2>12, <2>13, <2>14 DEF SearchBody
  <2>16. \E q \in Search[<<k, Painted(p, v, k, e)>>] : Search[<<v, q>>] # {}
    <3>1. e \in FreeColours(p, v, k)
      BY <2>3, <2>6
    <3> QED BY <2>2, <2>4, <2>5, <3>1, RightColourSucceeds
  <2>17. \E q \in result : Search[<<v, q>>] # {}
    <3>1. CASE e = c1
      <4>1. \E q \in first : Search[<<v, q>>] # {}
        BY <2>12, <2>16, <3>1
      <4> QED BY <2>14, <4>1
    <3>2. CASE e # c1 /\ first = {}
      <4>1. \E q \in second : Search[<<v, q>>] # {}
        BY <2>11, <2>13, <2>16, <3>2
      <4> QED BY <2>11, <2>14, <3>2, <4>1
    <3>3. CASE e # c1 /\ first # {}
      <4>1. PICK q \in first : TRUE
        BY <3>3
      <4>2. h[v][k] # c1 + 2
        BY <2>3, <2>5, <2>9, <3>3 DEF FreeColours, Colours
      <4>3. Search[<<v, q>>] # {}
        BY <2>2, <2>3, <2>4, <2>9, <2>12, <4>1, <4>2, WrongColourSucceeds
      <4> QED BY <2>14, <3>3, <4>1, <4>3
    <3> QED BY <3>1, <3>2, <3>3
  <2>18. PICK q \in result : Search[<<v, q>>] # {}
    BY <2>17
  <2>19. PICK r \in Search[<<v, q>>] : TRUE
    BY <2>18
  <2>20. r \in SearchBody(Search, v, p)
    BY <2>15, <2>18, <2>19
  <2> QED BY <1>1, <2>20
<1> QED BY <1>2, <1>3

LEMMA SucceedsAll ==
    ASSUME NEW g, IsGraph(g), IsCubic(g), NEW p \in Pairs
    PROVE  Succeeds(g, p)
<1> DEFINE Failing == {n \in Nat : \E q \in Pairs : Size(q) = n /\ ~ Succeeds(g, q)}
<1> SUFFICES Failing = {}
  BY SizeIsNat
<1> SUFFICES ASSUME Failing # {} PROVE FALSE
  OBVIOUS
<1>1. PICK n \in Failing : \A m \in Failing : n <= m
  BY LeastOf
<1>2. PICK q \in Pairs : Size(q) = n /\ ~ Succeeds(g, q)
  BY <1>1
<1>3. ASSUME NEW r \in Pairs, Below(r, q)
      PROVE  Succeeds(g, r)
  <2>1. Size(r) < n /\ Size(r) \in Nat /\ n \in Nat
    BY <1>2, <1>3, BelowIsSmaller
  <2>2. Size(r) \notin Failing
    BY <1>1, <2>1
  <2> QED BY <2>1, <2>2
<1>4. SmallerSucceed(g, q)
  BY <1>3 DEF SmallerSucceed
<1> QED BY <1>2, <1>4, SucceedsStep

-----------------------------------------------------------------------------
\* The loop has come to m and painted as in h.
RankInv(h, m, x, a, b, c) == Extends(h, x.p) /\ Len(x.stack) = Passed(m, a, b, c)

LEMMA RankStep ==
    ASSUME NEW g, NEW h, Whole(g, h), NEW perm \in 1..6, NEW a \in V, NEW b \in V, NEW c \in V, InOrder(g, a, b, c),
           Fits(h, perm, a, b, c), NEW k \in V, NEW x, RootInv(g, perm, k, x), RankInv(h, k, x, a, b, c)
    PROVE  RankInv(h, k + 1, RootEdge(perm, x, k), a, b, c)
<1>0. k \in Nat /\ a \in Nat /\ b \in Nat /\ c \in Nat /\ root \in V /\ a < b /\ b < c
  BY VIsFinite, RootAssumption DEF InOrder
<1>1. PICK y : y = RootEdge(perm, x, k)
  OBVIOUS
<1>2. PICK p : p = x.p
  OBVIOUS
<1>3. PICK s : s = x.stack
  OBVIOUS
<1>4. /\ p \in Pairs /\ s \in Seq(V) /\ p[1][root][k] = g[root][k]
      /\ Extends(h, p) /\ Len(s) = Passed(k, a, b, c)
  BY <1>0, <1>2, <1>3 DEF RootInv, RankInv, Sound
<1>5. p[1][root][k] = 1 <=> k = a \/ k = b \/ k = c
  BY <1>4 DEF InOrder
<1>6. CASE p[1][root][k] # 1
  <2>1. y = x
    BY <1>1, <1>2, <1>6 DEF RootEdge
  <2>2. Passed(k + 1, a, b, c) = Passed(k, a, b, c)
    BY <1>0, <1>5, <1>6 DEF Passed
  <2> QED BY <1>1, <1>2, <1>3, <1>4, <2>1, <2>2 DEF RankInv
<1>7. CASE p[1][root][k] = 1
  <2>1. PICK l : l = Len(s) + 1
    OBVIOUS
  <2>2. l = Passed(k, a, b, c) + 1 /\ Passed(k + 1, a, b, c) = l
    BY <1>0, <1>4, <1>5, <1>7, <2>1 DEF Passed
  <2>3. h[root][k] = Perms[perm][l]
    BY <1>0, <1>5, <1>7, <2>2 DEF Fits, Passed
  <2>4. PICK e : e = Perms[perm][l] - 2
    OBVIOUS
  <2>5. e \in Colours /\ h[root][k] = e + 2
    <3>1. l \in 1..3
      BY <1>0, <1>5, <1>7, <2>2 DEF Passed
    <3>2. Perms[perm][l] \in 2..4
      BY <3>1, PermsAre
    <3> QED BY <2>3, <2>4, <3>2 DEF Colours
  <2>6. PICK q : q = Painted(p, root, k, e)
    OBVIOUS
  <2>7. PICK t : t = <<k>> \o s
    OBVIOUS
  <2>8. y = [p |-> q, stack |-> t]
    BY <1>1, <1>2, <1>3, <1>7, <2>1, <2>4, <2>6, <2>7 DEF RootEdge
  <2>9. IsPainted(p, root, k, e, q)
    BY <1>0, <1>4, <2>5, <2>6, PaintedIs
  <2>10. \A u, w \in V : q[1][u][w] = IF (u = root /\ w = k) \/ (u = k /\ w = root) THEN e + 2 ELSE p[1][u][w]
    BY <2>9 DEF IsPainted
  <2>11. h[k][root] = e + 2
    BY <1>0, <2>5 DEF Whole
  <2>12. \A u, w \in V : p[1][u][w] > 1 => h[u][w] = p[1][u][w]
    BY <1>4 DEF Extends
  <2>13. \A u, w \in V : q[1][u][w] > 1 => h[u][w] = q[1][u][w]
    BY <2>5, <2>10, <2>11, <2>12
  <2>14. Len(t) = l
    <3>1. PICK o : o = <<k>> /\ Len(o) = 1 /\ o \in Seq(V)
      <4>1. <<k>> \in Seq(V) /\ Len(<<k>>) = 1
        OBVIOUS
      <4> QED BY <4>1
    <3>2. Len(o \o s) = Len(o) + Len(s) /\ Len(s) \in Nat
      BY <1>4, <3>1, ConcatProperties, LenProperties
    <3>3. t = o \o s
      BY <2>7, <3>1
    <3> QED BY <2>1, <3>1, <3>2, <3>3
  <2>15. y.p = q /\ y.stack = t
    BY <2>8
  <2>16. RankInv(h, k + 1, y, a, b, c)
    BY <2>2, <2>13, <2>14, <2>15 DEF RankInv, Extends
  <2> QED BY <1>1, <2>16
<1> QED BY <1>6, <1>7

\* With the permutation that a colouring has at the root, the root is painted
\* as in the colouring.
LEMMA RootExtends ==
    ASSUME NEW g, IsGraph(g), IsSubcubic(g), NEW h, Whole(g, h), NEW perm \in 1..6,
           NEW a \in V, NEW b \in V, NEW c \in V, InOrder(g, a, b, c), Fits(h, perm, a, b, c)
    PROVE  RankInv(h, N, RootPainted(<<g, AllUnused>>, perm), a, b, c)
<1>1. PICK st : RootLoop(perm, <<g, AllUnused>>, st)
  BY RootLoopIs
<1>2. /\ st[0] = [p |-> <<g, AllUnused>>, stack |-> <<>>]
      /\ \A n \in 1..N : st[n] = RootEdge(perm, st[n - 1], n - 1)
      /\ RootPainted(<<g, AllUnused>>, perm) = st[N]
  BY <1>1 DEF RootLoop
<1>3. N \in Nat
  BY SizeAssumption
<1> DEFINE Good(n) == RootInv(g, perm, n, st[n]) /\ RankInv(h, n, st[n], a, b, c)
           Failing == {n \in Nat : n <= N /\ ~ Good(n)}
<1>4. Failing = {}
  <2> SUFFICES ASSUME Failing # {} PROVE FALSE
    OBVIOUS
  <2>1. PICK n \in Failing : \A m \in Failing : n <= m
    BY LeastOf
  <2>2. RootInv(g, perm, 0, st[0])
    BY <1>2, RootStarts
  <2>3. RankInv(h, 0, st[0], a, b, c)
    <3>1. a \in Nat
      BY VIsFinite
    <3>2. st[0].p[1] = g /\ st[0].stack = <<>>
      BY <1>2
    <3>3. \A u, w \in V : ~ (g[u][w] > 1)
      BY DEF IsGraph
    <3> QED BY <3>1, <3>2, <3>3 DEF RankInv, Extends, Passed
  <2>4. n # 0 /\ n \in 1..N
    BY <1>3, <2>2, <2>3
  <2>5. n - 1 \in Nat /\ n - 1 \in V /\ (n - 1) + 1 = n /\ n - 1 \notin Failing
    BY <1>3, <2>1, <2>4 DEF V
  <2>6. RootInv(g, perm, n - 1, st[n - 1]) /\ RankInv(h, n - 1, st[n - 1], a, b, c)
    BY <1>3, <2>4, <2>5
  <2>7. RootInv(g, perm, (n - 1) + 1, RootEdge(perm, st[n - 1], n - 1))
    BY <2>5, <2>6, RootStep
  <2>8. RankInv(h, (n - 1) + 1, RootEdge(perm, st[n - 1], n - 1), a, b, c)
    BY <2>5, <2>6, RankStep
  <2> QED BY <1>2, <2>4, <2>5, <2>7, <2>8
<1> QED BY <1>2, <1>3, <1>4

-----------------------------------------------------------------------------
\* After some of the calls, with a colouring left that extends what there is.
StillRight(g, p, x) == x.ok /\ Sound(g, x.p) /\ Extendable(g, x.p) /\ Keeps(p, x.p)

LEMMA CallStaysRight ==
    ASSUME NEW g, IsGraph(g), IsCubic(g), NEW p, NEW k \in V, p[1][k][root] > 1,
           NEW x, StillRight(g, p, x), NEW y \in Call(x, k)
    PROVE  StillRight(g, p, y)
<1>1. PICK q : q = x.p
  OBVIOUS
<1>2. x.ok /\ Sound(g, q) /\ Extendable(g, q) /\ Keeps(p, q) /\ q \in Pairs
  BY <1>1 DEF StillRight, Sound
<1>3. Started(q, k)
  <2>1. q[1][k][root] = p[1][k][root]
    BY <1>2, RootAssumption DEF Keeps
  <2>2. q[1][k][root] \in 0..4
    BY <1>2, RootAssumption, PairTypes
  <2>3. q[1][k][root] - 2 \in Colours /\ q[1][k][root] = (q[1][k][root] - 2) + 2
    BY <2>1, <2>2 DEF Colours
  <2>4. q[2][k][q[1][k][root] - 2] = 1
    BY <1>2, <2>3, RootAssumption DEF Sound
  <2> QED BY <2>3, <2>4 DEF Started
<1>4. Search[<<k, q>>] # {}
  <2>1. Succeeds(g, q)
    BY <1>2, SucceedsAll
  <2> QED BY <1>2, <1>3, <2>1 DEF Succeeds
<1>5. Call(x, k) = {[p |-> r, ok |-> TRUE] : r \in Search[<<k, q>>]}
  BY <1>1, <1>2, <1>4 DEF Call
<1>6. PICK r \in Search[<<k, q>>] : y = [p |-> r, ok |-> TRUE]
  BY <1>5
<1>7. Reached(g, k, q, r)
  <2>1. SearchReaches(g, q)
    BY <1>2, SearchReachesAll
  <2> QED BY <1>2, <2>1 DEF SearchReaches
<1>8. Extendable(g, r)
  BY <1>2, <1>7, ReachedIsExtendable
<1>9. Sound(g, r) /\ Keeps(p, r)
  BY <1>2, <1>7 DEF Reached, Keeps
<1>10. y.ok /\ y.p = r
  BY <1>6
<1> QED BY <1>8, <1>9, <1>10 DEF StillRight

LEMMA CallsStayRight ==
    ASSUME NEW g, IsGraph(g), IsCubic(g), NEW p, Sound(g, p), Extendable(g, p),
           NEW stack \in Seq(V), stack # <<>>,
           \A n \in 1..Len(stack) : p[1][stack[n]][root] > 1,
           NEW y \in Calls(p, stack)
    PROVE  y.ok
<1>1. PICK st : CallsLoop(p, stack, st)
  BY CallsLoopIs
<1>2. /\ st[0] = {[p |-> p, ok |-> TRUE]}
      /\ \A n \in 1..Len(stack) : st[n] = UNION {Call(x, stack[n]) : x \in st[n - 1]}
      /\ y \in st[Len(stack)]
  BY <1>1 DEF CallsLoop
<1>3. Len(stack) \in Nat
  BY LenProperties
<1>4. \A n \in 1..Len(stack) : stack[n] \in V
  BY ElementOfSeq
<1> DEFINE Failing == {n \in Nat : n <= Len(stack) /\ ~ \A x \in st[n] : StillRight(g, p, x)}
<1>5. Failing = {}
  <2> SUFFICES ASSUME Failing # {} PROVE FALSE
    OBVIOUS
  <2>1. PICK n \in Failing : \A m \in Failing : n <= m
    BY LeastOf
  <2>2. PICK x \in st[n] : ~ StillRight(g, p, x)
    BY <2>1
  <2>3. n # 0
    <3> SUFFICES ASSUME n = 0 PROVE FALSE
      OBVIOUS
    <3>1. x.ok /\ x.p = p
      BY <1>2, <2>2
    <3> QED BY <2>2, <3>1 DEF StillRight, Keeps
  <2>4. n \in 1..Len(stack) /\ n - 1 \in Nat /\ n - 1 <= Len(stack) /\ ~ (n <= n - 1)
    BY <1>3, <2>3
  <2>5. PICK z \in st[n - 1] : x \in Call(z, stack[n])
    BY <1>2, <2>2, <2>4
  <2>6. n - 1 \notin Failing
    BY <2>1, <2>4
  <2>7. StillRight(g, p, z)
    BY <2>4, <2>5, <2>6
  <2>8. stack[n] \in V /\ p[1][stack[n]][root] > 1
    BY <1>4, <2>4
  <2> QED BY <2>2, <2>5, <2>7, <2>8, CallStaysRight
<1> QED BY <1>2, <1>3, <1>5 DEF StillRight

\* If there is a colouring, the permutation that it has at the root succeeds.
LEMMA SomePermSucceeds ==
    ASSUME NEW g, IsGraph(g), IsCubic(g), NEW h, Whole(g, h)
    PROVE  \E perm \in 1..6 : ~ Fails(g, perm)
<1>1. IsSubcubic(g) /\ root \in V
  BY CubicIsSubcubic, RootAssumption
<1>2. PICK a, b, c \in V : InOrder(g, a, b, c)
  BY NeighboursInOrder
<1>3. a \in Nat /\ b \in Nat /\ c \in Nat /\ a < b /\ b < c
  BY <1>2, VIsFinite DEF InOrder
<1>4. g[root][a] = 1 /\ g[root][b] = 1 /\ g[root][c] = 1
  BY <1>2 DEF InOrder
<1>5. /\ h[root][a] \in 2..4 /\ h[root][b] \in 2..4 /\ h[root][c] \in 2..4
      /\ h[root][a] # h[root][b] /\ h[root][a] # h[root][c] /\ h[root][b] # h[root][c]
  <2>1. ASSUME NEW w \in V, g[root][w] = 1 PROVE h[root][w] \in 2..4
    <3>1. h[root][w] \in 0..4 /\ h[root][w] # 1 /\ h[root][w] # 0
      BY <1>1, <2>1 DEF Whole, Matrices
    <3> QED BY <3>1
  <2>2. h[root][a] \in 2..4 /\ h[root][b] \in 2..4 /\ h[root][c] \in 2..4
    BY <1>4, <2>1
  <2>3. \A w, x \in V : h[root][w] > 1 /\ w # x => h[root][w] # h[root][x]
    BY <1>1 DEF Whole
  <2> QED BY <1>3, <2>2, <2>3
<1>6. PICK perm \in 1..6 : Fits(h, perm, a, b, c)
  BY <1>5, PermFor DEF Fits
<1>7. PICK r : r = RootPainted(<<g, AllUnused>>, perm)
  OBVIOUS
<1>8. RootInv(g, perm, N, r) /\ RankInv(h, N, r, a, b, c)
  BY <1>1, <1>2, <1>6, <1>7, RootIsPainted, RootExtends
<1>9. PICK p : p = r.p
  OBVIOUS
<1>10. PICK stack : stack = r.stack
  OBVIOUS
<1>11. /\ Sound(g, p) /\ Extends(h, p) /\ stack \in Seq(V) /\ Len(stack) = Passed(N, a, b, c)
       /\ \A n \in 1..Len(stack) : g[root][stack[n]] = 1
       /\ \A w \in V : IF w < N THEN p[1][root][w] # 1 ELSE p[1][root][w] = g[root][w]
  BY <1>8, <1>9, <1>10 DEF RootInv, RankInv
<1>12. Extendable(g, p)
  BY <1>11 DEF Extendable
<1>13. \A w \in V : w \in Nat /\ w < N
  BY SizeAssumption DEF V
<1>14. stack # <<>>
  <2>1. Passed(N, a, b, c) # 0
    BY <1>3, <1>13, SizeAssumption DEF Passed
  <2>2. Len(stack) # 0
    BY <1>11, <2>1
  <2> QED BY <2>2
<1>15. ASSUME NEW n \in 1..Len(stack)
       PROVE  p[1][stack[n]][root] > 1
  <2>1. PICK w \in V : w = stack[n]
    BY <1>11, ElementOfSeq
  <2>2. g[root][w] = 1 /\ p[1][root][w] # 1
    BY <1>11, <1>13, <2>1
  <2>3. p[1][root][w] \in 0..4 /\ p[1][root][w] # 0 /\ p[1][w][root] = p[1][root][w]
    BY <1>1, <1>11, <2>2, PairTypes DEF Sound
  <2> QED BY <2>1, <2>2, <2>3
<1>16. \A s \in Calls(p, stack) : s.ok
  BY <1>11, <1>12, <1>14, <1>15, CallsStayRight
<1>17. OutcomesOf(<<g, AllUnused>>, perm) = Calls(p, stack)
  BY <1>7, <1>9, <1>10 DEF OutcomesOf
<1>18. ~ Fails(g, perm)
  BY <1>16, <1>17 DEF Fails
<1> QED BY <1>18

(*****************************************************************************)
(* Two colours an edge and no way back once a call has succeeded leave no    *)
(* colouring out on a cubic graph (380-466): if all six permutations of the  *)
(* root's colours fail, the graph has none.  For a call that succeeds has    *)
(* either come back to the vertex it was made from, or it had the only       *)
(* colour that any colouring has there.                                      *)
(*****************************************************************************)
THEOREM FailuresAreRight == \A g : IsGraph(g) /\ IsCubic(g) => FailureIsRight(g)
<1> SUFFICES ASSUME NEW g, IsGraph(g), IsCubic(g), \A perm \in 1..6 : Fails(g, perm),
                    Colourable(EdgesOf(g), Colours)
             PROVE  FALSE
  BY PermsAre DEF FailureIsRight
<1>1. PICK h : Whole(g, h)
  BY ColourableHasWhole
<1> QED BY <1>1, SomePermSucceeds

-----------------------------------------------------------------------------
LEMMA TeamStep ==
    ASSUME SearchIsRight(graph), TeamInv, [Next]_vars
    PROVE  TeamInv'
<1>1. ASSUME NEW t \in Threads, Thread(t) PROVE TeamInv'
  BY <1>1, CopyInKeeps, EnterLoopKeeps, SkipKeeps, BeginKeeps, LoopDoneKeeps, SearchKeeps,
     SetFoundKeeps, SetFlagKeeps, SetFinderKeeps, CopyOutKeeps, CopyOutDoneKeeps DEF Thread
<1>2. CASE Return \/ UNCHANGED vars
  <2>1. UNCHANGED <<graph, graphColors, flag, found, finderId, my, used, i, at, pc>>
    BY <1>2 DEF Return, vars, shared
  <2>2. Inv'
    BY <1>2, <2>1 DEF Return, vars, shared, TeamInv, Inv, Types, NothingFound, FinderComes, NobodyWrites,
                      FinderIsNamed
  <2>3. DataTypes' /\ FlagUp' /\ Copying' /\ Searching' /\ Finders'
    BY <2>1 DEF TeamInv, DataTypes, FlagUp, Copying, Searching, Clean, Finders, HasFound
  <2>4. Published' /\ Copied' /\ Named' /\ Filled' /\ Tried'
    BY <2>1 DEF TeamInv, Published, Finished, HasFound, Copied, Named, Filled, Tried
  <2> QED BY <2>2, <2>3, <2>4 DEF TeamInv
<1> QED BY <1>1, <1>2 DEF Next

\* The graph stays what it is, and so does what is known of it.
RightTeam == Searchable(graph) => TeamInv

LEMMA SpecRightTeam == Spec => []RightTeam
<1>1. Init => RightTeam
  BY TeamStarts, InitInv DEF RightTeam, TeamInv
<1>2. RightTeam /\ [Next]_vars => RightTeam'
  <2> SUFFICES ASSUME RightTeam, [Next]_vars, Searchable(graph)' PROVE TeamInv'
    BY DEF RightTeam
  <2>1. UNCHANGED graph
    BY DEF Next, Return, Thread, CopyIn, EnterLoop, Skip, Begin, LoopDone, SearchPermutation, SetFound, SetFlag,
           SetFinder, CopyOut, CopyOutDone, vars, shared
  <2>2. Searchable(graph)
    BY <2>1
  <2> QED BY <2>2, TeamStep, SearchesAreRight DEF RightTeam
<1> QED BY <1>1, <1>2, PTL DEF Spec

(*****************************************************************************)
(* Matrices, tables, permutations and places of the copies keep their types, *)
(* whatever the threads do at the same time, for a searchable graph.         *)
(*****************************************************************************)
THEOREM SpecTypeOK == Spec => [](Searchable(graph) => TypeOK)
<1>1. RightTeam => (Searchable(graph) => TypeOK)
  <2> SUFFICES ASSUME TeamInv PROVE TypeOK
    BY DEF RightTeam
  <2>1. i \in [Threads -> Nat]
    BY DEF TeamInv, DataTypes
  <2> QED BY <2>1 DEF TeamInv, Inv, Types, Labels, DataTypes, TypeOK
<1> QED BY <1>1, SpecRightTeam, PTL

(*****************************************************************************)
(* No search starts on what another one left: not on the thread's own failed *)
(* permutation (313), and not on the cells another thread is just copying    *)
(* back (206-213 against 286-292), since the flag is up before the first of  *)
(* them and is looked at after the last cell is copied in.                   *)
(*****************************************************************************)
THEOREM SpecEverySearchIsClean == Spec => [](Searchable(graph) => EverySearchIsClean)
<1>1. RightTeam => (Searchable(graph) => EverySearchIsClean)
  BY DEF RightTeam, TeamInv, Searching, Clean, EverySearchIsClean
<1> QED BY <1>1, SpecRightTeam, PTL

(*****************************************************************************)
(* When findColoring returns 1 every edge has a colour in graphColors,       *)
(* however many threads have copied over each other (286-292): each cell has *)
(* been written, and only colourings are.  The two conjuncts before need no  *)
(* hypothesis, see SpecNobodyWrites.                                         *)
(*****************************************************************************)
THEOREM SpecSettledOnReturn == Spec => [](Searchable(graph) => SettledOnReturn)
<1>1. RightTeam => (Searchable(graph) => SettledOnReturn)
  <2> SUFFICES ASSUME TeamInv PROVE SettledOnReturn
    BY DEF RightTeam
  <2>1. NobodyWrites /\ FinderIsNamed
    BY DEF TeamInv, Inv
  <2>2. returned = 1 => \A u, w \in V : graphColors[u][w] # 1
    BY <2>1 DEF TeamInv, Filled, NobodyWrites
  <2> QED BY <2>1, <2>2 DEF SettledOnReturn
<1> QED BY <1>1, SpecRightTeam, PTL

(*****************************************************************************)
(* If one thread only has found a colouring, finderId names it and           *)
(* graphColors is its colouring, for any number of threads (281-292).  The   *)
(* others may have copied any part of that colouring in (209): they do not   *)
(* search on it and do not copy it back.                                     *)
(*****************************************************************************)
THEOREM SpecSoleFinderPublishes == Spec => [](Searchable(graph) => SoleFinderPublishes)
<1>1. RightTeam => (Searchable(graph) => SoleFinderPublishes)
  <2> SUFFICES ASSUME TeamInv, NEW t \in Threads, returned = 1,
                      \A s \in Threads \ {t} : ~ HasFound(s)
               PROVE  finderId = t /\ graphColors = my[t] /\ IsProper(graphColors)
    BY DEF RightTeam, SoleFinderPublishes
  <2>1. \A s \in Threads \ {t} : ~ Finished(s)
    BY DEF Finished
  <2>2. finderId \in Threads /\ Finished(finderId)
    BY DEF TeamInv, Inv, FinderIsNamed, Named
  <2>3. finderId = t /\ ColouringOf(graph, my[t])
    BY <2>1, <2>2 DEF Finished
  <2>4. \A u, w \in V : graphColors[u][w] # 1
    BY DEF TeamInv, Filled, Inv, NobodyWrites
  <2>5. ASSUME NEW u \in V, NEW w \in V
        PROVE  graphColors[u][w] = my[t][u][w]
    <3>1. graphColors[u][w] = graph[u][w] \/ graphColors[u][w] = my[t][u][w]
      BY <2>1 DEF TeamInv, Published
    <3>2. graph[u][w] \in {0, 1}
      BY GraphsAssumption DEF TeamInv, DataTypes
    <3>3. my[t][u][w] = 0 <=> graph[u][w] = 0
      BY <2>3 DEF ColouringOf
    <3> QED BY <2>4, <3>1, <3>2, <3>3
  <2>6. graphColors \in Matrices /\ my[t] \in Matrices
    BY DEF TeamInv, DataTypes
  <2>7. graphColors = my[t]
    BY <2>5, <2>6 DEF Matrices
  <2> QED BY <2>3, <2>7 DEF ColouringOf
<1> QED BY <1>1, SpecRightTeam, PTL

(*****************************************************************************)
(* If findColoring returns 0, all six permutations have been tried and have  *)
(* failed, for any number of threads: schedule(static, 1) leaves none out    *)
(* (227) and none was skipped for the flag (231).  So there is no colouring, *)
(* if that is what six failed permutations mean for the graph.               *)
(*****************************************************************************)
THEOREM SpecNoneSkipped ==
    Spec => [](Searchable(graph) /\ FailureIsRight(graph) => NotFoundIsRight)
<1>1. RightTeam => (Searchable(graph) /\ FailureIsRight(graph) => NotFoundIsRight)
  <2> SUFFICES ASSUME TeamInv, returned = 0, NEW perm \in 1..Len(Perms)
               PROVE  Fails(graph, perm)
    BY DEF RightTeam, FailureIsRight, NotFoundIsRight
  <2>1. found = 0 /\ \A t \in Threads : pc[t] = "barrier"
    BY DEF TeamInv, Inv, NobodyWrites
  <2>2. perm \in Nat \ {0}
    BY PermsAre
  <2>3. PICK t \in Threads : perm \in Share(t)
    BY <2>2, EveryShare
  <2>4. i[t] > Len(Perms) /\ i[t] \in Nat
    BY <2>1 DEF TeamInv, Tried, DataTypes
  <2>5. perm < i[t]
    BY <2>4, PermsAre
  <2> QED BY <2>1, <2>3, <2>5 DEF TeamInv, Tried
<1> QED BY <1>1, SpecRightTeam, PTL

(*****************************************************************************)
(* For a cubic graph all of whose edges are joined to the root that is what  *)
(* they mean: 0 is returned only for a graph without a 3-edge-colouring, by  *)
(* any number of threads and in whatever order they come.                    *)
(*****************************************************************************)
THEOREM SpecNotFoundIsRight ==
    Spec => [](IsGraph(graph) /\ IsCubic(graph) /\ JoinedToRoot(graph) => NotFoundIsRight)
<1>1. ASSUME IsGraph(graph), IsCubic(graph), JoinedToRoot(graph),
             Searchable(graph) /\ FailureIsRight(graph) => NotFoundIsRight
      PROVE  NotFoundIsRight
  <2>1. FailureIsRight(graph)
    BY <1>1, FailuresAreRight
  <2>2. CASE Colourable(EdgesOf(graph), Colours)
    <3>1. PICK h : Whole(graph, h)
      BY <1>1, <2>2, ColourableHasWhole
    <3>2. RootIsNoCut(graph) /\ IsSubcubic(graph)
      BY <1>1, <3>1, ColouredRootIsNoCut, CubicIsSubcubic
    <3> QED BY <1>1, <2>1, <3>2 DEF Searchable
  <2>3. CASE ~ Colourable(EdgesOf(graph), Colours)
    BY <2>3 DEF NotFoundIsRight
  <2> QED BY <2>2, <2>3
<1> QED BY <1>1, SpecNoneSkipped, PTL
=============================================================================
