------------------------- MODULE ParallelDepthFirst -------------------------
(***************************************************************************)
(* findColoring of src/src/depthFirst.c: the depth-first search of module  *)
(* DepthFirst with the permutations of the root's colours shared out to    *)
(* the threads of an OpenMP team, schedule(static, 1).                     *)
(*                                                                         *)
(* A thread has its own matrix and table.  It copies graphColors cell by   *)
(* cell when it enters the region, without a barrier before the others     *)
(* work, and one that finds a colouring copies it back cell by cell.       *)
(* flag, found, finderId and graphColors are shared and nothing guards     *)
(* them.  Their accesses are taken one at a time in program order: the     *)
(* build has no optimisation level and the processors keep the order of    *)
(* stores.  A search touches private memory only and is one step.          *)
(***************************************************************************)
EXTENDS RootedGraph, FiniteSets, SequencesExt, ColouringReference

CONSTANT T      \* omp_get_num_threads()

Threads == 0..T-1

ASSUME GraphsAssumption  == Graphs \subseteq [V -> [V -> {0, 1}]]
ASSUME ThreadsAssumption == T \in Nat \ {0}

VARIABLES
    graph,          \* the graph as it came in: what graphColors holds at first
    graphColors, flag, found, finderId,
    my,             \* myGraphColors of each thread
    used,           \* usedColors of each thread
    i,              \* the permutation each thread is at
    at,             \* how many cells of the copy in or out a thread has done
    pc,
    returned        \* what findColoring returns, -1 until it does

shared == <<graph, graphColors, flag, found, finderId, returned>>
vars   == <<shared, my, used, i, at, pc>>

\* A matrix and a table: what a search works on.
Painted(p, u, w, c) ==
    <<[p[1] EXCEPT ![u][w] = c + 2, ![w][u] = c + 2],
      [p[2] EXCEPT ![u][c] = 1, ![w][c] = 1]>>

FreeColours(p, u, w) == {c \in Colours : p[2][u][c] = 0 /\ p[2][w][c] = 0}

\* findColoringRecursive on x[1] with p = x[2]: the pairs it may return 1 with,
\* none if it returns 0, which leaves p as it was.
Search[x \in V \X (Matrices \X Tables)] ==
    LET v    == x[1]
        p    == x[2]
        left == {w \in V : p[1][v][w] = 1}
        k    == Least(left)
        free == FreeColours(p, v, k)
        c1   == Least(free)
        c2   == Least(free \ {c1})
        first  == Search[<<k, Painted(p, v, k, c1)>>]
        result == IF first # {} \/ free = {c1} THEN first ELSE Search[<<k, Painted(p, v, k, c2)>>]
    IN  IF left = {} THEN {p}
        ELSE IF free = {} THEN {}
        ELSE UNION {Search[<<v, q>>] : q \in result}

\* The loop over the root's row at k: an edge without a colour gets the next one
\* of permutation perm, and its other end goes on the stack.
RootEdge(perm, x, k) ==
    IF x.p[1][root][k] = 1
      THEN [p |-> Painted(x.p, root, k, Perms[perm][Len(x.stack) + 1] - 2),
            stack |-> <<k>> \o x.stack]
      ELSE x

RootPainted(p, perm) ==
    FoldLeft(LAMBDA x, k : RootEdge(perm, x, k), [p |-> p, stack |-> <<>>], [n \in 1..N |-> n - 1])

\* The call for k, made as long as every call before it returned 1.
Call(x, k) ==
    LET r == Search[<<k, x.p>>]
    IN  IF ~ x.ok THEN {x}
        ELSE IF r = {} THEN {[x EXCEPT !.ok = FALSE]}
        ELSE {[p |-> q, ok |-> TRUE] : q \in r}

\* The calls from the stack, until one returns 0.  ok is finalResult: it starts
\* at 0, so a root without edges fails.
Calls(p, stack) ==
    FoldLeft(LAMBDA s, k : UNION {Call(x, k) : x \in s}, {[p |-> p, ok |-> stack # <<>>]}, stack)

\* undo(myRow, ...): the row of the root and the marks of its colours.
RowUndone(g, p) ==
    LET changed == {k \in V : p[1][root][k] # g[root][k]}
    IN  <<[u \in V |-> [w \in V |->
             IF (u = root /\ w \in changed) \/ (w = root /\ u \in changed)
               THEN g[u][w] ELSE p[1][u][w]]],
          [u \in V |-> [c \in Colours |->
             IF \E k \in changed : c = p[1][root][k] - 2 /\ u \in {root, k}
               THEN 0 ELSE p[2][u][c]]]>>

-----------------------------------------------------------------------------
Init ==
    /\ graph \in Graphs
    /\ graphColors = graph
    /\ flag = FALSE /\ found = 0 /\ finderId = -1
    /\ my = [t \in Threads |-> [u \in V |-> [w \in V |-> 0]]]
    /\ used = [t \in Threads |-> AllUnused]
    /\ i = [t \in Threads |-> t + 1]
    /\ at = [t \in Threads |-> 0]
    /\ pc = [t \in Threads |-> "copyIn"]
    /\ returned = -1

Goto(t, l) == pc' = [pc EXCEPT ![t] = l]

Row(n) == n \div N
Column(n) == n % N

\* One cell of graphColors goes into the thread's own matrix.
CopyIn(t) ==
    /\ pc[t] = "copyIn" /\ at[t] < N * N
    /\ my' = [my EXCEPT ![t][Row(at[t])][Column(at[t])] =
                graphColors[Row(at[t])][Column(at[t])]]
    /\ at' = [at EXCEPT ![t] = @ + 1]
    /\ UNCHANGED <<shared, used, i, pc>>

EnterLoop(t) ==
    /\ pc[t] = "copyIn" /\ at[t] = N * N
    /\ Goto(t, "loop")
    /\ UNCHANGED <<shared, my, used, i, at>>

\* Mutant: a permutation is skipped whether there is a colouring or not.
SkipUnasked(t) ==
    /\ pc[t] = "loop" /\ i[t] <= Len(Perms)
    /\ i' = [i EXCEPT ![t] = @ + T]
    /\ UNCHANGED <<shared, my, used, at, pc>>

\* Mutant: the skipped permutation stays the current one.
SkipForever(t) ==
    /\ pc[t] = "loop" /\ i[t] <= Len(Perms) /\ flag
    /\ UNCHANGED <<shared, my, used, i, at, pc>>

\* if(flag) continue
Skip(t) ==
    /\ pc[t] = "loop" /\ i[t] <= Len(Perms) /\ flag
    /\ i' = [i EXCEPT ![t] = @ + T]
    /\ UNCHANGED <<shared, my, used, at, pc>>

Begin(t) ==
    /\ pc[t] = "loop" /\ i[t] <= Len(Perms) /\ ~ flag
    /\ Goto(t, "search")
    /\ UNCHANGED <<shared, my, used, i, at>>

LoopDone(t) ==
    /\ pc[t] = "loop" /\ i[t] > Len(Perms)
    /\ Goto(t, "barrier")
    /\ UNCHANGED <<shared, my, used, i, at>>

\* Where a permutation leads: one outcome.
OutcomesOf(p, perm) ==
    LET r == RootPainted(p, perm)
    IN  Calls(r.p, r.stack)

Outcomes(t) == OutcomesOf(<<my[t], used[t]>>, i[t])

\* Mutant: the search that failed is not undone.
SearchWithoutUndo(t) ==
    /\ pc[t] = "search"
    /\ \E s \in Outcomes(t) :
         /\ my'   = [my EXCEPT ![t] = s.p[1]]
         /\ used' = [used EXCEPT ![t] = s.p[2]]
         /\ i'    = [i EXCEPT ![t] = IF s.ok THEN @ ELSE @ + T]
         /\ Goto(t, IF s.ok THEN "found" ELSE "loop")
    /\ UNCHANGED <<shared, at>>

\* The root's edges get the colours of permutation i and the calls are made.
SearchPermutation(t) ==
    /\ pc[t] = "search"
    /\ \E s \in Outcomes(t) : \E p \in {IF s.ok THEN s.p ELSE RowUndone(graph, s.p)} :
         /\ my'   = [my EXCEPT ![t] = p[1]]
         /\ used' = [used EXCEPT ![t] = p[2]]
         /\ i'    = [i EXCEPT ![t] = IF s.ok THEN @ ELSE @ + T]
         /\ Goto(t, IF s.ok THEN "found" ELSE "loop")
    /\ UNCHANGED <<shared, at>>

SetFound(t) ==
    /\ pc[t] = "found"
    /\ found' = 1
    /\ Goto(t, "flag")
    /\ UNCHANGED <<graph, graphColors, flag, finderId, returned, my, used, i, at>>

SetFlag(t) ==
    /\ pc[t] = "flag"
    /\ flag' = TRUE
    /\ Goto(t, "finder")
    /\ UNCHANGED <<graph, graphColors, found, finderId, returned, my, used, i, at>>

\* Mutant: the permutation, not the thread, is named.
SetFinderPermutation(t) ==
    /\ pc[t] = "finder"
    /\ finderId' = i[t]
    /\ at' = [at EXCEPT ![t] = 0]
    /\ Goto(t, "copyOut")
    /\ UNCHANGED <<graph, graphColors, flag, found, returned, my, used, i>>

SetFinder(t) ==
    /\ pc[t] = "finder"
    /\ finderId' = t
    /\ at' = [at EXCEPT ![t] = 0]
    /\ Goto(t, "copyOut")
    /\ UNCHANGED <<graph, graphColors, flag, found, returned, my, used, i>>

\* One cell of the thread's colouring goes back into graphColors.
CopyOut(t) ==
    /\ pc[t] = "copyOut" /\ at[t] < N * N
    /\ graphColors' = [graphColors EXCEPT ![Row(at[t])][Column(at[t])] =
                         my[t][Row(at[t])][Column(at[t])]]
    /\ at' = [at EXCEPT ![t] = @ + 1]
    /\ UNCHANGED <<graph, flag, found, finderId, returned, my, used, i, pc>>

CopyOutDone(t) ==
    /\ pc[t] = "copyOut" /\ at[t] = N * N
    /\ i' = [i EXCEPT ![t] = @ + T]
    /\ Goto(t, "loop")
    /\ UNCHANGED <<shared, my, used, at>>

\* Mutant: the threads do not wait at the end of the loop.
ReturnEarly ==
    /\ returned = -1 /\ pc[0] = "barrier"
    /\ returned' = found
    /\ UNCHANGED <<graph, graphColors, flag, found, finderId, my, used, i, at, pc>>

\* The barrier at the end of the loop and the join; the master returns.
Return ==
    /\ returned = -1 /\ \A t \in Threads : pc[t] = "barrier"
    /\ returned' = found
    /\ UNCHANGED <<graph, graphColors, flag, found, finderId, my, used, i, at, pc>>

Thread(t) ==
    \/ CopyIn(t) \/ EnterLoop(t) \/ Skip(t) \/ Begin(t) \/ LoopDone(t)
    \/ SearchPermutation(t) \/ SetFound(t) \/ SetFlag(t) \/ SetFinder(t)
    \/ CopyOut(t) \/ CopyOutDone(t)

Next == Return \/ \E t \in Threads : Thread(t)

Spec == Init /\ [][Next]_vars

\* The system schedules every thread of the team and none of them blocks.
FairSpec == Spec /\ WF_vars(Return) /\ \A t \in Threads : WF_vars(Thread(t))

-----------------------------------------------------------------------------
TypeOK ==
    /\ graph \in Graphs
    /\ graphColors \in Matrices
    /\ flag \in BOOLEAN /\ found \in {0, 1} /\ finderId \in {-1} \cup Threads
    /\ my \in [Threads -> Matrices]
    /\ used \in [Threads -> Tables]
    /\ i \in [Threads -> Nat]
    /\ at \in [Threads -> 0..N*N]
    /\ pc \in [Threads -> {"copyIn", "loop", "search", "found", "flag", "finder",
                           "copyOut", "barrier"}]
    /\ returned \in {-1, 0, 1}

(***************************************************************************)
(* Every later permutation too: the undo of the failed one (313) takes     *)
(* everything back although it looks at the row of the root only.          *)
(***************************************************************************)
EverySearchIsClean ==
    \A t \in Threads : pc[t] = "search" => my[t] = graph /\ used[t] = AllUnused

(***************************************************************************)
(* What findColoring returns stays true: nobody is still writing to        *)
(* graphColors or found when the loop's barrier lets the master go on      *)
(* (305-323).                                                              *)
(***************************************************************************)
NobodyWrites ==
    returned # -1 => returned = found /\ \A t \in Threads : pc[t] = "barrier"

(***************************************************************************)
(* If it returns 1 finderId is a thread, and if it returns 0 the flag was  *)
(* never up: no permutation was skipped (231).                             *)
(***************************************************************************)
FinderIsNamed ==
    /\ returned = 1 => finderId \in Threads
    /\ returned = 0 => finderId = -1 /\ ~ flag

(***************************************************************************)
(* Both, and every edge has got a colour if findColoring returns 1.        *)
(***************************************************************************)
SettledOnReturn ==
    /\ NobodyWrites /\ FinderIsNamed
    /\ returned = 1 => \A u, w \in V : graphColors[u][w] # 1

\* At the end a thread's own table has marks if it has found a colouring: a
\* search that failed is undone, and the copy of graphColors makes none.
HasFound(t) == used[t] # AllUnused

\* No two edges at a vertex have the same colour.
IsProper(G) ==
    \A u, w, x \in V :
        /\ G[u][w] = G[w][u]
        /\ G[u][w] > 1 /\ w # x => G[u][w] # G[u][x]

(***************************************************************************)
(* If no other thread has found a colouring, finderId names the one that   *)
(* has, and graphColors is its colouring, a proper one, whatever part of it*)
(* the late threads have copied in (209 against 290).                      *)
(***************************************************************************)
SoleFinderPublishes ==
    \A t \in Threads :
        returned = 1 /\ (\A s \in Threads \ {t} : ~ HasFound(s)) =>
            finderId = t /\ graphColors = my[t] /\ IsProper(graphColors)

(***************************************************************************)
(* findColoring returns 0 only for a graph without a 3-edge-colouring: the *)
(* threads between them leave no permutation out.  This is about graphs on *)
(* which six failed searches are right (FailureIsRight), as on every cubic *)
(* one; where a vertex has fewer edges the search may give up too early.   *)
(***************************************************************************)
NotFoundIsRight == returned = 0 => ~ Colourable(EdgesOf(graph), Colours)

(***************************************************************************)
(* "Method to find regular n-coloring of graph" (135): when it returns 1,  *)
(* graphColors is a colouring of the graph's edges.                        *)
(***************************************************************************)
ReturnsColouring == returned = 1 => IsProper(graphColors)

(***************************************************************************)
(* Every thread gets through its permutations and findColoring returns.    *)
(***************************************************************************)
Returns == <>(returned # -1)

-----------------------------------------------------------------------------
(***************************************************************************)
(* What a thread may expect of the search on its own matrix (330-480), in  *)
(* which no other thread takes part: the matrix it is left with colours    *)
(* all edges of the graph g and the table has marks, or the undo makes them*)
(* g and no marks again.                                                   *)
(***************************************************************************)
ColouringOf(g, M) ==
    /\ M \in Matrices /\ IsProper(M)
    /\ \A u, w \in V : M[u][w] # 1 /\ (M[u][w] = 0 <=> g[u][w] = 0)
    /\ \E u, w \in V : g[u][w] = 1

Fails(g, perm) == \E s \in OutcomesOf(<<g, AllUnused>>, perm) : ~ s.ok

SearchIsRight(g) ==
    \A perm \in 1..Len(Perms) : \A s \in OutcomesOf(<<g, AllUnused>>, perm) :
        IF s.ok THEN ColouringOf(g, s.p[1]) /\ s.p[2] \in Tables \ {AllUnused}
                ELSE RowUndone(g, s.p) = <<g, AllUnused>>

\* A graph that every permutation fails on has no colouring.
FailureIsRight(g) ==
    (\A perm \in 1..Len(Perms) : Fails(g, perm)) => ~ Colourable(EdgesOf(g), Colours)
=============================================================================
