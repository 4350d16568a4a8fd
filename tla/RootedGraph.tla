---------------------------- MODULE RootedGraph ----------------------------
(***************************************************************************)
(* What the depth-first searches of src/src/depthFirst.c work on: a graph  *)
(* as a matrix, one of its vertices, a matrix of colours and a table of    *)
(* used ones.  In a matrix 0 is no edge, 1 an edge without a colour, 2..4  *)
(* an edge with a colour.                                                  *)
(***************************************************************************)
EXTENDS Integers, Sequences

CONSTANTS
    N,          \* graphSize
    Graphs,     \* the input graphs, as 0/1 matrices
    root        \* firstVertex, firstNode

V == 0..N-1
Colours == 0..2
Matrices == [V -> [V -> 0..4]]
Tables   == [V -> [Colours -> {0, 1}]]

ASSUME SizeAssumption == N \in Nat
ASSUME RootAssumption == root \in V

\* A symmetric matrix without loops.
IsGraph(g) ==
    /\ g \in [V -> [V -> {0, 1}]]
    /\ \A u, v \in V : g[u][v] = g[v][u]
    /\ \A v \in V : g[v][v] = 0

\* No more than three neighbours: the permutation has a colour for each.
IsSubcubic(g) ==
    \A v \in V : \E a, b, c \in V : \A w \in V : g[v][w] = 1 => w \in {a, b, c}

\* S is closed under the edges of g that do not touch the vertices of X.
ClosedOff(g, S, X) ==
    \A u \in S : \A w \in V \ X : u \notin X /\ g[u][w] = 1 => w \in S

\* Three neighbours each.
IsCubic(g) ==
    \A v \in V : \E a, b, c \in V :
        a # b /\ a # c /\ b # c /\ \A w \in V : g[v][w] = 1 <=> w \in {a, b, c}

\* What is joined to one neighbour of the root without passing the root is
\* joined to all of them.
RootIsNoCut(g) ==
    \A S \in SUBSET (V \ {root}) :
        ClosedOff(g, S, {root}) /\ (\E n \in S : g[root][n] = 1)
            => \A n \in V : g[root][n] = 1 => n \in S

\* Every edge is joined to the root.
JoinedToRoot(g) ==
    \A S \in SUBSET V :
        root \in S /\ ClosedOff(g, S, {}) => \A u \in V \ S : \A w \in V : g[u][w] = 0

\* A graph on which the search of one thread is right: at most three edges a
\* vertex, every edge joined to the root, and the root no cut vertex.
Searchable(g) == IsGraph(g) /\ IsSubcubic(g) /\ RootIsNoCut(g) /\ JoinedToRoot(g)

\* Mutant: the colours of the permutation start at 3.
PermsFromThree == << <<3,4,5>>, <<3,5,4>>, <<4,3,5>>, <<4,5,3>>, <<5,4,3>>, <<5,3,4>> >>

\* allPermutations, in the order in which permute produces them.
Perms == << <<2,3,4>>, <<2,4,3>>, <<3,2,4>>, <<3,4,2>>, <<4,3,2>>, <<4,2,3>> >>

EdgesOf(g) == {e \in {{u, w} : u, w \in V} : \E u, w \in e : g[u][w] = 1}

AllUnused == [v \in V |-> [c \in Colours |-> 0]]

Least(S) == CHOOSE x \in S : \A y \in S : x <= y
=============================================================================
