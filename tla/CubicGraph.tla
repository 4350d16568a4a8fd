----------------------------- MODULE CubicGraph -----------------------------
(***************************************************************************)
(* The graphs the edge colourers of this repository are meant for, and     *)
(* what an edge colouring of one is.                                       *)
(*                                                                         *)
(* A vertex of src/src/Vertex.cpp keeps its neighbours, in the order the   *)
(* edges were added, in a vector: here graph[v] is the function 1..3 -> V  *)
(* of the neighbours of v.  An Undirected_edge (src/src/Edge.cpp) compares *)
(* equal in either direction, so an edge is the set of its two ends.       *)
(***************************************************************************)
EXTENDS Integers

CONSTANT V        \* the vertex ids

Ports == 1..3     \* positions in the neighbour list of a vertex
Colours == 0..2   \* COLORS == 3 in GraphFunctions.h
NoColour == -1    \* the colour of an Undirected_edge nobody coloured

(***************************************************************************)
(* Simple, cubic, undirected: three different neighbours, none of them the *)
(* vertex itself, and every edge is listed at both of its ends.            *)
(***************************************************************************)
IsCubicGraph(g) ==
    /\ g \in [V -> [Ports -> V]]
    /\ \A v \in V : \A k \in Ports : g[v][k] # v
    /\ \A v \in V : \A j, k \in Ports : g[v][j] = g[v][k] => j = k
    /\ \A v \in V : \A k \in Ports : \E j \in Ports : g[g[v][k]][j] = v

\* The edge at position k of the list of v.
Edge(g, v, k) == {v, g[v][k]}

Edges(g) == {Edge(g, v, k) : v \in V, k \in Ports}

Colourings(g) == [Edges(g) -> Colours \cup {NoColour}]

\* No two coloured edges at a vertex share a colour.
Proper(g, col) ==
    \A v \in V : \A j, k \in Ports :
        j # k /\ col[Edge(g, v, j)] # NoColour
            => col[Edge(g, v, j)] # col[Edge(g, v, k)]

\* What the tables of free colours have to say: 1 for a colour that is free
\* at the vertex, -1 for a colour that an edge of the vertex has.
FreeColours == [V -> [Colours -> {1, -1}]]

FreeMatches(g, col, free) ==
    \A v \in V : \A c \in Colours :
        free[v][c] = -1 <=> \E k \in Ports : col[Edge(g, v, k)] = c

(***************************************************************************)
(* The edges of one colour, when every edge has one of three: an edge at   *)
(* every vertex.  Two such sets without a common edge leave a third.       *)
(***************************************************************************)
ColourClass(g) ==
    {M \in SUBSET Edges(g) :
        \A v \in V : \E k \in Ports : \A j \in Ports : Edge(g, v, j) \in M <=> j = k}

Colourable(g) ==
    LET classes == ColourClass(g)
    IN  \E A, B \in classes : A \cap B = {}
=============================================================================
