---------------------------- MODULE SimpleGraph ----------------------------
(***************************************************************************)
(* The value classes of the new graph code: Undirected_edge (src/src/      *)
(* Edge.cpp), Vertex (src/src/Vertex.cpp), Graph (src/src/Simple_Graph.cpp)*)
(* and the helpers on vectors of them in src/src/GraphFunctions.cpp.       *)
(***************************************************************************)
EXTENDS Integers, Sequences, FiniteSets, SequencesExt

\* Undirected_edge(a, b): the smaller end comes first.
MkEdge(a, b) == IF a > b THEN [from |-> b, to |-> a] ELSE [from |-> a, to |-> b]

Ends(e) == {e.from, e.to}

\* operator==, in either direction.
SameEdge(e, f) == Ends(e) = Ends(f)

\* findEdge swaps its arguments and compares them in order.
FindEdge(a, b, es) == MkEdge(a, b) \in Range(es)

\* getEdgePosition: the first place, and without one whatever the
\* uninitialised position holds.
EdgePosition(e, es, garbage) ==
    IF FindEdge(e.from, e.to, es)
      THEN {CHOOSE p \in 0..Len(es)-1 :
              es[p+1] = MkEdge(e.from, e.to) /\ \A q \in 0..p-1 : es[q+1] # es[p+1]}
      ELSE garbage

\* addEdge(newEdge, edges)
AddEdge(e, es) == IF FindEdge(e.from, e.to, es) THEN es ELSE Append(es, e)

\* Vertex(id): no neighbours, no edges.
MkVertex(id) == [id |-> id, neighbors |-> <<>>, edges |-> <<>>]

AddNeighbor(v, w) == [v EXCEPT !.neighbors = Append(@, w)]

\* The two ways of storing a graph agree: the vertices are numbered in order,
\* the neighbours of one are the others it shares an edge with, each once, and
\* no edge is there twice.
IsSimpleGraph(vs, es) ==
    /\ \A n \in 1..Len(vs) : vs[n].id = n - 1
    /\ IsInjective(es)
    /\ \A e \in Range(es) : e.from < e.to /\ e.to < Len(vs)
    /\ \A n \in 1..Len(vs) :
         /\ IsInjective(vs[n].neighbors)
         /\ Range(vs[n].neighbors) = {w \in 0..Len(vs)-1 : \E e \in Range(es) : Ends(e) = {n - 1, w}}
=============================================================================
