-------------------------- MODULE MCBFSColouriser --------------------------
(***************************************************************************)
(* Instances of BFSColouriser: sets of cubic graphs, each given by its     *)
(* edges and listed the way graphFromG6String adds them, by rows of the    *)
(* adjacency matrix, so that neighbour lists are ascending.                *)
(***************************************************************************)
EXTENDS BFSColouriser, GraphInstances

CONSTANT N    \* the vertices are 0..N-1

MCV == 0..N-1

\* The neighbour lists of a set of edges.
GraphOf(E) ==
    [v \in MCV |-> SetToSortSeq({w \in MCV : {v, w} \in E}, <)]

\* Of four vertices K4; of ten three named graphs, two of them with another
\* vertex as the root too, and every labelled cubic graph of six beside K4.
InputGraphs ==
    {GraphOf(E) : E \in
        IF N = 10 THEN {Bridged} \cup {Rotated(E, n, N) : E \in {Petersen, Prism}, n \in 0..1}
                         \cup {E \cup Moved(K4, 6) : E \in AllCubic(6)}
        ELSE AllCubic(N)}
=============================================================================
