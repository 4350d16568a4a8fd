--------------------------- MODULE GraphInstances ---------------------------
(***************************************************************************)
(* Small graphs for the instances that TLC checks, as sets of edges over   *)
(* the vertices 0, 1, ...                                                  *)
(***************************************************************************)
EXTENDS Integers, FiniteSets

Degree(E, v) == Cardinality({e \in E : v \in e})

\* The sets of edges on n vertices that give each of 0..v its three edges.
RECURSIVE CubicUpTo(_, _)
CubicUpTo(n, v) ==
    IF v < 0 THEN {{}}
    ELSE UNION {{E \cup F : F \in
                   {F \in SUBSET {{v, w} : w \in {w \in v+1..n-1 : Degree(E, w) < 3}} :
                        Cardinality(F) = 3 - Degree(E, v)}}
                : E \in {E \in CubicUpTo(n, v - 1) : Degree(E, v) <= 3}}

\* Every labelled cubic graph on n vertices.
AllCubic(n) == CubicUpTo(n, n - 1)

K4 == {{u, w} : u \in 0..3, w \in 0..3} \ {{v} : v \in 0..3}

\* The edges of E with every vertex n further on, and around a circle of m.
Moved(E, n) == {{v + n : v \in e} : e \in E}
Rotated(E, n, m) == {{(v + n) % m : v \in e} : e \in E}

\* The smallest snark.
Petersen ==
    {{i, (i + 1) % 5} : i \in 0..4} \cup {{i, i + 5} : i \in 0..4}
        \cup {{5 + i, 5 + ((i + 2) % 5)} : i \in 0..4}

\* Two halves of five vertices and a bridge: not 3-edge-colourable.
Bridged ==
    LET Half(b) == {{b, b+1}, {b, b+2}, {b+1, b+3}, {b+1, b+4}, {b+2, b+3},
                    {b+2, b+4}, {b+3, b+4}}
    IN  Half(0) \cup Half(5) \cup {{0, 5}}

\* The prism over a pentagon: 3-edge-colourable.
Prism ==
    {{i, (i + 1) % 5} : i \in 0..4} \cup {{i, i + 5} : i \in 0..4}
        \cup {{5 + i, 5 + ((i + 1) % 5)} : i \in 0..4}

\* removeVertex takes the edges of x away; x stays, without neighbours.
RemoveVertex(E, x) == {e \in E : x \notin e}

\* The graphs on n vertices that removeEveryAdjacentPair and
\* removeEveryNotAdjacentPair make, those in which x keeps its edges.
WithoutPair(E, n, x) ==
    UNION {{RemoveVertex(RemoveVertex(E, u), w) : w \in (0..n-1) \ {u, x}} : u \in (0..n-1) \ {x}}
=============================================================================
