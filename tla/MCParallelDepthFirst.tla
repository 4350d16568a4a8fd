------------------------ MODULE MCParallelDepthFirst ------------------------
(***************************************************************************)
(* Instances of ParallelDepthFirst.                                        *)
(***************************************************************************)
EXTENDS ParallelDepthFirst, GraphInstances

CONSTANT Kind    \* which graphs

MatrixOf(E) == [u \in V |-> [w \in V |-> IF {u, w} \in E THEN 1 ELSE 0]]

\* K4 with a vertex on one of its edges: seven edges, and no colour can have
\* more than two of them.
Overfull == (K4 \ {{2, 3}}) \cup {{2, 4}, {3, 4}}

EdgeSets ==
    CASE Kind = "K4"   -> {K4}
      [] Kind = "five" -> {Overfull, K4}

InputGraphs == {MatrixOf(E) : E \in EdgeSets}

\* The instances are searchable, so their searches are right, and a failure on
\* them is what the proofs take it to be.
ASSUME SearchAssumption ==
    \A g \in Graphs : Searchable(g) /\ SearchIsRight(g) /\ FailureIsRight(g)
=============================================================================
