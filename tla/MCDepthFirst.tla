---------------------------- MODULE MCDepthFirst ----------------------------
(***************************************************************************)
(* Instances of DepthFirst.                                                *)
(***************************************************************************)
EXTENDS DepthFirst, GraphInstances

CONSTANT Kind    \* which graphs

MatrixOf(E) == [u \in V |-> [w \in V |-> IF {u, w} \in E THEN 1 ELSE 0]]

\* Graphs in which the root is a cut vertex with a part of degree one: the
\* first is coloured wrongly, the second is said to have no colouring.
CutRoot   == {{0, 3}, {0, 4}, {3, 4}, {1, 5}, {3, 5}, {4, 5}, {0, 6}, {2, 6}}
OpenEnds  == {{0, 3}, {2, 4}, {3, 4}, {0, 5}, {4, 5}, {0, 6}, {1, 6}, {3, 6}}

EdgeSets ==
    CASE Kind = "ten"      -> {Petersen, Bridged, Prism} \cup AllCubic(6)
                                \cup WithoutPair(Petersen, N, root)
                                \cup {RemoveVertex(Petersen, x) : x \in V \ {root}}
      [] Kind = "rootless" -> {RemoveVertex(Petersen, root)}
      [] Kind = "subcubic" -> {CutRoot, OpenEnds}

InputGraphs == {MatrixOf(E) : E \in EdgeSets}

\* The conditions under which the proofs say that the search is right: met by
\* the graphs without a bridge, and not by the one that is coloured wrongly.
ASSUME RootAssumptions ==
    /\ \A g \in Graphs : JoinedToRoot(g)
    /\ Kind = "ten" => \A E \in {Petersen, Prism} \cup AllCubic(6) : RootIsNoCut(MatrixOf(E))
    /\ Kind = "subcubic" => ~ RootIsNoCut(MatrixOf(CutRoot))

\* The search of one permutation as a function.  It is used for its constant
\* operators only; nothing is a state of it.
Once == INSTANCE ParallelDepthFirst
          WITH T <- 1, flag <- FALSE, finderId <- -1, my <- <<>>, used <- <<>>,
               i <- <<>>, at <- <<>>, returned <- 0

\* "It has no sense to continue" (depthFirst.c 458) is not so where a vertex has
\* fewer than three edges: OpenEnds can be coloured, and with each of the six
\* permutations the search gives up.
ASSUME GivingUpAssumption ==
    Kind = "subcubic" => ~ Once!FailureIsRight(MatrixOf(OpenEnds))
=============================================================================
