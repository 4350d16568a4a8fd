---------------------------- MODULE Criticality ----------------------------
(***************************************************************************)
(* The verdicts of an OldGraph (src/src/OldGraph.cpp): what a search       *)
(* stores in the object, what showColoredGraph says of it, and             *)
(* testCriticality with the graphs it makes by removing pairs of vertices. *)
(*                                                                         *)
(* No constructor gives edge3Colorable, isSnark and coloredGraph a value:  *)
(* a field is "garbage" until it is assigned, and reading garbage is a     *)
(* choice.  What the search itself answers is left open: 0 or 1.           *)
(***************************************************************************)
EXTENDS Integers, Sequences, FiniteSets

CONSTANTS
    N,          \* graphSize
    Graphs      \* the graphs the object is built from, as symmetric 0/1 matrices

V == 0..N-1
Fields == {"garbage", "true", "false"}

VARIABLES
    graph,
    edge3Colorable, isSnark,    \* fields of the object
    coloredGraph,               \* "garbage" or "answer"
    answer,                     \* what the last search on the object found, -1: none
    shown,                      \* what showColoredGraph printed last
    graphs,                     \* graphVector: the matrices without a pair
    adjacent,                   \* whether the pairs are the adjacent ones
    i, j,                       \* loop variables of the pairs
    k,                          \* loop variable of testCriticality
    answers,                    \* what the searches of testCriticality found
    result,
    pc

fields == <<edge3Colorable, isSnark, coloredGraph>>
vars == <<graph, fields, answer, shown, graphs, adjacent, i, j, k, answers, result, pc>>

Init ==
    /\ graph \in Graphs
    /\ edge3Colorable = "garbage" /\ isSnark = "garbage" /\ coloredGraph = "garbage"
    /\ answer = -1 /\ shown = "nothing"
    /\ graphs = <<>> /\ adjacent = TRUE /\ i = 0 /\ j = 0 /\ k = 0
    /\ answers = <<>> /\ result = TRUE
    /\ pc = "idle"

\* The values a read of a field may give.
Read(f) == IF f = "garbage" THEN {"true", "false"} ELSE {f}

\* if(result.result = 0) ... else if(result.result == 1) ...: the first
\* condition stores 0 and is false, so the second is false as well.
Verdict(found, e, s, g) ==
    LET stored == 0
    IN  IF stored # 0 THEN <<"false", "true", g>>
        ELSE IF stored = 1 THEN <<"true", "false", "answer">>
        ELSE <<e, s, g>>

\* DepthFirstSearchColoring on the object.
DepthFirstSearchColoring ==
    /\ pc = "idle"
    /\ \E found \in {0, 1} :
         /\ answer' = found
         /\ LET verdict == Verdict(found, edge3Colorable, isSnark, coloredGraph)
            IN  /\ edge3Colorable' = verdict[1]
                /\ isSnark' = verdict[2]
                /\ coloredGraph' = verdict[3]
    /\ UNCHANGED <<graph, shown, graphs, adjacent, i, j, k, answers, result, pc>>

ShowColoredGraph ==
    /\ pc = "idle"
    /\ \E e \in Read(edge3Colorable), s \in Read(isSnark) :
         shown' = IF e = "false" /\ s = "true" THEN "not colourable"
                  ELSE IF e # "true" THEN "not coloured"
                  ELSE coloredGraph
    /\ UNCHANGED <<graph, fields, answer, graphs, adjacent, i, j, k, answers, result, pc>>

\* Mutant: only the row is cleared.
RemoveVertexRow(g, x) == [u \in V |-> [w \in V |-> IF u = x THEN 0 ELSE g[u][w]]]

\* removeVertex keeps the vertex and the size, and clears its row and column.
RemoveVertex(g, x) == [u \in V |-> [w \in V |-> IF x \in {u, w} THEN 0 ELSE g[u][w]]]

\* removeEveryAdjacentPair and removeEveryNotAdjacentPair start.
RemoveEveryPair ==
    /\ pc = "idle"
    /\ graphs' = <<>> /\ i' = 0 /\ j' = 0
    /\ adjacent' \in BOOLEAN
    /\ pc' = "pairs"
    /\ UNCHANGED <<graph, fields, answer, shown, k, answers, result>>

Wanted == IF adjacent THEN graph[i][j] = 1 ELSE graph[i][j] = 0 /\ i # j

\* One turn of the inner loop.
RemovePair ==
    /\ pc = "pairs" /\ i < N
    /\ graphs' = IF Wanted THEN Append(graphs, RemoveVertex(RemoveVertex(graph, i), j))
                           ELSE graphs
    /\ IF j + 1 < N THEN j' = j + 1 /\ i' = i ELSE j' = 0 /\ i' = i + 1
    /\ UNCHANGED <<graph, fields, answer, shown, adjacent, k, answers, result, pc>>

\* The vector is returned; testCriticality goes on with the adjacent pairs.
PairsDone ==
    /\ pc = "pairs" /\ i = N
    /\ \/ adjacent /\ pc' = "test"
       \/ pc' = "idle"
    /\ k' = 1 /\ result' = TRUE /\ answers' = <<>>
    /\ UNCHANGED <<graph, fields, answer, shown, graphs, adjacent, i, j>>

\* graphVector[i].DepthFirstSearchColoring(0), then its isSnark is read.
TestGraph ==
    /\ pc = "test" /\ k <= Len(graphs)
    /\ \E found \in {0, 1} :
         LET verdict == Verdict(found, "garbage", "garbage", "garbage")
         IN  /\ answers' = Append(answers, found)
             /\ \E thisIsSnark \in Read(verdict[2]) :
                  result' = (result /\ thisIsSnark = "false")
    /\ k' = k + 1
    /\ UNCHANGED <<graph, fields, answer, shown, graphs, adjacent, i, j, pc>>

TestCriticalityDone ==
    /\ pc = "test" /\ k > Len(graphs)
    /\ pc' = "tested"
    /\ UNCHANGED <<graph, fields, answer, shown, graphs, adjacent, i, j, k, answers, result>>

BackToIdle ==
    /\ pc = "tested"
    /\ pc' = "idle"
    /\ UNCHANGED <<graph, fields, answer, shown, graphs, adjacent, i, j, k, answers, result>>

Next ==
    \/ DepthFirstSearchColoring \/ ShowColoredGraph
    \/ RemoveEveryPair \/ RemovePair \/ PairsDone
    \/ TestGraph \/ TestCriticalityDone \/ BackToIdle

Spec == Init /\ [][Next]_vars

-----------------------------------------------------------------------------
Matrices == [V -> [V -> {0, 1}]]

TypeOK ==
    /\ graph \in Graphs
    /\ edge3Colorable \in Fields /\ isSnark \in Fields
    /\ coloredGraph \in {"garbage", "answer"}
    /\ answer \in {-1, 0, 1}
    /\ shown \in {"nothing", "not colourable", "not coloured", "garbage", "answer"}
    /\ graphs \in Seq(Matrices)
    /\ adjacent \in BOOLEAN
    /\ i \in 0..N /\ j \in V /\ k \in Nat
    /\ answers \in Seq({0, 1}) /\ result \in BOOLEAN
    /\ pc \in {"idle", "pairs", "test", "tested"}

(***************************************************************************)
(* The graphs of a complete vector are undirected, each has lost all edges *)
(* of a pair of different vertices, adjacent or not as asked, and nothing  *)
(* else, and every such pair is there twice: once in each order.           *)
(***************************************************************************)
Without(u, w) == [x \in V |-> [y \in V |-> IF {x, y} \cap {u, w} = {} THEN graph[x][y] ELSE 0]]

Pairs == {p \in V \X V : p[1] # p[2] /\ (graph[p[1]][p[2]] = 1 <=> adjacent)}

EveryPairRemoved ==
    pc = "test" \/ (pc = "pairs" /\ i = N) =>
        /\ Len(graphs) = Cardinality(Pairs)
        /\ \A g \in {Without(p[1], p[2]) : p \in Pairs} :
             Cardinality({n \in 1..Len(graphs) : graphs[n] = g})
                = Cardinality({p \in Pairs : Without(p[1], p[2]) = g})

(***************************************************************************)
(* "graph is critical: " (main.cpp 83) is what testCriticality answers:    *)
(* true if every graph without an adjacent pair was found to be colourable,*)
(* false if one of them was not.                                           *)
(***************************************************************************)
CriticalityIsAnswered ==
    pc = "tested" => (result <=> \A n \in 1..Len(answers) : answers[n] = 1)
=============================================================================
