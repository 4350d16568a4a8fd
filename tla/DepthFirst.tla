----------------------------- MODULE DepthFirst -----------------------------
(***************************************************************************)
(* depthFirstSearch, findColoringSequential, findColoringRecursive, undo   *)
(* and undoGraph of src/src/depthFirst.c: the 3-edge-colouring by depth-   *)
(* first search that OldGraph::DepthFirstSearchColoring calls, also for    *)
(* the graphs that testCriticality gets by taking two vertices off a graph.*)
(*                                                                         *)
(* The colouring is the matrix graphColors: 0 no edge, 1 an edge without a *)
(* colour, 2..4 an edge with a colour.  usedColors says which colours a    *)
(* vertex has.  The root's edges get a permutation of the colours and its  *)
(* neighbours go on a stack; then the recursive search is called on each   *)
(* of them.  A call colours the uncoloured edges of its vertex one by one, *)
(* follows each to its other end, and tries each with at most two colours. *)
(***************************************************************************)
EXTENDS RootedGraph, SequencesExt, ColouringReference

ASSUME GraphsAssumption == \A g \in Graphs : IsGraph(g) /\ IsSubcubic(g)

VARIABLES
    graph,          \* graphToColor
    graphColors,
    usedColors,     \* usedColors[v][c] = 1: v has an edge of colour c + 2
    perm,           \* i: index into allPermutations
    stack1,         \* front is Head
    addedVertexes,
    j,              \* loop variable of the root: a vertex, then a call
    actColor,       \* how many edges of the root have a colour
    frames,         \* the calls of findColoringRecursive that are active
    ret,            \* what the last finished call returned
    found,
    pc

vars == <<graph, graphColors, usedColors, perm, stack1, addedVertexes, j, actColor,
          frames, ret, found, pc>>

\* Edge {u, w} gets the colour c + 2, both in the matrix and in the table.
Paint(u, w, c) ==
    /\ graphColors' = [graphColors EXCEPT ![u][w] = c + 2, ![w][u] = c + 2]
    /\ usedColors' = [usedColors EXCEPT ![u][c] = 1, ![w][c] = 1]

\* Mutant: the other end of the edge is not asked.
FreeColoursHere(u, w) == {c \in Colours : usedColors[u][c] = 0}

\* Mutant: the loop over the colours stops one early.
FreeColoursTwo(u, w) == {c \in 0..1 : usedColors[u][c] = 0 /\ usedColors[w][c] = 0}

\* The colours that neither end of {u, w} has.
FreeColours(u, w) == {c \in Colours : usedColors[u][c] = 0 /\ usedColors[w][c] = 0}

top == Last(frames)

-----------------------------------------------------------------------------
Init ==
    /\ graph \in Graphs
    /\ graphColors = graph
    /\ usedColors = AllUnused
    /\ perm = 1
    /\ stack1 = <<>>
    /\ addedVertexes = 0
    /\ j = 0
    /\ actColor = 0
    /\ frames = <<>>
    /\ ret = 0
    /\ found = 0
    /\ pc = "root"

\* The edges of the root the loop has not reached and that have no colour.
RootEdgesLeft == {k \in V : k >= j /\ graphColors[root][k] = 1}

\* The next edge of the root gets the next colour of the permutation, whatever
\* its other end already has, and that end goes on the stack.
ColourRootEdge ==
    /\ pc = "root" /\ RootEdgesLeft # {}
    /\ LET k == Least(RootEdgesLeft)
       IN  /\ Paint(root, k, Perms[perm][actColor + 1] - 2)
           /\ stack1' = IF k \in Range(stack1) THEN stack1 ELSE <<k>> \o stack1
           /\ j' = k + 1
    /\ actColor' = actColor + 1
    /\ addedVertexes' = addedVertexes + 1
    /\ UNCHANGED <<graph, perm, frames, ret, found, pc>>

RootColoured ==
    /\ pc = "root" /\ RootEdgesLeft = {}
    /\ j' = 0
    /\ pc' = "calls"
    /\ UNCHANGED <<graph, graphColors, usedColors, perm, stack1, addedVertexes,
                   actColor, frames, ret, found>>

\* The frame of a call on v that finds the matrices G and U.
Frame(v, G, U) ==
    [vertex |-> v, i |-> 0, initGraph |-> G, initUsed |-> U,
     result |-> -1, act |-> 0, second |-> FALSE]

\* findColoringRecursive(front(stack1), ...)
RootCall ==
    /\ pc = "calls" /\ j < addedVertexes
    /\ frames' = <<Frame(Head(stack1), graphColors, usedColors)>>
    /\ pc' = "scan"
    /\ UNCHANGED <<graph, graphColors, usedColors, perm, stack1, addedVertexes, j,
                   actColor, ret, found>>

\* Every call of the root returned 1.
Found ==
    /\ pc = "calls" /\ j >= addedVertexes
    /\ found' = 1
    /\ addedVertexes' = 0
    /\ pc' = "done"
    /\ UNCHANGED <<graph, graphColors, usedColors, perm, stack1, j, actColor, frames, ret>>

RootCallSucceeded ==
    /\ pc = "returned" /\ frames = <<>> /\ ret = 1
    /\ stack1' = Tail(stack1)
    /\ j' = j + 1
    /\ pc' = "calls"
    /\ UNCHANGED <<graph, graphColors, usedColors, perm, addedVertexes, actColor,
                   frames, ret, found>>

\* undo(myRow, ...): where the row of the root differs from the input, the edge
\* and the mark of its colour at both ends are reset.
Changed == {k \in V : graphColors[root][k] # graph[root][k]}

\* Mutant: the other end keeps the mark of the colour.
UndoRowHalf ==
    /\ graphColors' = [u \in V |-> [w \in V |->
         IF (u = root /\ w \in Changed) \/ (w = root /\ u \in Changed)
           THEN graph[u][w] ELSE graphColors[u][w]]]
    /\ usedColors' = [usedColors EXCEPT ![root] = [c \in Colours |-> 0]]

UndoRow ==
    /\ graphColors' = [u \in V |-> [w \in V |->
         IF (u = root /\ w \in Changed) \/ (w = root /\ u \in Changed)
           THEN graph[u][w] ELSE graphColors[u][w]]]
    /\ usedColors' = [u \in V |-> [c \in Colours |->
         IF \E k \in Changed : c = graphColors[root][k] - 2 /\ u \in {root, k}
           THEN 0 ELSE usedColors[u][c]]]

\* A call of the root returned 0: the next permutation, if there is one.
RootCallFailed ==
    /\ pc = "returned" /\ frames = <<>> /\ ret = 0
    /\ UndoRow
    /\ stack1' = <<>>
    /\ addedVertexes' = 0
    /\ actColor' = 0
    /\ j' = 0
    /\ IF perm < Len(Perms) THEN perm' = perm + 1 /\ pc' = "root"
                            ELSE perm' = perm     /\ pc' = "done"
    /\ UNCHANGED <<graph, frames, ret, found>>

-----------------------------------------------------------------------------
\* The uncoloured edges the scan of the innermost call has not reached.
EdgesLeft == {k \in V : k >= top.i /\ graphColors[top.vertex][k] = 1}

Return(value) ==
    /\ ret' = value
    /\ frames' = Front(frames)
    /\ pc' = "returned"

\* undoGraph(initGraphColors, ...) and return 0.
GiveUp ==
    /\ graphColors' = top.initGraph
    /\ usedColors' = top.initUsed
    /\ Return(0)

\* A call on w from the innermost call, whose frame becomes f.
CallFrom(f, w) ==
    /\ frames' = Append([frames EXCEPT ![Len(frames)] = f],
                        Frame(w, graphColors', usedColors'))
    /\ pc' = "scan"
    /\ UNCHANGED ret

RootUnchanged == UNCHANGED <<graph, perm, stack1, addedVertexes, j, actColor, found>>

\* The next uncoloured edge gets the first colour that is free at both ends.
FirstAttempt ==
    /\ pc = "scan" /\ EdgesLeft # {}
    /\ LET k == Least(EdgesLeft)
           c == Least(FreeColours(top.vertex, k))
       IN  /\ FreeColours(top.vertex, k) # {}
           /\ Paint(top.vertex, k, c)
           /\ CallFrom([top EXCEPT !.i = k, !.act = c, !.second = FALSE], k)
    /\ RootUnchanged

\* The next uncoloured edge has no colour left.
NoColourLeft ==
    /\ pc = "scan" /\ EdgesLeft # {}
    /\ FreeColours(top.vertex, Least(EdgesLeft)) = {}
    /\ GiveUp
    /\ RootUnchanged

\* Every edge has a colour, those that had none because the calls returned 1.
ScanDone ==
    /\ pc = "scan" /\ EdgesLeft = {}
    /\ Return(IF top.result \in {-1, 1} THEN 1 ELSE 0)
    /\ UNCHANGED <<graphColors, usedColors>> /\ RootUnchanged

CallSucceeded ==
    /\ pc = "returned" /\ frames # <<>> /\ ret = 1
    /\ frames' = [frames EXCEPT ![Len(frames)] = [top EXCEPT !.result = 1, !.i = @ + 1]]
    /\ pc' = "scan"
    /\ UNCHANGED <<graphColors, usedColors, ret>> /\ RootUnchanged

\* The other colours that were free for the edge of the failed call.
OtherColours == FreeColours(top.vertex, top.i) \ {top.act}

\* Mutant: actColor is not set to the second colour.
SecondAttemptForgetsColour ==
    /\ pc = "returned" /\ frames # <<>> /\ ret = 0
    /\ ~ top.second /\ OtherColours # {}
    /\ LET v == top.vertex
           k == top.i
           c == Least(OtherColours)
       IN  /\ graphColors' = [graphColors EXCEPT ![v][k] = c + 2, ![k][v] = c + 2]
           /\ usedColors' = [usedColors EXCEPT ![v] = [@ EXCEPT ![top.act] = 0, ![c] = 1],
                                               ![k] = [@ EXCEPT ![top.act] = 0, ![c] = 1]]
           /\ CallFrom([top EXCEPT !.second = TRUE, !.result = 0], k)
    /\ RootUnchanged

\* Mutant: the second attempt is not the last one.
SecondAttemptAgain ==
    /\ pc = "returned" /\ frames # <<>> /\ ret = 0
    /\ ~ top.second /\ OtherColours # {}
    /\ LET v == top.vertex
           k == top.i
           c == Least(OtherColours)
       IN  /\ graphColors' = [graphColors EXCEPT ![v][k] = c + 2, ![k][v] = c + 2]
           /\ usedColors' = [usedColors EXCEPT ![v] = [@ EXCEPT ![top.act] = 0, ![c] = 1],
                                               ![k] = [@ EXCEPT ![top.act] = 0, ![c] = 1]]
           /\ CallFrom([top EXCEPT !.act = c, !.second = FALSE, !.result = 0], k)
    /\ RootUnchanged

\* The edge loses its colour and gets the next one that is free.
SecondAttempt ==
    /\ pc = "returned" /\ frames # <<>> /\ ret = 0
    /\ ~ top.second /\ OtherColours # {}
    /\ LET v == top.vertex
           k == top.i
           c == Least(OtherColours)
       IN  /\ graphColors' = [graphColors EXCEPT ![v][k] = c + 2, ![k][v] = c + 2]
           /\ usedColors' = [usedColors EXCEPT ![v] = [@ EXCEPT ![top.act] = 0, ![c] = 1],
                                               ![k] = [@ EXCEPT ![top.act] = 0, ![c] = 1]]
           /\ CallFrom([top EXCEPT !.act = c, !.second = TRUE, !.result = 0], k)
    /\ RootUnchanged

\* Both attempts failed, or there was no second colour.
CallFailed ==
    /\ pc = "returned" /\ frames # <<>> /\ ret = 0
    /\ top.second \/ OtherColours = {}
    /\ GiveUp
    /\ RootUnchanged

Next ==
    \/ ColourRootEdge \/ RootColoured \/ RootCall \/ Found
    \/ RootCallSucceeded \/ RootCallFailed
    \/ FirstAttempt \/ NoColourLeft \/ ScanDone
    \/ CallSucceeded \/ SecondAttempt \/ CallFailed

Spec == Init /\ [][Next]_vars

\* One thread runs the search and it calls nothing that blocks.
FairSpec == Spec /\ WF_vars(Next)

-----------------------------------------------------------------------------
FrameType == [vertex : V, i : Nat, initGraph : Matrices, initUsed : Tables,
              result : {-1, 0, 1}, act : Colours, second : BOOLEAN]

TypeOK ==
    /\ graph \in Graphs
    /\ graphColors \in Matrices
    /\ usedColors \in Tables
    /\ perm \in 1..Len(Perms)
    /\ stack1 \in Seq(V)
    /\ addedVertexes \in Nat
    /\ j \in Nat
    /\ actColor \in Nat
    /\ frames \in Seq(FrameType)
    /\ ret \in {0, 1}
    /\ found \in {0, 1}
    /\ pc \in {"root", "calls", "scan", "returned", "done"}

\* A matrix that colours the input: symmetric, with the edges of the input.
Colouring(G) ==
    \A u, w \in V : G[u][w] = G[w][u] /\ (G[u][w] = 0 <=> graph[u][w] = 0)

(***************************************************************************)
(* The colour of an edge is written at two places of a matrix (388-389,    *)
(* 421-422, 438-439, 105-106) that never disagree, and no step makes or    *)
(* removes an edge, neither in graphColors nor in a copy a call restores.  *)
(***************************************************************************)
EdgesKept ==
    /\ Colouring(graphColors)
    /\ \A d \in 1..Len(frames) : Colouring(frames[d].initGraph)

(***************************************************************************)
(* The edge by which an active call was reached still has the colour its   *)
(* caller gave it: when the call returns 0, what the caller takes back     *)
(* (421-424) is what it did and not something a deeper call left there.    *)
(***************************************************************************)
TrailColoured ==
    \A d \in 1..Len(frames) - 1 :
        graphColors[frames[d].vertex][frames[d + 1].vertex] = frames[d].act + 2

(***************************************************************************)
(* While the search runs, no vertex has two edges of one colour, and       *)
(* usedColors marks a colour at a vertex exactly if it has an edge of it.  *)
(***************************************************************************)
ProperSoFar ==
    \A v, u, w \in V :
        u # w /\ graphColors[v][u] > 1 => graphColors[v][u] # graphColors[v][w]

UsedMatches ==
    \A v \in V : \A c \in Colours :
        usedColors[v][c] = 1 <=> \E w \in V : graphColors[v][w] = c + 2

Consistent == ProperSoFar /\ UsedMatches

(***************************************************************************)
(* "Try another permutation!! --- undo completely before" (626): when the  *)
(* root starts with a permutation nothing has a colour.                    *)
(***************************************************************************)
UndoneCompletely ==
    pc = "root" /\ actColor = 0 => graphColors = graph /\ usedColors = AllUnused

(***************************************************************************)
(* "We found coloring" (618): 1 is only returned with every edge coloured  *)
(* and no two edges of a vertex of the same colour.                        *)
(***************************************************************************)
FoundIsColouring ==
    found = 1 => ProperSoFar /\ \A u, w \in V : graphColors[u][w] # 1

(***************************************************************************)
(* For a cubic graph 0 is only returned if it has no 3-edge-colouring: two *)
(* colours an edge and six permutations at the root leave no colouring out.*)
(* A graph with vertices of fewer edges may have three colours free for an *)
(* edge, of which two are tried (459); there 0 may be wrong, and nothing is*)
(* said of it here.                                                        *)
(***************************************************************************)
NotFoundIsRight ==
    IsCubic(graph) /\ pc = "done" /\ found = 0 => ~ Colourable(EdgesOf(graph), Colours)

(***************************************************************************)
(* front(stack1) (605) is never asked of an empty stack, where it returns  *)
(* no value: the stack has as many vertices as there are calls left.       *)
(***************************************************************************)
FrontHasValue == pc = "calls" => Len(stack1) = addedVertexes - j

(***************************************************************************)
(* The search ends.                                                        *)
(***************************************************************************)
Halts == <>(pc = "done")
=============================================================================
