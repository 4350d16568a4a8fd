--------------------------- MODULE BFSColouriser ---------------------------
(***************************************************************************)
(* GraphFunctions::edge3COLBFS and BFScolouriser::edge3COLBFSrecursive of  *)
(* src/src/GraphFunctions.cpp: the 3-edge-colouring search that main runs. *)
(*                                                                         *)
(* The search keeps a work list of vertices.  It colours the edges of the  *)
(* root by one of the six permutations, lists the neighbours of the root,  *)
(* and calls the recursive search on the vertex at the back of the list.   *)
(* A call tries the rotations of the colours that are free at its vertex;  *)
(* an option that cannot be completed is undone by starting the next one   *)
(* from copies of the maps and of the list that the call was given.        *)
(*                                                                         *)
(* The call stack of the program is the sequence frames.  The maps         *)
(* localEdges and localVertices of the innermost call are colour and       *)
(* avail; the maps it was given are inColour and inAvail of its frame, and *)
(* are the local maps of its caller.  list is the member of the colouriser *)
(* that every call shares.                                                 *)
(***************************************************************************)
EXTENDS CubicGraph, Sequences, SequencesExt

CONSTANTS
    Graphs,      \* the input graphs
    root,        \* firstVertex, 0 in main
    MaxDepth     \* how many nested calls the stack of the process holds

ASSUME GraphsAssumption == \A g \in Graphs : IsCubicGraph(g)
ASSUME RootAssumption   == root \in V
ASSUME DepthAssumption  == MaxDepth \in Nat

VARIABLES
    graph,      \* inputGraph
    perm,       \* l: index of the permutation of the colours at the root
    list,       \* colouriser.list: front is Head, back is the last element
    frames,     \* the calls of edge3COLBFSrecursive that are active
    colour,     \* localEdges of the innermost call: the colour of each edge
    avail,      \* localVertices of the innermost call: availableColors
    port,       \* position in the edge list that is walked
    order,      \* orderOfEdge
    coloured,   \* the local coloured: "unset" until it is assigned
    ret,        \* what the last finished call returned
    pc

vars == <<graph, perm, list, frames, colour, avail, port, order, coloured, ret, pc>>

Perms == << <<0,1,2>>, <<0,2,1>>, <<1,0,2>>, <<1,2,0>>, <<2,0,1>>, <<2,1,0>> >>

\* The edges and vertices of the input before anything is coloured.
Blank(g) == [e \in Edges(g) |-> NoColour]
\* Mutant: the vector is filled with the indices (push_back(i)).
AllFreeByIndex == [v \in V |-> [c \in Colours |-> c]]

AllFree  == [v \in V |-> [c \in Colours |-> 1]]

\* availableColors of the innermost vertex, as the ordered vector of the call.
IfFree(free, c) == IF free[c] = 1 THEN <<c>> ELSE <<>>
\* Mutant: the last colour is not looked at.
OptionsTwo(free) == IfFree(free, 0) \o IfFree(free, 1)

Options(free) == IfFree(free, 0) \o IfFree(free, 1) \o IfFree(free, 2)

\* Mutant: only the near end is asked.
CanPaintHere(v, w, c) == avail[v][c] = 1

\* colourEdge succeeds when the colour is in the intersection of both ends.
CanPaint(v, w, c) == avail[v][c] = 1 /\ avail[w][c] = 1

PaintEdge(v, w, c) ==
    /\ colour' = [colour EXCEPT ![{v, w}] = c]
    /\ avail' = [avail EXCEPT ![v][c] = -1, ![w][c] = -1]

top == Last(frames)

-----------------------------------------------------------------------------
\* A call on v, given the maps col and free and the list lst.  A call that
\* does not fit the stack kills the process.
Call(v, col, free, lst) ==
    IF Len(frames) < MaxDepth
      THEN /\ frames' = Append(frames,
                 [vertex   |-> v,      options |-> Options(free[v]), i |-> 0,
                  localList |-> lst,   inColour |-> col, inAvail |-> free])
           /\ pc' = "option"
      ELSE /\ pc' = "overflow"
           /\ UNCHANGED frames

Return(value) ==
    /\ ret' = value
    /\ frames' = Front(frames)
    /\ pc' = "returned"

Init ==
    /\ graph \in Graphs
    /\ perm = 1
    /\ list = <<>>
    /\ frames = <<>>
    /\ colour = Blank(graph)
    /\ avail = AllFree
    /\ port = 1
    /\ order = 0
    /\ coloured = "unset"
    /\ ret = FALSE
    /\ pc = "root"

\* One edge of the root gets its colour of the permutation.  The result of
\* colourEdge is ignored and the neighbour is listed whatever it was.
RootEdge ==
    /\ pc = "root" /\ port \in Ports
    /\ LET w == graph[root][port]
           c == Perms[perm][port]
       IN  /\ IF CanPaint(root, w, c) THEN PaintEdge(root, w, c)
                                      ELSE UNCHANGED <<colour, avail>>
           /\ list' = <<w>> \o list
    /\ port' = port + 1
    /\ pc' = IF port = 3 THEN "while" ELSE "root"
    /\ UNCHANGED <<graph, perm, frames, order, coloured, ret>>

\* while (!list.empty()): a call on the vertex at the back of the list.
WhileLoop ==
    /\ pc = "while"
    /\ IF list = <<>> THEN pc' = "done" /\ UNCHANGED frames
                      ELSE Call(Last(list), colour, avail, list)
    /\ UNCHANGED <<graph, perm, list, colour, avail, port, order, coloured, ret>>

\* Mutant: the vertex is taken off the list first.
NothingFreePops ==
    /\ pc = "option" /\ top.options = <<>>
    /\ list' = Front(list)
    /\ IF list' = <<>>
         THEN Return(TRUE)
         ELSE Call(Last(list'), colour, avail, list') /\ UNCHANGED ret
    /\ UNCHANGED <<graph, perm, colour, avail, port, order, coloured>>

\* Nothing is free at the vertex: go on with the back of the list.  The vertex
\* itself is not taken off the list.
NothingFree ==
    /\ pc = "option" /\ top.options = <<>>
    /\ IF list = <<>>
         THEN Return(TRUE)
         ELSE Call(Last(list), colour, avail, list) /\ UNCHANGED ret
    /\ UNCHANGED <<graph, perm, list, colour, avail, port, order, coloured>>

\* The head of the loop over the options: fresh copies of the input maps.
BeginOption ==
    /\ pc = "option" /\ top.i < Len(top.options)
    /\ colour' = top.inColour
    /\ avail' = top.inAvail
    /\ port' = 1
    /\ order' = 0
    /\ coloured' = "unset"
    /\ pc' = "edge"
    /\ UNCHANGED <<graph, perm, list, frames, ret>>

\* Every option was tried.
OptionsExhausted ==
    /\ pc = "option" /\ top.options # <<>> /\ top.i >= Len(top.options)
    /\ Return(FALSE)
    /\ UNCHANGED <<graph, perm, list, colour, avail, port, order, coloured>>

\* An edge that already has a colour is passed over.
SkipEdge ==
    /\ pc = "edge" /\ port \in Ports
    /\ colour[Edge(graph, top.vertex, port)] # NoColour
    /\ port' = port + 1
    /\ UNCHANGED <<graph, perm, list, frames, colour, avail, order, coloured, ret, pc>>

\* The colour the option gives to the next uncoloured edge.
Choice == top.options[((top.i + order) % Len(top.options)) + 1]

\* Mutant: the list is not searched for the neighbour.
ColourEdgeAgain ==
    /\ pc = "edge" /\ port \in Ports
    /\ colour[Edge(graph, top.vertex, port)] = NoColour
    /\ LET w == graph[top.vertex][port]
       IN  /\ CanPaint(top.vertex, w, Choice)
           /\ PaintEdge(top.vertex, w, Choice)
           /\ list' = <<w>> \o list
    /\ coloured' = "yes"
    /\ order' = order + 1
    /\ port' = port + 1
    /\ UNCHANGED <<graph, perm, frames, ret, pc>>

ColourEdge ==
    /\ pc = "edge" /\ port \in Ports
    /\ colour[Edge(graph, top.vertex, port)] = NoColour
    /\ LET w == graph[top.vertex][port]
       IN  /\ CanPaint(top.vertex, w, Choice)
           /\ PaintEdge(top.vertex, w, Choice)
           /\ list' = IF w \in Range(list) THEN list ELSE <<w>> \o list
    /\ coloured' = "yes"
    /\ order' = order + 1
    /\ port' = port + 1
    /\ UNCHANGED <<graph, perm, frames, ret, pc>>

\* The edge cannot have the colour: break out of the walk over the edges.
EdgeRefused ==
    /\ pc = "edge" /\ port \in Ports
    /\ colour[Edge(graph, top.vertex, port)] = NoColour
    /\ ~ CanPaint(top.vertex, graph[top.vertex][port], Choice)
    /\ coloured' = "no"
    /\ port' = 4
    /\ UNCHANGED <<graph, perm, list, frames, colour, avail, order, ret, pc>>

\* The values reading coloured may give.
ColouredValues == IF coloured = "unset" THEN {"yes", "no"} ELSE {coloured}

\* Mutant: the option is tried again.
BacktrackSameOption ==
    /\ pc = "edge" /\ port = 4
    /\ "no" \in ColouredValues
    /\ list' = top.localList
    /\ IF top.i + 1 = Len(top.options)
         THEN Return(FALSE)
         ELSE /\ frames' = [frames EXCEPT ![Len(frames)].i = @]
              /\ pc' = "option"
              /\ UNCHANGED ret
    /\ UNCHANGED <<graph, perm, colour, avail, port, order, coloured>>

\* The option failed: the list is put back, and the call returns when this was
\* its last option.
Backtrack ==
    /\ pc = "edge" /\ port = 4
    /\ "no" \in ColouredValues
    /\ list' = top.localList
    /\ IF top.i + 1 = Len(top.options)
         THEN Return(FALSE)
         ELSE /\ frames' = [frames EXCEPT ![Len(frames)].i = @ + 1]
              /\ pc' = "option"
              /\ UNCHANGED ret
    /\ UNCHANGED <<graph, perm, colour, avail, port, order, coloured>>

\* The option succeeded: the vertex leaves the list and the search goes on
\* with the next one, or is finished.
Advance ==
    /\ pc = "edge" /\ port = 4
    /\ "yes" \in ColouredValues
    /\ list' = Front(list)
    /\ IF Len(list) = 1
         THEN Return(TRUE)
         ELSE Call(Last(Front(list)), colour, avail, Front(list)) /\ UNCHANGED ret
    /\ UNCHANGED <<graph, perm, colour, avail, port, order, coloured>>

\* Mutant: the list is not put back.
AfterCallKeepsList ==
    /\ pc = "returned" /\ frames # <<>>
    /\ IF ret \/ top.options = <<>>
         THEN Return(ret) /\ UNCHANGED list
         ELSE /\ list' = list
              /\ frames' = [frames EXCEPT ![Len(frames)].i = @ + 1]
              /\ pc' = "option"
              /\ UNCHANGED ret
    /\ UNCHANGED <<graph, perm, colour, avail, port, order, coloured>>

\* Back in a call.  A call that had nothing to colour returns what it got, and
\* TRUE is passed on (the maps are then those of the callee); after FALSE the
\* list is put back and the next option is tried.
AfterCall ==
    /\ pc = "returned" /\ frames # <<>>
    /\ IF ret \/ top.options = <<>>
         THEN Return(ret) /\ UNCHANGED list
         ELSE /\ list' = top.localList
              /\ frames' = [frames EXCEPT ![Len(frames)].i = @ + 1]
              /\ pc' = "option"
              /\ UNCHANGED ret
    /\ UNCHANGED <<graph, perm, colour, avail, port, order, coloured>>

\* Back in edge3COLBFS: after FALSE the next permutation is tried on the blank
\* graph, after TRUE the while loop looks at the list again.
AfterSearch ==
    /\ pc = "returned" /\ frames = <<>>
    /\ IF ret
         THEN pc' = "while" /\ UNCHANGED <<perm, list, colour, avail, port>>
         ELSE IF perm < Len(Perms)
           THEN /\ perm' = perm + 1
                /\ list' = <<>>
                /\ colour' = Blank(graph)
                /\ avail' = AllFree
                /\ port' = 1
                /\ pc' = "root"
           ELSE pc' = "done" /\ UNCHANGED <<perm, list, colour, avail, port>>
    /\ UNCHANGED <<graph, frames, order, coloured, ret>>

Next ==
    \/ RootEdge \/ WhileLoop \/ NothingFree \/ BeginOption \/ OptionsExhausted
    \/ SkipEdge \/ ColourEdge \/ EdgeRefused \/ Backtrack \/ Advance
    \/ AfterCall \/ AfterSearch

Spec == Init /\ [][Next]_vars

\* One thread runs the search and nothing it calls can block.
FairSpec == Spec /\ WF_vars(Next)

-----------------------------------------------------------------------------
Frame == [vertex : V, options : Seq(Colours), i : Nat, localList : Seq(V),
          inColour : Colourings(graph), inAvail : FreeColours]

\* The values the variables of the program can have.
TypeOK ==
    /\ graph \in Graphs
    /\ perm \in 1..Len(Perms)
    /\ list \in Seq(V)
    /\ frames \in Seq(Frame) /\ Len(frames) <= MaxDepth
    /\ colour \in Colourings(graph)
    /\ avail \in FreeColours
    /\ port \in 1..4
    /\ order \in Nat
    /\ coloured \in {"unset", "yes", "no"}
    /\ ret \in BOOLEAN
    /\ pc \in {"root", "while", "option", "edge", "returned", "done", "overflow"}

\* Consistent(col, free): the colouring is proper and the table of free colours
\* that colourEdge consults says of every vertex what its edges have.
Consistent(col, free) == Proper(graph, col) /\ FreeMatches(graph, col, free)

(***************************************************************************)
(* The colouring is proper and availableColors agrees with it at every     *)
(* vertex, in the maps of the innermost call and in the maps that every    *)
(* active call will go back to (colourEdge, 806-855; the copies of 666-667)*)
(***************************************************************************)
MapsConsistent ==
    /\ Consistent(colour, avail)
    /\ \A d \in 1..Len(frames) : Consistent(frames[d].inColour, frames[d].inAvail)

Distinct(s) == \A j, k \in 1..Len(s) : s[j] = s[k] => j = k

(***************************************************************************)
(* While a call walks over the edges of its vertex, the work list names no *)
(* vertex twice and its back is that vertex, however many options were     *)
(* undone before: list.pop_back() (716) takes off the vertex that was      *)
(* coloured and no other.                                                  *)
(***************************************************************************)
PopsCurrentVertex ==
    /\ Distinct(list)
    /\ pc = "edge" => list # <<>> /\ Last(list) = top.vertex

(***************************************************************************)
(* The search forgets no vertex: one that has a coloured and an uncoloured *)
(* edge is on the list, whatever was undone since it got there (712, 744). *)
(***************************************************************************)
FrontierListed ==
    pc = "edge" =>
        \A v \in V :
            /\ \E k \in Ports : colour[Edge(graph, v, k)] # NoColour
            /\ \E k \in Ports : colour[Edge(graph, v, k)] = NoColour
            => v \in Range(list)

(***************************************************************************)
(* The local coloured (672) is assigned before it is read (706): a call    *)
(* that has free colours finds an uncoloured edge.                         *)
(***************************************************************************)
ColouredAssigned == pc = "edge" /\ port = 4 => coloured # "unset"

(***************************************************************************)
(* No call ever returns true and the success branch of edge3COLBFS (603)   *)
(* is never taken: a vertex that was coloured leaves a neighbour on the    *)
(* list, and a vertex with nothing to colour never leaves it: the call     *)
(* that line 659 announces as "---> next vertex: " is for the same vertex. *)
(***************************************************************************)
NeverSucceeds == ~ ret

(***************************************************************************)
(* "Graph not colourable!!!" (602) is only printed of graphs that have no  *)
(* 3-edge-colouring: the six permutations at the root and the rotations    *)
(* that are tried at the other vertices leave no colouring out.            *)
(***************************************************************************)
NotColourableIsRight == pc = "done" /\ ~ ret => ~ Colourable(graph)

(***************************************************************************)
(* The search ends: it gives a verdict or runs out of stack.               *)
(***************************************************************************)
Halts == <>(pc \in {"done", "overflow"})
=============================================================================
