---------------------------- MODULE SatReduction ----------------------------
(***************************************************************************)
(* How an edge colouring becomes a formula (src/src/GraphFunctions.cpp):   *)
(* reduceEdge3Col_Vert3Col makes the line graph, one comparison of two     *)
(* edges a step, and reduceVert3Col_SAT hands the clauses for a vertex     *)
(* 3-colouring of it to the solver, a vertex or a colour of an edge a step.*)
(***************************************************************************)
EXTENDS SimpleGraph, SolverInput

VARIABLES
    inputEdges,
    counter, other,             \* places of inEdge and otherEdge
    newVertex,
    outVertices, outEdges,      \* the line graph
    at, colour,                 \* loop variables of the second function
    cnt,
    redPc

line == <<inputEdges, counter, other, newVertex, outVertices, outEdges>>
formula == <<at, colour, cnt, solverInput>>
reduction == <<line, at, colour, cnt, redPc>>

ReductionInit ==
    /\ inputEdges = <<>>
    /\ counter = 0 /\ other = 0 /\ newVertex = MkVertex(0)
    /\ outVertices = <<>> /\ outEdges = <<>>
    /\ at = 0 /\ colour = 0 /\ cnt = 0
    /\ redPc = "idle"

\* reduceEdge3Col_Vert3Col is called with a graph that has the edges es.
CallReduceEdge3Col(es) ==
    /\ redPc = "idle"
    /\ inputEdges' = es
    /\ redPc' = "line"
    /\ UNCHANGED <<counter, other, newVertex, outVertices, outEdges, formula>>

inEdge    == inputEdges[counter + 1]
otherEdge == inputEdges[other + 1]

\* Mutant: the second test looks at the first end again.
TouchesFrom(e, f) == e.from \in Ends(f)

\* An end of e is an end of f: the first is looked at first, the second in the
\* else branch.
Touches(e, f) == e.from \in Ends(f) \/ e.to \in Ends(f)

\* The edges are compared; getEdgePosition gives the place of the other one.
\* It is not set when the edge is not found, which cannot happen here.
Compare ==
    /\ redPc = "line" /\ counter < Len(inputEdges) /\ other < Len(inputEdges)
    /\ other' = other + 1
    /\ IF ~ SameEdge(inEdge, otherEdge) /\ Touches(inEdge, otherEdge)
         THEN \E p \in EdgePosition(otherEdge, inputEdges, {-1}) :
                /\ outEdges' = AddEdge(MkEdge(counter, p), outEdges)
                /\ newVertex' = AddNeighbor(newVertex, p)
         ELSE UNCHANGED <<outEdges, newVertex>>
    /\ UNCHANGED <<inputEdges, counter, outVertices, formula, redPc>>

NextVertex ==
    /\ redPc = "line" /\ counter < Len(inputEdges) /\ other = Len(inputEdges)
    /\ outVertices' = Append(outVertices, newVertex)
    /\ counter' = counter + 1 /\ other' = 0
    /\ newVertex' = MkVertex(counter + 1)
    /\ UNCHANGED <<inputEdges, outEdges, formula, redPc>>

LineGraphDone ==
    /\ redPc = "line" /\ counter = Len(inputEdges)
    /\ redPc' = "reduced"
    /\ UNCHANGED <<line, formula>>

\* reduceVert3Col_SAT is called.
CallReduceVert3Col ==
    /\ redPc = "reduced"
    /\ redPc' = "vertices"
    /\ UNCHANGED <<line, formula>>

\* The number for colour c of vertex v; 0 is never used.
Var(v, c) == 3 * v + c + 1

\* Mutant: two colours at once are allowed.
ClausesOfVertexOne(v) ==
    {{Pos(Var(v, c)) : c \in 0..2}, {Neg(Var(v, c)) : c \in 0..2}}

\* One colour at least, no two of them, not all three.  The numbers are used
\* as variables of the solver as they are: its variable 0 is free.
ClausesOfVertex(v) ==
    {{Pos(Var(v, c)) : c \in 0..2}, {Neg(Var(v, c)) : c \in 0..2}}
      \cup {{Neg(Var(v, c)) : c \in (0..2) \ {d}} \cup {Pos(Var(v, d))} : d \in 0..2}

AddVertex ==
    /\ redPc = "vertices" /\ at < Len(outVertices)
    /\ AddClauses(ClausesOfVertex(at), Var(at, 2))
    /\ cnt' = cnt + 5
    /\ at' = at + 1
    /\ UNCHANGED <<line, colour, redPc>>

VerticesDone ==
    /\ redPc = "vertices" /\ at = Len(outVertices)
    /\ at' = 0
    /\ redPc' = "edges"
    /\ UNCHANGED <<line, colour, cnt, solverInput>>

\* The ends of an edge do not both have the colour.
AddEdgeColour ==
    /\ redPc = "edges" /\ at < Len(outEdges)
    /\ LET e == outEdges[at + 1]
       IN  AddClauses({{Neg(Var(e.from, colour)), Neg(Var(e.to, colour))}}, 0)
    /\ cnt' = cnt + 1
    /\ IF colour < 2 THEN colour' = colour + 1 /\ at' = at
                     ELSE colour' = 0 /\ at' = at + 1
    /\ UNCHANGED <<line, redPc>>

\* The numbers are compared with what a DIMACS header would say.
EdgesDone ==
    /\ redPc = "edges" /\ at = Len(outEdges)
    /\ redPc' = "filled"
    /\ UNCHANGED <<line, formula>>

ReduceEdge3Col == Compare \/ NextVertex \/ LineGraphDone

ReduceVert3Col == AddVertex \/ VerticesDone \/ AddEdgeColour \/ EdgesDone

-----------------------------------------------------------------------------
ReductionTypeOK ==
    /\ inputEdges \in Seq([from : Nat, to : Nat])
    /\ counter \in 0..Len(inputEdges) /\ other \in 0..Len(inputEdges)
    /\ outEdges \in Seq([from : Nat, to : Nat])
    /\ at \in Nat /\ colour \in 0..2 /\ cnt \in Nat
    /\ redPc \in {"idle", "line", "reduced", "vertices", "edges", "filled"}

(***************************************************************************)
(* The line graph is one: a vertex for each edge, in order, and two of them*)
(* joined once if the edges share an end, whichever end that is of either  *)
(* (292-303).                                                              *)
(***************************************************************************)
LineGraphIsRight ==
    redPc \notin {"idle", "line"} =>
        /\ Len(outVertices) = Len(inputEdges)
        /\ IsSimpleGraph(outVertices, outEdges)
        /\ \A n, m \in 1..Len(inputEdges) :
             MkEdge(n - 1, m - 1) \in Range(outEdges)
                <=> n # m /\ Ends(inputEdges[n]) \cap Ends(inputEdges[m]) # {}

\* The edges of a graph, as a reader makes them if the file says none twice.
SimpleEdges(es) ==
    /\ es \in Seq([from : Nat, to : Nat]) /\ IsInjective(es)
    /\ \A e \in Range(es) : e.from < e.to

\* No clause is said twice, and there are as many variables and clauses as the
\* header warnings (460-463) compare them with.
HeaderMatches ==
    /\ nVars = IF outVertices = <<>> THEN 0 ELSE 3 * Len(outVertices) + 1
    /\ cnt = 5 * Len(outVertices) + 3 * Len(outEdges)
    /\ Cardinality(clauses) = cnt
=============================================================================
