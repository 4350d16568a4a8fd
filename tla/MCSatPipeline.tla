--------------------------- MODULE MCSatPipeline ---------------------------
(***************************************************************************)
(* Instances of SatPipeline: BA files of small graphs and DIMACS files of  *)
(* small formulas, with remarks and without, complete and cut off.         *)
(***************************************************************************)
EXTENDS SatPipeline

CONSTANT Order      \* of the graphs

VerticesOf(E) == UNION E

Neighbours(E, v) == {w \in VerticesOf(E) : w # v /\ {v, w} \in E}

Ascending(S) == SetToSortSeq(S, LAMBDA a, b : a < b)

\* The graph file that stands for the edges E: how many graphs, which one, its
\* order, and a line for each vertex.
PlainFile(E) ==
    <<<<1>>, <<1>>, <<Cardinality(VerticesOf(E))>>>>
        \o [n \in 1..Cardinality(VerticesOf(E)) |-> Ascending(Neighbours(E, n - 1))]

\* With a remark over two lines, a blank line and a comment in a line.
RemarkedFile(E) ==
    <<<<Open, Word, 7>>, <<Word, Close>>, <<>>>>
        \o [n \in DOMAIN PlainFile(E) |-> PlainFile(E)[n] \o <<Hash, 5>>]

Complete == {{u, w} : u \in 0..Order-1, w \in 0..Order-1} \ {{v} : v \in 0..Order-1}

\* No vertex without an edge, and one graph with five edges that touch.
Graphs ==
    {E \in SUBSET Complete : VerticesOf(E) = 0..Order-1}
        \cup {(Complete \ {{Order-2, Order-1}}) \cup {{Order-2, Order}, {Order-1, Order}}}

FilesOf == [E \in Graphs |-> {PlainFile(E), RemarkedFile(E)}]

GraphFiles == UNION Range(FilesOf)

\* Files of no use: a wrong header, a file cut off, one with a word in it.
BrokenFiles ==
    {<<>>, <<<<1, 1>>>>, <<<<1>>, <<1>>, <<0>>>>, <<<<1>>, <<Word, 1>>, <<3>>, <<1>>>>,
     SubSeq(PlainFile(Complete), 1, 4), SubSeq(PlainFile(Complete), 1, 2)}

InputBAFiles == GraphFiles \cup BrokenFiles

Formulas ==
    {{{1, 2}, {-1}, {-2, 3}}, {{1}, {-1}}, {{}}, {}, {{1, -2}, {2, -1}, {3, 1, 2}}}

PlainFormula(F) ==
    <<<<P, Cnf, Cardinality(VarsOf(F)), Cardinality(F)>>>>
        \o [n \in 1..Cardinality(F) |-> SetToSeq(SetToSeq(F)[n]) \o <<0>>]

RemarkedFormula(F) ==
    <<<<C, 4, 0>>>> \o [n \in 1..Cardinality(F)+1 |-> PlainFormula(F)[n] \o <<4, 0>>] \o <<<<>>>>

FilesOfFormula == [F \in Formulas |-> {PlainFormula(F), RemarkedFormula(F)}]

FormulaFiles == UNION Range(FilesOfFormula)

\* No 0, a word, a wrong header.
BrokenFormulas == {<<<<1, 2>>, <<1, 0>>>>, <<<<1, NoNumber, 0>>>>, <<<<P, NoNumber, 2, 1>>>>}

InputDimacsFiles == FormulaFiles \cup BrokenFormulas

\* A 3-colouring of the graph with n vertices and the edges E as a formula.
ColouringFormula(n, E) ==
    UNION {ClausesOfVertex(v) : v \in 0..n-1}
        \cup UNION {{{Neg(Var(v, c)) : v \in e} : c \in 0..2} : e \in E}

\* The models the reduction is compared with are what they are meant to be.
ASSUME ModelsAssumption ==
    /\ \A F \in Formulas : ModelsAreRight(F)
    /\ \A E \in SUBSET {{0, 1}, {0, 2}, {1, 2}} : ModelsAreRight(ColouringFormula(3, E))
    /\ ModelsAreRight(ColouringFormula(4, {{0, 1}, {0, 2}, {1, 2}, {1, 3}, {2, 3}}))

-----------------------------------------------------------------------------
(***************************************************************************)
(* What arrives is what the file stands for: the edges of the graph, each  *)
(* once, and the clauses of the formula, whatever remarks are around them  *)
(* (io_bagraph.cpp:16-36 and 96-120; SATSolver.cpp:578-614).               *)
(***************************************************************************)
InputIsRead ==
    /\ baPc = "done" /\ redPc = "idle" /\ entry = "graph" =>
         \A E \in Graphs : baFile \in FilesOf[E] =>
            SimpleEdges(edges) /\ {Ends(e) : e \in Range(edges)} = E
    /\ dimacsPc = "parsed" /\ pc = "fill" =>
         \A F \in Formulas : dimacsFile \in FilesOfFormula[F] => clauses = F

(***************************************************************************)
(* A file that is complete is read, and its solver answers or is stopped   *)
(* by a signal.                                                            *)
(***************************************************************************)
Returns ==
    (IF entry = "graph" THEN baFile \in GraphFiles ELSE opened)
        ~> pc \in {"returned", "dead"}
=============================================================================
