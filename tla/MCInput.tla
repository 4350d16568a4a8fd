------------------------------ MODULE MCInput ------------------------------
(***************************************************************************)
(* Instances of the modules for the graphs of files and objects: one of    *)
(* MatrixReader, Graph6 and Criticality runs, the other two stay as they   *)
(* are.                                                                    *)
(***************************************************************************)
EXTENDS MatrixReader, SequencesExt, Graph6Format

CONSTANTS
    L,          \* length of the short files
    M,          \* vertices of the graphs in graph6
    SizesLong,  \* larger sizes, for headers
    N,          \* vertices of the objects
    G6Lines, Objects

\* Every short file, and files for a matrix of three rows with its ends cut
\* off, with more behind it, and with a character changed or put in.
ShortFiles == UNION {[1..n -> {Zero, One, Blank, NewLine, Other}] : n \in 0..L}

Triangle == <<Zero, One, One, NewLine, One, Zero, One, NewLine, One, One, Zero, NewLine>>

LongerFiles ==
    Prefixes(Triangle) \cup {Triangle \o <<One>>, Triangle \o <<NewLine>>}
        \cup {[Triangle EXCEPT ![p] = x] : p \in 1..Len(Triangle), x \in {Zero, One, Blank, NewLine, Other}}
        \cup {SubSeq(Triangle, 1, 3) \o <<x>> \o SubSeq(Triangle, 4, 12) : x \in {Zero, Blank, Other}}

InputFiles == ShortFiles \cup LongerFiles

\* The lines of all graphs, with and without a character behind them (the
\* carriage return of a file from another system).
InputLines ==
    UNION {{Encode(n, E) : E \in SUBSET EdgesOn(n)} : n \in 0..M}
        \cup UNION {{Encode(n, E) \o <<x>> : E \in {{}, {<<0, 1>>} \cap EdgesOn(n)}, x \in {-50, 63}}
                        : n \in {0, 1, 2, 4} \cap (0..M)}

\* A triangle beside a lone vertex, and a path.
InputObjects ==
    {[u \in 0..N-1 |-> [w \in 0..N-1 |-> IF {u, w} \in E THEN 1 ELSE 0]]
        : E \in {{{0, 1}, {1, 2}, {0, 2}}, {{0, 1}, {1, 2}, {2, 3}}}}

VARIABLES
    which,
    reader, gSize, gDegree,
    line, size, bitsRead, gI, gJ, border, adjMatrix, row, column, vertices, edges, gPc,
    oGraph, edge3Colorable, isSnark, coloredGraph, answer, shown, graphs, adjacent,
    oI, oJ, k, answers, result, oPc

G6 == INSTANCE Graph6 WITH Lines <- G6Lines, i <- gI, j <- gJ, pc <- gPc,
                           graphSize <- gSize, maxDegree <- gDegree

Obj == INSTANCE Criticality WITH Graphs <- Objects, graph <- oGraph,
                                 i <- oI, j <- oJ, pc <- oPc

\* A line is at least as long as the header that its size has.
ASSUME LinesAssumption ==
    \A s \in G6Lines : /\ s \in Seq(Int) /\ G6!GetGraphSizeG6(s) \in Nat
                       /\ Len(s) >= G6!HeaderLength(G6!GetGraphSizeG6(s))

\* Every line begins with the header of a graph of at most M vertices, and the
\* sizes are such that an int holds them.
ASSUME SizesAssumption ==
    /\ M \in Sizes /\ SizesLong \subseteq Sizes
    /\ \A s \in G6Lines : \E n \in 0..M, cut \in 1..Len(s) : SubSeq(s, 1, cut) = SizeBytes(n)

\* An object has a matrix of zeros and ones, and no vertex is its own neighbour.
ASSUME ObjectsAssumption ==
    /\ N \in Nat \ {0}
    /\ \A g \in Objects : g \in Obj!Matrices /\ \A u \in 0..N-1 : g[u][u] = 0

g6Vars == <<reader, gSize, gDegree, line, size, bitsRead, gI, gJ, border, adjMatrix, row, column, vertices, edges, gPc>>

objVars == <<oGraph, edge3Colorable, isSnark, coloredGraph, answer, shown, graphs, adjacent,
             oI, oJ, k, answers, result, oPc>>

idle ==
    /\ file = <<>> /\ pos = 0 /\ graphSize = 0 /\ graph = <<>> /\ i = 0 /\ j = 0
    /\ maxDegree = Unset /\ handles = 1 /\ pc = "count" /\ returned = 0

g6Idle ==
    /\ reader = "GraphFunctions" /\ gSize = -1 /\ gDegree = -1
    /\ line = <<0>> /\ size = 0 /\ bitsRead = 0 /\ gI = 0 /\ gJ = 1 /\ border = 0
    /\ adjMatrix = <<>> /\ row = 0 /\ column = 0 /\ vertices = <<>> /\ edges = <<>>
    /\ gPc = "bits"

objIdle ==
    /\ oGraph = <<>> /\ edge3Colorable = "garbage" /\ isSnark = "garbage"
    /\ coloredGraph = "garbage" /\ answer = -1 /\ shown = "nothing" /\ graphs = <<>>
    /\ adjacent = TRUE /\ oI = 0 /\ oJ = 0 /\ k = 0 /\ answers = <<>> /\ result = TRUE
    /\ oPc = "idle"

InitOne ==
    \/ which = "matrix" /\ Init /\ g6Idle /\ objIdle
    \/ which = "g6" /\ idle /\ G6!Init /\ objIdle
    \/ which = "object" /\ idle /\ g6Idle /\ Obj!Init

NextOne ==
    \/ which = "matrix" /\ Next /\ UNCHANGED <<which, g6Vars, objVars>>
    \/ which = "g6" /\ G6!Next /\ UNCHANGED <<which, vars, objVars>>
    \/ which = "object" /\ Obj!Next /\ UNCHANGED <<which, vars, g6Vars>>

OneSpec == InitOne /\ [][NextOne]_<<which, vars, g6Vars, objVars>>

-----------------------------------------------------------------------------
TypesOK ==
    CASE which = "matrix" -> TypeOK
      [] which = "g6" -> G6!TypeOK
      [] which = "object" -> Obj!TypeOK

(***************************************************************************)
(* Both readers store by index without a bounds check.  The one of texts   *)
(* (OldGraph.cpp 177) stays inside its matrix.  The one of graph6 lines    *)
(* (GraphFunctions.cpp 91 and 93) does so for two vertices or more; a      *)
(* character behind the header of a graph of no vertex or one it stores    *)
(* outside.                                                                *)
(***************************************************************************)
StoreInside ==
    /\ which = "matrix" => StoresInside
    /\ which = "g6" => G6!StoresInside

(***************************************************************************)
(* The size and the cells that are read are those of the file: the cells   *)
(* of a text matrix are the digits at their places, the size of a graph6   *)
(* line is the one its header encodes (OldGraph.cpp 136-200,               *)
(* GraphFunctions.cpp 53-60 and 177-206).                                  *)
(***************************************************************************)
ReadAsWritten ==
    /\ which = "matrix" => ReadsWhatIsWritten
    /\ which = "g6" /\ bitsRead = 0 =>
         /\ line = SizeBytes(size) \o SubSeq(line, G6!HeaderLength(size) + 1, Len(line))
         /\ \A n \in SizesLong : /\ G6!GetGraphSizeG6(SizeBytes(n)) = n
                                /\ G6!HeaderLength(n) = Len(SizeBytes(n))

(***************************************************************************)
(* The matrix that is read from a graph6 line has for each pair of vertices*)
(* its bit of the line (GraphFunctions.cpp 83-105), and the vertices and   *)
(* edges built from it are that matrix (133-160).                          *)
(***************************************************************************)
GraphIsMatrix == which = "g6" => G6!MatrixIsEncoded /\ G6!GraphIsMatrix

(***************************************************************************)
(* The graphs for testCriticality are the ones without a pair, each pair   *)
(* twice (OldGraph.cpp, removeEveryAdjacentPair and the other).            *)
(***************************************************************************)
EveryPairRemoved == which = "object" => Obj!EveryPairRemoved

(***************************************************************************)
(* "graph is critical: " (main.cpp 83) is what testCriticality answers, of *)
(* the graphs without an adjacent pair.                                    *)
(***************************************************************************)
CriticalityIsAnswered == which = "object" => Obj!CriticalityIsAnswered
=============================================================================
