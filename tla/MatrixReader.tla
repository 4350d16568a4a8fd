---------------------------- MODULE MatrixReader ----------------------------
(***************************************************************************)
(* OldGraph::readGraphFromFile and findMaxDegree of src/src/OldGraph.cpp:  *)
(* the reader of a text file with an adjacency matrix.  It reads the file  *)
(* twice, the first line to learn the size and then everything, one        *)
(* character a step.  The constructor that calls it drops what it returns. *)
(***************************************************************************)
EXTENDS Integers, Sequences, FiniteSets, FiniteSetsExt

CONSTANTS
    Files,          \* the contents of the file, as sequences of characters
    GarbageDegrees  \* what a degree computed from unset cells may be

Zero == "0"
One == "1"
Blank == " "
NewLine == "n"
Other == "x"        \* any other character
EOF == "eof"        \* what getc returns at the end
Unset == -1         \* a cell of new short int[], or maxDegree, before a write

ASSUME FilesAssumption == Files \subseteq Seq({Zero, One, Blank, NewLine, Other})
ASSUME DegreesAssumption == GarbageDegrees \subseteq Int

VARIABLES
    file,
    pos,            \* how many times getc was called on the open handle
    graphSize,
    graph,
    i, j,
    maxDegree,
    handles,        \* files that are open
    pc,             \* "count", "read", "done"
    returned        \* 0 or -1 when done

vars == <<file, pos, graphSize, graph, i, j, maxDegree, handles, pc, returned>>

\* getc(input)
c == IF pos < Len(file) THEN file[pos + 1] ELSE EOF

Init ==
    /\ file \in Files
    /\ pos = 0 /\ graphSize = 0 /\ graph = <<>>
    /\ i = 0 /\ j = 0
    /\ maxDegree = Unset
    /\ handles = 1
    /\ pc = "count" /\ returned = 0

\* while(c!='\n'): at the end of the file c stays EOF and the loop goes on.
Count ==
    /\ pc = "count" /\ c # NewLine
    /\ pos' = IF c = EOF THEN pos ELSE pos + 1
    /\ graphSize' = IF c \in {Zero, One} THEN graphSize + 1 ELSE graphSize
    /\ UNCHANGED <<file, graph, i, j, maxDegree, handles, pc, returned>>

\* The matrix is allocated and the file opened again.
Counted ==
    /\ pc = "count" /\ c = NewLine
    /\ graph' = [u \in 0..graphSize-1 |-> [w \in 0..graphSize-1 |-> Unset]]
    /\ pos' = 0
    /\ pc' = "read"
    /\ UNCHANGED <<file, graphSize, i, j, maxDegree, handles, returned>>

Done(value) ==
    /\ pc' = "done"
    /\ returned' = value

Stay == UNCHANGED <<file, graphSize, handles, maxDegree, pc, returned>>

\* What follows a complete row is skipped up to the end of the line.
SkipRest ==
    /\ pc = "read" /\ j = graphSize /\ c \notin {NewLine, EOF}
    /\ pos' = pos + 1
    /\ Stay /\ UNCHANGED <<graph, i, j>>

\* findMaxDegree sums each row.
Degrees == {Cardinality({w \in 0..graphSize-1 : graph[u][w] = 1}) : u \in 0..graphSize-1}

AllSet == \A u, w \in 0..graphSize-1 : graph[u][w] # Unset

\* The file ends after a complete row: the loop ends, with rows missing or not.
EndOfFile ==
    /\ pc = "read" /\ j = graphSize /\ c = EOF
    /\ handles' = handles - 1
    /\ maxDegree' \in IF AllSet THEN {Max({0} \cup Degrees)} ELSE GarbageDegrees
    /\ Done(0)
    /\ UNCHANGED <<file, pos, graphSize, graph, i, j>>

\* The last row ends: back at once, before maxDegree is computed.
EndOfMatrix ==
    /\ pc = "read" /\ c = NewLine /\ j = graphSize
    /\ j = i + 1 /\ i + 1 = graphSize
    /\ handles' = handles - 1
    /\ Done(0)
    /\ UNCHANGED <<file, pos, graphSize, graph, i, j, maxDegree>>

EndOfRow ==
    /\ pc = "read" /\ c = NewLine /\ j = graphSize
    /\ ~ (j = i + 1 /\ i + 1 = graphSize)
    /\ i' = i + 1
    /\ j' = 0
    /\ pos' = pos + 1
    /\ Stay /\ UNCHANGED graph

SkipBlank ==
    /\ pc = "read" /\ j # graphSize /\ c = Blank
    /\ pos' = pos + 1
    /\ Stay /\ UNCHANGED <<graph, i, j>>

\* A short row, a strange character or a loop: return without fclose.
Reject ==
    /\ pc = "read" /\ j # graphSize
    /\ c \in {EOF, NewLine, Other} \/ (c = One /\ i = j)
    /\ Done(-1)
    /\ UNCHANGED <<file, pos, graphSize, graph, i, j, maxDegree, handles>>

\* Mutant: the character is stored, not its value.
StoreCharacter ==
    /\ pc = "read" /\ j # graphSize
    /\ c = Zero \/ (c = One /\ i # j)
    /\ graph' = [graph EXCEPT ![i][j] = IF c = Zero THEN 48 ELSE 49]
    /\ j' = j + 1
    /\ pos' = pos + 1
    /\ Stay /\ UNCHANGED i

\* Mutant: rows and columns are exchanged.
StoreTransposed ==
    /\ pc = "read" /\ j # graphSize
    /\ c = Zero \/ (c = One /\ i # j)
    /\ graph' = [graph EXCEPT ![j][i] = IF c = Zero THEN 0 ELSE 1]
    /\ j' = j + 1
    /\ pos' = pos + 1
    /\ Stay /\ UNCHANGED i

Store ==
    /\ pc = "read" /\ j # graphSize
    /\ c = Zero \/ (c = One /\ i # j)
    /\ graph' = [graph EXCEPT ![i][j] = IF c = Zero THEN 0 ELSE 1]
    /\ j' = j + 1
    /\ pos' = pos + 1
    /\ Stay /\ UNCHANGED i

Next ==
    \/ Count \/ Counted
    \/ SkipRest \/ EndOfFile \/ EndOfMatrix \/ EndOfRow \/ SkipBlank \/ Reject \/ Store

Spec == Init /\ [][Next]_vars

-----------------------------------------------------------------------------
TypeOK ==
    /\ file \in Files
    /\ pos \in Nat /\ graphSize \in Nat
    /\ pc # "count" =>
         graph \in [0..graphSize-1 -> [0..graphSize-1 -> {0, 1, Unset}]]
    /\ i \in Nat /\ j \in Nat
    /\ maxDegree \in Int
    /\ handles \in {0, 1}
    /\ pc \in {"count", "read", "done"}
    /\ returned \in {0, -1}

(***************************************************************************)
(* graph[offset] = number (177) writes inside the array whatever the file  *)
(* says: the rows and columns that follow are those the first line         *)
(* promised.                                                               *)
(***************************************************************************)
StoresInside ==
    pc = "read" /\ j # graphSize => i < graphSize /\ j < graphSize

(***************************************************************************)
(* A matrix that is accepted has in each cell for which there is a digit   *)
(* the digit at that place of the file, counting lines and, in a line,     *)
(* digits; nothing connects a vertex with itself.  Rows that are missing at*)
(* the end are accepted (141), and their cells stay as new left them.      *)
(***************************************************************************)
IsDigit(x) == x \in {Zero, One}

LineOf(p)  == Cardinality({q \in 1..p-1 : file[q] = NewLine})
PlaceOf(p) == Cardinality({q \in 1..p-1 : LineOf(q) = LineOf(p) /\ IsDigit(file[q])})

ReadsWhatIsWritten ==
    pc = "done" /\ returned = 0 =>
        /\ \A p \in 1..Len(file) :
             LET u == LineOf(p)
                 w == PlaceOf(p)
             IN  IsDigit(file[p]) /\ u < graphSize /\ w < graphSize =>
                     graph[u][w] = IF file[p] = One THEN 1 ELSE 0
        /\ \A v \in 0..graphSize-1 : graph[v][v] # 1
=============================================================================
