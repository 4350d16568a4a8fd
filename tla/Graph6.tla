------------------------------- MODULE Graph6 -------------------------------
(***************************************************************************)
(* The graph6 readers: getGraphSizeG6 and readGraphFromG6String of         *)
(* src/src/GraphFunctions.cpp and the graph of vertices and edges built    *)
(* from the matrix; and of src/src/OldGraph.cpp, which has the first two   *)
(* again, line by line, and two ways to call them.  A line is the sequence *)
(* of its characters less BIAS6, so that 0..63 are the legal ones.  The    *)
(* bits after the header are stored one by one, column after column of the *)
(* upper triangle.                                                         *)
(***************************************************************************)
EXTENDS SimpleGraph

CONSTANT Lines      \* the lines of the file, none of them empty

Colon == -5         \* ':' and '&', the marks of other formats
Ampersand == -25
SmallN == 62
Garbage == -1       \* a member of OldGraph that nobody has set

VARIABLES
    reader,         \* whose: "GraphFunctions", or OldGraph's of a "g6file" or a "g6string"
    line,
    size,
    bitsRead,       \* how many characters of graphInLine the loop has done
    i, j, border,
    adjMatrix,
    row, column,    \* loop variables of the second function
    vertices, edges,
    graphSize, maxDegree,   \* members of OldGraph
    pc

object == <<reader, graphSize, maxDegree>>

vars == <<object, line, size, bitsRead, i, j, border, adjMatrix, row, column, vertices, edges, pc>>

\* The bytes s[p], s[p+1], ... s[q] as digits of base 64.
Number(s, p, q) == FoldLeft(LAMBDA n, b : 64 * n + b, 0, SubSeq(s, p, q))

GetGraphSizeG6(s) ==
    LET p == IF s[1] \in {Colon, Ampersand} THEN 2 ELSE 1
    IN  IF s[p] <= SmallN THEN s[p]
        ELSE IF s[p+1] <= SmallN THEN Number(s, p + 1, p + 3)
        ELSE Number(s, p + 2, p + 7)

\* inputString.erase(0, ...): how long the header is, going by the size.
HeaderLength(n) == IF n < 63 THEN 1 ELSE IF n < 258048 THEN 4 ELSE 8

\* bitset<6>: six bits, most significant first.
Bit(b, k) == (b \div <<32, 16, 8, 4, 2, 1>>[k + 1]) % 2

\* The k-th character of graphInLine, from 0, and how many there are.
BitAt(k) == Bit(line[HeaderLength(size) + 1 + k \div 6], k % 6)
BitCount == 6 * (Len(line) - HeaderLength(size))

Zeros(n) == [u \in 0..n-1 |-> [w \in 0..n-1 |-> 0]]

\* Only readGraphFromG6File sets the size of the object.
ObjectInit ==
    /\ reader \in {"GraphFunctions", "g6file", "g6string"}
    /\ graphSize = IF reader = "g6file" THEN size ELSE Garbage
    /\ maxDegree = Garbage

Init ==
    /\ line \in Lines
    /\ size = GetGraphSizeG6(line)
    /\ adjMatrix = Zeros(size)
    /\ bitsRead = 0 /\ i = 0 /\ j = 1 /\ border = 0
    /\ row = 0 /\ column = 0 /\ vertices = <<>> /\ edges = <<>>
    /\ ObjectInit
    /\ pc = "bits"

BuildUnchanged == UNCHANGED <<object, line, size, row, column, vertices, edges>>

\* What comes when the matrix is there.
AfterBits == IF reader = "GraphFunctions" THEN "build" ELSE "matrix"

NextCell ==
    IF i = border THEN j' = j + 1 /\ i' = 0 /\ border' = border + 1
                  ELSE i' = (IF i < border THEN i + 1 ELSE i) /\ UNCHANGED <<j, border>>

\* Mutant: the test of the last cell is off by one.
LastCellLate == i + 1 = size /\ j + 1 = size

LastCell == i + 2 = size /\ j + 1 = size

\* The next bit has its two cells in the matrix.
Inside == i < size /\ j < size

\* A bit goes to both of its cells; the last one ends the loop.
StoreBit ==
    /\ pc = "bits" /\ bitsRead < BitCount /\ Inside
    /\ adjMatrix' = [adjMatrix EXCEPT ![i][j] = BitAt(bitsRead), ![j][i] = BitAt(bitsRead)]
    /\ bitsRead' = bitsRead + 1
    /\ IF LastCell THEN pc' = AfterBits /\ UNCHANGED <<i, j, border>>
                   ELSE pc' = pc /\ NextCell
    /\ BuildUnchanged

\* adjMatrix[offset] = bit behind the end of the array.  What is overwritten is
\* some other memory of the program, which goes on or dies.
StoreOutside ==
    /\ pc = "bits" /\ bitsRead < BitCount /\ ~Inside
    /\ bitsRead' = bitsRead + 1
    /\ pc' \in {"bits", "killed"} /\ NextCell
    /\ UNCHANGED adjMatrix /\ BuildUnchanged

BitsDone ==
    /\ pc = "bits" /\ bitsRead = BitCount
    /\ pc' = AfterBits
    /\ UNCHANGED <<bitsRead, i, j, border, adjMatrix>> /\ BuildUnchanged

\* The vertex of the current row, as far as it is built.
current == IF column = 0 THEN MkVertex(row) ELSE Last(vertices)
others  == IF column = 0 THEN vertices ELSE Front(vertices)

\* Mutant: the edge is put in without a look whether it is there.
NewEdgesTwice == Append(edges, MkEdge(row, column))

NewEdges == AddEdge(MkEdge(row, column), edges)

\* One cell of the matrix: its edge and the neighbour.
BuildCell ==
    /\ pc = "build" /\ row < size
    /\ LET e == MkEdge(row, column)
           v == [AddNeighbor(current, column) EXCEPT !.edges = Append(@, e)]
       IN  IF adjMatrix[row][column] = 1
             THEN edges' = NewEdges /\ vertices' = Append(others, v)
             ELSE edges' = edges /\ vertices' = Append(others, current)
    /\ IF column + 1 < size THEN column' = column + 1 /\ row' = row
                            ELSE column' = 0 /\ row' = row + 1
    /\ UNCHANGED <<object, line, size, bitsRead, i, j, border, adjMatrix, pc>>

BuildDone ==
    /\ pc = "build" /\ row = size
    /\ pc' = "done"
    /\ UNCHANGED <<object, line, size, bitsRead, i, j, border, adjMatrix, row, column, vertices, edges>>

\* findMaxDegree: the largest sum of a row of zeros and ones.
Degree(u) == Cardinality({w \in 0..graphSize-1 : adjMatrix[u][w] = 1})
FindMaxDegree == Max({0} \cup {Degree(u) : u \in 0..graphSize-1})

\* OldGraph has its matrix, and looks for its degree if it comes from a file.
ObjectDone ==
    /\ pc = "matrix"
    /\ maxDegree' = IF reader = "g6file" THEN FindMaxDegree ELSE maxDegree
    /\ pc' = "done"
    /\ UNCHANGED <<reader, graphSize, line, size, bitsRead, i, j, border, adjMatrix, row, column,
                   vertices, edges>>

Next == StoreBit \/ StoreOutside \/ BitsDone \/ BuildCell \/ BuildDone \/ ObjectDone

Spec == Init /\ [][Next]_vars

-----------------------------------------------------------------------------
TypeOK ==
    /\ size \in Nat
    /\ bitsRead \in 0..BitCount
    /\ i \in Nat /\ j \in Nat /\ border \in Nat
    /\ adjMatrix \in [0..size-1 -> [0..size-1 -> {0, 1}]]
    /\ row \in Nat /\ column \in Nat
    /\ graphSize \in Nat \cup {Garbage} /\ maxDegree \in Nat \cup {Garbage}
    /\ pc \in {"bits", "build", "matrix", "done", "killed"}

(***************************************************************************)
(* adjMatrix[offset] = bit writes into a vector without a bounds check (91,*)
(* 93; the vector has one element and room for size * size).  In a graph of*)
(* two vertices or more both cells are in the matrix, however many bits    *)
(* follow the last one.  In one of no vertex or one there is no last cell, *)
(* and every bit behind the header is written outside.                     *)
(***************************************************************************)
StoresInside == pc = "bits" /\ bitsRead < BitCount => i < j /\ (Inside <=> size > 1)

\* The place of the bit for the edge between u and w, u < w.
PlaceOfBit(u, w) == (w * (w - 1)) \div 2 + u

(***************************************************************************)
(* The matrix is symmetric with an empty diagonal, and above it each cell  *)
(* holds its bit of the line, or 0 where the line is too short (83-105).   *)
(***************************************************************************)
MatrixIsEncoded ==
    pc # "bits" =>
        \A w \in 0..size-1 : \A u \in 0..w :
            /\ adjMatrix[u][w] = adjMatrix[w][u]
            /\ adjMatrix[u][w] = IF u < w /\ PlaceOfBit(u, w) < BitCount
                                   THEN BitAt(PlaceOfBit(u, w)) ELSE 0

(***************************************************************************)
(* The vertices and the edges of the graph are those of the matrix, and a  *)
(* vertex has its edges in the order of its neighbours.                    *)
(***************************************************************************)
GraphIsMatrix ==
    pc = "done" /\ reader = "GraphFunctions" =>
        /\ IsSimpleGraph(vertices, edges) /\ Len(vertices) = size
        /\ \A u, w \in 0..size-1 : adjMatrix[u][w] = 1 <=> w \in Range(vertices[u+1].neighbors)
        /\ \A n \in 1..size : LET v == vertices[n]
                              IN  v.edges = [k \in DOMAIN v.neighbors |-> MkEdge(v.id, v.neighbors[k])]
=============================================================================
