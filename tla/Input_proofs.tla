----------------------------- MODULE Input_proofs -----------------------------
(***************************************************************************)
(* The readers of matrices and of graph6 lines store by index without a    *)
(* bounds check; no file makes the first store outside, and the second     *)
(* does so exactly for the bits behind the header of a graph of no vertex  *)
(* or one.  The cells of a text are found where they stand in it, the size *)
(* of a graph6 line is the one that its header encodes; its matrix, the    *)
(* graph built from it and the graphs without a pair are what they should  *)
(* be, for every size.                                                     *)
(***************************************************************************)
EXTENDS MCInput, SequenceLemmas, WellFoundedInduction, FiniteSetTheorems, TLAPS

\* The text reader: only a matrix without rows lets i run on, and then nothing
\* is stored.
MatrixInv ==
    /\ graphSize \in Nat /\ i \in Nat /\ j \in Nat
    /\ pc = "count" => i = 0 /\ j = 0
    /\ pc = "read" => j <= graphSize /\ (graphSize = 0 \/ i < graphSize)

\* The graph6 reader goes down the columns of the upper triangle.
TriangleInv ==
    /\ size \in Nat /\ gI \in Nat /\ gJ \in Nat /\ border \in Nat
    /\ gPc = "bits" => gI <= border /\ border + 1 = gJ /\ (size > 1 => gJ < size)

Inv ==
    /\ which = "matrix" => MatrixInv
    /\ which = "g6" => TriangleInv

LEMMA MatrixStep ==
    ASSUME MatrixInv, Next
    PROVE  MatrixInv'
<1> USE DEF MatrixInv
<1>1. CASE Count
  BY <1>1 DEF Count
<1>2. CASE Counted
  BY <1>2 DEF Counted
<1>3. CASE SkipRest \/ SkipBlank
  BY <1>3 DEF SkipRest, SkipBlank, Stay
<1>4. CASE EndOfFile \/ EndOfMatrix \/ Reject
  BY <1>4 DEF EndOfFile, EndOfMatrix, Reject, Done
<1>5. CASE EndOfRow
  BY <1>5 DEF EndOfRow, Stay
<1>6. CASE Store
  BY <1>6 DEF Store, Stay
<1> QED BY <1>1, <1>2, <1>3, <1>4, <1>5, <1>6 DEF Next

LEMMA TriangleStep ==
    ASSUME TriangleInv, G6!Next
    PROVE  TriangleInv'
<1> USE DEF TriangleInv
<1>1. CASE G6!StoreBit
  <2>1. UNCHANGED size /\ gPc = "bits"
    BY <1>1 DEF G6!StoreBit, G6!BuildUnchanged
  <2>2. CASE G6!LastCell
    BY <1>1, <2>1, <2>2 DEF G6!StoreBit, G6!AfterBits
  <2>3. CASE ~G6!LastCell
    BY <1>1, <2>1, <2>3 DEF G6!StoreBit, G6!LastCell, G6!NextCell
  <2> QED BY <2>2, <2>3
<1>2. CASE G6!BitsDone
  BY <1>2 DEF G6!BitsDone, G6!BuildUnchanged, G6!AfterBits
<1>3. CASE G6!BuildCell \/ G6!BuildDone \/ G6!ObjectDone
  BY <1>3 DEF G6!BuildCell, G6!BuildDone, G6!ObjectDone
<1>4. CASE G6!StoreOutside
  <2>1. UNCHANGED size /\ gPc = "bits" /\ ~ (gI < size /\ gJ < size)
    BY <1>4 DEF G6!StoreOutside, G6!BuildUnchanged, G6!Inside
  <2>2. ~ (size > 1)
    BY <2>1
  <2> QED BY <1>4, <2>1, <2>2 DEF G6!StoreOutside, G6!NextCell
<1> QED BY <1>1, <1>2, <1>3, <1>4 DEF G6!Next

(***************************************************************************)
(* graph[offset] = number (OldGraph.cpp 177) writes inside its matrix,     *)
(* whatever the file holds.  adjMatrix[offset] = bit (GraphFunctions.cpp 91*)
(* and 93, OldGraph.cpp 527 and 529) does so, however many bits follow, if *)
(* and only if the graph has two vertices or more.                         *)
(***************************************************************************)
THEOREM SpecStoreInside == OneSpec => []StoreInside
<1>1. InitOne => Inv
  <2>1. Init => MatrixInv
    BY DEF Init, MatrixInv
  <2>2. G6!Init => TriangleInv
    BY LinesAssumption DEF G6!Init, TriangleInv
  <2> QED BY <2>1, <2>2 DEF InitOne, Inv
<1>2. Inv /\ [NextOne]_<<which, vars, g6Vars, objVars>> => Inv'
  <2> SUFFICES ASSUME Inv, [NextOne]_<<which, vars, g6Vars, objVars>> PROVE Inv'
    OBVIOUS
  <2>1. ASSUME UNCHANGED vars PROVE MatrixInv => MatrixInv'
    BY <2>1 DEF MatrixInv, vars
  <2>2. ASSUME UNCHANGED g6Vars PROVE TriangleInv => TriangleInv'
    BY <2>2 DEF TriangleInv, g6Vars
  <2>3. UNCHANGED which
    BY DEF NextOne
  <2> QED BY <2>1, <2>2, <2>3, MatrixStep, TriangleStep DEF NextOne, Inv
<1>3. Inv => StoreInside
  BY DEF Inv, StoreInside, MatrixInv, TriangleInv, StoresInside, G6!StoresInside, G6!Inside
<1> QED BY <1>1, <1>2, <1>3, PTL DEF OneSpec

-----------------------------------------------------------------------------
\* The places of the bits of a graph6 line, and the cells of the matrix.

\* The places of the bits go up along the columns.
LEMMA NextColumn ==
    ASSUME NEW w \in Nat
    PROVE  /\ G6!PlaceOfBit(0, w + 1) = G6!PlaceOfBit(w, w)
           /\ \A u \in Nat : G6!PlaceOfBit(u, w) = G6!PlaceOfBit(0, w) + u
           /\ G6!PlaceOfBit(0, w) \in Nat
<1>1. w * (w - 1) \in Nat
  <2>1. CASE w = 0
    BY <2>1
  <2>2. CASE w # 0
    <3>1. w \in Nat /\ w - 1 \in Nat
      BY <2>2
    <3> QED BY <3>1
  <2> QED BY <2>1, <2>2
<1>2. (w + 1) * (w + 1 - 1) = w * (w - 1) + 2 * w
  OBVIOUS
<1> DEFINE x == w * (w - 1)
<1> HIDE DEF x
<1>3. x \in Nat /\ (x + 2 * w) \div 2 = x \div 2 + w /\ x \div 2 \in Nat
  BY <1>1 DEF x
<1>4. G6!PlaceOfBit(0, w + 1) = (x + 2 * w) \div 2 + 0
  BY <1>2 DEF x, G6!PlaceOfBit
<1>5. \A u \in Nat : G6!PlaceOfBit(u, w) = x \div 2 + u
  BY DEF x, G6!PlaceOfBit
<1> QED BY <1>3, <1>4, <1>5

LEMMA ColumnsAscend ==
    ASSUME NEW v \in Nat, NEW w \in Nat, v < w
    PROVE  G6!PlaceOfBit(v, v) <= G6!PlaceOfBit(0, w)
<1>1. (v + 1) * v <= w * (w - 1) /\ (v + 1) * v \in Nat /\ w * (w - 1) \in Nat
  <2>1. PICK d \in Nat : w = v + 1 + d
    <3>1. w - v - 1 \in Nat /\ w = v + 1 + (w - v - 1)
      OBVIOUS
    <3> QED BY <3>1
  <2>2. w * (w - 1) = (v + 1) * v + d * (2 * v + 1 + d)
    BY <2>1
  <2>3. d * (2 * v + 1 + d) \in Nat /\ (v + 1) * v \in Nat
    BY <2>1
  <2> QED BY <2>2, <2>3
<1>2. \A x, y \in Nat : x <= y => x \div 2 <= y \div 2
  OBVIOUS
<1>3. G6!PlaceOfBit(0, v + 1) = ((v + 1) * v) \div 2
  BY <1>1 DEF G6!PlaceOfBit
<1>4. G6!PlaceOfBit(0, w) = (w * (w - 1)) \div 2
  BY <1>1 DEF G6!PlaceOfBit
<1> QED BY <1>1, <1>2, <1>3, <1>4, NextColumn

\* The cell at u, w comes before that at i, j, column by column.
Before(u, w, x, y) == w < y \/ (w = y /\ u < x)

LEMMA PlacesAscend ==
    ASSUME NEW u \in Nat, NEW w \in Nat, NEW x \in Nat, NEW y \in Nat, u < w, x < y
    PROVE  G6!PlaceOfBit(u, w) < G6!PlaceOfBit(x, y) <=> Before(u, w, x, y)
<1>1. /\ G6!PlaceOfBit(u, w) = G6!PlaceOfBit(0, w) + u /\ G6!PlaceOfBit(w, w) = G6!PlaceOfBit(0, w) + w
      /\ G6!PlaceOfBit(x, y) = G6!PlaceOfBit(0, y) + x /\ G6!PlaceOfBit(y, y) = G6!PlaceOfBit(0, y) + y
      /\ G6!PlaceOfBit(0, w) \in Nat /\ G6!PlaceOfBit(0, y) \in Nat
  BY NextColumn
<1>2. CASE w < y
  <2>1. G6!PlaceOfBit(w, w) <= G6!PlaceOfBit(0, y)
    BY <1>2, ColumnsAscend
  <2> QED BY <1>1, <1>2, <2>1 DEF Before
<1>3. CASE y < w
  <2>1. G6!PlaceOfBit(y, y) <= G6!PlaceOfBit(0, w)
    BY <1>3, ColumnsAscend
  <2> QED BY <1>1, <1>3, <2>1 DEF Before
<1>4. CASE w = y
  BY <1>1, <1>4 DEF Before
<1> QED BY <1>2, <1>3, <1>4
-----------------------------------------------------------------------------
LEMMA BitIsBit ==
    ASSUME NEW b \in Int, NEW n \in 0..5
    PROVE  G6!Bit(b, n) \in {0, 1}
<1>1. \A d \in Nat \ {0} : (b \div d) \in Int
  OBVIOUS
<1>2. <<32, 16, 8, 4, 2, 1>>[n + 1] \in Nat \ {0}
  <2>1. n = 0 \/ n = 1 \/ n = 2 \/ n = 3 \/ n = 4 \/ n = 5
    OBVIOUS
  <2> QED BY <2>1
<1>3. (b \div <<32, 16, 8, 4, 2, 1>>[n + 1]) \in Int
  BY <1>1, <1>2
<1>4. \A x \in Int : x % 2 \in {0, 1}
  OBVIOUS
<1> QED BY <1>3, <1>4 DEF G6!Bit

LEMMA BitAtIsBit ==
    ASSUME line \in Seq(Int), size \in Nat, NEW n \in Nat, n < G6!BitCount
    PROVE  G6!BitAt(n) \in {0, 1}
<1>1. G6!HeaderLength(size) \in Nat /\ Len(line) \in Nat
  BY DEF G6!HeaderLength
<1>2. n \div 6 \in Nat /\ n % 6 \in 0..5
  OBVIOUS
<1>3. G6!HeaderLength(size) + 1 + n \div 6 \in 1..Len(line)
  <2>1. \A h, l \in Nat : n < 6 * (l - h) => h + 1 + n \div 6 <= l
    OBVIOUS
  <2> QED BY <1>1, <1>2, <2>1 DEF G6!BitCount
<1>4. line[G6!HeaderLength(size) + 1 + n \div 6] \in Int
  BY <1>3, ElementOfSeq
<1> QED BY <1>2, <1>4, BitIsBit DEF G6!BitAt

SquareOf(n) == [0..n-1 -> [0..n-1 -> {0, 1}]]

\* A bit is stored in both of its cells.
Stored(g, b, x, y) == [g EXCEPT ![x][y] = b, ![y][x] = b]

StoresBoth(n, g, b, x, y) ==
    /\ Stored(g, b, x, y) \in SquareOf(n)
    /\ \A u, w \in 0..n-1 :
         Stored(g, b, x, y)[u][w] = IF (u = x /\ w = y) \/ (u = y /\ w = x) THEN b ELSE g[u][w]

LEMMA StoreBoth ==
    ASSUME NEW n \in Nat, NEW g \in SquareOf(n), NEW b \in {0, 1}, NEW x \in Nat, NEW y \in Nat
    PROVE  StoresBoth(n, g, b, x, y)
<1> USE DEF SquareOf
<1> DEFINE f == [g EXCEPT ![x][y] = b]
           h == [f EXCEPT ![y][x] = b]
<1>1. f \in SquareOf(n) /\ \A u, w \in 0..n-1 : f[u][w] = IF u = x /\ w = y THEN b ELSE g[u][w]
  OBVIOUS
<1> HIDE DEF f
<1>2. h \in SquareOf(n) /\ \A u, w \in 0..n-1 : h[u][w] = IF u = y /\ w = x THEN b ELSE f[u][w]
  BY <1>1
<1>3. \A u, w \in 0..n-1 :
        h[u][w] = IF (u = x /\ w = y) \/ (u = y /\ w = x) THEN b ELSE g[u][w]
  BY <1>1, <1>2
<1>4. h = Stored(g, b, x, y)
  BY DEF Stored, f
<1> HIDE DEF h
<1> QED BY <1>2, <1>3, <1>4 DEF StoresBoth

G6Types ==
    /\ size \in Nat /\ line \in Seq(Int) /\ Len(line) >= G6!HeaderLength(size)
    /\ bitsRead \in 0..G6!BitCount
    /\ adjMatrix \in SquareOf(size)
    /\ reader \in {"GraphFunctions", "g6file", "g6string"}
    /\ reader = "g6file" => gSize = size
    /\ gSize \in Nat \cup {-1} /\ gDegree \in Nat \cup {-1}
    /\ gPc \in {"bits", "build", "matrix", "done", "killed"}
    /\ gPc = "matrix" => reader # "GraphFunctions"

\* How many bits are in the matrix, or will ever be.
Filled == IF gPc = "bits" THEN bitsRead ELSE G6!BitCount

Cells ==
    /\ gPc = "bits" => gI < gJ /\ bitsRead = G6!PlaceOfBit(gI, gJ)
    /\ \A w \in 0..size-1 : \A u \in 0..w :
         /\ adjMatrix[u][w] = adjMatrix[w][u]
         /\ adjMatrix[u][w] = IF u < w /\ G6!PlaceOfBit(u, w) < Filled
                                THEN G6!BitAt(G6!PlaceOfBit(u, w)) ELSE 0

\* The next cell is the place of the next bit.
LEMMA NextPlace ==
    ASSUME TriangleInv, gPc = "bits", gI < gJ, G6!NextCell
    PROVE  gI' < gJ' /\ G6!PlaceOfBit(gI', gJ') = G6!PlaceOfBit(gI, gJ) + 1
<1>1. gI \in Nat /\ gJ \in Nat /\ border \in Nat /\ gI <= border /\ border + 1 = gJ
  BY DEF TriangleInv
<1>2. /\ G6!PlaceOfBit(gI, gJ) = G6!PlaceOfBit(0, gJ) + gI
      /\ G6!PlaceOfBit(gI + 1, gJ) = G6!PlaceOfBit(0, gJ) + (gI + 1)
      /\ G6!PlaceOfBit(gJ, gJ) = G6!PlaceOfBit(0, gJ) + gJ
      /\ G6!PlaceOfBit(0, gJ + 1) = G6!PlaceOfBit(gJ, gJ)
      /\ G6!PlaceOfBit(0, gJ) \in Nat
  <2>1. gI \in Nat /\ gJ \in Nat /\ gI + 1 \in Nat
    BY <1>1
  <2> QED BY <2>1, NextColumn
<1>3. CASE gI = border
  BY <1>1, <1>2, <1>3 DEF G6!NextCell
<1>4. CASE gI # border
  BY <1>1, <1>2, <1>4 DEF G6!NextCell
<1> QED BY <1>3, <1>4

LEMMA StoreKeepsCells ==
    ASSUME G6Types, TriangleInv, Cells, G6!StoreBit
    PROVE  G6Types' /\ Cells'
<1> USE DEF TriangleInv
<1>1. /\ gPc = "bits" /\ bitsRead < G6!BitCount /\ bitsRead' = bitsRead + 1
      /\ adjMatrix' = [adjMatrix EXCEPT ![gI][gJ] = G6!BitAt(bitsRead), ![gJ][gI] = G6!BitAt(bitsRead)]
      /\ UNCHANGED <<reader, gSize, gDegree, line, size>>
  BY DEF G6!StoreBit, G6!BuildUnchanged, G6!object
<1>2. gI < gJ /\ bitsRead = G6!PlaceOfBit(gI, gJ) /\ gI \in Nat /\ gJ \in Nat /\ bitsRead \in Nat
  BY <1>1 DEF Cells, G6Types
<1>3. G6!BitAt(bitsRead) \in {0, 1}
  BY <1>1, <1>2, BitAtIsBit DEF G6Types
<1>4. /\ adjMatrix' \in SquareOf(size)
      /\ \A u, w \in 0..size-1 :
           adjMatrix'[u][w] = IF (u = gI /\ w = gJ) \/ (u = gJ /\ w = gI)
                                THEN G6!BitAt(bitsRead) ELSE adjMatrix[u][w]
  <2>1. PICK b \in {0, 1} : b = G6!BitAt(bitsRead)
    BY <1>3
  <2>2. adjMatrix' = [adjMatrix EXCEPT ![gI][gJ] = b, ![gJ][gI] = b]
    BY <1>1, <2>1
  <2>3. size \in Nat /\ adjMatrix \in SquareOf(size)
    BY DEF G6Types
  <2>4. gI \in Nat /\ gJ \in Nat
    BY <1>2
  <2> HIDE DEF TriangleInv
  <2>5. StoresBoth(size, adjMatrix, b, gI, gJ)
    BY <2>3, <2>4, StoreBoth, Zenon
  <2>6. adjMatrix' = Stored(adjMatrix, b, gI, gJ)
    BY <2>2 DEF Stored
  <2> QED BY <2>1, <2>5, <2>6 DEF StoresBoth
<1>5. G6!BitCount' = G6!BitCount /\ \A n : G6!BitAt(n)' = G6!BitAt(n)
  BY <1>1 DEF G6!BitCount, G6!BitAt
<1>6. /\ gPc' \in {"bits", "build", "matrix"} /\ (gPc' # "bits" => G6!LastCell)
      /\ gPc' = "matrix" => reader # "GraphFunctions"
  BY <1>1 DEF G6!StoreBit, G6!AfterBits
<1>7. G6!BitCount \in Int
  BY DEF G6!BitCount, G6!HeaderLength, G6Types
<1>8. G6Types'
  BY <1>1, <1>2, <1>4, <1>5, <1>6, <1>7 DEF G6Types
<1>9. gPc' = "bits" => gI' < gJ' /\ bitsRead' = G6!PlaceOfBit(gI', gJ')
  <2> SUFFICES ASSUME gPc' = "bits" PROVE gI' < gJ' /\ bitsRead' = G6!PlaceOfBit(gI', gJ')
    OBVIOUS
  <2>1. G6!NextCell
    BY <1>1 DEF G6!StoreBit, G6!AfterBits
  <2> QED BY <1>1, <1>2, <2>1, NextPlace
<1>10. \A w \in 0..size-1 : \A u \in 0..w :
         u < w => ((G6!PlaceOfBit(u, w) < Filled') <=> (G6!PlaceOfBit(u, w) < Filled \/ (u = gI /\ w = gJ)))
  <2> TAKE w \in 0..size-1
  <2> TAKE u \in 0..w
  <2> SUFFICES ASSUME u < w
               PROVE  (G6!PlaceOfBit(u, w) < Filled') <=> (G6!PlaceOfBit(u, w) < Filled \/ (u = gI /\ w = gJ))
    OBVIOUS
  <2>1. u \in Nat /\ w \in Nat /\ w < size
    BY DEF G6Types
  <2>2. /\ G6!PlaceOfBit(u, w) < G6!PlaceOfBit(gI, gJ) <=> Before(u, w, gI, gJ)
        /\ G6!PlaceOfBit(gI, gJ) < G6!PlaceOfBit(u, w) <=> Before(gI, gJ, u, w)
    BY <1>2, <2>1, PlacesAscend
  <2>3. G6!PlaceOfBit(u, w) \in Nat
    BY <2>1, NextColumn
  <2>4. Filled = bitsRead
    BY <1>1 DEF Filled
  <2>5. CASE gPc' = "bits"
    BY <1>1, <1>2, <2>1, <2>2, <2>3, <2>4, <2>5 DEF Filled, Before
  <2>6. CASE gPc' # "bits"
    <3>1. gI + 2 = size /\ gJ + 1 = size
      BY <1>6, <2>6 DEF G6!LastCell
    <3>2. Before(u, w, gI, gJ) \/ (u = gI /\ w = gJ)
      BY <1>2, <2>1, <3>1 DEF Before, G6Types
    <3>3. Filled' = G6!BitCount
      BY <1>5, <2>6 DEF Filled
    <3> QED BY <1>1, <1>2, <1>7, <2>2, <2>3, <2>4, <3>2, <3>3
  <2> QED BY <2>5, <2>6
<1>11. ASSUME NEW w \in 0..size-1, NEW u \in 0..w
       PROVE  /\ adjMatrix'[u][w] = adjMatrix'[w][u]
              /\ adjMatrix'[u][w] = IF u < w /\ G6!PlaceOfBit(u, w) < Filled'
                                      THEN G6!BitAt(G6!PlaceOfBit(u, w)) ELSE 0
  <2>1. u \in 0..size-1 /\ u \in Nat /\ w \in Nat /\ u <= w
    BY DEF G6Types
  <2>2. /\ adjMatrix[u][w] = adjMatrix[w][u]
        /\ adjMatrix[u][w] = IF u < w /\ G6!PlaceOfBit(u, w) < Filled
                               THEN G6!BitAt(G6!PlaceOfBit(u, w)) ELSE 0
    BY DEF Cells
  <2>3. CASE u = gI /\ w = gJ
    BY <1>2, <1>4, <1>10, <2>1, <2>3
  <2>4. CASE ~ (u = gI /\ w = gJ)
    <3>1. ~ (u = gJ /\ w = gI)
      BY <1>2, <2>1
    <3>2. adjMatrix'[u][w] = adjMatrix[u][w] /\ adjMatrix'[w][u] = adjMatrix[w][u]
      BY <1>4, <2>1, <2>4, <3>1
    <3>3. u < w => ((G6!PlaceOfBit(u, w) < Filled') <=> (G6!PlaceOfBit(u, w) < Filled))
      BY <1>10, <2>4
    <3> QED BY <2>2, <3>2, <3>3
  <2> QED BY <2>3, <2>4
<1>12. Cells'
  <2>1. gPc' = "bits" => gI' < gJ' /\ bitsRead' = G6!PlaceOfBit(gI, gJ)'
    BY <1>9 DEF G6!PlaceOfBit
  <2>2. ASSUME NEW w \in 0..size'-1, NEW u \in 0..w
        PROVE  /\ adjMatrix'[u][w] = adjMatrix'[w][u]
               /\ adjMatrix'[u][w] = IF u < w /\ G6!PlaceOfBit(u, w) < Filled'
                                       THEN G6!BitAt(G6!PlaceOfBit(u, w))' ELSE 0
    <3>1. G6!BitAt(G6!PlaceOfBit(u, w))' = G6!BitAt(G6!PlaceOfBit(u, w))
      BY <1>1 DEF G6!BitAt
    <3> QED BY <1>1, <1>11, <3>1
  <2> QED BY <2>1, <2>2 DEF Cells
<1> QED BY <1>8, <1>12

-----------------------------------------------------------------------------
\* The vertices and the edges as far as the loop over the cells has come.
LEMMA G6RangeListed ==
    ASSUME NEW S, NEW s \in Seq(S)
    PROVE  /\ \A x : x \in G6!Range(s) <=> Occurs(s, x)
           /\ G6!IsInjective(s) <=> AllDistinct(s)
<1>1. DOMAIN s = 1..Len(s)
  BY LenProperties
<1> QED BY <1>1 DEF G6!Range, Occurs, G6!IsInjective, AllDistinct

G6Edge   == [from : Nat, to : Nat]
G6Vertex == [id : Nat, neighbors : Seq(Nat), edges : Seq(G6Edge)]

LEMMA EdgeOf ==
    ASSUME NEW a \in Nat, NEW b \in Nat
    PROVE  LET e == G6!MkEdge(a, b)
           IN  /\ e \in G6Edge /\ G6!Ends(e) = {a, b}
               /\ e.from <= e.to /\ G6!MkEdge(e.from, e.to) = e
               /\ a # b => e.from < e.to
  BY DEF G6!MkEdge, G6!Ends, G6Edge

\* The vertex v of row u, with its neighbours before the column.
VertexFits(v, u, bound) ==
    /\ v \in G6Vertex /\ v.id = u
    /\ AllDistinct(v.neighbors)
    /\ \A w \in Nat : Occurs(v.neighbors, w) <=> w < bound /\ adjMatrix[u][w] = 1
    /\ v.edges = [n \in 1..Len(v.neighbors) |-> G6!MkEdge(u, v.neighbors[n])]

\* A neighbour and the edge to it are put to a vertex.
Joined(v, u, w) == [G6!AddNeighbor(v, w) EXCEPT !.edges = Append(@, G6!MkEdge(u, w))]

LEMMA NewVertexFits ==
    ASSUME NEW u \in Nat
    PROVE  VertexFits(G6!MkVertex(u), u, 0)
<1> DEFINE v == G6!MkVertex(u)
<1>1. v.id = u /\ v.neighbors = <<>> /\ v.edges = <<>> /\ v \in G6Vertex
  BY DEF G6!MkVertex, G6Vertex
<1> HIDE DEF v
<1>2. Len(v.neighbors) = 0
  BY <1>1
<1>3. v.edges = [n \in 1..Len(v.neighbors) |-> G6!MkEdge(u, v.neighbors[n])]
  BY <1>1, <1>2
<1>4. AllDistinct(v.neighbors) /\ \A w \in Nat : ~ Occurs(v.neighbors, w) /\ ~ (w < 0)
  BY <1>2 DEF AllDistinct, Occurs
<1> QED BY <1>1, <1>3, <1>4 DEF VertexFits, v

LEMMA OtherCellFits ==
    ASSUME NEW u \in Nat, NEW w \in Nat, NEW v, VertexFits(v, u, w), adjMatrix[u][w] # 1
    PROVE  VertexFits(v, u, w + 1)
<1>1. \A x \in Nat : x < w + 1 /\ adjMatrix[u][x] = 1 <=> x < w /\ adjMatrix[u][x] = 1
  <2> TAKE x \in Nat
  <2>1. x < w + 1 <=> x < w \/ x = w
    OBVIOUS
  <2> QED BY <2>1
<1> QED BY <1>1 DEF VertexFits

LEMMA JoinedFits ==
    ASSUME NEW u \in Nat, NEW w \in Nat, NEW v, VertexFits(v, u, w), adjMatrix[u][w] = 1
    PROVE  VertexFits(Joined(v, u, w), u, w + 1)
<1> DEFINE nb == v.neighbors
           es == v.edges
           jv == Joined(v, u, w)
<1>1. v \in G6Vertex /\ nb \in Seq(Nat) /\ es \in Seq(G6Edge) /\ v.id = u
  BY DEF VertexFits, G6Vertex
<1>2. G6!MkEdge(u, w) \in G6Edge
  BY EdgeOf
<1>3. Append(nb, w) \in Seq(Nat) /\ Append(es, G6!MkEdge(u, w)) \in Seq(G6Edge)
  BY <1>1, <1>2, AppendProperties
<1>4. /\ jv \in G6Vertex /\ jv.id = u /\ jv.neighbors = Append(nb, w)
      /\ jv.edges = Append(es, G6!MkEdge(u, w))
  BY <1>1, <1>3 DEF Joined, G6!AddNeighbor, G6Vertex
<1> HIDE DEF jv
<1>5. AllDistinct(nb) /\ ~ Occurs(nb, w)
  BY DEF VertexFits
<1>6. /\ AllDistinct(Append(nb, w)) /\ Len(Append(nb, w)) = Len(nb) + 1
      /\ \A x : Occurs(Append(nb, w), x) <=> Occurs(nb, x) \/ x = w
  BY <1>1, <1>5, PutLast
<1>7. \A x \in Nat : Occurs(Append(nb, w), x) <=> x < w + 1 /\ adjMatrix[u][x] = 1
  <2> TAKE x \in Nat
  <2>1. x < w + 1 <=> x < w \/ x = w
    OBVIOUS
  <2>2. Occurs(nb, x) <=> x < w /\ adjMatrix[u][x] = 1
    BY DEF VertexFits
  <2> QED BY <1>6, <2>1, <2>2
<1>8. jv.edges = [n \in 1..Len(jv.neighbors) |-> G6!MkEdge(u, jv.neighbors[n])]
  <2>1. es = [n \in 1..Len(nb) |-> G6!MkEdge(u, nb[n])] /\ Len(nb) \in Nat
    BY <1>1, LenProperties DEF VertexFits
  <2> HIDE DEF es, nb
  <2>2. Len(es) = Len(nb)
    BY <1>1, <2>1, LenProperties
  <2>3. /\ Len(Append(es, G6!MkEdge(u, w))) = Len(nb) + 1
        /\ DOMAIN Append(es, G6!MkEdge(u, w)) = 1..Len(nb) + 1
    BY <1>1, <1>2, <1>3, <2>2, AppendProperties, LenProperties
  <2>4. ASSUME NEW n \in 1..Len(nb) + 1
        PROVE  Append(es, G6!MkEdge(u, w))[n] = G6!MkEdge(u, Append(nb, w)[n])
    <3>1. CASE n = Len(nb) + 1
      <4>1. Append(es, G6!MkEdge(u, w))[Len(es) + 1] = G6!MkEdge(u, w)
        BY <1>1, <1>2, AppendProperties
      <4>2. Append(nb, w)[Len(nb) + 1] = w
        BY <1>1, AppendProperties
      <4> QED BY <2>2, <3>1, <4>1, <4>2
    <3>2. CASE n \in 1..Len(nb)
      <4>1. Append(es, G6!MkEdge(u, w))[n] = es[n]
        BY <1>1, <1>2, <2>2, <3>2, AppendProperties
      <4>2. Append(nb, w)[n] = nb[n]
        BY <1>1, <3>2, AppendProperties
      <4> QED BY <2>1, <3>2, <4>1, <4>2
    <3> QED BY <2>1, <3>1, <3>2
  <2>5. Append(es, G6!MkEdge(u, w))
          = [n \in 1..Len(nb) + 1 |-> Append(es, G6!MkEdge(u, w))[n]]
    BY <1>3, <2>3, LenProperties
  <2>6. Append(es, G6!MkEdge(u, w)) = [n \in 1..Len(nb) + 1 |-> G6!MkEdge(u, Append(nb, w)[n])]
    BY <2>4, <2>5
  <2> QED BY <1>4, <1>6, <2>6
<1>9. VertexFits(jv, u, w + 1)
  <2>1. AllDistinct(jv.neighbors)
    BY <1>4, <1>6
  <2>2. \A x \in Nat : Occurs(jv.neighbors, x) <=> x < w + 1 /\ adjMatrix[u][x] = 1
    BY <1>4, <1>7
  <2> HIDE DEF nb, es
  <2> QED BY <1>4, <1>8, <2>1, <2>2 DEF VertexFits
<1> QED BY <1>9 DEF jv

-----------------------------------------------------------------------------
\* One cell more keeps the vertices and the edges what the cells before say.

\* How far the graph is built.
Progress ==
    /\ row \in Nat /\ row <= size /\ column \in Nat
    /\ row < size => column < size
    /\ row = size => column = 0
    /\ vertices \in Seq(G6Vertex) /\ edges \in Seq(G6Edge)
    /\ Len(vertices) = IF column = 0 THEN row ELSE row + 1
    /\ gPc \in {"bits", "matrix"} => row = 0 /\ column = 0 /\ vertices = <<>> /\ edges = <<>>
    /\ gPc = "done" => row = size \/ reader # "GraphFunctions"

VerticesFit ==
    \A n \in 1..Len(vertices) : VertexFits(vertices[n], n - 1, IF n = row + 1 THEN column ELSE size)

\* The cell is behind the loop, row by row.
Scanned(u, w) == u < row \/ (u = row /\ w < column)

FromCell(e, u, w) == adjMatrix[u][w] = 1 /\ e = G6!MkEdge(u, w)

EdgesFit ==
    /\ AllDistinct(edges)
    /\ \A e : Occurs(edges, e) <=> \E u, w \in 0..size-1 : Scanned(u, w) /\ FromCell(e, u, w)

Built == Progress /\ VerticesFit /\ EdgesFit

Fresh == size \in Nat /\ row = 0 /\ column = 0 /\ vertices = <<>> /\ edges = <<>>

LEMMA Unbuilt == Fresh => VerticesFit /\ EdgesFit
<1> SUFFICES ASSUME Fresh PROVE VerticesFit /\ EdgesFit
  OBVIOUS
<1> USE DEF Fresh
<1>1. Len(vertices) = 0 /\ Len(edges) = 0
  OBVIOUS
<1>2. VerticesFit /\ AllDistinct(edges) /\ \A e : ~ Occurs(edges, e)
  BY <1>1 DEF VerticesFit, AllDistinct, Occurs
<1>3. \A u, w \in 0..size-1 : ~ Scanned(u, w)
  BY DEF Scanned
<1> QED BY <1>2, <1>3 DEF EdgesFit

\* The vertex of the row as far as it is there.
LEMMA CurrentFits ==
    ASSUME G6Types, Built, row < size
    PROVE  /\ VertexFits(G6!current, row, column)
           /\ G6!others \in Seq(G6Vertex) /\ Len(G6!others) = row
           /\ \A n \in 1..row : VertexFits(G6!others[n], n - 1, size)
<1>1. /\ row \in Nat /\ column \in Nat /\ vertices \in Seq(G6Vertex)
      /\ Len(vertices) = IF column = 0 THEN row ELSE row + 1
  BY DEF Built, Progress
<1>2. \A n \in 1..Len(vertices) : VertexFits(vertices[n], n - 1, IF n = row + 1 THEN column ELSE size)
  BY DEF Built, VerticesFit
<1>3. CASE column = 0
  <2>1. G6!current = G6!MkVertex(row) /\ G6!others = vertices
    BY <1>3 DEF G6!current, G6!others
  <2>2. VertexFits(G6!MkVertex(row), row, 0)
    BY <1>1, NewVertexFits
  <2>3. ASSUME NEW n \in 1..row
        PROVE  VertexFits(vertices[n], n - 1, size)
    <3>1. n \in 1..Len(vertices) /\ n # row + 1
      BY <1>1, <1>3
    <3> QED BY <1>2, <3>1
  <2> QED BY <1>1, <1>3, <2>1, <2>2, <2>3
<1>4. CASE column # 0
  <2>1. Len(vertices) = row + 1
    BY <1>1, <1>4
  <2>2. vertices # <<>>
    BY <1>1, <2>1
  <2>3. G6!current = vertices[row + 1] /\ G6!others = Front(vertices)
    BY <1>4, <2>1 DEF G6!current, G6!others, G6!Last, G6!Front, Front
  <2>4. /\ Front(vertices) \in Seq(G6Vertex)
        /\ Len(Front(vertices)) = row + 1 - 1
        /\ \A n \in 1..(row + 1) - 1 : Front(vertices)[n] = vertices[n]
    BY <1>1, <2>1, <2>2, FrontOf
  <2>5. row + 1 - 1 = row /\ row + 1 \in 1..Len(vertices)
    BY <1>1, <2>1
  <2>6. VertexFits(vertices[row + 1], row, column)
    <3>1. PICK n \in 1..Len(vertices) : n = row + 1
      BY <2>5
    <3>2. VertexFits(vertices[n], n - 1, IF n = row + 1 THEN column ELSE size)
      BY <1>2
    <3>3. n - 1 = row /\ (IF n = row + 1 THEN column ELSE size) = column
      BY <1>1, <3>1
    <3>4. VertexFits(vertices[n], row, column)
      BY <3>2, <3>3
    <3> QED BY <3>1, <3>4
  <2>7. ASSUME NEW n \in 1..row
        PROVE  VertexFits(Front(vertices)[n], n - 1, size)
    <3>1. n \in 1..Len(vertices) /\ n # row + 1
      BY <1>1, <2>1
    <3>2. VertexFits(vertices[n], n - 1, size)
      BY <1>2, <3>1
    <3> QED BY <2>4, <2>5, <3>2
  <2> QED BY <2>3, <2>4, <2>5, <2>6, <2>7
<1> QED BY <1>3, <1>4

\* What putting an edge in does to the list.
LEMMA EdgeAdded ==
    ASSUME edges \in Seq(G6Edge), NEW a \in Nat, NEW b \in Nat
    PROVE  LET t == G6!AddEdge(G6!MkEdge(a, b), edges)
           IN  /\ t \in Seq(G6Edge)
               /\ AllDistinct(edges) => AllDistinct(t)
               /\ \A e : Occurs(t, e) <=> Occurs(edges, e) \/ e = G6!MkEdge(a, b)
<1> DEFINE m == G6!MkEdge(a, b)
<1>1. m \in G6Edge /\ G6!MkEdge(m.from, m.to) = m
  BY EdgeOf
<1> HIDE DEF m
<1>2. G6!AddEdge(m, edges) = IF Occurs(edges, m) THEN edges ELSE Append(edges, m)
  BY <1>1, G6RangeListed DEF G6!AddEdge, G6!FindEdge
<1>3. CASE Occurs(edges, m)
  BY <1>2, <1>3 DEF m
<1>4. CASE ~ Occurs(edges, m)
  <2>1. /\ Append(edges, m) \in Seq(G6Edge)
        /\ AllDistinct(edges) => AllDistinct(Append(edges, m))
        /\ \A e : Occurs(Append(edges, m), e) <=> Occurs(edges, e) \/ e = m
    BY <1>1, <1>4, PutLast
  <2> QED BY <1>2, <1>4, <2>1 DEF m
<1> QED BY <1>3, <1>4

LEMMA BuildKeepsBuilt ==
    ASSUME G6Types, Built, G6!BuildCell
    PROVE  Built'
<1>1. /\ gPc = "build" /\ row < size /\ gPc' = gPc
      /\ UNCHANGED <<reader, size, adjMatrix>>
  BY DEF G6!BuildCell, G6!object
<1>2. /\ row \in Nat /\ column \in Nat /\ size \in Nat /\ column < size
      /\ vertices \in Seq(G6Vertex) /\ edges \in Seq(G6Edge)
  BY <1>1 DEF Built, Progress, G6Types
<1>3. /\ VertexFits(G6!current, row, column)
      /\ G6!others \in Seq(G6Vertex) /\ Len(G6!others) = row
      /\ \A n \in 1..row : VertexFits(G6!others[n], n - 1, size)
  BY <1>1, CurrentFits
<1>4. PICK v : /\ VertexFits(v, row, column + 1)
               /\ vertices' = Append(G6!others, v)
  <2>1. CASE adjMatrix[row][column] = 1
    <3>1. vertices' = Append(G6!others, Joined(G6!current, row, column))
      BY <2>1 DEF G6!BuildCell, Joined
    <3>2. VertexFits(Joined(G6!current, row, column), row, column + 1)
      BY <1>2, <1>3, <2>1, JoinedFits
    <3> QED BY <3>1, <3>2
  <2>2. CASE adjMatrix[row][column] # 1
    <3>1. vertices' = Append(G6!others, G6!current)
      BY <2>2 DEF G6!BuildCell
    <3>2. VertexFits(G6!current, row, column + 1)
      BY <1>2, <1>3, <2>2, OtherCellFits
    <3> QED BY <3>1, <3>2
  <2> QED BY <2>1, <2>2
<1>5. /\ vertices' \in Seq(G6Vertex) /\ Len(vertices') = row + 1
      /\ vertices'[row + 1] = v /\ \A n \in 1..row : vertices'[n] = G6!others[n]
  <2>1. v \in G6Vertex
    BY <1>4 DEF VertexFits
  <2> QED BY <1>3, <1>4, <2>1, PutLast
<1>6. \/ column + 1 < size /\ column' = column + 1 /\ row' = row
      \/ column + 1 = size /\ column' = 0 /\ row' = row + 1
  BY <1>2 DEF G6!BuildCell
<1>7. /\ edges' \in Seq(G6Edge) /\ (AllDistinct(edges) => AllDistinct(edges'))
      /\ \A e : Occurs(edges', e) <=> Occurs(edges, e) \/ FromCell(e, row, column)
  <2>1. CASE adjMatrix[row][column] = 1
    <3>1. edges' = G6!AddEdge(G6!MkEdge(row, column), edges)
      BY <2>1 DEF G6!BuildCell, G6!NewEdges
    <3> QED BY <1>2, <2>1, <3>1, EdgeAdded DEF FromCell
  <2>2. CASE adjMatrix[row][column] # 1
    <3>1. edges' = edges
      BY <2>2 DEF G6!BuildCell
    <3> QED BY <1>2, <2>2, <3>1 DEF FromCell
  <2> QED BY <2>1, <2>2
<1>8. Progress'
  BY <1>1, <1>2, <1>5, <1>6, <1>7 DEF Progress
<1>9. VerticesFit'
  <2>1. ASSUME NEW n \in 1..row+1
        PROVE  VertexFits(vertices'[n], n - 1, IF n = row' + 1 THEN column' ELSE size)
    <3>1. CASE n = row + 1
      <4>1. (IF n = row' + 1 THEN column' ELSE size) = column + 1 /\ n - 1 = row
        BY <1>2, <1>6, <3>1
      <4> QED BY <1>4, <1>5, <3>1, <4>1
    <3>2. CASE n \in 1..row
      <4>1. (IF n = row' + 1 THEN column' ELSE size) = size
        BY <1>2, <1>6, <3>2
      <4> QED BY <1>3, <1>5, <3>2, <4>1
    <3> QED BY <1>2, <3>1, <3>2
  <2>2. \A x, u, b : VertexFits(x, u, b)' <=> VertexFits(x, u, b)
    BY <1>1 DEF VertexFits
  <2> QED BY <1>1, <1>5, <2>1, <2>2 DEF VerticesFit
<1>10. EdgesFit'
  <2>1. ASSUME NEW u \in 0..size-1, NEW w \in 0..size-1
        PROVE  Scanned(u, w)' <=> Scanned(u, w) \/ (u = row /\ w = column)
    BY <1>2, <1>6 DEF Scanned
  <2>2. row \in 0..size-1 /\ column \in 0..size-1
    BY <1>1, <1>2
  <2>3. \A e : Occurs(edges, e) <=> \E u, w \in 0..size-1 : Scanned(u, w) /\ FromCell(e, u, w)
    BY DEF Built, EdgesFit
  <2>4. AllDistinct(edges')
    BY <1>7 DEF Built, EdgesFit
  <2>5. \A e : Occurs(edges', e) <=> \E u, w \in 0..size-1 : Scanned(u, w)' /\ FromCell(e, u, w)
    BY <1>7, <2>1, <2>2, <2>3
  <2>6. \A e, u, w : FromCell(e, u, w)' <=> FromCell(e, u, w)
    BY <1>1 DEF FromCell
  <2> QED BY <1>1, <2>4, <2>5, <2>6 DEF EdgesFit
<1> QED BY <1>8, <1>9, <1>10 DEF Built

-----------------------------------------------------------------------------
\* The degrees have a greatest, and every step of the reader.

\* A set of numbers up to a bound has a greatest element.
LEMMA GreatestIn ==
    ASSUME NEW b \in Nat, NEW S \in SUBSET 0..b, S # {}
    PROVE  \E x \in S : \A y \in S : x >= y
<1> DEFINE R == OpToRel(<, Nat)
           D == {d \in Nat : b - d \in S}
<1>1. IsWellFoundedOn(R, Nat)
  BY NatLessThanWellFounded
<1>2. \A x, y \in Nat : x < y => <<x, y>> \in R
  BY DEF OpToRel
<1> HIDE DEF R
<1>3. PICK s \in S : TRUE
  OBVIOUS
<1>4. \A y \in S : b - y \in Nat /\ b - (b - y) = y
  OBVIOUS
<1>5. D \in SUBSET Nat /\ b - s \in D
  BY <1>3, <1>4
<1>6. \A y \in S : b - y \in D
  BY <1>4
<1>7. \A d \in D : d \in Nat /\ b - d \in S
  OBVIOUS
<1> HIDE DEF D
<1>8. PICK d \in D : \A e \in D : ~ (<<e, d>> \in R)
  BY <1>1, <1>5, WFMin
<1>9. ASSUME NEW y \in S
      PROVE  b - d >= y
  <2>1. ~ (b - y < d)
    BY <1>2, <1>4, <1>5, <1>6, <1>7, <1>8
  <2> QED BY <1>4, <1>7, <2>1
<1> QED BY <1>7, <1>8, <1>9

\* The degree of a matrix is a number.
LEMMA DegreeIsNat ==
    ASSUME NEW n \in Nat, NEW f, \A u \in 0..n-1 : f[u] \subseteq 0..n-1
    PROVE  LET D == {0} \cup {Cardinality(f[u]) : u \in 0..n-1}
           IN  /\ (CHOOSE x \in D : \A y \in D : x >= y) \in Nat
<1> DEFINE D == {0} \cup {Cardinality(f[u]) : u \in 0..n-1}
<1>1. IsFiniteSet(0..n-1) /\ Cardinality(0..n-1) = n
  <2>1. n - 1 \in Int /\ (IF 0 > n - 1 THEN 0 ELSE n - 1 - 0 + 1) = n
    OBVIOUS
  <2> QED BY <2>1, FS_Interval
<1>2. \A u \in 0..n-1 : Cardinality(f[u]) \in 0..n
  <2> TAKE u \in 0..n-1
  <2>1. f[u] \in SUBSET 0..n-1
    OBVIOUS
  <2>2. IsFiniteSet(f[u]) /\ Cardinality(f[u]) <= n
    BY <1>1, <2>1, FS_Subset
  <2>3. Cardinality(f[u]) \in Nat
    BY <2>2, FS_CardinalityType
  <2> QED BY <2>2, <2>3
<1> HIDE DEF D
<1>3. D \in SUBSET 0..n /\ D # {}
  BY <1>2 DEF D
<1>4. \E x \in D : \A y \in D : x >= y
  BY <1>3, GreatestIn
<1>5. (CHOOSE x \in D : \A y \in D : x >= y) \in D
  BY <1>4
<1>6. \A z \in D : z \in Nat
  BY <1>3
<1>7. (CHOOSE x \in D : \A y \in D : x >= y) \in Nat
  BY <1>5, <1>6, Zenon
<1> QED BY <1>7 DEF D

-----------------------------------------------------------------------------
G6Inv == G6Types /\ TriangleInv /\ Cells /\ Built

LEMMA FilledStays ==
    ASSUME G6Types, Cells, gPc # "bits" \/ bitsRead = G6!BitCount, gPc' # "bits",
           UNCHANGED <<line, size, adjMatrix>>
    PROVE  Cells'
<1>1. Filled' = Filled
  BY DEF Filled, G6!BitCount
<1>2. \A n : G6!BitAt(n)' = G6!BitAt(n)
  BY DEF G6!BitAt
<1>3. ASSUME NEW w \in 0..size'-1, NEW u \in 0..w
      PROVE  /\ adjMatrix'[u][w] = adjMatrix'[w][u]
             /\ adjMatrix'[u][w] = IF u < w /\ G6!PlaceOfBit(u, w) < Filled'
                                     THEN G6!BitAt(G6!PlaceOfBit(u, w))' ELSE 0
  <2>1. G6!BitAt(G6!PlaceOfBit(u, w))' = G6!BitAt(G6!PlaceOfBit(u, w))
    BY DEF G6!BitAt
  <2> QED BY <1>1, <2>1 DEF Cells
<1> QED BY <1>3 DEF Cells

\* A graph of no vertex or one has no cell above its diagonal.
LEMMA StoreOutsideKeepsCells ==
    ASSUME G6Types, TriangleInv, Cells, G6!StoreOutside
    PROVE  G6Types' /\ Cells'
<1>1. /\ gPc = "bits" /\ bitsRead < G6!BitCount /\ bitsRead' = bitsRead + 1
      /\ ~ (gI < size /\ gJ < size) /\ gPc' \in {"bits", "killed"} /\ G6!NextCell
      /\ UNCHANGED <<reader, gSize, gDegree, line, size, adjMatrix>>
  BY DEF G6!StoreOutside, G6!BuildUnchanged, G6!object, G6!Inside
<1>2. size \in Nat /\ ~ (size > 1) /\ bitsRead \in Nat /\ G6!BitCount \in Int
  BY <1>1 DEF TriangleInv, G6Types, G6!BitCount, G6!HeaderLength
<1>3. G6!BitCount' = G6!BitCount
  BY <1>1 DEF G6!BitCount
<1>4. G6Types'
  BY <1>1, <1>2, <1>3 DEF G6Types
<1>5. gI' < gJ' /\ bitsRead' = G6!PlaceOfBit(gI, gJ)'
  <2>1. gI < gJ /\ bitsRead = G6!PlaceOfBit(gI, gJ)
    BY <1>1 DEF Cells
  <2>2. gI' < gJ' /\ bitsRead' = G6!PlaceOfBit(gI', gJ')
    BY <1>1, <2>1, NextPlace
  <2> QED BY <2>2 DEF G6!PlaceOfBit
<1>6. ASSUME NEW w \in 0..size'-1, NEW u \in 0..w
      PROVE  /\ adjMatrix'[u][w] = adjMatrix'[w][u]
             /\ adjMatrix'[u][w] = IF u < w /\ G6!PlaceOfBit(u, w) < Filled'
                                     THEN G6!BitAt(G6!PlaceOfBit(u, w))' ELSE 0
  <2>1. ~ (u < w) /\ w \in 0..size-1
    BY <1>1, <1>2
  <2>2. adjMatrix[u][w] = adjMatrix[w][u] /\ adjMatrix[u][w] = 0
    BY <2>1 DEF Cells
  <2> QED BY <1>1, <2>1, <2>2
<1> QED BY <1>4, <1>5, <1>6 DEF Cells

LEMMA G6Step ==
    ASSUME G6Inv, G6!Next
    PROVE  G6Inv'
<1>1. TriangleInv'
  BY TriangleStep DEF G6Inv
<1>2. CASE G6!StoreBit
  <2>1. G6Types' /\ Cells'
    BY <1>2, StoreKeepsCells DEF G6Inv
  <2>2. /\ row = 0 /\ column = 0 /\ vertices = <<>> /\ edges = <<>>
        /\ UNCHANGED <<row, column, vertices, edges, size, reader>>
        /\ gPc' \in {"bits", "build", "matrix"}
    BY <1>2 DEF G6!StoreBit, G6!BuildUnchanged, G6!object, G6!AfterBits, G6Inv, Built, Progress
  <2>3. Fresh'
    BY <2>2 DEF G6Inv, G6Types, Fresh
  <2>4. VerticesFit' /\ EdgesFit'
    BY <2>3, Unbuilt, PTL
  <2>5. Progress'
    BY <2>2 DEF G6Inv, Built, Progress
  <2> QED BY <1>1, <2>1, <2>4, <2>5 DEF G6Inv, Built
<1>3. CASE G6!BitsDone
  <2>1. /\ gPc = "bits" /\ bitsRead = G6!BitCount /\ gPc' \in {"build", "matrix"}
        /\ UNCHANGED <<bitsRead, adjMatrix, reader, gSize, gDegree, line, size, row, column, vertices, edges>>
        /\ gPc' = "matrix" => reader # "GraphFunctions"
    BY <1>3 DEF G6!BitsDone, G6!BuildUnchanged, G6!object, G6!AfterBits
  <2>2. G6Types'
    BY <2>1 DEF G6Inv, G6Types, G6!BitCount
  <2>3. Cells'
    BY <2>1, FilledStays DEF G6Inv
  <2>4. Built'
    <3>1. Progress'
      BY <2>1 DEF G6Inv, Built, Progress
    <3>2. VerticesFit' /\ EdgesFit'
      BY <2>1 DEF G6Inv, Built, VerticesFit, VertexFits, EdgesFit, Scanned, FromCell
    <3> QED BY <3>1, <3>2 DEF Built
  <2> QED BY <1>1, <2>2, <2>3, <2>4 DEF G6Inv
<1>4. CASE G6!BuildCell
  <2>1. /\ gPc = "build" /\ gPc' = gPc
        /\ UNCHANGED <<bitsRead, adjMatrix, reader, gSize, gDegree, line, size>>
    BY <1>4 DEF G6!BuildCell, G6!object
  <2>2. G6Types'
    BY <2>1 DEF G6Inv, G6Types, G6!BitCount
  <2>3. Cells'
    BY <2>1, FilledStays DEF G6Inv
  <2>4. Built'
    BY <1>4, BuildKeepsBuilt DEF G6Inv
  <2> QED BY <1>1, <2>2, <2>3, <2>4 DEF G6Inv
<1>5. CASE G6!BuildDone \/ G6!ObjectDone
  <2>1. /\ gPc \in {"build", "matrix"} /\ gPc' = "done"
        /\ UNCHANGED <<bitsRead, adjMatrix, reader, gSize, line, size, row, column, vertices, edges>>
    BY <1>5 DEF G6!BuildDone, G6!ObjectDone, G6!object
  <2>2. gDegree' \in Nat \cup {-1}
    <3>1. CASE gDegree' = gDegree
      BY <3>1 DEF G6Inv, G6Types
    <3>2. CASE reader = "g6file" /\ gDegree' = G6!FindMaxDegree
      <4>1. gSize = size /\ size \in Nat
        BY <3>2 DEF G6Inv, G6Types
      <4> DEFINE f == [u \in 0..size-1 |-> {w \in 0..size-1 : adjMatrix[u][w] = 1}]
                 D == {0} \cup {Cardinality(f[u]) : u \in 0..size-1}
      <4>2. \A u \in 0..size-1 : f[u] \subseteq 0..size-1
        OBVIOUS
      <4>3. D = {0} \cup {G6!Degree(u) : u \in 0..gSize-1}
        <5>1. \A S : G6!Cardinality(S) = Cardinality(S)
          BY DEF G6!Cardinality, Cardinality, G6!IsFiniteSet, IsFiniteSet
        <5>2. \A u \in 0..size-1 : Cardinality(f[u]) = G6!Degree(u)
          BY <4>1, <5>1 DEF G6!Degree
        <5> QED BY <4>1, <5>2
      <4> HIDE DEF f
      <4>4. (CHOOSE x \in D : \A y \in D : x >= y) \in Nat
        BY <4>1, <4>2, DegreeIsNat
      <4> HIDE DEF D
      <4> QED BY <3>2, <4>3, <4>4 DEF G6!FindMaxDegree, G6!Max
    <3> QED BY <1>5, <3>1, <3>2 DEF G6!BuildDone, G6!ObjectDone, G6!object
  <2>3. G6Types'
    BY <2>1, <2>2 DEF G6Inv, G6Types, G6!BitCount
  <2>4. Cells'
    BY <2>1, FilledStays DEF G6Inv
  <2>5. row = size \/ reader # "GraphFunctions"
    BY <1>5 DEF G6!BuildDone, G6!ObjectDone, G6Inv, G6Types, Built, Progress
  <2>6. Progress'
    BY <2>1, <2>5 DEF G6Inv, Built, Progress
  <2>7. VerticesFit' /\ EdgesFit'
    BY <2>1 DEF G6Inv, Built, VerticesFit, VertexFits, EdgesFit, Scanned, FromCell
  <2> QED BY <1>1, <2>3, <2>4, <2>6, <2>7 DEF G6Inv, Built
<1>6. CASE G6!StoreOutside
  <2>1. G6Types' /\ Cells'
    BY <1>6, StoreOutsideKeepsCells DEF G6Inv
  <2>2. /\ row = 0 /\ column = 0 /\ vertices = <<>> /\ edges = <<>>
        /\ UNCHANGED <<row, column, vertices, edges, size, reader>>
        /\ gPc' \in {"bits", "killed"}
    BY <1>6 DEF G6!StoreOutside, G6!BuildUnchanged, G6!object, G6Inv, Built, Progress
  <2>3. Fresh'
    BY <2>2 DEF G6Inv, G6Types, Fresh
  <2>4. VerticesFit' /\ EdgesFit'
    BY <2>3, Unbuilt, PTL
  <2>5. Progress'
    BY <2>2 DEF G6Inv, Built, Progress
  <2> QED BY <1>1, <2>1, <2>4, <2>5 DEF G6Inv, Built
<1> QED BY <1>2, <1>3, <1>4, <1>5, <1>6 DEF G6!Next

-----------------------------------------------------------------------------
\* The first state of the reader, and what its invariant says at the end.
LEMMA PlaceIsNat == \A u, w \in Nat : G6!PlaceOfBit(u, w) \in Nat
<1> TAKE u, w \in Nat
<1>1. G6!PlaceOfBit(u, w) = G6!PlaceOfBit(0, w) + u /\ G6!PlaceOfBit(0, w) \in Nat
  BY NextColumn
<1> QED BY <1>1

LEMMA G6Start ==
    ASSUME G6!Init
    PROVE  G6Inv
<1> USE DEF G6!Init, G6!ObjectInit
<1>1. /\ size \in Nat /\ line \in Seq(Int) /\ Len(line) >= G6!HeaderLength(size) /\ bitsRead = 0
      /\ row = 0 /\ column = 0 /\ vertices = <<>> /\ edges = <<>>
      /\ gI = 0 /\ gJ = 1 /\ border = 0 /\ gPc = "bits"
  BY LinesAssumption
<1>2. G6!HeaderLength(size) \in Int
  BY DEF G6!HeaderLength
<1>3. bitsRead \in 0..G6!BitCount
  BY <1>1, <1>2 DEF G6!BitCount
<1>4. adjMatrix \in SquareOf(size) /\ \A u, w \in 0..size-1 : adjMatrix[u][w] = 0
  BY DEF SquareOf, G6!Zeros
<1>5. G6Types
  <2>1. reader \in {"GraphFunctions", "g6file", "g6string"}
    OBVIOUS
  <2>2. (reader = "g6file" => gSize = size) /\ gSize \in Nat \cup {-1} /\ gDegree \in Nat \cup {-1}
    BY <1>1 DEF G6!Garbage
  <2> QED BY <1>1, <1>3, <1>4, <2>1, <2>2 DEF G6Types
<1>6. TriangleInv
  BY <1>1 DEF TriangleInv
<1>7. Cells
  <2>1. bitsRead = G6!PlaceOfBit(gI, gJ)
    BY <1>1 DEF G6!PlaceOfBit
  <2>2. ASSUME NEW w \in 0..size-1, NEW u \in 0..w
        PROVE  u \in 0..size-1 /\ ~ (u < w /\ G6!PlaceOfBit(u, w) < Filled)
    <3>1. u \in Nat /\ w \in Nat
      BY <1>1
    <3>2. G6!PlaceOfBit(u, w) \in Nat
      BY <3>1, PlaceIsNat, Zenon
    <3> QED BY <1>1, <3>2 DEF Filled
  <2> QED BY <1>1, <1>4, <2>1, <2>2 DEF Cells
<1>8. VerticesFit /\ EdgesFit
  BY <1>1, Unbuilt DEF Fresh
<1>9. Progress
  BY <1>1 DEF Progress
<1> QED BY <1>5, <1>6, <1>7, <1>8, <1>9 DEF G6Inv, Built

LEMMA G6Matrix ==
    ASSUME G6Inv
    PROVE  G6!MatrixIsEncoded /\ G6!TypeOK
<1>1. G6!MatrixIsEncoded
  BY DEF G6Inv, Cells, Filled, G6!MatrixIsEncoded
<1>2. G6!TypeOK
  BY DEF G6Inv, G6Types, SquareOf, TriangleInv, Built, Progress, G6!TypeOK, G6!Garbage
<1> QED BY <1>1, <1>2

\* A matrix without ones on its diagonal that is symmetric.
LEMMA MatrixIsGraph ==
    ASSUME G6Inv
    PROVE  \A u, w \in 0..size-1 : adjMatrix[u][w] = adjMatrix[w][u] /\ adjMatrix[u][u] # 1
<1> TAKE u, w \in 0..size-1
<1>1. size \in Nat /\ u \in Nat /\ w \in Nat
  BY DEF G6Inv, G6Types
<1>2. u \in 0..u /\ (u <= w => u \in 0..w) /\ (w <= u => w \in 0..u) /\ (u <= w \/ w <= u)
  BY <1>1
<1>3. adjMatrix[u][w] = adjMatrix[w][u]
  BY <1>2 DEF G6Inv, Cells
<1>4. adjMatrix[u][u] = 0
  <2>1. adjMatrix[u][u] = IF u < u /\ G6!PlaceOfBit(u, u) < Filled THEN G6!BitAt(G6!PlaceOfBit(u, u)) ELSE 0
    BY <1>2 DEF G6Inv, Cells
  <2>2. ~ (u < u)
    BY <1>1
  <2> QED BY <2>1, <2>2
<1> QED BY <1>3, <1>4

LEMMA G6Graph ==
    ASSUME G6Inv, gPc = "done", reader = "GraphFunctions"
    PROVE  /\ G6!IsSimpleGraph(vertices, edges) /\ Len(vertices) = size
           /\ \A u, w \in 0..size-1 : adjMatrix[u][w] = 1 <=> w \in G6!Range(vertices[u+1].neighbors)
           /\ \A n \in 1..size : vertices[n].edges = [m \in DOMAIN vertices[n].neighbors |->
                                    G6!MkEdge(vertices[n].id, vertices[n].neighbors[m])]
<1>1. /\ size \in Nat /\ row = size /\ column = 0 /\ Len(vertices) = size
      /\ vertices \in Seq(G6Vertex) /\ edges \in Seq(G6Edge)
  BY DEF G6Inv, G6Types, Built, Progress
<1>2. \A n \in 1..size : VertexFits(vertices[n], n - 1, size)
  <2> TAKE n \in 1..size
  <2>1. (IF n = row + 1 THEN column ELSE size) = size
    BY <1>1
  <2> QED BY <1>1, <2>1 DEF G6Inv, Built, VerticesFit
<1>3. /\ AllDistinct(edges)
      /\ \A e : Occurs(edges, e) <=> \E u, w \in 0..size-1 : FromCell(e, u, w)
  <2>1. \A u, w \in 0..size-1 : Scanned(u, w)
    BY <1>1 DEF Scanned
  <2> QED BY <2>1 DEF G6Inv, Built, EdgesFit
<1>4. \A u, w \in 0..size-1 : adjMatrix[u][w] = adjMatrix[w][u] /\ adjMatrix[u][u] # 1
  BY MatrixIsGraph
<1>5. ASSUME NEW n \in 1..size
      PROVE  /\ vertices[n].id = n - 1 /\ vertices[n].neighbors \in Seq(Nat)
             /\ AllDistinct(vertices[n].neighbors)
             /\ \A w \in Nat : Occurs(vertices[n].neighbors, w) <=> w < size /\ adjMatrix[n-1][w] = 1
             /\ vertices[n].edges = [m \in 1..Len(vertices[n].neighbors) |->
                                       G6!MkEdge(n - 1, vertices[n].neighbors[m])]
  BY <1>2 DEF VertexFits, G6Vertex
<1>6. ASSUME NEW e, Occurs(edges, e)
      PROVE  \E u, w \in 0..size-1 : adjMatrix[u][w] = 1 /\ G6!Ends(e) = {u, w} /\ e.from < e.to /\ e.to < size
  <2>1. PICK u \in 0..size-1, w \in 0..size-1 : FromCell(e, u, w)
    BY <1>3, <1>6
  <2>2. u # w /\ u \in Nat /\ w \in Nat /\ u < size /\ w < size
    BY <1>1, <1>4, <2>1 DEF FromCell
  <2>3. G6!Ends(e) = {u, w} /\ e.from < e.to /\ e.to \in {u, w}
    BY <2>1, <2>2, EdgeOf DEF FromCell, G6!Ends
  <2> QED BY <2>1, <2>2, <2>3 DEF FromCell
<1>7. ASSUME NEW n \in 1..size, NEW w \in 0..size-1
      PROVE  (\E e : Occurs(edges, e) /\ G6!Ends(e) = {n - 1, w}) <=> adjMatrix[n-1][w] = 1
  <2>1. n - 1 \in 0..size-1 /\ n - 1 \in Nat /\ w \in Nat
    BY <1>1
  <2>2. ASSUME adjMatrix[n-1][w] = 1
        PROVE  \E e : Occurs(edges, e) /\ G6!Ends(e) = {n - 1, w}
    <3>1. FromCell(G6!MkEdge(n - 1, w), n - 1, w)
      BY <2>2 DEF FromCell
    <3>2. Occurs(edges, G6!MkEdge(n - 1, w))
      BY <1>3, <2>1, <3>1
    <3>3. G6!Ends(G6!MkEdge(n - 1, w)) = {n - 1, w}
      BY <2>1, EdgeOf
    <3> QED BY <3>2, <3>3
  <2>3. ASSUME NEW e, Occurs(edges, e), G6!Ends(e) = {n - 1, w}
        PROVE  adjMatrix[n-1][w] = 1
    <3>1. PICK x \in 0..size-1, y \in 0..size-1 : adjMatrix[x][y] = 1 /\ G6!Ends(e) = {x, y}
      BY <1>6, <2>3
    <3>2. {x, y} = {n - 1, w}
      BY <2>3, <3>1
    <3>3. (x = n - 1 /\ y = w) \/ (x = w /\ y = n - 1)
      BY <3>2
    <3> QED BY <1>4, <3>1, <3>3
  <2> QED BY <2>2, <2>3
<1>8. \A n \in 1..size : /\ \A w : w \in G6!Range(vertices[n].neighbors) <=> Occurs(vertices[n].neighbors, w)
                         /\ G6!IsInjective(vertices[n].neighbors)
  BY <1>5, G6RangeListed
<1>9. ASSUME NEW n \in 1..size
      PROVE  G6!Range(vertices[n].neighbors)
               = {w \in 0..size-1 : \E e \in G6!Range(edges) : G6!Ends(e) = {n - 1, w}}
  <2>1. \A e : e \in G6!Range(edges) <=> Occurs(edges, e)
    BY <1>1, G6RangeListed
  <2>2. \A w : Occurs(vertices[n].neighbors, w) => w \in Nat
    <3>1. PICK nb \in Seq(Nat) : nb = vertices[n].neighbors
      BY <1>5
    <3>2. \A w : Occurs(nb, w) => w \in Nat
      BY ElementOfSeq DEF Occurs
    <3> QED BY <3>1, <3>2
  <2>3. \A w \in Nat : Occurs(vertices[n].neighbors, w) <=> w \in 0..size-1 /\ adjMatrix[n-1][w] = 1
    <3> TAKE w \in Nat
    <3>1. Occurs(vertices[n].neighbors, w) <=> w < size /\ adjMatrix[n-1][w] = 1
      BY <1>5, Zenon
    <3>2. w < size <=> w \in 0..size-1
      BY <1>1
    <3> QED BY <3>1, <3>2
  <2>4. \A w : w \in G6!Range(vertices[n].neighbors) <=> w \in 0..size-1 /\ adjMatrix[n-1][w] = 1
    BY <1>1, <1>8, <2>2, <2>3
  <2>5. \A w \in 0..size-1 : (\E e \in G6!Range(edges) : G6!Ends(e) = {n - 1, w}) <=> adjMatrix[n-1][w] = 1
    BY <1>7, <2>1
  <2> QED BY <2>4, <2>5
<1>10. G6!IsSimpleGraph(vertices, edges)
  <2>1. G6!IsInjective(edges)
    BY <1>1, <1>3, G6RangeListed
  <2>2. \A e \in G6!Range(edges) : e.from < e.to /\ e.to < Len(vertices)
    BY <1>1, <1>6, G6RangeListed
  <2>3. \A n \in 1..Len(vertices) : vertices[n].id = n - 1
    BY <1>1, <1>5
  <2>4. \A n \in 1..Len(vertices) :
          /\ G6!IsInjective(vertices[n].neighbors)
          /\ G6!Range(vertices[n].neighbors)
               = {w \in 0..Len(vertices)-1 : \E e \in G6!Range(edges) : G6!Ends(e) = {n - 1, w}}
    BY <1>1, <1>8, <1>9
  <2> QED BY <2>1, <2>2, <2>3, <2>4 DEF G6!IsSimpleGraph
<1>11. ASSUME NEW u \in 0..size-1, NEW w \in 0..size-1
       PROVE  adjMatrix[u][w] = 1 <=> w \in G6!Range(vertices[u+1].neighbors)
  <2>1. u + 1 \in 1..size /\ u + 1 - 1 = u /\ w \in Nat /\ w < size
    BY <1>1
  <2>2. PICK n \in 1..size : n = u + 1 /\ n - 1 = u
    BY <2>1
  <2>3. Occurs(vertices[n].neighbors, w) <=> w < size /\ adjMatrix[n-1][w] = 1
    BY <1>5, <2>1, Zenon
  <2>4. w \in G6!Range(vertices[n].neighbors) <=> Occurs(vertices[n].neighbors, w)
    BY <1>8
  <2> QED BY <2>1, <2>2, <2>3, <2>4
<1>12. ASSUME NEW n \in 1..size
       PROVE  vertices[n].edges = [m \in DOMAIN vertices[n].neighbors |->
                                     G6!MkEdge(vertices[n].id, vertices[n].neighbors[m])]
  <2>1. DOMAIN vertices[n].neighbors = 1..Len(vertices[n].neighbors)
    BY <1>5, LenProperties
  <2> QED BY <1>5, <2>1
<1> QED BY <1>1, <1>10, <1>11, <1>12

-----------------------------------------------------------------------------
\* The text reader: a file is open as long as it reads.
TextTypes == TypeOK /\ (pc # "done" => handles = 1)

LEMMA TextStep ==
    ASSUME MatrixInv, TextTypes, Next
    PROVE  TextTypes'
<1> USE DEF TextTypes, TypeOK
<1>1. CASE Count
  BY <1>1 DEF Count
<1>2. CASE Counted
  BY <1>2 DEF Counted
<1>3. CASE SkipRest \/ SkipBlank
  BY <1>3 DEF SkipRest, SkipBlank, Stay
<1>4. CASE EndOfFile
  <2>1. maxDegree' \in Int
    <3>1. CASE maxDegree' \in GarbageDegrees
      BY <3>1, DegreesAssumption
    <3>2. CASE maxDegree' = Max({0} \cup Degrees)
      <4>1. graphSize \in Nat
        OBVIOUS
      <4> DEFINE f == [u \in 0..graphSize-1 |-> {w \in 0..graphSize-1 : graph[u][w] = 1}]
                 D == {0} \cup {Cardinality(f[u]) : u \in 0..graphSize-1}
      <4>2. \A u \in 0..graphSize-1 : f[u] \subseteq 0..graphSize-1
        OBVIOUS
      <4>3. D = {0} \cup Degrees
        BY DEF Degrees
      <4> HIDE DEF f
      <4>4. (CHOOSE x \in D : \A y \in D : x >= y) \in Nat
        BY <4>1, <4>2, DegreeIsNat
      <4> HIDE DEF D
      <4>5. maxDegree' \in Nat
        BY <3>2, <4>3, <4>4 DEF Max
      <4> QED BY <4>5
    <3> QED BY <1>4, <3>1, <3>2 DEF EndOfFile
  <2> QED BY <1>4, <2>1 DEF EndOfFile, Done
<1>5. CASE EndOfMatrix \/ Reject
  BY <1>5 DEF EndOfMatrix, Reject, Done
<1>6. CASE EndOfRow
  BY <1>6 DEF EndOfRow, Stay
<1>7. CASE Store
  <2>1. graph' \in [0..graphSize-1 -> [0..graphSize-1 -> {0, 1, Unset}]]
    <3>1. graph \in [0..graphSize-1 -> [0..graphSize-1 -> {0, 1, Unset}]]
      BY <1>7 DEF Store
    <3>2. PICK b \in {0, 1} : graph' = [graph EXCEPT ![i][j] = b]
      BY <1>7 DEF Store
    <3> QED BY <3>1, <3>2
  <2> QED BY <1>7, <2>1 DEF Store, Stay
<1> QED BY <1>1, <1>2, <1>3, <1>4, <1>5, <1>6, <1>7 DEF Next

LEMMA TextStart ==
    ASSUME Init
    PROVE  MatrixInv /\ TextTypes
  BY DEF Init, MatrixInv, TextTypes, TypeOK, Unset

-----------------------------------------------------------------------------
\* The vector of graphs without a pair.
LEMMA ObjCardinality == \A S : Obj!Cardinality(S) = Cardinality(S)
  BY DEF Obj!Cardinality, Cardinality, Obj!IsFiniteSet, IsFiniteSet

\* The pairs whose graphs are there.
DonePairs == {p \in Obj!Pairs : p[1] < oI \/ (p[1] = oI /\ p[2] < oJ)}

CopiesOf(g) == {n \in 1..Len(graphs) : graphs[n] = g}
PairsOf(g)  == {p \in DonePairs : Obj!Without(p[1], p[2]) = g}

PairsCounted ==
    oPc \in {"pairs", "test"} =>
        /\ Len(graphs) = Cardinality(DonePairs)
        /\ \A g : Cardinality(CopiesOf(g)) = Cardinality(PairsOf(g))
        /\ oPc = "test" => oI = N

LEMMA ObjGraphs ==
    ASSUME Obj!TypeOK
    PROVE  /\ oGraph \in Obj!Matrices /\ \A u \in Obj!V : oGraph[u][u] = 0
           /\ N \in Nat \ {0} /\ Obj!V = 0..N-1
  BY ObjectsAssumption DEF Obj!TypeOK, Obj!V

\* Removing one vertex and the other leaves the graph without the pair.
LEMMA BothRemoved ==
    ASSUME Obj!TypeOK, NEW u \in Obj!V, NEW w \in Obj!V
    PROVE  /\ Obj!RemoveVertex(Obj!RemoveVertex(oGraph, u), w) = Obj!Without(u, w)
           /\ Obj!Without(u, w) \in Obj!Matrices
<1>1. oGraph \in Obj!Matrices
  BY ObjGraphs
<1> DEFINE r == Obj!RemoveVertex(oGraph, u)
<1>2. r \in Obj!Matrices /\ \A x, y \in Obj!V : r[x][y] = IF u \in {x, y} THEN 0 ELSE oGraph[x][y]
  BY <1>1 DEF Obj!RemoveVertex, Obj!Matrices
<1> HIDE DEF r
<1>3. \A x, y \in Obj!V : (IF w \in {x, y} THEN 0 ELSE r[x][y])
                            = (IF {x, y} \cap {u, w} = {} THEN oGraph[x][y] ELSE 0)
  <2> TAKE x, y \in Obj!V
  <2>1. {x, y} \cap {u, w} = {} <=> u \notin {x, y} /\ w \notin {x, y}
    OBVIOUS
  <2>2. r[x][y] = IF u \in {x, y} THEN 0 ELSE oGraph[x][y]
    BY <1>2
  <2> QED BY <2>1, <2>2
<1>4. Obj!RemoveVertex(r, w) = Obj!Without(u, w)
  BY <1>3 DEF Obj!RemoveVertex, Obj!Without
<1>5. Obj!Without(u, w) \in Obj!Matrices
  BY <1>1 DEF Obj!Without, Obj!Matrices
<1> QED BY <1>4, <1>5 DEF r

LEMMA PairsAreFinite ==
    ASSUME Obj!TypeOK
    PROVE  /\ IsFiniteSet(DonePairs) /\ \A g : IsFiniteSet(PairsOf(g))
           /\ DonePairs \subseteq Obj!V \X Obj!V
<1>1. IsFiniteSet(Obj!V)
  BY ObjGraphs, FS_Interval
<1>2. IsFiniteSet(Obj!V \X Obj!V)
  BY <1>1, FS_Product
<1>3. DonePairs \in SUBSET (Obj!V \X Obj!V)
  BY DEF DonePairs, Obj!Pairs
<1>4. IsFiniteSet(DonePairs)
  BY <1>2, <1>3, FS_Subset
<1>5. \A g : PairsOf(g) \in SUBSET DonePairs
  BY DEF PairsOf
<1> QED BY <1>3, <1>4, <1>5, FS_Subset

\* One turn of the loop: the pair is added or there is no new one.
LEMMA RemovePairCounts ==
    ASSUME Obj!TypeOK, PairsCounted, Obj!RemovePair
    PROVE  PairsCounted'
<1>1. /\ oPc = "pairs" /\ oI < N /\ oPc' = oPc /\ UNCHANGED <<oGraph, adjacent>>
  BY DEF Obj!RemovePair
<1>2. /\ N \in Nat \ {0} /\ Obj!V = 0..N-1 /\ oGraph \in Obj!Matrices
      /\ \A u \in Obj!V : oGraph[u][u] = 0
  BY ObjGraphs
<1>3. /\ oI \in Obj!V /\ oJ \in Obj!V /\ graphs \in Seq(Obj!Matrices) /\ adjacent \in BOOLEAN
  <2>1. oI \in 0..N /\ oJ \in Obj!V /\ graphs \in Seq(Obj!Matrices) /\ adjacent \in BOOLEAN
    BY <1>1 DEF Obj!TypeOK
  <2> QED BY <1>1, <1>2, <2>1
<1>4. /\ Len(graphs) = Cardinality(DonePairs)
      /\ \A g : Cardinality(CopiesOf(g)) = Cardinality(PairsOf(g))
  BY <1>1 DEF PairsCounted
<1> DEFINE p == <<oI, oJ>>
           new == Obj!Without(oI, oJ)
<1>5. p \in Obj!V \X Obj!V /\ p[1] = oI /\ p[2] = oJ
  BY <1>3
<1>6. Obj!Pairs' = Obj!Pairs /\ \A u, w : Obj!Without(u, w)' = Obj!Without(u, w)
  BY <1>1 DEF Obj!Pairs, Obj!Without
<1>7. Obj!Wanted <=> p \in Obj!Pairs
  <2>1. oGraph[oI][oJ] \in {0, 1}
    BY <1>2, <1>3 DEF Obj!Matrices
  <2>2. oI = oJ => oGraph[oI][oJ] = 0
    BY <1>2, <1>3
  <2>3. p \in Obj!Pairs <=> oI # oJ /\ (oGraph[oI][oJ] = 1 <=> adjacent)
    BY <1>5 DEF Obj!Pairs
  <2> QED BY <1>3, <2>1, <2>2, <2>3 DEF Obj!Wanted
<1>8. DonePairs' = DonePairs \cup (Obj!Pairs \cap {p})
  <2>1. ASSUME NEW q \in Obj!V \X Obj!V
        PROVE  (q[1] < oI' \/ (q[1] = oI' /\ q[2] < oJ')) <=> (q[1] < oI \/ (q[1] = oI /\ q[2] < oJ) \/ q = p)
    <3>1. PICK u \in Obj!V, w \in Obj!V : q = <<u, w>>
      BY <2>1
    <3>2. q[1] = u /\ q[2] = w /\ (q = p <=> u = oI /\ w = oJ)
      BY <3>1
    <3>3. \/ oJ + 1 < N /\ oJ' = oJ + 1 /\ oI' = oI
          \/ oJ + 1 = N /\ oJ' = 0 /\ oI' = oI + 1
      BY <1>2, <1>3 DEF Obj!RemovePair
    <3>4. u \in Nat /\ w \in Nat /\ w < N /\ oI \in Nat /\ oJ \in Nat
      BY <1>2, <1>3
    <3> HIDE DEF p
    <3> QED BY <3>2, <3>3, <3>4
  <2>2. Obj!Pairs \subseteq Obj!V \X Obj!V
    BY DEF Obj!Pairs
  <2> HIDE DEF p
  <2> QED BY <1>6, <2>1, <2>2 DEF DonePairs
<1>9. p \notin DonePairs
  <2>1. ~ (oI < oI) /\ ~ (oJ < oJ)
    BY <1>2, <1>3
  <2> QED BY <1>5, <2>1 DEF DonePairs
<1>10. \A g : PairsOf(g)' = {q \in DonePairs' : Obj!Without(q[1], q[2]) = g}
  BY <1>6 DEF PairsOf
<1>11. IsFiniteSet(DonePairs) /\ \A g : IsFiniteSet(PairsOf(g))
  BY PairsAreFinite
<1>12. CASE ~ Obj!Wanted
  <2>1. graphs' = graphs
    BY <1>12 DEF Obj!RemovePair
  <2>2. DonePairs' = DonePairs
    BY <1>7, <1>8, <1>12
  <2>3. \A g : PairsOf(g)' = PairsOf(g) /\ CopiesOf(g)' = CopiesOf(g)
    BY <1>10, <2>1, <2>2 DEF PairsOf, CopiesOf
  <2> QED BY <1>1, <1>4, <2>1, <2>2, <2>3 DEF PairsCounted
<1>13. CASE Obj!Wanted
  <2>1. graphs' = Append(graphs, new) /\ new \in Obj!Matrices
    BY <1>3, <1>13, BothRemoved DEF Obj!RemovePair
  <2>2. /\ Len(graphs') = Len(graphs) + 1 /\ graphs'[Len(graphs) + 1] = new
        /\ \A n \in 1..Len(graphs) : graphs'[n] = graphs[n]
    BY <1>3, <2>1, PutLast
  <2>3. Len(graphs) \in Nat
    BY <1>3, LenProperties
  <2>4. DonePairs' = DonePairs \cup {p}
    BY <1>7, <1>8, <1>13
  <2>5. Len(graphs') = Cardinality(DonePairs')
    <3> HIDE DEF p
    <3>1. Cardinality(DonePairs \cup {p}) = Cardinality(DonePairs) + 1
      BY <1>9, <1>11, FS_AddElement
    <3> QED BY <1>4, <2>2, <2>4, <3>1
  <2>6. ASSUME NEW g
        PROVE  Cardinality(CopiesOf(g)') = Cardinality(PairsOf(g)')
    <3>1. CASE g = new
      <4>1. PairsOf(g)' = PairsOf(g) \cup {p} /\ p \notin PairsOf(g)
        BY <1>5, <1>9, <1>10, <2>4, <3>1 DEF PairsOf
      <4>2. CopiesOf(g)' = CopiesOf(g) \cup {Len(graphs) + 1} /\ Len(graphs) + 1 \notin CopiesOf(g)
        BY <2>2, <2>3, <3>1 DEF CopiesOf
      <4>3. IsFiniteSet(CopiesOf(g))
        <5>1. CopiesOf(g) \in SUBSET (1..Len(graphs)) /\ IsFiniteSet(1..Len(graphs))
          BY <2>3, FS_Interval DEF CopiesOf
        <5> QED BY <5>1, FS_Subset
      <4>4. Cardinality(CopiesOf(g)') = Cardinality(CopiesOf(g)) + 1
        BY <4>2, <4>3, FS_AddElement
      <4>5. Cardinality(PairsOf(g)') = Cardinality(PairsOf(g)) + 1
        BY <1>11, <4>1, FS_AddElement
      <4> QED BY <1>4, <4>4, <4>5
    <3>2. CASE g # new
      <4>1. PairsOf(g)' = PairsOf(g)
        BY <1>5, <1>10, <2>4, <3>2 DEF PairsOf
      <4>2. CopiesOf(g)' = CopiesOf(g)
        BY <2>2, <2>3, <3>2 DEF CopiesOf
      <4> QED BY <1>4, <4>1, <4>2
    <3> QED BY <3>1, <3>2
  <2> QED BY <1>1, <2>5, <2>6 DEF PairsCounted
<1> QED BY <1>12, <1>13

-----------------------------------------------------------------------------
\* Every step on an object, and the three runs together.
ObjInv == Obj!TypeOK /\ PairsCounted

LEMMA ObjTypes ==
    ASSUME Obj!TypeOK, Obj!Next
    PROVE  Obj!TypeOK'
<1>0. N \in Nat \ {0} /\ Obj!V = 0..N-1 /\ 0 \in Obj!V /\ 0 \in 0..N
  BY ObjGraphs
<1>1. CASE Obj!DepthFirstSearchColoring
  BY <1>1 DEF Obj!TypeOK, Obj!DepthFirstSearchColoring, Obj!Verdict, Obj!Fields
<1>2. CASE Obj!ShowColoredGraph
  <2>1. shown' \in {"not colourable", "not coloured", coloredGraph}
    BY <1>2 DEF Obj!ShowColoredGraph
  <2> QED BY <1>2, <2>1 DEF Obj!TypeOK, Obj!ShowColoredGraph, Obj!fields
<1>3. CASE Obj!RemoveEveryPair
  <2>1. graphs' = <<>> /\ oI' = 0 /\ oJ' = 0 /\ adjacent' \in BOOLEAN /\ oPc' = "pairs"
        /\ UNCHANGED <<oGraph, edge3Colorable, isSnark, coloredGraph, answer, shown, k, answers, result>>
    BY <1>3 DEF Obj!RemoveEveryPair, Obj!fields
  <2>2. graphs' \in Seq(Obj!Matrices)
    BY <2>1
  <2> QED BY <1>0, <2>1, <2>2 DEF Obj!TypeOK
<1>4. CASE Obj!RemovePair
  <2>1. oI \in 0..N /\ oJ \in Obj!V /\ graphs \in Seq(Obj!Matrices)
    BY DEF Obj!TypeOK
  <2>2. oI < N /\ oI \in Obj!V
    BY <1>0, <1>4, <2>1 DEF Obj!RemovePair
  <2>3. oI' \in 0..N /\ oJ' \in Obj!V
    <3>1. \/ oJ + 1 < N /\ oJ' = oJ + 1 /\ oI' = oI
          \/ oJ' = 0 /\ oI' = oI + 1
      BY <1>4 DEF Obj!RemovePair
    <3> QED BY <1>0, <2>1, <2>2, <3>1
  <2>4. graphs' \in Seq(Obj!Matrices)
    <3>1. graphs' = graphs \/ graphs' = Append(graphs, Obj!Without(oI, oJ))
      BY <1>4, <2>1, <2>2, BothRemoved DEF Obj!RemovePair
    <3>2. Obj!Without(oI, oJ) \in Obj!Matrices
      BY <2>1, <2>2, BothRemoved
    <3> QED BY <2>1, <3>1, <3>2, AppendProperties
  <2> QED BY <1>4, <2>3, <2>4 DEF Obj!TypeOK, Obj!RemovePair, Obj!fields
<1>5. CASE Obj!PairsDone
  <2>1. oPc' \in {"idle", "test"} /\ k' = 1 /\ result' = TRUE /\ answers' = <<>>
        /\ UNCHANGED <<oGraph, edge3Colorable, isSnark, coloredGraph, answer, shown, graphs, adjacent, oI, oJ>>
    BY <1>5 DEF Obj!PairsDone, Obj!fields
  <2>2. answers' \in Seq({0, 1})
    BY <2>1
  <2> QED BY <2>1, <2>2 DEF Obj!TypeOK
<1>6. CASE Obj!TestGraph
  <2>1. PICK found \in {0, 1} : answers' = Append(answers, found)
    BY <1>6 DEF Obj!TestGraph
  <2>2. answers' \in Seq({0, 1}) /\ k + 1 \in Nat
    <3>1. answers \in Seq({0, 1}) /\ k \in Nat
      BY DEF Obj!TypeOK
    <3> QED BY <2>1, <3>1
  <2>3. result' \in BOOLEAN /\ k' = k + 1
        /\ UNCHANGED <<oGraph, edge3Colorable, isSnark, coloredGraph, answer, shown, graphs, adjacent, oI, oJ, oPc>>
    <3>1. \E s : result' = (result /\ s = "false")
      BY <1>6 DEF Obj!TestGraph
    <3> QED BY <1>6, <3>1 DEF Obj!TestGraph, Obj!fields
  <2> QED BY <2>2, <2>3 DEF Obj!TypeOK
<1>7. CASE Obj!TestCriticalityDone \/ Obj!BackToIdle
  BY <1>7 DEF Obj!TypeOK, Obj!TestCriticalityDone, Obj!BackToIdle, Obj!fields
<1> QED BY <1>1, <1>2, <1>3, <1>4, <1>5, <1>6, <1>7 DEF Obj!Next

\* The other actions keep the vector, or start it where no pair is done.
LEMMA PairsStayCounted ==
    ASSUME PairsCounted, UNCHANGED <<oGraph, graphs, adjacent, oI, oJ>>,
           oPc' \in {"pairs", "test"} => oPc \in {"pairs", "test"} /\ (oPc' = "test" => oI = N)
    PROVE  PairsCounted'
<1>1. DonePairs' = DonePairs
  BY DEF DonePairs, Obj!Pairs
<1>2. \A g : PairsOf(g)' = PairsOf(g) /\ CopiesOf(g)' = CopiesOf(g)
  BY <1>1 DEF PairsOf, CopiesOf, Obj!Without
<1> QED BY <1>1, <1>2 DEF PairsCounted

NoPairYet == graphs = <<>> /\ oI = 0 /\ oJ = 0 /\ oPc # "test"

LEMMA NoPairAtStart == NoPairYet => PairsCounted
<1> SUFFICES ASSUME NoPairYet PROVE PairsCounted
  OBVIOUS
<1> USE DEF NoPairYet
<1>0. N \in Nat /\ Obj!V = 0..N-1
  BY ObjectsAssumption DEF Obj!V
<1>1. DonePairs = {}
  <2> SUFFICES ASSUME NEW q \in DonePairs PROVE FALSE
    OBVIOUS
  <2>1. PICK u \in 0..N-1, w \in 0..N-1 : q = <<u, w>>
    BY <1>0 DEF DonePairs, Obj!Pairs
  <2> QED BY <1>0, <2>1 DEF DonePairs
<1>2. \A g : PairsOf(g) = {} /\ CopiesOf(g) = {}
  BY <1>1 DEF PairsOf, CopiesOf
<1>3. Cardinality({}) = 0
  BY FS_EmptySet
<1> QED BY <1>1, <1>2, <1>3 DEF PairsCounted

LEMMA ObjStep ==
    ASSUME ObjInv, Obj!Next
    PROVE  ObjInv'
<1>1. Obj!TypeOK'
  BY ObjTypes DEF ObjInv
<1>3. CASE Obj!RemovePair
  BY <1>1, <1>3, RemovePairCounts DEF ObjInv
<1>4. CASE Obj!RemoveEveryPair
  <2>1. NoPairYet'
    BY <1>4 DEF Obj!RemoveEveryPair, NoPairYet
  <2>2. PairsCounted'
    BY <2>1, NoPairAtStart, PTL
  <2> QED BY <1>1, <2>2 DEF ObjInv
<1>5. CASE Obj!DepthFirstSearchColoring \/ Obj!ShowColoredGraph \/ Obj!PairsDone
           \/ Obj!TestGraph \/ Obj!TestCriticalityDone \/ Obj!BackToIdle
  <2>1. PairsCounted
    BY DEF ObjInv
  <2>2. oPc = "test" => oI = N
    BY <2>1 DEF PairsCounted
  <2>3. /\ UNCHANGED <<oGraph, graphs, adjacent, oI, oJ>>
        /\ oPc' \in {"pairs", "test"} => oPc \in {"pairs", "test"} /\ (oPc' = "test" => oI = N)
    BY <1>5, <2>2
       DEF Obj!DepthFirstSearchColoring, Obj!ShowColoredGraph, Obj!PairsDone, Obj!TestGraph,
           Obj!TestCriticalityDone, Obj!BackToIdle, Obj!fields
  <2> QED BY <1>1, <2>1, <2>3, PairsStayCounted DEF ObjInv
<1> QED BY <1>3, <1>4, <1>5 DEF Obj!Next

LEMMA ObjStart ==
    ASSUME Obj!Init
    PROVE  ObjInv
<1>1. oGraph \in Objects /\ N \in Nat \ {0}
  BY ObjectsAssumption DEF Obj!Init
<1>2. Obj!TypeOK
  BY <1>1 DEF Obj!Init, Obj!TypeOK, Obj!V, Obj!Fields
<1>3. PairsCounted
  BY NoPairAtStart DEF Obj!Init, NoPairYet
<1> QED BY <1>2, <1>3 DEF ObjInv

LEMMA AllPairsRemoved ==
    ASSUME ObjInv
    PROVE  Obj!EveryPairRemoved
<1> SUFFICES ASSUME oPc = "test" \/ (oPc = "pairs" /\ oI = N)
             PROVE  /\ Len(graphs) = Cardinality(Obj!Pairs)
                    /\ \A g : Cardinality({n \in 1..Len(graphs) : graphs[n] = g})
                                = Cardinality({p \in Obj!Pairs : Obj!Without(p[1], p[2]) = g})
  BY ObjCardinality DEF Obj!EveryPairRemoved
<1>1. PairsCounted /\ oI = N
  BY DEF ObjInv, PairsCounted
<1>2. DonePairs = Obj!Pairs
  <2>1. N \in Nat \ {0} /\ Obj!V = 0..N-1
    BY ObjGraphs DEF ObjInv
  <2> SUFFICES ASSUME NEW q \in Obj!Pairs PROVE q[1] < oI
    BY DEF DonePairs
  <2>2. PICK u \in 0..N-1, w \in 0..N-1 : q = <<u, w>>
    BY <2>1 DEF Obj!Pairs
  <2> QED BY <1>1, <2>1, <2>2
<1> QED BY <1>1, <1>2 DEF PairsCounted, PairsOf, CopiesOf

-----------------------------------------------------------------------------
LEMMA G6Stays ==
    ASSUME G6Inv, UNCHANGED g6Vars
    PROVE  G6Inv'
<1>1. /\ size' = size /\ line' = line /\ bitsRead' = bitsRead /\ adjMatrix' = adjMatrix
      /\ reader' = reader /\ gSize' = gSize /\ gDegree' = gDegree /\ gPc' = gPc
      /\ gI' = gI /\ gJ' = gJ /\ border' = border /\ row' = row /\ column' = column
      /\ vertices' = vertices /\ edges' = edges
  BY DEF g6Vars
<1>2. G6!BitCount' = G6!BitCount /\ Filled' = Filled /\ \A n : G6!BitAt(n)' = G6!BitAt(n)
  BY <1>1 DEF G6!BitCount, Filled, G6!BitAt
<1>3. G6Types' /\ TriangleInv'
  BY <1>1, <1>2 DEF G6Inv, G6Types, TriangleInv
<1>4. Cells'
  BY <1>1, <1>2 DEF G6Inv, Cells
<1>5. Progress'
  BY <1>1 DEF G6Inv, Built, Progress
<1>6. VerticesFit'
  BY <1>1 DEF G6Inv, Built, VerticesFit, VertexFits
<1>7. EdgesFit'
  BY <1>1 DEF G6Inv, Built, EdgesFit, Scanned, FromCell
<1> QED BY <1>3, <1>4, <1>5, <1>6, <1>7 DEF G6Inv, Built

\* Whichever of the three runs.
WhichInv ==
    /\ which \in {"matrix", "g6", "object"}
    /\ which = "matrix" => MatrixInv /\ TextTypes
    /\ which = "g6" => G6Inv
    /\ which = "object" => ObjInv

LEMMA WhichStart == InitOne => WhichInv
  BY TextStart, G6Start, ObjStart DEF InitOne, WhichInv

LEMMA WhichStep == WhichInv /\ [NextOne]_<<which, vars, g6Vars, objVars>> => WhichInv'
<1> SUFFICES ASSUME WhichInv, [NextOne]_<<which, vars, g6Vars, objVars>> PROVE WhichInv'
  OBVIOUS
<1>1. CASE which = "matrix" /\ Next /\ UNCHANGED which
  BY <1>1, MatrixStep, TextStep DEF WhichInv
<1>2. CASE which = "g6" /\ G6!Next /\ UNCHANGED which
  BY <1>2, G6Step DEF WhichInv
<1>3. CASE which = "object" /\ Obj!Next /\ UNCHANGED which
  BY <1>3, ObjStep DEF WhichInv
<1>4. CASE UNCHANGED <<which, vars, g6Vars, objVars>>
  <2>1. UNCHANGED which /\ UNCHANGED vars /\ UNCHANGED g6Vars /\ UNCHANGED objVars
    BY <1>4
  <2>2. MatrixInv /\ TextTypes => MatrixInv' /\ TextTypes'
    BY <2>1 DEF vars, MatrixInv, TextTypes, TypeOK, Degrees
  <2>3. G6Inv => G6Inv'
    BY <2>1, G6Stays
  <2>4. ObjInv => ObjInv'
    <3> SUFFICES ASSUME ObjInv PROVE ObjInv'
      OBVIOUS
    <3>1. UNCHANGED <<oGraph, graphs, adjacent, oI, oJ, oPc>>
      BY <2>1 DEF objVars
    <3>2. Obj!TypeOK'
      BY <2>1 DEF objVars, ObjInv, Obj!TypeOK
    <3>3. PairsCounted'
      BY <3>1, PairsStayCounted DEF ObjInv, PairsCounted
    <3> QED BY <3>2, <3>3 DEF ObjInv
  <2> QED BY <2>1, <2>2, <2>3, <2>4 DEF WhichInv
<1> QED BY <1>1, <1>2, <1>3, <1>4 DEF NextOne

(***************************************************************************)
(* Whatever file, line or object: every variable of the reader that runs   *)
(* keeps its type; the readers never leave a cell, a size or a degree      *)
(* without a value, and no turn of the pairs' loop leaves its matrix.      *)
(***************************************************************************)
THEOREM SpecTypesOK == OneSpec => []TypesOK
<1>1. WhichInv => TypesOK
  BY G6Matrix DEF WhichInv, TextTypes, ObjInv, TypesOK
<1> QED BY <1>1, WhichStart, WhichStep, PTL DEF OneSpec

(***************************************************************************)
(* For a line of any size: when the bits are read, both cells of each pair *)
(* of vertices hold the pair's bit and all others are 0 (GraphFunctions.cpp*)
(* 83-105); when the graph is built, its vertices and edges are exactly    *)
(* those of the matrix, each edge once (133-160).                          *)
(***************************************************************************)
THEOREM SpecGraphIsMatrix == OneSpec => []GraphIsMatrix
<1>1. WhichInv => GraphIsMatrix
  <2> SUFFICES ASSUME WhichInv, which = "g6" PROVE G6!MatrixIsEncoded /\ G6!GraphIsMatrix
    BY DEF GraphIsMatrix
  <2>1. G6Inv
    BY DEF WhichInv
  <2> QED BY <2>1, G6Matrix, G6Graph DEF G6!GraphIsMatrix
<1> QED BY <1>1, WhichStart, WhichStep, PTL DEF OneSpec

(***************************************************************************)
(* For an object of any size: the vector that removeEveryAdjacentPair and  *)
(* removeEveryNotAdjacentPair return (OldGraph.cpp) has the graph without  *)
(* each such pair once for each of its two orders, and nothing else.       *)
(***************************************************************************)
THEOREM SpecEveryPairRemoved == OneSpec => []EveryPairRemoved
<1>1. WhichInv => EveryPairRemoved
  BY AllPairsRemoved DEF WhichInv, EveryPairRemoved
<1> QED BY <1>1, WhichStart, WhichStep, PTL DEF OneSpec

-----------------------------------------------------------------------------
(* The text reader finds the cells where they are. *)

\* The ends of lines, and the digits of the line, among the first n characters.
LineEnds(n) == {q \in 1..n : file[q] = NewLine}
DigitsOfLine(n) == {q \in 1..n : LineOf(q) = LineOf(n + 1) /\ IsDigit(file[q])}

LEMMA Counts ==
    ASSUME NEW n \in Nat
    PROVE  /\ LineOf(n + 1) = Cardinality(LineEnds(n)) /\ LineOf(n + 1) \in Nat
           /\ PlaceOf(n + 1) = Cardinality(DigitsOfLine(n)) /\ PlaceOf(n + 1) \in Nat
           /\ IsFiniteSet(LineEnds(n)) /\ IsFiniteSet(DigitsOfLine(n))
<1>1. (n + 1) - 1 = n
  OBVIOUS
<1>2. LineOf(n + 1) = Cardinality(LineEnds(n)) /\ PlaceOf(n + 1) = Cardinality(DigitsOfLine(n))
  BY <1>1 DEF LineOf, PlaceOf, LineEnds, DigitsOfLine
<1>3. IsFiniteSet(1..n)
  BY FS_Interval
<1>4. LineEnds(n) \in SUBSET (1..n) /\ DigitsOfLine(n) \in SUBSET (1..n)
  BY DEF LineEnds, DigitsOfLine
<1>5. IsFiniteSet(LineEnds(n)) /\ IsFiniteSet(DigitsOfLine(n))
  BY <1>3, <1>4, FS_Subset
<1> QED BY <1>2, <1>5, FS_CardinalityType

LEMMA FirstPlace == LineOf(0 + 1) = 0 /\ PlaceOf(0 + 1) = 0
<1>1. LineEnds(0) = {} /\ DigitsOfLine(0) = {}
  BY DEF LineEnds, DigitsOfLine
<1> QED BY <1>1, Counts, FS_EmptySet

LEMMA NextLineOf ==
    ASSUME NEW n \in Nat
    PROVE  LineOf((n + 1) + 1) = IF file[n + 1] = NewLine THEN LineOf(n + 1) + 1 ELSE LineOf(n + 1)
<1>0. n + 1 \in Nat /\ n + 1 \notin 1..n /\ 1..(n + 1) = (1..n) \cup {n + 1}
  OBVIOUS
<1>1. CASE file[n + 1] = NewLine
  <2>1. LineEnds(n + 1) = LineEnds(n) \cup {n + 1} /\ n + 1 \notin LineEnds(n)
    BY <1>0, <1>1 DEF LineEnds
  <2>2. Cardinality(LineEnds(n) \cup {n + 1}) = Cardinality(LineEnds(n)) + 1
    BY <2>1, Counts, FS_AddElement
  <2> QED BY <1>0, <1>1, <2>1, <2>2, Counts
<1>2. CASE file[n + 1] # NewLine
  <2>1. LineEnds(n + 1) = LineEnds(n)
    BY <1>0, <1>2 DEF LineEnds
  <2> QED BY <1>0, <1>2, <2>1, Counts
<1> QED BY <1>1, <1>2

LEMMA LinesAscend ==
    ASSUME NEW n \in Nat, NEW m \in Nat, m <= n
    PROVE  LineOf(m + 1) <= LineOf(n + 1)
<1>1. LineEnds(m) \in SUBSET LineEnds(n)
  BY DEF LineEnds
<1>2. IsFiniteSet(LineEnds(n)) /\ LineOf(m + 1) = Cardinality(LineEnds(m)) /\ LineOf(n + 1) = Cardinality(LineEnds(n))
  BY Counts
<1>3. Cardinality(LineEnds(m)) <= Cardinality(LineEnds(n))
  BY <1>1, <1>2, FS_Subset
<1> QED BY <1>2, <1>3

LEMMA NextPlaceOf ==
    ASSUME NEW n \in Nat
    PROVE  /\ file[n + 1] = NewLine => PlaceOf((n + 1) + 1) = 0
           /\ IsDigit(file[n + 1]) => PlaceOf((n + 1) + 1) = PlaceOf(n + 1) + 1
           /\ file[n + 1] # NewLine /\ ~ IsDigit(file[n + 1]) => PlaceOf((n + 1) + 1) = PlaceOf(n + 1)
<1>0. n + 1 \in Nat /\ n + 1 \notin 1..n /\ 1..(n + 1) = (1..n) \cup {n + 1}
  OBVIOUS
<1>1. CASE file[n + 1] = NewLine
  <2>1. ASSUME NEW q \in 1..n+1
        PROVE  LineOf(q) # LineOf((n + 1) + 1)
    <3>1. PICK m \in Nat : m + 1 = q /\ m <= n
      <4>1. q - 1 \in Nat /\ (q - 1) + 1 = q /\ q - 1 <= n
        OBVIOUS
      <4> QED BY <4>1
    <3>2. LineOf(q) <= LineOf(n + 1) /\ LineOf(q) \in Nat
      BY <3>1, LinesAscend, Counts
    <3>3. LineOf((n + 1) + 1) = LineOf(n + 1) + 1 /\ LineOf(n + 1) \in Nat
      BY <1>1, NextLineOf, Counts
    <3> QED BY <3>2, <3>3
  <2>2. DigitsOfLine(n + 1) = {}
    BY <2>1 DEF DigitsOfLine
  <2>3. PlaceOf((n + 1) + 1) = 0
    BY <1>0, <2>2, Counts, FS_EmptySet
  <2>4. ~ IsDigit(NewLine)
    BY DEF IsDigit, NewLine, Zero, One
  <2> QED BY <1>1, <2>3, <2>4
<1>2. CASE file[n + 1] # NewLine
  <2>1. LineOf((n + 1) + 1) = LineOf(n + 1)
    BY <1>2, NextLineOf
  <2>2. CASE IsDigit(file[n + 1])
    <3>1. DigitsOfLine(n + 1) = DigitsOfLine(n) \cup {n + 1} /\ n + 1 \notin DigitsOfLine(n)
      BY <1>0, <2>1, <2>2 DEF DigitsOfLine
    <3>2. Cardinality(DigitsOfLine(n) \cup {n + 1}) = Cardinality(DigitsOfLine(n)) + 1
      BY <3>1, Counts, FS_AddElement
    <3>3. PlaceOf((n + 1) + 1) = PlaceOf(n + 1) + 1
      BY <1>0, <3>1, <3>2, Counts
    <3> QED BY <1>2, <2>2, <3>3
  <2>3. CASE ~ IsDigit(file[n + 1])
    <3>1. DigitsOfLine(n + 1) = DigitsOfLine(n)
      BY <1>0, <2>1, <2>3 DEF DigitsOfLine
    <3>2. PlaceOf((n + 1) + 1) = PlaceOf(n + 1)
      BY <1>0, <3>1, Counts
    <3> QED BY <1>2, <2>3, <3>2
  <2> QED BY <2>2, <2>3
<1> QED BY <1>1, <1>2

\* Two digits are not at the same place.
LEMMA PlacesDiffer ==
    ASSUME NEW n \in Nat, NEW q \in 1..n, IsDigit(file[q]), LineOf(q) = LineOf(n + 1)
    PROVE  PlaceOf(q) # PlaceOf(n + 1)
<1>1. PICK m \in Nat : m + 1 = q /\ m < n
  <2>1. q - 1 \in Nat /\ (q - 1) + 1 = q /\ q - 1 < n
    OBVIOUS
  <2> QED BY <2>1
<1>2. DigitsOfLine(m) \cup {q} \in SUBSET DigitsOfLine(n) /\ q \notin DigitsOfLine(m)
  <2>1. \A r \in 1..m : r \in 1..n /\ r # q
    BY <1>1
  <2> QED BY <1>1, <2>1 DEF DigitsOfLine
<1>3. Cardinality(DigitsOfLine(m) \cup {q}) = Cardinality(DigitsOfLine(m)) + 1
  BY <1>2, Counts, FS_AddElement
<1>4. Cardinality(DigitsOfLine(m) \cup {q}) <= Cardinality(DigitsOfLine(n))
  <2>1. IsFiniteSet(DigitsOfLine(n))
    BY Counts
  <2> QED BY <1>2, <2>1, FS_Subset
<1>5. /\ PlaceOf(q) = Cardinality(DigitsOfLine(m)) /\ PlaceOf(q) \in Nat
      /\ PlaceOf(n + 1) = Cardinality(DigitsOfLine(n)) /\ PlaceOf(n + 1) \in Nat
  BY <1>1, Counts
<1> QED BY <1>3, <1>4, <1>5

\* The digit at p is in its cell, if the matrix has one for it.
CellRead(p) ==
    IsDigit(file[p]) /\ LineOf(p) < graphSize /\ PlaceOf(p) < graphSize =>
        graph[LineOf(p)][PlaceOf(p)] = IF file[p] = One THEN 1 ELSE 0

\* The reader is at the place that the lines and digits before it make.
AtPlace ==
    /\ LineOf(pos + 1) = i
    /\ IF j = graphSize THEN PlaceOf(pos + 1) >= graphSize ELSE PlaceOf(pos + 1) = j

NoLoopRead == \A v \in 0..graphSize-1 : graph[v][v] # 1

TextRead ==
    /\ file \in Seq({Zero, One, Blank, NewLine, Other}) /\ pos \in Nat
    /\ pc = "read" /\ graphSize > 0 =>
           AtPlace /\ NoLoopRead /\ \A p \in 1..pos : CellRead(p)
    /\ pc = "count" => returned = 0
    /\ ReadsWhatIsWritten

LEMMA Character ==
    ASSUME TextRead, c # EOF
    PROVE  pos < Len(file) /\ c = file[pos + 1] /\ c \in {Zero, One, Blank, NewLine, Other}
<1>1. pos < Len(file) /\ c = file[pos + 1]
  BY DEF c
<1>2. pos + 1 \in 1..Len(file)
  BY <1>1, LenProperties DEF TextRead
<1> QED BY <1>1, <1>2, ElementOfSeq DEF TextRead

LEMMA EndReached ==
    ASSUME TextRead, c = EOF
    PROVE  pos >= Len(file)
<1>1. Len(file) \in Nat /\ pos \in Nat
  BY LenProperties DEF TextRead
<1>2. CASE pos < Len(file)
  <2>1. pos + 1 \in 1..Len(file) /\ c = file[pos + 1]
    BY <1>1, <1>2 DEF c
  <2>2. c \in {Zero, One, Blank, NewLine, Other}
    BY <2>1, ElementOfSeq DEF TextRead
  <2> QED BY <2>2 DEF EOF, Zero, One, Blank, NewLine, Other
<1> QED BY <1>1, <1>2

\* A step within a file that is being read.
Reading ==
    /\ file' = file /\ graphSize' = graphSize /\ pc = "read" /\ pc' = "read"
    /\ pos' = pos + 1

LEMMA PlacesKept ==
    ASSUME file' = file
    PROVE  \A p : LineOf(p)' = LineOf(p) /\ PlaceOf(p)' = PlaceOf(p)
<1>1. \A p : LineOf(p)' = LineOf(p)
  BY DEF LineOf
<1> QED BY <1>1 DEF PlaceOf

LEMMA NextAtPlace ==
    ASSUME Reading, NEW n, n = pos + 1, LineOf(n + 1) = i',
           IF j' = graphSize THEN PlaceOf(n + 1) >= graphSize ELSE PlaceOf(n + 1) = j'
    PROVE  AtPlace'
<1>1. pos' = n /\ graphSize' = graphSize /\ LineOf(n + 1)' = LineOf(n + 1) /\ PlaceOf(n + 1)' = PlaceOf(n + 1)
  BY PlacesKept DEF Reading
<1> QED BY <1>1 DEF AtPlace

LEMMA NextCellRead ==
    ASSUME Reading, NEW p,
           IsDigit(file[p]) /\ LineOf(p) < graphSize /\ PlaceOf(p) < graphSize =>
               graph'[LineOf(p)][PlaceOf(p)] = IF file[p] = One THEN 1 ELSE 0
    PROVE  CellRead(p)'
  BY PlacesKept DEF CellRead, Reading, IsDigit

LEMMA OneFurther ==
    ASSUME TextRead, Reading, NEW n, n = pos + 1,
           graphSize > 0 => /\ AtPlace' /\ NoLoopRead'
                            /\ \A p \in 1..pos : CellRead(p)'
                            /\ CellRead(n)'
    PROVE  TextRead'
<1>1. pos \in Nat /\ pos' = pos + 1 /\ \A p \in 1..pos+1 : p \in 1..pos \/ p = n
  BY DEF TextRead, Reading
<1>2. graphSize > 0 => \A p \in 1..pos' : CellRead(p)'
  BY <1>1
<1>3. ReadsWhatIsWritten'
  BY DEF Reading, ReadsWhatIsWritten
<1>4. file' \in Seq({Zero, One, Blank, NewLine, Other}) /\ pos' \in Nat /\ pc' # "count" /\ graphSize' = graphSize
  BY <1>1 DEF TextRead, Reading
<1> QED BY <1>2, <1>3, <1>4 DEF TextRead

\* Nothing is stored.
LEMMA Passed ==
    ASSUME TextRead, Reading, graph' = graph, NEW n, n = pos + 1,
           graphSize > 0 => AtPlace' /\ CellRead(n)
    PROVE  TextRead'
<1>1. \A p : CellRead(p)' <=> CellRead(p)
  BY PlacesKept DEF CellRead, Reading, IsDigit
<1>2. NoLoopRead' <=> NoLoopRead
  BY DEF NoLoopRead, Reading
<1>3. graphSize > 0 => AtPlace /\ NoLoopRead /\ \A p \in 1..pos : CellRead(p)
  BY DEF TextRead, Reading
<1>4. graphSize > 0 => (\A p \in 1..pos : CellRead(p)')
  BY <1>1, <1>3
<1>5. graphSize > 0 => AtPlace' /\ NoLoopRead' /\ CellRead(n)'
  BY <1>1, <1>2, <1>3
<1> HIDE DEF AtPlace, NoLoopRead, CellRead
<1> QED BY <1>4, <1>5, OneFurther

LEMMA SkipRestReads ==
    ASSUME TextRead, MatrixInv, SkipRest
    PROVE  TextRead'
<1>1. /\ Reading /\ graph' = graph /\ j = graphSize /\ i' = i /\ j' = j /\ pos \in Nat
      /\ c # EOF /\ c # NewLine /\ graphSize \in Nat
  BY DEF SkipRest, Stay, Reading, TextRead, MatrixInv
<1>2. c = file[pos + 1]
  BY <1>1, Character
<1>3. ASSUME graphSize > 0
      PROVE  AtPlace' /\ CellRead(pos + 1)
  <2>1. LineOf(pos + 1) = i /\ PlaceOf(pos + 1) >= graphSize
    BY <1>1, <1>3 DEF TextRead, AtPlace, Reading
  <2>2. PlaceOf(pos + 1) \in Nat /\ PlaceOf((pos + 1) + 1) \in Nat
    <3>1. pos \in Nat /\ pos + 1 \in Nat
      BY <1>1
    <3>2. \A n \in Nat : PlaceOf(n + 1) \in Nat
      BY Counts
    <3> QED BY <3>1, <3>2
  <2>3. LineOf((pos + 1) + 1) = i
    BY <1>1, <1>2, <2>1, NextLineOf
  <2>4. PlaceOf((pos + 1) + 1) = PlaceOf(pos + 1) \/ PlaceOf((pos + 1) + 1) = PlaceOf(pos + 1) + 1
    BY <1>1, <1>2, NextPlaceOf
  <2>5. PlaceOf((pos + 1) + 1) >= graphSize
    BY <1>1, <2>1, <2>2, <2>4
  <2>6. AtPlace'
    BY <1>1, <2>3, <2>5, PlacesKept DEF AtPlace, Reading
  <2>7. ~ (PlaceOf(pos + 1) < graphSize)
    BY <1>1, <2>1, <2>2
  <2> QED BY <2>6, <2>7 DEF CellRead
<1>4. PICK n : n = pos + 1
  OBVIOUS
<1>5. graphSize > 0 => AtPlace' /\ CellRead(n)
  BY <1>3, <1>4
<1> QED BY <1>1, <1>4, <1>5, Passed

LEMMA SkipBlankReads ==
    ASSUME TextRead, MatrixInv, SkipBlank
    PROVE  TextRead'
<1>1. /\ Reading /\ graph' = graph /\ j # graphSize /\ i' = i /\ j' = j /\ pos \in Nat
      /\ c = Blank /\ graphSize \in Nat
  BY DEF SkipBlank, Stay, Reading, TextRead, MatrixInv
<1>2. file[pos + 1] = Blank /\ Blank # NewLine /\ ~ IsDigit(Blank)
  <2>1. Blank # EOF /\ Blank # NewLine /\ ~ IsDigit(Blank)
    BY DEF Blank, EOF, NewLine, IsDigit, Zero, One
  <2> QED BY <1>1, <2>1, Character
<1>3. ASSUME graphSize > 0
      PROVE  AtPlace' /\ CellRead(pos + 1)
  <2>1. LineOf(pos + 1) = i /\ PlaceOf(pos + 1) = j
    BY <1>1, <1>3 DEF TextRead, AtPlace, Reading
  <2>2. LineOf((pos + 1) + 1) = i
    BY <1>1, <1>2, <2>1, NextLineOf
  <2>3. PlaceOf((pos + 1) + 1) = j
    BY <1>1, <1>2, <2>1, NextPlaceOf
  <2>4. AtPlace'
    BY <1>1, <2>2, <2>3, PlacesKept DEF AtPlace, Reading
  <2> QED BY <1>2, <2>4 DEF CellRead
<1>4. PICK n : n = pos + 1
  OBVIOUS
<1>5. graphSize > 0 => AtPlace' /\ CellRead(n)
  BY <1>3, <1>4
<1> QED BY <1>1, <1>4, <1>5, Passed

LEMMA EndOfRowReads ==
    ASSUME TextRead, MatrixInv, EndOfRow
    PROVE  TextRead'
<1>1. /\ Reading /\ graph' = graph /\ i' = i + 1 /\ j' = 0 /\ pos \in Nat /\ i \in Nat
      /\ c = NewLine /\ graphSize \in Nat
  BY DEF EndOfRow, Stay, Reading, TextRead, MatrixInv
<1>2. file[pos + 1] = NewLine /\ ~ IsDigit(NewLine)
  <2>1. NewLine # EOF /\ ~ IsDigit(NewLine)
    BY DEF EOF, NewLine, IsDigit, Zero, One
  <2> QED BY <1>1, <2>1, Character
<1>3. ASSUME graphSize > 0
      PROVE  AtPlace' /\ CellRead(pos + 1)
  <2>1. LineOf(pos + 1) = i
    BY <1>1, <1>3 DEF TextRead, AtPlace, Reading
  <2>2. LineOf((pos + 1) + 1) = i + 1
    BY <1>1, <1>2, <2>1, NextLineOf
  <2>3. PlaceOf((pos + 1) + 1) = 0
    BY <1>1, <1>2, NextPlaceOf
  <2>4. AtPlace'
    BY <1>1, <1>3, <2>2, <2>3, PlacesKept DEF AtPlace, Reading
  <2> QED BY <1>2, <2>4 DEF CellRead
<1>4. PICK n : n = pos + 1
  OBVIOUS
<1>5. graphSize > 0 => AtPlace' /\ CellRead(n)
  BY <1>3, <1>4
<1> QED BY <1>1, <1>4, <1>5, Passed

\* The store of one cell of the square.
LEMMA StoreCell ==
    ASSUME NEW n \in Nat, NEW X, NEW g \in [0..n-1 -> [0..n-1 -> X]], NEW a \in 0..n-1, NEW b \in 0..n-1, NEW x,
           NEW u \in 0..n-1, NEW w \in 0..n-1
    PROVE  [g EXCEPT ![a][b] = x][u][w] = IF u = a /\ w = b THEN x ELSE g[u][w]
  OBVIOUS

LEMMA StoreReads ==
    ASSUME TextRead, MatrixInv, TextTypes, Store
    PROVE  TextRead'
<1> DEFINE x == IF c = Zero THEN 0 ELSE 1
<1>1. /\ Reading /\ graph' = [graph EXCEPT ![i][j] = x] /\ i' = i /\ j' = j + 1 /\ pos \in Nat
      /\ i \in Nat /\ j \in Nat /\ j # graphSize /\ graphSize \in Nat
      /\ c = Zero \/ (c = One /\ i # j)
      /\ graph \in [0..graphSize-1 -> [0..graphSize-1 -> {0, 1, Unset}]]
      /\ j <= graphSize /\ (graphSize = 0 \/ i < graphSize)
  BY DEF Store, Stay, Reading, TextRead, MatrixInv, TextTypes, TypeOK
<1>2. /\ file[pos + 1] = c /\ IsDigit(c) /\ c # NewLine
      /\ x = IF file[pos + 1] = One THEN 1 ELSE 0
  <2>1. c # EOF
    BY <1>1 DEF EOF, Zero, One
  <2>2. file[pos + 1] = c
    BY <2>1, Character
  <2> QED BY <1>1, <2>2 DEF IsDigit, Zero, One, NewLine
<1>0. PICK r : r = pos + 1
  OBVIOUS
<1>3. ASSUME graphSize > 0
      PROVE  /\ AtPlace' /\ NoLoopRead'
             /\ \A p \in 1..pos : CellRead(p)'
             /\ CellRead(r)'
  <2>0. i \in 0..graphSize-1 /\ j \in 0..graphSize-1
    BY <1>1, <1>3
  <2>1. LineOf(pos + 1) = i /\ PlaceOf(pos + 1) = j /\ NoLoopRead /\ \A p \in 1..pos : CellRead(p)
    BY <1>1, <1>3 DEF TextRead, AtPlace, Reading
  <2> HIDE DEF x
  <2>2. LineOf((pos + 1) + 1) = i
    BY <1>1, <1>2, <2>1, NextLineOf
  <2>3. PlaceOf((pos + 1) + 1) = j + 1
    BY <1>1, <1>2, <2>1, NextPlaceOf
  <2>4. AtPlace'
    <3>1. PICK n : n = pos + 1
      OBVIOUS
    <3>2. LineOf(n + 1) = i' /\ PlaceOf(n + 1) = j'
      BY <1>1, <2>2, <2>3, <3>1
    <3>3. IF j' = graphSize THEN PlaceOf(n + 1) >= graphSize ELSE PlaceOf(n + 1) = j'
      BY <1>1, <3>2
    <3> QED BY <1>1, <3>1, <3>2, <3>3, NextAtPlace
  <2>5. \A u, w \in 0..graphSize-1 : graph'[u][w] = IF u = i /\ w = j THEN x ELSE graph[u][w]
    BY <1>1, <2>0, StoreCell
  <2>6. NoLoopRead'
    <3>1. ASSUME NEW v \in 0..graphSize-1
          PROVE  graph'[v][v] # 1
      <4>1. CASE v = i /\ v = j
        <5>1. c = Zero
          BY <1>1, <4>1
        <5>2. x = 0
          BY <5>1 DEF x
        <5> QED BY <2>5, <4>1, <5>2
      <4>2. CASE ~ (v = i /\ v = j)
        BY <2>1, <2>5, <4>2 DEF NoLoopRead
      <4> QED BY <4>1, <4>2
    <3> QED BY <1>1, <3>1 DEF NoLoopRead, Reading
  <2>7. ASSUME NEW p \in 1..pos
        PROVE  CellRead(p)'
    <3> SUFFICES ASSUME IsDigit(file[p]), LineOf(p) < graphSize, PlaceOf(p) < graphSize
                 PROVE  graph'[LineOf(p)][PlaceOf(p)] = IF file[p] = One THEN 1 ELSE 0
      BY <1>1, NextCellRead
    <3>1. LineOf(p) \in Nat /\ PlaceOf(p) \in Nat
      <4>1. p - 1 \in Nat /\ (p - 1) + 1 = p
        OBVIOUS
      <4> QED BY <4>1, Counts
    <3>2. LineOf(p) \in 0..graphSize-1 /\ PlaceOf(p) \in 0..graphSize-1
      BY <1>1, <3>1
    <3>3. ~ (LineOf(p) = i /\ PlaceOf(p) = j)
      BY <1>1, <2>1, PlacesDiffer
    <3>4. graph'[LineOf(p)][PlaceOf(p)] = graph[LineOf(p)][PlaceOf(p)]
      BY <2>5, <3>2, <3>3
    <3> QED BY <2>1, <3>4 DEF CellRead
  <2>8. CellRead(r)'
    <3>1. graph'[i][j] = x
      BY <2>0, <2>5
    <3>2. graph'[LineOf(r)][PlaceOf(r)] = IF file[r] = One THEN 1 ELSE 0
      BY <1>0, <1>2, <2>1, <3>1
    <3> QED BY <1>1, <3>2, NextCellRead
  <2> QED BY <2>4, <2>6, <2>7, <2>8
<1> HIDE DEF x
<1> QED BY <1>0, <1>1, <1>3, OneFurther

LEMMA CountedReads ==
    ASSUME TextRead, MatrixInv, Counted
    PROVE  TextRead'
<1>1. /\ file' = file /\ graphSize' = graphSize /\ graphSize \in Nat /\ pos' = 0 /\ pc' = "read"
      /\ i = 0 /\ j = 0 /\ i' = i /\ j' = j
      /\ graph' = [u \in 0..graphSize-1 |-> [w \in 0..graphSize-1 |-> Unset]]
  BY DEF Counted, MatrixInv
<1>2. LineOf(0 + 1)' = 0 /\ PlaceOf(0 + 1)' = 0
  BY <1>1, PlacesKept, FirstPlace
<1>3. graphSize > 0 => AtPlace'
  BY <1>1, <1>2 DEF AtPlace
<1>4. NoLoopRead'
  BY <1>1 DEF NoLoopRead, Unset
<1>5. \A p \in 1..pos' : CellRead(p)'
  BY <1>1
<1>6. ReadsWhatIsWritten'
  BY <1>1 DEF ReadsWhatIsWritten
<1>7. file' \in Seq({Zero, One, Blank, NewLine, Other}) /\ pos' \in Nat /\ pc' # "count"
  BY <1>1 DEF TextRead
<1> QED BY <1>1, <1>3, <1>4, <1>5, <1>6, <1>7 DEF TextRead

\* All that is in the file has been read, or has no cell.
LEMMA AllRead ==
    ASSUME TextRead, pc = "read", graphSize \in Nat,
           graphSize > 0 => \A p \in 1..Len(file) : p \in 1..pos \/ ~ IsDigit(file[p]) \/ LineOf(p) >= graphSize
    PROVE  \A p \in 1..Len(file) : CellRead(p) 
<1> TAKE p \in 1..Len(file)
<1>1. LineOf(p) \in Nat
  <2>1. Len(file) \in Nat
    BY LenProperties DEF TextRead
  <2>2. p - 1 \in Nat /\ (p - 1) + 1 = p
    BY <2>1
  <2> QED BY <2>2, Counts
<1>2. CASE graphSize = 0
  BY <1>1, <1>2 DEF CellRead
<1>3. CASE graphSize > 0
  <2>1. CASE p \in 1..pos
    BY <1>3, <2>1 DEF TextRead
  <2>2. CASE ~ IsDigit(file[p]) \/ LineOf(p) >= graphSize
    <3>1. ~ (IsDigit(file[p]) /\ LineOf(p) < graphSize)
      BY <1>1, <2>2
    <3> QED BY <3>1 DEF CellRead
  <2> QED BY <1>3, <2>1, <2>2
<1> QED BY <1>2, <1>3

LEMMA DoneReads ==
    ASSUME TextRead, pc = "read", graphSize \in Nat, UNCHANGED <<file, pos, graphSize, graph>>, pc' = "done",
           graphSize > 0 => \A p \in 1..Len(file) : p \in 1..pos \/ ~ IsDigit(file[p]) \/ LineOf(p) >= graphSize
    PROVE  TextRead'
<1>1. \A p \in 1..Len(file) : CellRead(p)
  BY AllRead
<1>2. \A v \in 0..graphSize-1 : graph[v][v] # 1
  <2>1. CASE graphSize = 0
    BY <2>1
  <2>2. CASE graphSize > 0
    BY <2>2 DEF TextRead, NoLoopRead
  <2> QED BY <2>1, <2>2
<1>3. /\ \A p \in 1..Len(file) : CellRead(p)'
      /\ \A v \in 0..graphSize'-1 : graph'[v][v] # 1
  <2>1. \A p : CellRead(p)' <=> CellRead(p)
    BY PlacesKept DEF CellRead, IsDigit
  <2> QED BY <1>1, <1>2, <2>1
<1>4. ReadsWhatIsWritten'
  <2>1. file' = file
    OBVIOUS
  <2> QED BY <1>3, <2>1 DEF ReadsWhatIsWritten, CellRead
<1>5. file' \in Seq({Zero, One, Blank, NewLine, Other}) /\ pos' \in Nat /\ pc' \notin {"read", "count"}
  BY DEF TextRead
<1> QED BY <1>4, <1>5 DEF TextRead

LEMMA EndOfFileReads ==
    ASSUME TextRead, MatrixInv, EndOfFile
    PROVE  TextRead'
<1>1. /\ pc = "read" /\ pc' = "done" /\ c = EOF /\ graphSize \in Nat
      /\ UNCHANGED <<file, pos, graphSize, graph>>
  BY DEF EndOfFile, Done, MatrixInv
<1>2. pos >= Len(file) /\ Len(file) \in Nat /\ pos \in Nat
  BY <1>1, EndReached, LenProperties DEF TextRead
<1>3. \A p \in 1..Len(file) : p \in 1..pos
  BY <1>2
<1> QED BY <1>1, <1>3, DoneReads

LEMMA EndOfMatrixReads ==
    ASSUME TextRead, MatrixInv, EndOfMatrix
    PROVE  TextRead'
<1>1. /\ pc = "read" /\ pc' = "done" /\ c = NewLine /\ graphSize \in Nat /\ i + 1 = graphSize /\ i \in Nat
      /\ UNCHANGED <<file, pos, graphSize, graph>> /\ pos \in Nat
  BY DEF EndOfMatrix, Done, MatrixInv, TextRead
<1>2. file[pos + 1] = NewLine /\ ~ IsDigit(NewLine)
  <2>1. NewLine # EOF /\ ~ IsDigit(NewLine)
    BY DEF EOF, NewLine, IsDigit, Zero, One
  <2> QED BY <1>1, <2>1, Character
<1>3. LineOf(pos + 1) = i
  BY <1>1 DEF TextRead, AtPlace
<1>4. LineOf((pos + 1) + 1) = graphSize
  BY <1>1, <1>2, <1>3, NextLineOf
<1>5. ASSUME NEW p \in 1..Len(file), p \notin 1..pos, p # pos + 1
      PROVE  LineOf(p) >= graphSize
  <2>1. Len(file) \in Nat
    BY LenProperties DEF TextRead
  <2>2. PICK n \in Nat : n + 1 = p /\ pos + 1 <= n
    <3>1. p - 1 \in Nat /\ (p - 1) + 1 = p /\ pos + 1 <= p - 1
      BY <1>1, <1>5, <2>1
    <3> QED BY <3>1
  <2>3. PICK m \in Nat : m = pos + 1
    BY <1>1
  <2>4. LineOf(m + 1) <= LineOf(n + 1)
    BY <2>2, <2>3, LinesAscend
  <2>5. LineOf(n + 1) \in Nat
    BY Counts
  <2> QED BY <1>1, <1>4, <2>2, <2>3, <2>4, <2>5
<1>6. \A p \in 1..Len(file) : p \in 1..pos \/ ~ IsDigit(file[p]) \/ LineOf(p) >= graphSize
  BY <1>2, <1>5
<1> QED BY <1>1, <1>6, DoneReads

LEMMA TextReadStays ==
    ASSUME TextRead, UNCHANGED vars
    PROVE  TextRead'
<1>1. UNCHANGED <<file, pos, graphSize, graph, i, j, pc, returned>>
  BY DEF vars
<1>2. \A p : LineOf(p)' = LineOf(p) /\ PlaceOf(p)' = PlaceOf(p) /\ (CellRead(p)' <=> CellRead(p))
  BY <1>1, PlacesKept DEF CellRead, IsDigit
<1>3. AtPlace' <=> AtPlace
  <2>1. PICK n : n = pos + 1
    OBVIOUS
  <2>2. AtPlace <=> /\ LineOf(n) = i
                    /\ IF j = graphSize THEN PlaceOf(n) >= graphSize ELSE PlaceOf(n) = j
    BY <2>1 DEF AtPlace
  <2>3. AtPlace' <=> /\ LineOf(n) = i
                     /\ IF j = graphSize THEN PlaceOf(n) >= graphSize ELSE PlaceOf(n) = j
    BY <1>1, <1>2, <2>1 DEF AtPlace
  <2> QED BY <2>2, <2>3
<1>4. NoLoopRead' <=> NoLoopRead
  BY <1>1 DEF NoLoopRead
<1>5. ReadsWhatIsWritten' <=> ReadsWhatIsWritten
  BY <1>1, <1>2 DEF ReadsWhatIsWritten, IsDigit
<1> QED BY <1>1, <1>2, <1>3, <1>4, <1>5 DEF TextRead

LEMMA TextReadStep ==
    ASSUME TextRead, MatrixInv, TextTypes, Next
    PROVE  TextRead'
<1>1. CASE Count
  <2>1. file' = file /\ pc' = "count" /\ returned' = returned /\ returned = 0
    BY <1>1 DEF Count, TextRead
  <2>2. pos' \in Nat
    BY <1>1 DEF Count, TextRead
  <2> QED BY <2>1, <2>2 DEF TextRead, ReadsWhatIsWritten
<1>2. CASE Reject
  <2>1. UNCHANGED <<file, pos>> /\ pc' = "done" /\ returned' = -1
    BY <1>2 DEF Reject, Done
  <2> QED BY <2>1 DEF TextRead, ReadsWhatIsWritten
<1> QED BY <1>1, <1>2, CountedReads, SkipRestReads, EndOfFileReads, EndOfMatrixReads, EndOfRowReads,
           SkipBlankReads, StoreReads DEF Next

LEMMA TextReadStart ==
    ASSUME Init
    PROVE  TextRead
  BY FilesAssumption DEF Init, TextRead, ReadsWhatIsWritten

-----------------------------------------------------------------------------
(* The headers of graph6 lines. *)

\* The digits of a number of base 64 are taken one after the other.
NumberGrows(num, s, len) ==
    /\ num[0] = 0
    /\ \A r \in 1..len : num[r - 1] \in Int => num[r] = 64 * num[r - 1] + s[r]

LEMMA NumberFolds ==
    ASSUME NEW s \in Seq(Int)
    PROVE  \E num : NumberGrows(num, s, Len(s)) /\ FoldLeft(LAMBDA n, b : 64 * n + b, 0, s) = num[Len(s)]
<1> DEFINE len == Len(s)
           F(n, r) == 64 * n + s[r]
           g == [p \in Int \X (1..len) |-> F(p[1], p[2])]
           IsFold(it) == it = [t \in SUBSET (1..len) |-> IF t = {} THEN 0 ELSE F(it[t \ {Max(t)}], Max(t))]
<1>1. len \in Nat /\ DOMAIN s = 1..len
  BY LenProperties
<1>2. FoldLeft(LAMBDA n, b : 64 * n + b, 0, s) = (CHOOSE it : IsFold(it))[1..len]
  BY <1>1, SMT DEF FoldLeft, MapThenFoldSet
<1>3. \A x \in Int : \A r \in 1..len : F(x, r) \in Int
  BY <1>1, ElementOfSeq
<1> HIDE DEF F, len
<1>4. g \in [Int \X (1..len) -> Int] /\ \A x \in Int : \A r \in 1..len : g[<<x, r>>] = F(x, r)
  BY <1>3
<1> HIDE DEF g
<1>5. PICK it : FoldsUpTo(it, Int, len, 0, g)
  <2>1. PICK zero \in Int : zero = 0
    OBVIOUS
  <2>2. \E it : FoldsUpTo(it, Int, len, zero, g)
    BY <1>1, <1>4, FoldHasValues
  <2> QED BY <2>1, <2>2
<1>6. \A t \in SUBSET (1..len) : t # {} => Max(t) \in 1..len /\ t \ {Max(t)} \in SUBSET (1..len)
  BY <1>1, LargestIn
<1>7. IsFold(it)
  <2>1. ASSUME NEW t \in SUBSET (1..len)
        PROVE  it[t] = IF t = {} THEN 0 ELSE F(it[t \ {Max(t)}], Max(t))
    BY <1>4, <1>5, <1>6 DEF FoldsUpTo
  <2>2. it = [t \in SUBSET (1..len) |-> it[t]]
    BY <1>5 DEF FoldsUpTo
  <2> QED BY <2>1, <2>2
<1>8. PICK kt : IsFold(kt) /\ FoldLeft(LAMBDA n, b : 64 * n + b, 0, s) = kt[1..len]
  <2> HIDE DEF IsFold
  <2> QED BY <1>2, <1>7
<1>9. PICK num : num = [r \in 0..len |-> kt[1..r]]
  OBVIOUS
<1>10. num[0] = 0
  <2>1. 1..0 = {} /\ 0 \in 0..len
    BY <1>1
  <2> QED BY <1>8, <1>9, <2>1
<1>11. ASSUME NEW r \in 1..len
       PROVE  num[r] = F(num[r - 1], r)
  <2> HIDE DEF IsFold
  <2>1. len \in Nat /\ r \in Nat /\ 1 <= r /\ r <= len
    BY <1>1
  <2>2. 1..r \in SUBSET (1..len)
    BY <2>1
  <2>3. r \in 1..r
    BY <2>1
  <2>4. r - 1 \in 0..len /\ r \in 0..len
    BY <2>1
  <2>5. 1..r \in SUBSET (1..len) /\ 1..r # {} /\ r \in 1..r /\ r \in Nat /\ r - 1 \in 0..len /\ r \in 0..len
    BY <2>1, <2>2, <2>3, <2>4
  <2>6. (1..r) \ {r} = 1..(r - 1)
    BY <2>1
  <2>7. Max(1..r) = r
    <3>1. 1..r \in SUBSET (1..r)
      OBVIOUS
    <3> QED BY <2>5, <3>1, LargestIs
  <2>8. kt[1..r] = F(kt[(1..r) \ {Max(1..r)}], Max(1..r))
    BY <1>8, <2>5 DEF IsFold
  <2> QED BY <1>9, <2>5, <2>6, <2>7, <2>8
<1>12. num[len] = kt[1..len]
  BY <1>1, <1>9
<1>13. NumberGrows(num, s, len)
  BY <1>10, <1>11 DEF NumberGrows, F
<1> QED BY <1>8, <1>12, <1>13 DEF len

LEMMA NumberOfThree ==
    ASSUME NEW s \in Seq(Int), Len(s) = 3
    PROVE  FoldLeft(LAMBDA n, b : 64 * n + b, 0, s) = 64 * (64 * s[1] + s[2]) + s[3]
<1>1. PICK num : NumberGrows(num, s, 3) /\ FoldLeft(LAMBDA n, b : 64 * n + b, 0, s) = num[3]
  BY NumberFolds
<1>2. s[1] \in Int /\ s[2] \in Int /\ s[3] \in Int
  <2>1. \A r \in 1..3 : s[r] \in Int
    BY ElementOfSeq
  <2> QED BY <2>1
<1>3. num[0] = 0 /\ \A r \in 1..3 : num[r - 1] \in Int => num[r] = 64 * num[r - 1] + s[r]
  BY <1>1 DEF NumberGrows
<1>4. num[1] = s[1]
  <2>1. 1 \in 1..3 /\ 1 - 1 = 0 /\ num[0] \in Int
    BY <1>3
  <2>2. num[1] = 64 * num[0] + s[1]
    BY <1>3, <2>1
  <2> QED BY <1>2, <1>3, <2>2
<1>5. num[2] = 64 * s[1] + s[2]
  <2>1. 2 \in 1..3 /\ 2 - 1 = 1
    OBVIOUS
  <2> QED BY <1>2, <1>3, <1>4, <2>1
<1>6. num[3] = 64 * (64 * s[1] + s[2]) + s[3]
  <2>1. 3 \in 1..3 /\ 3 - 1 = 2
    OBVIOUS
  <2> QED BY <1>2, <1>3, <1>5, <2>1
<1> QED BY <1>1, <1>6

LEMMA NumberOfSix ==
    ASSUME NEW s \in Seq(Int), Len(s) = 6
    PROVE  FoldLeft(LAMBDA n, b : 64 * n + b, 0, s)
               = 64 * (64 * (64 * (64 * (64 * s[1] + s[2]) + s[3]) + s[4]) + s[5]) + s[6]
<1>1. PICK num : NumberGrows(num, s, 6) /\ FoldLeft(LAMBDA n, b : 64 * n + b, 0, s) = num[6]
  BY NumberFolds
<1>2. s[1] \in Int /\ s[2] \in Int /\ s[3] \in Int /\ s[4] \in Int /\ s[5] \in Int /\ s[6] \in Int
  <2>1. \A r \in 1..6 : s[r] \in Int
    BY ElementOfSeq
  <2> QED BY <2>1
<1>3. num[0] = 0 /\ \A r \in 1..6 : num[r - 1] \in Int => num[r] = 64 * num[r - 1] + s[r]
  BY <1>1 DEF NumberGrows
<1>4. /\ 1 \in 1..6 /\ 2 \in 1..6 /\ 3 \in 1..6 /\ 4 \in 1..6 /\ 5 \in 1..6 /\ 6 \in 1..6
      /\ 1 - 1 = 0 /\ 2 - 1 = 1 /\ 3 - 1 = 2 /\ 4 - 1 = 3 /\ 5 - 1 = 4 /\ 6 - 1 = 5
  OBVIOUS
<1>5. num[1] = s[1]
  <2>1. num[1] = 64 * num[0] + s[1]
    BY <1>3, <1>4
  <2> QED BY <1>2, <1>3, <2>1
<1>6. num[2] = 64 * s[1] + s[2]
  BY <1>2, <1>3, <1>4, <1>5
<1>7. PICK a \in Int : a = 64 * s[1] + s[2]
  BY <1>2
<1>8. num[3] = 64 * a + s[3]
  <2>1. num[2] \in Int /\ num[2] = a
    BY <1>6, <1>7
  <2> QED BY <1>3, <1>4, <2>1
<1>9. PICK b \in Int : b = 64 * a + s[3]
  BY <1>2
<1>10. num[4] = 64 * b + s[4]
  <2>1. num[3] \in Int /\ num[3] = b
    BY <1>8, <1>9
  <2> QED BY <1>3, <1>4, <2>1
<1>11. PICK d \in Int : d = 64 * b + s[4]
  BY <1>2
<1>12. num[5] = 64 * d + s[5]
  <2>1. num[4] \in Int /\ num[4] = d
    BY <1>10, <1>11
  <2> QED BY <1>3, <1>4, <2>1
<1>13. PICK e \in Int : e = 64 * d + s[5]
  BY <1>2
<1>14. num[6] = 64 * e + s[6]
  <2>1. num[5] \in Int /\ num[5] = e
    BY <1>12, <1>13
  <2> QED BY <1>3, <1>4, <2>1
<1> QED BY <1>1, <1>7, <1>9, <1>11, <1>13, <1>14

\* A line and its three parts.
HasParts(s, h, d, b) ==
    /\ s \in Seq(Int) /\ Len(s) = Len(h) + Len(d) + Len(b)
    /\ h \o d \in Seq(Int) /\ Len(h \o d) = Len(h) + Len(d)
    /\ \A r \in 1..Len(h) : s[r] = h[r]
    /\ \A r \in 1..Len(d) : s[Len(h) + r] = d[r]
    /\ \A r \in 1..Len(b) : s[Len(h) + Len(d) + r] = b[r]

LEMMA Parts ==
    ASSUME NEW h \in Seq(Int), NEW d \in Seq(Int), NEW b \in Seq(Int), NEW s, s = (h \o d) \o b
    PROVE  HasParts(s, h, d, b)
<1>1. Len(h) \in Nat /\ Len(d) \in Nat /\ Len(b) \in Nat
  BY LenProperties
<1>2. PICK x, y, z \in Nat : x = Len(h) /\ y = Len(d) /\ z = Len(b)
  BY <1>1
<1>3. PICK m : m = h \o d
  OBVIOUS
<1>4. m \in Seq(Int) /\ Len(m) = x + y /\ \A r \in 1..x + y : m[r] = IF r <= x THEN h[r] ELSE d[r - x]
  BY <1>2, <1>3, ConcatProperties
<1>5. s \in Seq(Int) /\ Len(s) = (x + y) + z
      /\ \A r \in 1..(x + y) + z : s[r] = IF r <= x + y THEN m[r] ELSE b[r - (x + y)]
  BY <1>2, <1>3, <1>4, ConcatProperties
<1>6. ASSUME NEW r \in 1..x PROVE s[r] = h[r]
  <2>1. r \in 1..x + y /\ r <= x /\ r \in 1..(x + y) + z /\ r <= x + y
    OBVIOUS
  <2>2. m[r] = h[r]
    BY <1>4, <2>1
  <2> QED BY <1>5, <2>1, <2>2
<1>7. ASSUME NEW r \in 1..y PROVE s[x + r] = d[r]
  <2>1. x + r \in 1..x + y /\ ~ (x + r <= x) /\ (x + r) - x = r /\ x + r \in 1..(x + y) + z /\ x + r <= x + y
    OBVIOUS
  <2>2. m[x + r] = d[r]
    BY <1>4, <2>1
  <2> QED BY <1>5, <2>1, <2>2
<1>8. ASSUME NEW r \in 1..z PROVE s[x + y + r] = b[r]
  <2>1. /\ x + y + r \in 1..(x + y) + z /\ ~ (x + y + r <= x + y) /\ (x + y + r) - (x + y) = r
    OBVIOUS
  <2> QED BY <1>5, <2>1
<1> QED BY <1>2, <1>3, <1>4, <1>5, <1>6, <1>7, <1>8 DEF HasParts

\* The digits of n, most significant first, cnt of them.
DigitsOf(n, cnt) == [d \in 1..cnt |-> (n \div 64 ^ (cnt - d)) % 64]

LEMMA ThreeDigits ==
    ASSUME NEW n \in Nat, NEW d, d = DigitsOf(n, 3)
    PROVE  /\ d \in Seq(Int) /\ Len(d) = 3
           /\ d[1] = (n \div 4096) % 64 /\ d[2] = (n \div 64) % 64 /\ d[3] = n % 64
<1>1. 64 ^ (3 - 1) = 4096 /\ 64 ^ (3 - 2) = 64 /\ 64 ^ (3 - 3) = 1 /\ n \div 1 = n
  BY SMT
<1>2. \A r \in 1..3 : r = 1 \/ r = 2 \/ r = 3
  BY SMT
<1>3. d[1] = (n \div 4096) % 64 /\ d[2] = (n \div 64) % 64 /\ d[3] = n % 64
  BY <1>1, SMT DEF DigitsOf
<1>4. d[1] \in Int /\ d[2] \in Int /\ d[3] \in Int
  BY <1>3, SMT
<1>5. \A r \in 1..3 : d[r] \in Int
  BY <1>2, <1>4
<1>6. d = [r \in 1..3 |-> d[r]]
  BY SMT DEF DigitsOf
<1>7. d \in [1..3 -> Int]
  BY <1>5, <1>6
<1>8. d \in Seq(Int)
  BY <1>7, SeqDef
<1>9. Len(d) = 3
  <2>1. DOMAIN d = 1..3 /\ Len(d) \in Nat /\ DOMAIN d = 1..Len(d)
    BY <1>7, <1>8, LenProperties
  <2> QED BY <2>1
<1> QED BY <1>3, <1>8, <1>9

SixDigitsAre(n, d) ==
    /\ d \in Seq(Int) /\ Len(d) = 6
    /\ d[1] = (n \div 1073741824) % 64 /\ d[2] = (n \div 16777216) % 64 /\ d[3] = (n \div 262144) % 64
    /\ d[4] = (n \div 4096) % 64 /\ d[5] = (n \div 64) % 64 /\ d[6] = n % 64

LEMMA SixDigits ==
    ASSUME NEW n \in Nat, NEW d, d = DigitsOf(n, 6)
    PROVE  SixDigitsAre(n, d)
<1>1. /\ 64 ^ (6 - 1) = 1073741824 /\ 64 ^ (6 - 2) = 16777216 /\ 64 ^ (6 - 3) = 262144
      /\ 64 ^ (6 - 4) = 4096 /\ 64 ^ (6 - 5) = 64 /\ 64 ^ (6 - 6) = 1 /\ n \div 1 = n
  BY SMT
<1>2. \A r \in 1..6 : r = 1 \/ r = 2 \/ r = 3 \/ r = 4 \/ r = 5 \/ r = 6
  BY SMT
<1>3. /\ d[1] = (n \div 1073741824) % 64 /\ d[2] = (n \div 16777216) % 64 /\ d[3] = (n \div 262144) % 64
      /\ d[4] = (n \div 4096) % 64 /\ d[5] = (n \div 64) % 64 /\ d[6] = n % 64
  BY <1>1, SMT DEF DigitsOf
<1>4. d[1] \in Int /\ d[2] \in Int /\ d[3] \in Int /\ d[4] \in Int /\ d[5] \in Int /\ d[6] \in Int
  BY <1>3, SMT
<1>5. \A r \in 1..6 : d[r] \in Int
  BY <1>2, <1>4
<1>6. d = [r \in 1..6 |-> d[r]]
  BY SMT DEF DigitsOf
<1>7. d \in [1..6 -> Int]
  BY <1>5, <1>6
<1>8. d \in Seq(Int)
  BY <1>7, SeqDef
<1>9. Len(d) = 6
  <2>1. DOMAIN d = 1..6 /\ Len(d) \in Nat /\ DOMAIN d = 1..Len(d)
    BY <1>7, <1>8, LenProperties
  <2> QED BY <2>1
<1> QED BY <1>3, <1>8, <1>9, SMT DEF SixDigitsAre

LEMMA ThreeDigitsMake ==
    ASSUME NEW n \in Sizes, n <= 258047
    PROVE  /\ 64 * (64 * ((n \div 4096) % 64) + ((n \div 64) % 64)) + (n % 64) = n
           /\ (n \div 4096) % 64 \in 0..62 /\ (n \div 64) % 64 \in Int /\ n % 64 \in Int
<1>1. n \in Nat
  BY SMT DEF Sizes
<1>2. (n \div 4096) % 64 = n \div 4096 /\ n \div 4096 \in 0..62
  BY <1>1, SMT
<1>3. 64 * (n \div 4096) + ((n \div 64) % 64) = n \div 64 /\ 64 * (n \div 64) + (n % 64) = n
  BY <1>1, SMT
<1>4. (n \div 64) % 64 \in Int /\ n % 64 \in Int
  BY <1>1, SMT
<1> QED BY <1>2, <1>3, <1>4, SMT

SixDigitsMake(n, a, b, d, e, f, g) == 64 * (64 * (64 * (64 * (64 * a + b) + d) + e) + f) + g = n

LEMMA SixDigitsMakeIt ==
    ASSUME NEW n \in Sizes,
           NEW a, a = (n \div 1073741824) % 64, NEW b, b = (n \div 16777216) % 64,
           NEW d, d = (n \div 262144) % 64, NEW e, e = (n \div 4096) % 64,
           NEW f, f = (n \div 64) % 64, NEW g, g = n % 64
    PROVE  SixDigitsMake(n, a, b, d, e, f, g)
<1>1. n \in Nat
  BY SMT DEF Sizes
<1>2. /\ a \in Int /\ b \in Int /\ d \in Int /\ e \in Int /\ f \in Int /\ g \in Int
  BY <1>1, SMT
<1>3. a = n \div 1073741824
  BY <1>1, SMT DEF Sizes
<1>4. 64 * a + b = n \div 16777216
  BY <1>1, <1>3, SMT
<1>5. 64 * (64 * a + b) + d = n \div 262144
  BY <1>1, <1>4, SMT
<1>6. 64 * (64 * (64 * a + b) + d) + e = n \div 4096
  BY <1>1, <1>5, SMT
<1>7. 64 * (64 * (64 * (64 * a + b) + d) + e) + f = n \div 64
  BY <1>1, <1>6, SMT
<1>8. 64 * (64 * (64 * (64 * (64 * a + b) + d) + e) + f) + g = n
  BY <1>1, <1>7, SMT
<1> QED BY <1>2, <1>8, SMT DEF SixDigitsMake

\* A part of a line.
LEMMA PartOf ==
    ASSUME NEW s \in Seq(Int), NEW a \in Nat \ {0}, NEW z \in Nat, a <= z + 1, z <= Len(s), NEW q, q = SubSeq(s, a, z)
    PROVE  q \in Seq(Int) /\ Len(q) = z - a + 1 /\ \A r \in 1..z - a + 1 : q[r] = s[a + r - 1]
<1>1. Len(s) \in Nat /\ a \in Int /\ z \in Int
  BY LenProperties
<1>2. \A r \in a..z : s[r] \in Int
  <2>1. \A r \in a..z : r \in 1..Len(s)
    BY <1>1
  <2> QED BY <2>1, ElementOfSeq
<1>3. q \in Seq(Int) /\ Len(q) = IF a <= z THEN z - a + 1 ELSE 0
  BY <1>1, <1>2, SubSeqProperties
<1>4. \A r \in 1..z - a + 1 : q[r] = s[a + r - 1]
  BY <1>1, <1>2, SubSeqProperties
<1>5. ~ (a <= z) => z - a + 1 = 0
  OBVIOUS
<1> QED BY <1>3, <1>4, <1>5

LEMMA ThreeAt ==
    ASSUME NEW s \in Seq(Int), NEW a \in Nat \ {0}, NEW z \in Nat, z = a + 2, z <= Len(s)
    PROVE  G6!Number(s, a, z) = 64 * (64 * s[a] + s[a + 1]) + s[a + 2]
<1>3. PICK q : q = SubSeq(s, a, z)
  OBVIOUS
<1>4. q \in Seq(Int) /\ Len(q) = z - a + 1
  BY <1>3, PartOf
<1>5. \A r \in 1..z - a + 1 : q[r] = s[a + r - 1]
  BY <1>3, PartOf
<1>6. Len(q) = 3 /\ z - a + 1 = 3 /\ a + 1 - 1 = a /\ a + 2 - 1 = a + 1 /\ a + 3 - 1 = a + 2
  BY <1>4
<1>7. q[1] = s[a] /\ q[2] = s[a + 1] /\ q[3] = s[a + 2]
  <2>1. \A r \in 1..3 : q[r] = s[a + r - 1]
    BY <1>5, <1>6
  <2>2. q[1] = s[a + 1 - 1] /\ q[2] = s[a + 2 - 1] /\ q[3] = s[a + 3 - 1]
    BY <2>1
  <2> QED BY <1>6, <2>2
<1>8. G6!Number(s, a, z) = FoldLeft(LAMBDA n, b : 64 * n + b, 0, q)
  BY <1>3, SMT DEF G6!Number, FoldLeft, MapThenFoldSet, G6!FoldLeft, G6!MapThenFoldSet, Max, G6!Max
<1> QED BY <1>4, <1>6, <1>7, <1>8, NumberOfThree

SixDigitNumber(s, a, z) ==
    G6!Number(s, a, z) =
        64 * (64 * (64 * (64 * (64 * s[a] + s[a + 1]) + s[a + 2]) + s[a + 3]) + s[a + 4]) + s[a + 5]

LEMMA SixAt ==
    ASSUME NEW s \in Seq(Int), NEW a \in Nat \ {0}, NEW z \in Nat, z = a + 5, z <= Len(s)
    PROVE  SixDigitNumber(s, a, z)
<1>3. PICK q : q = SubSeq(s, a, z)
  OBVIOUS
<1>4. q \in Seq(Int) /\ Len(q) = z - a + 1
  BY <1>3, PartOf
<1>5. \A r \in 1..z - a + 1 : q[r] = s[a + r - 1]
  BY <1>3, PartOf
<1>6. /\ Len(q) = 6 /\ z - a + 1 = 6 /\ a + 1 - 1 = a /\ a + 2 - 1 = a + 1 /\ a + 3 - 1 = a + 2
      /\ a + 4 - 1 = a + 3 /\ a + 5 - 1 = a + 4 /\ a + 6 - 1 = a + 5
  BY <1>4
<1>7. q[1] = s[a] /\ q[2] = s[a + 1] /\ q[3] = s[a + 2] /\ q[4] = s[a + 3] /\ q[5] = s[a + 4] /\ q[6] = s[a + 5]
  <2>1. \A r \in 1..6 : q[r] = s[a + r - 1]
    BY <1>5, <1>6
  <2>2. /\ q[1] = s[a + 1 - 1] /\ q[2] = s[a + 2 - 1] /\ q[3] = s[a + 3 - 1]
        /\ q[4] = s[a + 4 - 1] /\ q[5] = s[a + 5 - 1] /\ q[6] = s[a + 6 - 1]
    BY <2>1
  <2> QED BY <1>6, <2>2
<1>8. G6!Number(s, a, z) = FoldLeft(LAMBDA n, b : 64 * n + b, 0, q)
  BY <1>3, SMT DEF G6!Number, FoldLeft, MapThenFoldSet, G6!FoldLeft, G6!MapThenFoldSet, Max, G6!Max
<1> QED BY <1>4, <1>6, <1>7, <1>8, NumberOfSix DEF SixDigitNumber

\* What is behind the parts h and d of a line.
LEMMA Behind ==
    ASSUME NEW h \in Seq(Int), NEW d \in Seq(Int), NEW b \in Seq(Int), NEW s, s = (h \o d) \o b
    PROVE  SubSeq(s, Len(h \o d) + 1, Len(s)) = b
<1>1. Len(h) \in Nat /\ Len(d) \in Nat /\ Len(b) \in Nat
  BY LenProperties
<1>2. PICK x, y, z \in Nat : x = Len(h) /\ y = Len(d) /\ z = Len(b)
  BY <1>1
<1>3. /\ s \in Seq(Int) /\ Len(s) = x + y + z /\ Len(h \o d) = x + y
      /\ \A r \in 1..z : s[x + y + r] = b[r]
  BY <1>2, Parts DEF HasParts
<1>4. PICK m, n \in Nat : m = x + y + 1 /\ n = x + y + z
  BY <1>2
<1>5. m \in Nat \ {0} /\ m <= n + 1 /\ n <= Len(s)
  BY <1>3, <1>4
<1>6. PICK q : q = SubSeq(s, m, n)
  OBVIOUS
<1>7. q \in Seq(Int) /\ Len(q) = n - m + 1
  BY <1>3, <1>5, <1>6, PartOf
<1>8. \A r \in 1..n - m + 1 : q[r] = s[m + r - 1]
  BY <1>3, <1>5, <1>6, PartOf
<1>9. Len(q) = z /\ n - m + 1 = z
  BY <1>4, <1>7
<1>10. \A r \in 1..Len(q) : q[r] = b[r]
  <2> TAKE r \in 1..Len(q)
  <2>1. r \in 1..z /\ m + r - 1 = x + y + r
    BY <1>4, <1>9
  <2> QED BY <1>3, <1>8, <1>9, <2>1
<1>11. q = b
  BY <1>2, <1>7, <1>9, <1>10, SeqEqual
<1> QED BY <1>3, <1>4, <1>6, <1>11

\* The sizes with one digit more than bias, with three, with six.
Middle(n) == 62 < n /\ n <= 258047
Large(n) == 258047 < n

LEMMA MiddleDigits ==
    ASSUME NEW n \in Sizes, Middle(n), NEW d, d = DigitsOf(n, 3)
    PROVE  /\ d \in Seq(Int) /\ Len(d) = 3
           /\ 64 * (64 * d[1] + d[2]) + d[3] = n /\ d[1] \in 0..62
<1>1. n \in Nat /\ n <= 258047
  BY SMT DEF Sizes, Middle
<1>2. /\ d \in Seq(Int) /\ Len(d) = 3
      /\ d[1] = (n \div 4096) % 64 /\ d[2] = (n \div 64) % 64 /\ d[3] = n % 64
  BY <1>1, ThreeDigits, SMT
<1>3. /\ 64 * (64 * ((n \div 4096) % 64) + ((n \div 64) % 64)) + (n % 64) = n
      /\ (n \div 4096) % 64 \in 0..62
  BY <1>1, ThreeDigitsMake, SMT
<1>4. PICK x, y, z : x = (n \div 4096) % 64 /\ y = (n \div 64) % 64 /\ z = n % 64
  OBVIOUS
<1>5. 64 * (64 * x + y) + z = n /\ x \in 0..62
  BY <1>3, <1>4, SMTT(30)
<1>6. d \in Seq(Int) /\ Len(d) = 3 /\ d[1] = x /\ d[2] = y /\ d[3] = z
  BY <1>2, <1>4, Zenon
<1> QED BY <1>5, <1>6, Zenon

LEMMA LargeDigits ==
    ASSUME NEW n \in Sizes, NEW d, d = DigitsOf(n, 6)
    PROVE  /\ d \in Seq(Int) /\ Len(d) = 6
           /\ 64 * (64 * (64 * (64 * (64 * d[1] + d[2]) + d[3]) + d[4]) + d[5]) + d[6] = n
<1>1. n \in Nat
  BY SMT DEF Sizes
<1>2. SixDigitsAre(n, d)
  BY <1>1, SixDigits, SMT
<1>3. PICK u, v, w, x, y, z :
          /\ u = (n \div 1073741824) % 64 /\ v = (n \div 16777216) % 64 /\ w = (n \div 262144) % 64
          /\ x = (n \div 4096) % 64 /\ y = (n \div 64) % 64 /\ z = n % 64
  BY SMT
<1>4. SixDigitsMake(n, u, v, w, x, y, z)
  BY <1>3, SixDigitsMakeIt, SMT
<1>5. 64 * (64 * (64 * (64 * (64 * u + v) + w) + x) + y) + z = n
  BY <1>4, SMT DEF SixDigitsMake
<1>6. d[1] = u /\ d[2] = v /\ d[3] = w /\ d[4] = x /\ d[5] = y /\ d[6] = z
  BY <1>2, <1>3, SMT DEF SixDigitsAre
<1>7. d \in Seq(Int) /\ Len(d) = 6
  BY <1>2, SMT DEF SixDigitsAre
<1> QED BY <1>5, <1>6, <1>7, SMT

\* The header of a line makes the size that was written.
HeaderReads(n, b, s) ==
    /\ SizeBytes(n) \in Seq(Int)
    /\ G6!GetGraphSizeG6(s) = n
    /\ Len(SizeBytes(n)) = G6!HeaderLength(n)
    /\ SubSeq(s, G6!HeaderLength(n) + 1, Len(s)) = b

LEMMA ShortHeader ==
    ASSUME NEW n \in Nat, n <= 62, NEW b \in Seq(Int), NEW s, s = SizeBytes(n) \o b
    PROVE  HeaderReads(n, b, s)
<1>1. PICK h, e : h = <<n>> /\ e = <<>>
  OBVIOUS
<1>2. h \in Seq(Int) /\ Len(h) = 1 /\ h[1] = n
  BY <1>1, SMT
<1>3. SizeBytes(n) = h /\ s = h \o b
  BY <1>1, SMT DEF SizeBytes
<1>4. h \o e = h /\ e \in Seq(Int)
  BY <1>1, <1>2, ConcatEmptySeq
<1>5. s = (h \o e) \o b
  BY <1>3, <1>4
<1>6. SubSeq(s, Len(h) + 1, Len(s)) = b
  <2>1. SubSeq(s, Len(h \o e) + 1, Len(s)) = b
    BY <1>2, <1>4, <1>5, Behind
  <2> QED BY <1>4, <2>1
<1>7. s[1] = n
  <2>1. \A r \in 1..Len(h) : s[r] = h[r]
    <3>1. HasParts(s, h, e, b)
      BY <1>2, <1>4, <1>5, Parts
    <3> QED BY <3>1 DEF HasParts
  <2>2. 1 \in 1..Len(h)
    BY <1>2
  <2> QED BY <1>2, <2>1, <2>2
<1>8. G6!GetGraphSizeG6(s) = n
  <2>1. ~ (s[1] \in {-5, -25}) /\ s[1] <= 62
    BY <1>7
  <2> QED BY <1>7, <2>1 DEF G6!GetGraphSizeG6, G6!Colon, G6!Ampersand, G6!SmallN
<1>9. G6!HeaderLength(n) = 1
  BY SMT DEF G6!HeaderLength
<1> QED BY <1>2, <1>3, <1>6, <1>8, <1>9 DEF HeaderReads

LEMMA LongHeader ==
    ASSUME NEW n \in Sizes, Middle(n), NEW b \in Seq(Int), NEW s, s = SizeBytes(n) \o b
    PROVE  HeaderReads(n, b, s)
<1>0. n \in Nat
  BY SMT DEF Sizes
<1>1. PICK h, d : h = <<63>> /\ d = DigitsOf(n, 3)
  OBVIOUS
<1>2. h \in Seq(Int) /\ Len(h) = 1 /\ h[1] = 63
  BY <1>1, SMT
<1>3. /\ d \in Seq(Int) /\ Len(d) = 3
      /\ 64 * (64 * d[1] + d[2]) + d[3] = n /\ d[1] \in 0..62
  BY <1>1, MiddleDigits
<1>4. SizeBytes(n) = h \o d /\ s = (h \o d) \o b
  <2>1. ~ (n <= 62) /\ n <= 258047
    BY <1>0, SMT DEF Middle
  <2> QED BY <1>0, <1>1, <2>1, SMT DEF SizeBytes, DigitsOf
<1>5. /\ s \in Seq(Int) /\ Len(s) = 4 + Len(b) /\ Len(h \o d) = 4 /\ Len(b) \in Nat
      /\ s[1] = 63 /\ s[2] = d[1] /\ s[3] = d[2] /\ s[4] = d[3]
  <2>1. Len(b) \in Nat /\ 1 + 1 = 2 /\ 1 + 2 = 3 /\ 1 + 3 = 4
    BY LenProperties
  <2>2. /\ s \in Seq(Int) /\ Len(s) = Len(h) + Len(d) + Len(b) /\ Len(h \o d) = Len(h) + Len(d)
        /\ \A r \in 1..Len(h) : s[r] = h[r]
        /\ \A r \in 1..Len(d) : s[Len(h) + r] = d[r]
    <3>1. HasParts(s, h, d, b)
      BY <1>2, <1>3, <1>4, Parts
    <3> QED BY <3>1 DEF HasParts
  <2>3. /\ s \in Seq(Int) /\ Len(s) = 1 + 3 + Len(b) /\ Len(h \o d) = 1 + 3
        /\ \A r \in 1..1 : s[r] = h[r]
        /\ \A r \in 1..3 : s[1 + r] = d[r]
    BY <1>2, <1>3, <2>2
  <2>4. s[1] = h[1] /\ s[1 + 1] = d[1] /\ s[1 + 2] = d[2] /\ s[1 + 3] = d[3]
    BY <2>3
  <2> QED BY <1>2, <2>1, <2>3, <2>4
<1>6. G6!Number(s, 2, 4) = 64 * (64 * s[2] + s[3]) + s[4]
  <2>1. PICK a \in Nat \ {0}, z \in Nat : a = 2 /\ z = 4 /\ z = a + 2 /\ z <= Len(s)
    BY <1>5
  <2>2. G6!Number(s, a, z) = 64 * (64 * s[a] + s[a + 1]) + s[a + 2]
    BY <1>5, <2>1, ThreeAt
  <2>3. a + 1 = 3 /\ a + 2 = 4
    BY <2>1
  <2> QED BY <2>1, <2>2, <2>3
<1>7. 64 * (64 * s[2] + s[3]) + s[4] = n /\ s[2] \in 0..62
  BY <1>3, <1>5
<1>8. G6!GetGraphSizeG6(s) = n
  <2>1. s[1] = 63 /\ s[2] \in 0..62
    BY <1>5, <1>7
  <2>2. PICK y \in 0..62 : y = s[2]
    BY <2>1
  <2>3. ~ (63 \in {-5, -25}) /\ ~ (63 <= 62) /\ y <= 62
    OBVIOUS
  <2>4. ~ (s[1] \in {-5, -25}) /\ ~ (s[1] <= 62) /\ s[2] <= 62
    BY <2>1, <2>2, <2>3
  <2>5. G6!Number(s, 2, 4) = n
    BY <1>6, <1>7, Zenon
  <2>6. 1 + 1 = 2 /\ 1 + 3 = 4
    OBVIOUS
  <2>7. G6!Number(s, 1 + 1, 1 + 3) = n /\ s[1 + 1] <= 62
    BY <2>4, <2>6, <2>5
  <2> QED BY <2>4, <2>7 DEF G6!GetGraphSizeG6, G6!Colon, G6!Ampersand, G6!SmallN
<1>9. G6!HeaderLength(n) = 4
  BY <1>0, SMT DEF G6!HeaderLength, Middle
<1>10. SubSeq(s, Len(h \o d) + 1, Len(s)) = b
  BY <1>2, <1>3, <1>4, Behind
<1>11. h \o d \in Seq(Int)
  BY <1>2, <1>3, ConcatProperties
<1> QED BY <1>4, <1>5, <1>8, <1>9, <1>10, <1>11 DEF HeaderReads

LEMMA LongestHeader ==
    ASSUME NEW n \in Sizes, Large(n), NEW b \in Seq(Int), NEW s, s = SizeBytes(n) \o b
    PROVE  HeaderReads(n, b, s)
<1>0. n \in Nat
  BY SMT DEF Sizes
<1>1. PICK h, d : h = <<63, 63>> /\ d = DigitsOf(n, 6)
  OBVIOUS
<1>2. h \in Seq(Int) /\ Len(h) = 2 /\ h[1] = 63 /\ h[2] = 63
  BY <1>1, SMT
<1>3. /\ d \in Seq(Int) /\ Len(d) = 6
      /\ 64 * (64 * (64 * (64 * (64 * d[1] + d[2]) + d[3]) + d[4]) + d[5]) + d[6] = n
  BY <1>1, LargeDigits
<1>4. SizeBytes(n) = h \o d /\ s = (h \o d) \o b
  <2>1. ~ (n <= 62) /\ ~ (n <= 258047)
    BY <1>0, SMT DEF Large
  <2>2. SizeBytes(n) = <<63, 63>> \o [r \in 1..6 |-> (n \div 64 ^ (6 - r)) % 64]
    BY <2>1, SMTT(30) DEF SizeBytes
  <2>3. d = [r \in 1..6 |-> (n \div 64 ^ (6 - r)) % 64]
    BY <1>1, Zenon DEF DigitsOf
  <2> QED BY <1>1, <2>2, <2>3
<1>5. /\ s \in Seq(Int) /\ Len(s) = 8 + Len(b) /\ Len(h \o d) = 8 /\ Len(b) \in Nat
      /\ s[1] = 63 /\ s[2] = 63
      /\ s[3] = d[1] /\ s[4] = d[2] /\ s[5] = d[3] /\ s[6] = d[4] /\ s[7] = d[5] /\ s[8] = d[6]
  <2>1. /\ Len(b) \in Nat
        /\ 2 + 1 = 3 /\ 2 + 2 = 4 /\ 2 + 3 = 5 /\ 2 + 4 = 6 /\ 2 + 5 = 7 /\ 2 + 6 = 8
    BY LenProperties
  <2>2. /\ s \in Seq(Int) /\ Len(s) = Len(h) + Len(d) + Len(b) /\ Len(h \o d) = Len(h) + Len(d)
        /\ \A r \in 1..Len(h) : s[r] = h[r]
        /\ \A r \in 1..Len(d) : s[Len(h) + r] = d[r]
    <3>1. HasParts(s, h, d, b)
      BY <1>2, <1>3, <1>4, Parts
    <3> QED BY <3>1 DEF HasParts
  <2>3. /\ s \in Seq(Int) /\ Len(s) = 2 + 6 + Len(b) /\ Len(h \o d) = 2 + 6
        /\ \A r \in 1..2 : s[r] = h[r]
        /\ \A r \in 1..6 : s[2 + r] = d[r]
    BY <1>2, <1>3, <2>2
  <2>4. /\ s[1] = h[1] /\ s[2] = h[2]
        /\ s[2 + 1] = d[1] /\ s[2 + 2] = d[2] /\ s[2 + 3] = d[3]
        /\ s[2 + 4] = d[4] /\ s[2 + 5] = d[5] /\ s[2 + 6] = d[6]
    BY <2>3
  <2> QED BY <1>2, <2>1, <2>3, <2>4
<1>6. G6!Number(s, 3, 8) = 64 * (64 * (64 * (64 * (64 * s[3] + s[4]) + s[5]) + s[6]) + s[7]) + s[8]
  <2>1. PICK a \in Nat \ {0}, z \in Nat : a = 3 /\ z = 8 /\ z = a + 5 /\ z <= Len(s)
    BY <1>5
  <2>2. G6!Number(s, a, z) =
            64 * (64 * (64 * (64 * (64 * s[a] + s[a + 1]) + s[a + 2]) + s[a + 3]) + s[a + 4]) + s[a + 5]
    <3>1. SixDigitNumber(s, a, z)
      BY <1>5, <2>1, SixAt
    <3> QED BY <3>1 DEF SixDigitNumber
  <2>3. a + 1 = 4 /\ a + 2 = 5 /\ a + 3 = 6 /\ a + 4 = 7 /\ a + 5 = 8
    BY <2>1
  <2> QED BY <2>1, <2>2, <2>3
<1>7. 64 * (64 * (64 * (64 * (64 * s[3] + s[4]) + s[5]) + s[6]) + s[7]) + s[8] = n
  BY <1>3, <1>5
<1>8. G6!GetGraphSizeG6(s) = n
  <2>1. ~ (s[1] \in {-5, -25}) /\ ~ (s[1] <= 62) /\ ~ (s[2] <= 62)
    BY <1>5
  <2>2. G6!Number(s, 3, 8) = n
    BY <1>6, <1>7, Zenon
  <2>3. 1 + 1 = 2 /\ 1 + 2 = 3 /\ 1 + 7 = 8
    OBVIOUS
  <2>4. G6!Number(s, 1 + 2, 1 + 7) = n /\ ~ (s[1 + 1] <= 62)
    BY <2>1, <2>3, <2>2
  <2> QED BY <2>1, <2>4 DEF G6!GetGraphSizeG6, G6!Colon, G6!Ampersand, G6!SmallN
<1>9. G6!HeaderLength(n) = 8
  BY <1>0, SMT DEF G6!HeaderLength, Large
<1>10. SubSeq(s, Len(h \o d) + 1, Len(s)) = b
  BY <1>2, <1>3, <1>4, Behind
<1>11. h \o d \in Seq(Int)
  BY <1>2, <1>3, ConcatProperties
<1> QED BY <1>4, <1>5, <1>8, <1>9, <1>10, <1>11 DEF HeaderReads

LEMMA HeaderIs ==
    ASSUME NEW n \in Sizes, NEW b \in Seq(Int), NEW s, s = SizeBytes(n) \o b
    PROVE  HeaderReads(n, b, s)
<1>1. n \in Nat /\ (n <= 62 \/ Middle(n) \/ Large(n))
  BY SMT DEF Sizes, Middle, Large
<1> QED BY <1>1, ShortHeader, LongHeader, LongestHeader

LEMMA LineIsHeaded ==
    ASSUME NEW s \in G6Lines, NEW n, n = G6!GetGraphSizeG6(s)
    PROVE  s = SizeBytes(n) \o SubSeq(s, G6!HeaderLength(n) + 1, Len(s))
<1>1. s \in Seq(Int) /\ Len(s) \in Nat
  BY LinesAssumption, LenProperties
<1>2. PICK m \in 0..M, cut \in 1..Len(s) : SubSeq(s, 1, cut) = SizeBytes(m)
  BY SizesAssumption
<1>3. m \in Sizes
  BY SizesAssumption, SMT DEF Sizes
<1>4. PICK b : b = SubSeq(s, cut + 1, Len(s))
  OBVIOUS
<1>5. b \in Seq(Int)
  <2>1. cut + 1 \in Nat \ {0} /\ cut + 1 <= Len(s) + 1 /\ Len(s) <= Len(s)
    BY <1>1
  <2> QED BY <1>1, <1>4, <2>1, PartOf
<1>6. s = SizeBytes(m) \o b
  <2>1. 1 \in 1..Len(s) + 1 /\ cut \in (1 - 1)..Len(s) /\ Len(s) \in cut..Len(s)
    BY <1>1
  <2>2. SubSeq(s, 1, cut) \o SubSeq(s, cut + 1, Len(s)) = SubSeq(s, 1, Len(s))
    BY <1>1, <2>1, ConcatAdjacentSubSeq
  <2>3. SubSeq(s, 1, Len(s)) = s
    BY <1>1, SubSeqFull
  <2> QED BY <1>2, <1>4, <2>2, <2>3
<1>7. HeaderReads(m, b, s)
  BY <1>3, <1>5, <1>6, HeaderIs
<1>8. m = n /\ b = SubSeq(s, G6!HeaderLength(n) + 1, Len(s))
  BY <1>7 DEF HeaderReads
<1> QED BY <1>6, <1>8

LEMMA SizeIsHeader ==
    ASSUME NEW n \in SizesLong
    PROVE  G6!GetGraphSizeG6(SizeBytes(n)) = n /\ G6!HeaderLength(n) = Len(SizeBytes(n))
<1>1. n \in Sizes
  BY SizesAssumption
<1>2. PICK b, s : b = <<>> /\ s = SizeBytes(n) \o b
  OBVIOUS
<1>3. b \in Seq(Int)
  BY <1>2
<1>4. HeaderReads(n, b, s)
  BY <1>1, <1>2, <1>3, HeaderIs
<1>5. s = SizeBytes(n)
  BY <1>2, <1>4, ConcatEmptySeq DEF HeaderReads
<1> QED BY <1>4, <1>5 DEF HeaderReads

\* The size stays the one of the line.
G6Headed == line \in G6Lines /\ size = G6!GetGraphSizeG6(line)

LEMMA G6LineStays ==
    ASSUME G6!Next
    PROVE  UNCHANGED <<line, size>>
<1>1. CASE G6!StoreBit \/ G6!StoreOutside \/ G6!BitsDone
  BY <1>1 DEF G6!StoreBit, G6!StoreOutside, G6!BitsDone, G6!BuildUnchanged
<1>2. CASE G6!BuildCell \/ G6!BuildDone \/ G6!ObjectDone
  BY <1>2 DEF G6!BuildCell, G6!BuildDone, G6!ObjectDone
<1> QED BY <1>1, <1>2 DEF G6!Next

ReadInv ==
    /\ which \in {"matrix", "g6", "object"}
    /\ which = "matrix" => TextRead
    /\ which = "g6" => G6Headed

LEMMA ReadStart == InitOne => ReadInv
<1>1. G6!Init => G6Headed
  BY DEF G6!Init, G6Headed
<1> QED BY <1>1, TextReadStart DEF InitOne, ReadInv

LEMMA ReadStep == WhichInv /\ ReadInv /\ [NextOne]_<<which, vars, g6Vars, objVars>> => ReadInv'
<1> SUFFICES ASSUME WhichInv, ReadInv, [NextOne]_<<which, vars, g6Vars, objVars>> PROVE ReadInv'
  OBVIOUS
<1>1. CASE which = "matrix" /\ Next /\ UNCHANGED which
  <2>1. TextRead'
    BY <1>1, TextReadStep DEF WhichInv, ReadInv
  <2> QED BY <1>1, <2>1 DEF ReadInv
<1>2. CASE which = "g6" /\ G6!Next /\ UNCHANGED which
  <2>1. G6Headed'
    BY <1>2, G6LineStays DEF ReadInv, G6Headed
  <2> QED BY <1>2, <2>1 DEF ReadInv
<1>3. CASE which = "object" /\ UNCHANGED which
  BY <1>3 DEF ReadInv
<1>4. CASE UNCHANGED <<which, vars, g6Vars, objVars>>
  <2>1. UNCHANGED which /\ UNCHANGED vars /\ UNCHANGED g6Vars
    BY <1>4
  <2>2. TextRead => TextRead'
    BY <2>1, TextReadStays
  <2>3. G6Headed => G6Headed'
    BY <2>1 DEF g6Vars, G6Headed
  <2> QED BY <2>1, <2>2, <2>3 DEF ReadInv
<1> QED BY <1>1, <1>2, <1>3, <1>4 DEF NextOne

(***************************************************************************)
(* What is read is what is written: the cells of every matrix that is      *)
(* accepted are the digits at their places in the file, whatever is around *)
(* them (OldGraph.cpp 136-200), and the size of a graph6 line is the one   *)
(* its header encodes in one, four or eight characters, for every size     *)
(* that an int holds (GraphFunctions.cpp 53-60 and 177-206).               *)
(***************************************************************************)
THEOREM SpecReadAsWritten == OneSpec => []ReadAsWritten
<1>1. ReadInv => ReadAsWritten
  <2> SUFFICES ASSUME ReadInv PROVE ReadAsWritten
    OBVIOUS
  <2>1. which = "matrix" => ReadsWhatIsWritten
    BY DEF ReadInv, TextRead
  <2>2. which = "g6" => line = SizeBytes(size) \o SubSeq(line, G6!HeaderLength(size) + 1, Len(line))
    BY LineIsHeaded DEF ReadInv, G6Headed
  <2>3. \A n \in SizesLong : G6!GetGraphSizeG6(SizeBytes(n)) = n /\ G6!HeaderLength(n) = Len(SizeBytes(n))
    BY SizeIsHeader
  <2> QED BY <2>1, <2>2, <2>3 DEF ReadAsWritten
<1>2. WhichInv /\ ReadInv /\ [NextOne]_<<which, vars, g6Vars, objVars>> => WhichInv' /\ ReadInv'
  BY WhichStep, ReadStep
<1> QED BY <1>1, <1>2, WhichStart, ReadStart, PTL DEF OneSpec
=============================================================================
