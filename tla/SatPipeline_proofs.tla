-------------------------- MODULE SatPipeline_proofs --------------------------
(***************************************************************************)
(* What doSATSolve3COL and glucoseSimpFromFile return and leave in the     *)
(* result file is right for every file and whatever signal comes when: the *)
(* invariant follows the answer from the solver to the buffer of the file, *)
(* to the file and to the return value, which are steps of their own.      *)
(* The line graph that doSATSolve3COL colours is one: the invariant says   *)
(* it of the pairs of edges compared so far.  And the formula says that it *)
(* can be coloured: the invariant lists the clauses added so far.  The last*)
(* part is about types: every edge that is looked up has a place, and every*)
(* literal is of a variable that was made.                                 *)
(***************************************************************************)
EXTENDS SatPipeline, SequenceLemmas, FiniteSetTheorems, TLAPS

Over == {"returned", "dead"}

\* Before the end nothing has arrived in the file and nothing is returned.
NothingYet ==
    /\ pc \notin Over => exitCode = -1 /\ disk = Nothing /\ res # "closed"
    /\ pc \notin Over \cup {"write", "close"} => answer = "none"
    /\ pc \notin Over \cup {"close"} => buffer = Nothing

\* From the solver on the answer fits the formula.
AnswerFits ==
    pc \in {"write", "close"} => (answer = "sat" => models # {}) /\ (answer = "unsat" => models = {})

\* What was printed is the answer, if the file is there.
BufferFits ==
    pc = "close" /\ res = "open" =>
        /\ answer = "sat" => \E m \in models : buffer = <<"model", m>>
        /\ answer = "unsat" => buffer = Unsat
        /\ answer \notin {"sat", "unsat"} => buffer = Nothing

Inv == DriverTypeOK /\ NothingYet /\ AnswerFits /\ BufferFits /\ AnswerIsWritten

\* The steps of the driver itself, with or without a signal.
LEMMA DriveKeepsInv ==
    ASSUME Inv, Drive
    PROVE  Inv'
<1> USE DEF Inv, DriverTypeOK, NothingYet, AnswerFits, BufferFits, AnswerIsWritten, Over, Goto
<1>1. CASE MakeSolver
  BY <1>1 DEF MakeSolver
<1>2. CASE SetExitHandlers
  BY <1>2 DEF SetExitHandlers
<1>3. CASE OpenResult
  BY <1>3 DEF OpenResult
<1>4. CASE Filled
  BY <1>4 DEF Filled
<1>5. CASE SetInterruptHandlers
  BY <1>5 DEF SetInterruptHandlers
<1>6. CASE EliminatedToUnsat
  BY <1>6 DEF EliminatedToUnsat, PrintAndClose, Return
<1>7. CASE EliminatedToDimacs
  BY <1>7 DEF EliminatedToDimacs, Return
<1>8. CASE Eliminated
  BY <1>8 DEF Eliminated
<1>9. CASE Solve
  BY <1>9 DEF Solve
<1>10. CASE Write
  BY <1>10 DEF Write, TextFor
<1>11. CASE CloseResult
  BY <1>11 DEF CloseResult, Return
<1>12. CASE OutOfMemory
  BY <1>12 DEF OutOfMemory, Return
<1>13. CASE ParserExits
  BY <1>13 DEF ParserExits
<1> QED
  BY <1>1, <1>2, <1>3, <1>4, <1>5, <1>6, <1>7, <1>8, <1>9, <1>10, <1>11, <1>12, <1>13 DEF Drive

\* A signal changes at most what is returned: never the file.
LEMMA SignalKeepsInv ==
    ASSUME Inv, Signal
    PROVE  Inv'
<1> UNCHANGED <<entry, dimacsOption, solver, handler, res, buffer, disk, models, answer>>
  BY DEF Signal
<1>1. CASE UNCHANGED <<exitCode, pc>> /\ interrupted' \in BOOLEAN
  BY <1>1 DEF Inv, DriverTypeOK, NothingYet, AnswerFits, BufferFits, AnswerIsWritten
<1>2. CASE exitCode' \in {130, 1, Segfault} /\ pc' = "dead" /\ UNCHANGED interrupted
  BY <1>2 DEF Inv, DriverTypeOK, NothingYet, AnswerFits, BufferFits, AnswerIsWritten, Over, Segfault
<1>3. interrupted \in BOOLEAN
  BY DEF Inv, DriverTypeOK
<1> QED BY <1>1, <1>2, <1>3 DEF Signal, Dies, Goto

\* Steps of the readers and of the reductions leave the driver alone.
LEMMA StutterKeepsInv ==
    ASSUME Inv, UNCHANGED driver
    PROVE  Inv'
  BY DEF Inv, DriverTypeOK, NothingYet, AnswerFits, BufferFits, AnswerIsWritten, driver

(***************************************************************************)
(* A return value of 10 or 20 is right, the result file holds the answer   *)
(* it stands for if the file could be opened, and it is empty as long as   *)
(* there is no answer, for every input and at every point a signal may     *)
(* come (SATSolver.cpp 137-276 and 339-512).                               *)
(***************************************************************************)
THEOREM SpecAnswerIsWritten == Spec => []AnswerIsWritten
<1>1. Init => Inv
  <2>1. DriverInit => DriverTypeOK /\ NothingYet /\ AnswerFits /\ BufferFits
    BY DEF DriverInit, DriverTypeOK, NothingYet, AnswerFits, BufferFits, Over
  <2>2. DriverInit => AnswerIsWritten
    BY DEF DriverInit, AnswerIsWritten
  <2> QED BY <2>1, <2>2 DEF Init, Inv
<1>2. Inv /\ [Next]_vars => Inv'
  <2> SUFFICES ASSUME Inv, [Next]_vars PROVE Inv'
    OBVIOUS
  <2>1. CASE GraphFromBAFile \/ LineGraphOfIt \/ FillFromGraph \/ FillFromFile
    BY <2>1, StutterKeepsInv DEF GraphFromBAFile, LineGraphOfIt, FillFromGraph, FillFromFile
  <2>2. CASE CallSolver
    BY <2>2, DriveKeepsInv DEF CallSolver
  <2>3. CASE Interrupt
    BY <2>3, SignalKeepsInv DEF Interrupt
  <2>4. CASE UNCHANGED vars
    BY <2>4, StutterKeepsInv DEF vars
  <2> QED BY <2>1, <2>2, <2>3, <2>4 DEF Next, Step
<1>3. Inv => AnswerIsWritten
  BY DEF Inv
<1> QED BY <1>1, <1>2, <1>3, PTL DEF Spec

-----------------------------------------------------------------------------
(* The line graph. *)

size == Len(inputEdges)

LineEdge   == [from : Nat, to : Nat]
LineVertex == [id : Nat, neighbors : Seq(Nat), edges : {<<>>}]

\* The edges at two places are different ones and share an end.
Meet(u, w) == u # w /\ Ends(inputEdges[u+1]) \cap Ends(inputEdges[w+1]) # {}

\* The vertex v of edge u, with its neighbours before the bound.
LineVertexFits(v, u, bound) ==
    /\ v \in LineVertex /\ v.id = u
    /\ AllDistinct(v.neighbors)
    /\ \A w \in Nat : Occurs(v.neighbors, w) <=> w < bound /\ Meet(u, w)

\* The places have been compared, row by row.
Compared(u, w) == u < counter \/ (u = counter /\ w < other)

FromPlaces(e, u, w) == Meet(u, w) /\ e = MkEdge(u, w)

LineProgress ==
    /\ counter \in 0..size /\ other \in 0..size /\ (counter = size => other = 0)
    /\ outVertices \in Seq(LineVertex) /\ Len(outVertices) = counter
    /\ outEdges \in Seq(LineEdge)
    /\ redPc \notin {"idle", "line"} => counter = size

LineVertices ==
    /\ \A n \in 1..counter : LineVertexFits(outVertices[n], n - 1, size)
    /\ LineVertexFits(newVertex, counter, other)

LineEdges ==
    /\ AllDistinct(outEdges)
    /\ \A e : Occurs(outEdges, e) <=> \E u, w \in 0..size-1 : Compared(u, w) /\ FromPlaces(e, u, w)

LineFits == LineProgress /\ LineVertices /\ LineEdges

LineUntouched ==
    /\ counter = 0 /\ other = 0 /\ newVertex = MkVertex(0) /\ outVertices = <<>> /\ outEdges = <<>>
    /\ redPc \in {"idle", "line"}

LineInv ==
    /\ redPc = "idle" => inputEdges = <<>> /\ LineUntouched
    /\ SimpleEdges(inputEdges) => LineFits

LEMMA LineEdgeOf ==
    ASSUME NEW a \in Nat, NEW b \in Nat
    PROVE  LET e == MkEdge(a, b)
           IN  /\ e \in LineEdge /\ Ends(e) = {a, b}
               /\ e.from <= e.to /\ MkEdge(e.from, e.to) = e
               /\ a # b => e.from < e.to
  BY DEF MkEdge, Ends, LineEdge

\* The edges of a graph have different pairs of ends.
LEMMA SimpleEdge ==
    ASSUME SimpleEdges(inputEdges)
    PROVE  /\ inputEdges \in Seq(LineEdge) /\ size \in Nat
           /\ \A u \in 0..size-1 : inputEdges[u+1] \in LineEdge /\ inputEdges[u+1].from < inputEdges[u+1].to
           /\ \A u, w \in 0..size-1 : SameEdge(inputEdges[u+1], inputEdges[w+1]) <=> u = w
<1>1. inputEdges \in Seq(LineEdge) /\ size \in Nat
  BY LenProperties DEF SimpleEdges, LineEdge, size
<1>2. /\ \A x : x \in Range(inputEdges) <=> Occurs(inputEdges, x)
      /\ AllDistinct(inputEdges)
  BY <1>1, RangeListed DEF SimpleEdges
<1>3. ASSUME NEW n \in 1..size
      PROVE  inputEdges[n] \in LineEdge /\ inputEdges[n].from < inputEdges[n].to
  <2>1. inputEdges[n] \in LineEdge
    BY <1>1, ElementOfSeq DEF size
  <2>2. inputEdges[n] \in Range(inputEdges)
    BY <1>2 DEF Occurs, size
  <2> QED BY <2>1, <2>2 DEF SimpleEdges
<1>4. ASSUME NEW n \in 1..size, NEW m \in 1..size
      PROVE  SameEdge(inputEdges[n], inputEdges[m]) <=> n = m
  <2>1. ASSUME SameEdge(inputEdges[n], inputEdges[m]) PROVE n = m
    <3>1. /\ inputEdges[n] \in LineEdge /\ inputEdges[n].from < inputEdges[n].to
          /\ inputEdges[m] \in LineEdge /\ inputEdges[m].from < inputEdges[m].to
      BY <1>3
    <3>2. inputEdges[n].from = inputEdges[m].from /\ inputEdges[n].to = inputEdges[m].to
      BY <2>1, <3>1 DEF SameEdge, Ends, LineEdge
    <3>3. inputEdges[n] = inputEdges[m]
      BY <3>1, <3>2 DEF LineEdge
    <3> QED BY <1>2, <3>3 DEF AllDistinct, size
  <2> QED BY <2>1 DEF SameEdge
<1>5. \A u \in 0..size-1 : u + 1 \in 1..size
  BY <1>1
<1>6. \A u, w \in 0..size-1 : u + 1 = w + 1 <=> u = w
  BY <1>1
<1> QED BY <1>1, <1>3, <1>4, <1>5, <1>6

\* What Compare finds out, and that it finds the place of the other edge.
LEMMA CompareMeets ==
    ASSUME SimpleEdges(inputEdges), counter \in 0..size-1, other \in 0..size-1
    PROVE  /\ ~ SameEdge(inEdge, otherEdge) /\ Touches(inEdge, otherEdge) <=> Meet(counter, other)
           /\ EdgePosition(otherEdge, inputEdges, {-1}) = {other}
<1>1. /\ inputEdges \in Seq(LineEdge) /\ size \in Nat
      /\ \A u \in 0..size-1 : inputEdges[u+1] \in LineEdge /\ inputEdges[u+1].from < inputEdges[u+1].to
      /\ \A u, w \in 0..size-1 : SameEdge(inputEdges[u+1], inputEdges[w+1]) <=> u = w
  BY SimpleEdge
<1>2. ~ SameEdge(inEdge, otherEdge) /\ Touches(inEdge, otherEdge) <=> Meet(counter, other)
  <2>1. SameEdge(inEdge, otherEdge) <=> counter = other
    BY <1>1 DEF inEdge, otherEdge
  <2>2. Touches(inEdge, otherEdge) <=> Ends(inEdge) \cap Ends(otherEdge) # {}
    BY DEF Touches, Ends
  <2> QED BY <2>1, <2>2 DEF Meet, inEdge, otherEdge
<1>3. MkEdge(otherEdge.from, otherEdge.to) = otherEdge
  <2>1. otherEdge \in LineEdge /\ otherEdge.from < otherEdge.to
    BY <1>1 DEF otherEdge
  <2> QED BY <2>1 DEF MkEdge, LineEdge
<1>4. otherEdge \in Range(inputEdges)
  <2>1. other + 1 \in 1..Len(inputEdges)
    BY <1>1 DEF size
  <2> QED BY <1>1, <2>1, RangeListed DEF Occurs, otherEdge
<1>5. \A p \in 0..size-1 : inputEdges[p+1] = otherEdge <=> p = other
  BY <1>1 DEF otherEdge, SameEdge
<1>6. \A q \in 0..other-1 : q \in 0..size-1 /\ q # other
  BY <1>1
<1> DEFINE First(p) == inputEdges[p+1] = MkEdge(otherEdge.from, otherEdge.to)
                         /\ \A q \in 0..p-1 : inputEdges[q+1] # inputEdges[p+1]
<1>7. \A p \in 0..size-1 : First(p) <=> p = other
  BY <1>3, <1>5, <1>6
<1> HIDE DEF First
<1>8. (CHOOSE p \in 0..size-1 : First(p)) = other
  BY <1>7
<1>9. EdgePosition(otherEdge, inputEdges, {-1}) = {CHOOSE p \in 0..size-1 : First(p)}
  BY <1>3, <1>4 DEF EdgePosition, FindEdge, First, size
<1> QED BY <1>2, <1>8, <1>9

LEMMA NewLineVertex ==
    ASSUME NEW u \in Nat
    PROVE  LineVertexFits(MkVertex(u), u, 0)
<1> DEFINE v == MkVertex(u)
<1>1. v.id = u /\ v.neighbors = <<>> /\ v \in LineVertex
  BY DEF MkVertex, LineVertex
<1> HIDE DEF v
<1>2. Len(v.neighbors) = 0
  BY <1>1
<1>3. AllDistinct(v.neighbors) /\ \A w \in Nat : ~ Occurs(v.neighbors, w) /\ ~ (w < 0)
  BY <1>2 DEF AllDistinct, Occurs
<1> QED BY <1>1, <1>3 DEF LineVertexFits, v

LEMMA NeighborAdded ==
    ASSUME NEW u \in Nat, NEW w \in Nat, NEW v, LineVertexFits(v, u, w)
    PROVE  /\ Meet(u, w) => LineVertexFits(AddNeighbor(v, w), u, w + 1)
           /\ ~ Meet(u, w) => LineVertexFits(v, u, w + 1)
<1>1. /\ v \in LineVertex /\ v.neighbors \in Seq(Nat) /\ v.id = u /\ AllDistinct(v.neighbors)
      /\ \A x \in Nat : Occurs(v.neighbors, x) <=> x < w /\ Meet(u, x)
  BY DEF LineVertexFits, LineVertex
<1>2. \A x \in Nat : x < w + 1 <=> x < w \/ x = w
  OBVIOUS
<1>3. ASSUME Meet(u, w)
      PROVE  LineVertexFits(AddNeighbor(v, w), u, w + 1)
  <2> DEFINE nb == Append(v.neighbors, w)
             j  == AddNeighbor(v, w)
  <2>1. /\ nb \in Seq(Nat) /\ AllDistinct(nb)
        /\ \A x : Occurs(nb, x) <=> Occurs(v.neighbors, x) \/ x = w
    <3>1. ~ Occurs(v.neighbors, w)
      BY <1>1
    <3> QED BY <1>1, <3>1, PutLast
  <2>2. j \in LineVertex /\ j.id = u /\ j.neighbors = nb
    BY <1>1, <2>1 DEF AddNeighbor, LineVertex
  <2> HIDE DEF j, nb
  <2>3. \A x \in Nat : Occurs(nb, x) <=> x < w + 1 /\ Meet(u, x)
    BY <1>1, <1>2, <1>3, <2>1
  <2>4. LineVertexFits(j, u, w + 1)
    BY <2>1, <2>2, <2>3 DEF LineVertexFits
  <2> QED BY <2>4 DEF j
<1>4. ASSUME ~ Meet(u, w)
      PROVE  LineVertexFits(v, u, w + 1)
  BY <1>1, <1>2, <1>4 DEF LineVertexFits
<1> QED BY <1>3, <1>4

LEMMA LineEdgeAdded ==
    ASSUME outEdges \in Seq(LineEdge), NEW a \in Nat, NEW b \in Nat
    PROVE  LET t == AddEdge(MkEdge(a, b), outEdges)
           IN  /\ t \in Seq(LineEdge)
               /\ AllDistinct(outEdges) => AllDistinct(t)
               /\ \A e : Occurs(t, e) <=> Occurs(outEdges, e) \/ e = MkEdge(a, b)
<1> DEFINE m == MkEdge(a, b)
<1>1. m \in LineEdge /\ MkEdge(m.from, m.to) = m
  BY LineEdgeOf
<1> HIDE DEF m
<1>2. AddEdge(m, outEdges) = IF Occurs(outEdges, m) THEN outEdges ELSE Append(outEdges, m)
  BY <1>1, RangeListed DEF AddEdge, FindEdge
<1>3. CASE Occurs(outEdges, m)
  BY <1>2, <1>3 DEF m
<1>4. CASE ~ Occurs(outEdges, m)
  <2>1. /\ Append(outEdges, m) \in Seq(LineEdge)
        /\ AllDistinct(outEdges) => AllDistinct(Append(outEdges, m))
        /\ \A e : Occurs(Append(outEdges, m), e) <=> Occurs(outEdges, e) \/ e = m
    BY <1>1, <1>4, PutLast
  <2> QED BY <1>2, <1>4, <2>1 DEF m
<1> QED BY <1>3, <1>4

LEMMA LineStarts == LineUntouched /\ SimpleEdges(inputEdges) => LineFits
<1> SUFFICES ASSUME LineUntouched, SimpleEdges(inputEdges) PROVE LineFits
  OBVIOUS
<1> USE DEF LineUntouched
<1>1. size \in Nat /\ Len(outVertices) = 0 /\ Len(outEdges) = 0
  BY SimpleEdge
<1>2. LineProgress
  BY <1>1 DEF LineProgress
<1>3. LineVertices
  BY NewLineVertex DEF LineVertices
<1>4. LineEdges
  <2>1. AllDistinct(outEdges) /\ \A e : ~ Occurs(outEdges, e)
    BY <1>1 DEF AllDistinct, Occurs
  <2>2. \A u, w \in 0..size-1 : ~ Compared(u, w)
    BY <1>1 DEF Compared
  <2> QED BY <2>1, <2>2 DEF LineEdges
<1> QED BY <1>2, <1>3, <1>4 DEF LineFits

LEMMA CompareKeeps ==
    ASSUME SimpleEdges(inputEdges), LineFits, Compare
    PROVE  LineFits'
<1>0. size \in Nat
  BY SimpleEdge
<1>1. /\ redPc = "line" /\ redPc' = redPc /\ UNCHANGED <<inputEdges, counter, outVertices>>
      /\ counter \in 0..size-1 /\ other \in 0..size-1 /\ other' = other + 1
  BY <1>0 DEF Compare, LineFits, LineProgress, size
<1>2. size' = size /\ counter \in Nat /\ other \in Nat
  BY <1>0, <1>1 DEF size
<1>3. /\ ~ SameEdge(inEdge, otherEdge) /\ Touches(inEdge, otherEdge) <=> Meet(counter, other)
      /\ EdgePosition(otherEdge, inputEdges, {-1}) = {other}
  BY <1>1, CompareMeets
<1>4. IF Meet(counter, other)
        THEN outEdges' = AddEdge(MkEdge(counter, other), outEdges) /\ newVertex' = AddNeighbor(newVertex, other)
        ELSE outEdges' = outEdges /\ newVertex' = newVertex
  <2>1. CASE Meet(counter, other)
    <3>1. \E p \in EdgePosition(otherEdge, inputEdges, {-1}) :
             outEdges' = AddEdge(MkEdge(counter, p), outEdges) /\ newVertex' = AddNeighbor(newVertex, p)
      BY <1>3, <2>1 DEF Compare
    <3> QED BY <1>3, <2>1, <3>1
  <2>2. CASE ~ Meet(counter, other)
    BY <1>3, <2>2 DEF Compare
  <2> QED BY <2>1, <2>2
<1>5. /\ outEdges \in Seq(LineEdge) /\ AllDistinct(outEdges)
      /\ \A e : Occurs(outEdges, e) <=> \E u, w \in 0..size-1 : Compared(u, w) /\ FromPlaces(e, u, w)
  BY DEF LineFits, LineProgress, LineEdges
<1>6. /\ outEdges' \in Seq(LineEdge) /\ AllDistinct(outEdges')
      /\ \A e : Occurs(outEdges', e) <=> Occurs(outEdges, e) \/ FromPlaces(e, counter, other)
  <2>1. CASE Meet(counter, other)
    <3> DEFINE t == AddEdge(MkEdge(counter, other), outEdges)
    <3>1. /\ t \in Seq(LineEdge)
          /\ AllDistinct(outEdges) => AllDistinct(t)
          /\ \A e : Occurs(t, e) <=> Occurs(outEdges, e) \/ e = MkEdge(counter, other)
      BY <1>2, <1>5, LineEdgeAdded, Zenon
    <3>2. outEdges' = t
      BY <1>4, <2>1
    <3> HIDE DEF t
    <3>3. \A e : FromPlaces(e, counter, other) <=> e = MkEdge(counter, other)
      BY <2>1 DEF FromPlaces
    <3> QED BY <1>5, <3>1, <3>2, <3>3
  <2>2. CASE ~ Meet(counter, other)
    BY <1>4, <1>5, <2>2 DEF FromPlaces
  <2> QED BY <2>1, <2>2
<1>7. LineVertexFits(newVertex', counter, other + 1)
  <2>1. LineVertexFits(newVertex, counter, other)
    BY DEF LineFits, LineVertices
  <2> QED BY <1>2, <1>4, <2>1, NeighborAdded
<1>8. /\ \A v, u, b : LineVertexFits(v, u, b)' <=> LineVertexFits(v, u, b)
      /\ \A e, u, w : FromPlaces(e, u, w)' <=> FromPlaces(e, u, w)
  BY <1>1 DEF LineVertexFits, FromPlaces, Meet
<1>9. LineProgress'
  BY <1>0, <1>1, <1>2, <1>6 DEF LineFits, LineProgress
<1>10. LineVertices'
  BY <1>1, <1>2, <1>7, <1>8 DEF LineFits, LineVertices
<1>11. LineEdges'
  <2>1. ASSUME NEW u \in 0..size-1, NEW w \in 0..size-1
        PROVE  Compared(u, w)' <=> Compared(u, w) \/ (u = counter /\ w = other)
    BY <1>0, <1>1 DEF Compared
  <2>2. \A e : Occurs(outEdges', e) <=> \E u, w \in 0..size-1 : Compared(u, w)' /\ FromPlaces(e, u, w)
    BY <1>1, <1>5, <1>6, <2>1
  <2> QED BY <1>2, <1>6, <1>8, <2>2 DEF LineEdges
<1> QED BY <1>9, <1>10, <1>11 DEF LineFits

LEMMA NextVertexKeeps ==
    ASSUME SimpleEdges(inputEdges), LineFits, NextVertex
    PROVE  LineFits'
<1>0. size \in Nat
  BY SimpleEdge
<1>1. /\ redPc = "line" /\ redPc' = redPc /\ UNCHANGED <<inputEdges, outEdges>>
      /\ counter \in 0..size-1 /\ other = size /\ other' = 0 /\ counter' = counter + 1
      /\ outVertices' = Append(outVertices, newVertex) /\ newVertex' = MkVertex(counter + 1)
  BY <1>0 DEF NextVertex, LineFits, LineProgress, size
<1>2. size' = size /\ counter \in Nat
  BY <1>0, <1>1 DEF size
<1>3. /\ outVertices \in Seq(LineVertex) /\ Len(outVertices) = counter
      /\ outEdges \in Seq(LineEdge) /\ LineVertexFits(newVertex, counter, size)
      /\ \A n \in 1..counter : LineVertexFits(outVertices[n], n - 1, size)
  BY <1>1 DEF LineFits, LineProgress, LineVertices
<1>4. /\ outVertices' \in Seq(LineVertex) /\ Len(outVertices') = counter + 1
      /\ outVertices'[counter + 1] = newVertex /\ \A n \in 1..counter : outVertices'[n] = outVertices[n]
  <2>1. newVertex \in LineVertex
    BY <1>3 DEF LineVertexFits
  <2> QED BY <1>1, <1>3, <2>1, PutLast
<1>5. \A v, u, b : LineVertexFits(v, u, b)' <=> LineVertexFits(v, u, b)
  BY <1>1 DEF LineVertexFits, Meet
<1>6. LineProgress'
  BY <1>0, <1>1, <1>2, <1>3, <1>4 DEF LineProgress
<1>7. LineVertices'
  <2>1. ASSUME NEW n \in 1..counter+1
        PROVE  LineVertexFits(outVertices'[n], n - 1, size)
    <3>1. CASE n = counter + 1
      <4>1. n - 1 = counter
        BY <1>2, <3>1
      <4> QED BY <1>3, <1>4, <3>1, <4>1
    <3>2. CASE n \in 1..counter
      BY <1>3, <1>4, <3>2
    <3> QED BY <1>2, <3>1, <3>2
  <2>2. LineVertexFits(MkVertex(counter + 1), counter + 1, 0)
    BY <1>2, NewLineVertex
  <2> QED BY <1>1, <1>2, <1>5, <2>1, <2>2 DEF LineVertices
<1>8. LineEdges'
  <2>1. \A u, w \in 0..size-1 : Compared(u, w)' <=> Compared(u, w)
    BY <1>0, <1>1 DEF Compared
  <2>2. \A e, u, w : FromPlaces(e, u, w)' <=> FromPlaces(e, u, w)
    BY <1>1 DEF FromPlaces, Meet
  <2> QED BY <1>1, <1>2, <2>1, <2>2 DEF LineFits, LineEdges
<1> QED BY <1>6, <1>7, <1>8 DEF LineFits

\* The other steps leave the graph alone, or finish it.
LEMMA LineStays ==
    ASSUME LineInv, UNCHANGED line, redPc' = "idle" => redPc = "idle",
           redPc' \notin {"idle", "line"} => redPc \notin {"idle", "line"} \/ counter = size
    PROVE  LineInv'
<1>1. UNCHANGED <<inputEdges, counter, other, newVertex, outVertices, outEdges>> /\ size' = size
  BY DEF line, size
<1>2. /\ \A v, u, b : LineVertexFits(v, u, b)' <=> LineVertexFits(v, u, b)
      /\ \A e, u, w : FromPlaces(e, u, w)' <=> FromPlaces(e, u, w)
      /\ \A u, w : Compared(u, w)' <=> Compared(u, w)
  BY <1>1 DEF LineVertexFits, FromPlaces, Meet, Compared
<1>3. LineProgress => LineProgress'
  BY <1>1 DEF LineProgress
<1>4. LineVertices => LineVertices'
  BY <1>1, <1>2 DEF LineVertices
<1>5. LineEdges => LineEdges'
  BY <1>1, <1>2 DEF LineEdges
<1>6. redPc' = "idle" => (LineUntouched => LineUntouched')
  BY <1>1 DEF LineUntouched
<1> QED BY <1>1, <1>3, <1>4, <1>5, <1>6 DEF LineInv, LineFits

LEMMA LineStep ==
    ASSUME LineInv, [Next]_vars
    PROVE  LineInv'
<1>1. ASSUME NEW es, CallReduceEdge3Col(es)
      PROVE  LineInv'
  <2>1. LineUntouched' /\ redPc' = "line"
    BY <1>1 DEF CallReduceEdge3Col, LineInv, LineUntouched
  <2>2. SimpleEdges(inputEdges)' => LineFits'
    BY <2>1, LineStarts, PTL
  <2> QED BY <2>1, <2>2 DEF LineInv
<1>2. CASE Compare
  <2>1. redPc' = "line" /\ inputEdges' = inputEdges
    BY <1>2 DEF Compare
  <2> QED BY <1>2, <2>1, CompareKeeps DEF LineInv
<1>3. CASE NextVertex
  <2>1. redPc' = "line" /\ inputEdges' = inputEdges
    BY <1>3 DEF NextVertex
  <2> QED BY <1>3, <2>1, NextVertexKeeps DEF LineInv
<1>4. CASE LineGraphDone
  BY <1>4, LineStays DEF LineGraphDone, size
<1>5. CASE CallReduceVert3Col \/ ReduceVert3Col
  <2>1. UNCHANGED line /\ redPc \notin {"idle", "line"} /\ redPc' # "idle"
    BY <1>5 DEF CallReduceVert3Col, ReduceVert3Col, AddVertex, VerticesDone, AddEdgeColour, EdgesDone
  <2> QED BY <2>1, LineStays
<1>6. CASE UNCHANGED reduction
  BY <1>6, LineStays DEF reduction
<1> QED BY <1>1, <1>2, <1>3, <1>4, <1>5, <1>6
    DEF Next, Step, GraphFromBAFile, LineGraphOfIt, CallSolver, FillFromGraph, FillFromFile, Interrupt,
        ReduceEdge3Col, vars

LEMMA LineGraphFits ==
    ASSUME SimpleEdges(inputEdges), LineFits, redPc \notin {"idle", "line"}
    PROVE  LineGraphIsRight
<1>1. /\ size \in Nat /\ counter = size /\ other = 0 /\ Len(outVertices) = size
      /\ outVertices \in Seq(LineVertex) /\ outEdges \in Seq(LineEdge)
  BY SimpleEdge DEF LineFits, LineProgress
<1>2. \A n \in 1..size : LineVertexFits(outVertices[n], n - 1, size)
  BY <1>1 DEF LineFits, LineVertices
<1>3. /\ AllDistinct(outEdges)
      /\ \A e : Occurs(outEdges, e) <=> \E u, w \in 0..size-1 : FromPlaces(e, u, w)
  <2>1. \A u, w \in 0..size-1 : Compared(u, w)
    BY <1>1 DEF Compared
  <2> QED BY <2>1 DEF LineFits, LineEdges
<1>4. \A u, w \in 0..size-1 : (Meet(u, w) <=> Meet(w, u)) /\ ~ Meet(u, u)
  BY DEF Meet
<1>5. ASSUME NEW n \in 1..size
      PROVE  /\ outVertices[n].id = n - 1 /\ outVertices[n].neighbors \in Seq(Nat)
             /\ AllDistinct(outVertices[n].neighbors)
             /\ \A w \in Nat : Occurs(outVertices[n].neighbors, w) <=> w < size /\ Meet(n - 1, w)
  BY <1>2 DEF LineVertexFits, LineVertex
<1>6. ASSUME NEW e, Occurs(outEdges, e)
      PROVE  \E u, w \in 0..size-1 : Meet(u, w) /\ Ends(e) = {u, w} /\ e.from < e.to /\ e.to < size
  <2>1. PICK u \in 0..size-1, w \in 0..size-1 : FromPlaces(e, u, w)
    BY <1>3, <1>6
  <2>2. u # w /\ u \in Nat /\ w \in Nat /\ u < size /\ w < size
    BY <1>1, <2>1 DEF FromPlaces, Meet
  <2>3. Ends(e) = {u, w} /\ e.from < e.to /\ e.to \in {u, w}
    <3>1. e = MkEdge(u, w)
      BY <2>1 DEF FromPlaces
    <3>2. Ends(e) = {u, w} /\ e.from < e.to
      BY <2>2, <3>1, LineEdgeOf
    <3>3. e.to \in Ends(e)
      BY DEF Ends
    <3> QED BY <3>2, <3>3
  <2> QED BY <2>1, <2>2, <2>3 DEF FromPlaces
<1>7. ASSUME NEW u \in 0..size-1, NEW w \in 0..size-1
      PROVE  /\ (\E e : Occurs(outEdges, e) /\ Ends(e) = {u, w}) <=> Meet(u, w)
             /\ Occurs(outEdges, MkEdge(u, w)) <=> Meet(u, w)
  <2>1. u \in Nat /\ w \in Nat
    BY <1>1
  <2>2. Ends(MkEdge(u, w)) = {u, w}
    BY <2>1, LineEdgeOf
  <2>3. ASSUME Meet(u, w)
        PROVE  Occurs(outEdges, MkEdge(u, w))
    BY <1>3, <2>3 DEF FromPlaces
  <2>4. ASSUME NEW e, Occurs(outEdges, e), Ends(e) = {u, w}
        PROVE  Meet(u, w)
    <3>1. PICK x \in 0..size-1, y \in 0..size-1 : Meet(x, y) /\ Ends(e) = {x, y}
      BY <1>6, <2>4
    <3>2. (x = u /\ y = w) \/ (x = w /\ y = u)
      BY <2>4, <3>1
    <3> QED BY <1>4, <3>1, <3>2
  <2> QED BY <2>2, <2>3, <2>4
<1>8. \A n \in 1..size : /\ \A w : w \in Range(outVertices[n].neighbors) <=> Occurs(outVertices[n].neighbors, w)
                         /\ IsInjective(outVertices[n].neighbors)
  BY <1>5, RangeListed
<1>9. /\ \A e : e \in Range(outEdges) <=> Occurs(outEdges, e)
      /\ IsInjective(outEdges)
  BY <1>1, <1>3, RangeListed
<1>10. ASSUME NEW n \in 1..size
      PROVE  Range(outVertices[n].neighbors)
               = {w \in 0..size-1 : \E e \in Range(outEdges) : Ends(e) = {n - 1, w}}
  <2>1. n - 1 \in 0..size-1
    BY <1>1
  <2>2. \A w : Occurs(outVertices[n].neighbors, w) => w \in Nat
    <3>1. PICK nb \in Seq(Nat) : nb = outVertices[n].neighbors
      BY <1>5
    <3>2. \A w : Occurs(nb, w) => w \in Nat
      BY ElementOfSeq DEF Occurs
    <3> QED BY <3>1, <3>2
  <2>3. \A w \in Nat : Occurs(outVertices[n].neighbors, w) <=> w \in 0..size-1 /\ Meet(n - 1, w)
    <3> TAKE w \in Nat
    <3>1. Occurs(outVertices[n].neighbors, w) <=> w < size /\ Meet(n - 1, w)
      BY <1>5, Zenon
    <3>2. w < size <=> w \in 0..size-1
      BY <1>1
    <3> QED BY <3>1, <3>2
  <2>4. \A w : w \in Range(outVertices[n].neighbors) <=> w \in 0..size-1 /\ Meet(n - 1, w)
    BY <1>1, <1>8, <2>2, <2>3
  <2>5. \A w \in 0..size-1 : (\E e \in Range(outEdges) : Ends(e) = {n - 1, w}) <=> Meet(n - 1, w)
    BY <1>7, <1>9, <2>1
  <2> QED BY <2>4, <2>5
<1>11. IsSimpleGraph(outVertices, outEdges)
  <2>1. \A e \in Range(outEdges) : e.from < e.to /\ e.to < Len(outVertices)
    BY <1>1, <1>6, <1>9
  <2>2. \A n \in 1..Len(outVertices) : outVertices[n].id = n - 1
    BY <1>1, <1>5
  <2>3. \A n \in 1..Len(outVertices) :
          /\ IsInjective(outVertices[n].neighbors)
          /\ Range(outVertices[n].neighbors)
               = {w \in 0..Len(outVertices)-1 : \E e \in Range(outEdges) : Ends(e) = {n - 1, w}}
    BY <1>1, <1>8, <1>10
  <2> QED BY <1>9, <2>1, <2>2, <2>3 DEF IsSimpleGraph
<1>12. ASSUME NEW n \in 1..size, NEW m \in 1..size
       PROVE  MkEdge(n - 1, m - 1) \in Range(outEdges)
                <=> n # m /\ Ends(inputEdges[n]) \cap Ends(inputEdges[m]) # {}
  <2>1. PICK u \in 0..size-1, w \in 0..size-1 : u = n - 1 /\ w = m - 1 /\ n = u + 1 /\ m = w + 1
    BY <1>1
  <2>2. Occurs(outEdges, MkEdge(u, w)) <=> Meet(u, w)
    BY <1>7
  <2>3. u # w <=> n # m
    BY <2>1
  <2> QED BY <1>9, <2>1, <2>2, <2>3 DEF Meet
<1> QED BY <1>1, <1>11, <1>12 DEF LineGraphIsRight, size

LEMMA SpecLineInv == Spec => []LineInv
<1>1. Init => LineInv
  <2> SUFFICES ASSUME Init PROVE LineInv
    OBVIOUS
  <2>1. inputEdges = <<>> /\ LineUntouched
    BY DEF Init, ReductionInit, LineUntouched
  <2> QED BY <2>1, LineStarts DEF LineInv
<1>2. LineInv /\ [Next]_vars => LineInv'
  BY LineStep
<1> QED BY <1>1, <1>2, PTL DEF Spec

(***************************************************************************)
(* reduceEdge3Col makes the line graph of every graph of any size: of      *)
(* edges that the reader found once each, with the smaller end first, the  *)
(* nested loop (GraphFunctions.cpp 279-310) joins two vertices exactly if  *)
(* the edges they stand for meet, each pair once, though it comes to each  *)
(* pair from both sides.  An edge that is there twice would be taken for   *)
(* the one edge at 289, and its two vertices stay apart.                   *)
(***************************************************************************)
THEOREM SpecLineGraphIsRight == Spec => [](SimpleEdges(inputEdges) => LineGraphIsRight)
<1>1. LineInv => (SimpleEdges(inputEdges) => LineGraphIsRight)
  BY LineGraphFits DEF LineInv, LineGraphIsRight
<1> QED BY <1>1, SpecLineInv, PTL

-----------------------------------------------------------------------------
(* The clauses. *)

LEMMA Three == 0..2 = {0, 1, 2}
  OBVIOUS

LEMMA MaxOfTwo ==
    ASSUME NEW a \in Int, NEW b \in Int
    PROVE  Max({a, b}) = IF a >= b THEN a ELSE b
<1> DEFINE M == IF a >= b THEN a ELSE b
<1>1. M \in {a, b} /\ \A y \in {a, b} : M >= y
  OBVIOUS
<1>2. \A x \in {a, b} : (\A y \in {a, b} : x >= y) => x = M
  OBVIOUS
<1> HIDE DEF M
<1>3. (CHOOSE x \in {a, b} : \A y \in {a, b} : x >= y) = M
  BY <1>1, <1>2
<1> QED BY <1>3 DEF Max, M

\* The five clauses of a vertex, literal by literal.
LEMMA FiveClauses ==
    ASSUME NEW v \in Nat
    PROVE  LET p0 == Pos(Var(v, 0))  p1 == Pos(Var(v, 1))  p2 == Pos(Var(v, 2))
               n0 == Neg(Var(v, 0))  n1 == Neg(Var(v, 1))  n2 == Neg(Var(v, 2))
           IN  ClausesOfVertex(v)
                 = {{p0, p1, p2}, {n0, n1, n2}, {p0, n1, n2}, {n0, p1, n2}, {n0, n1, p2}}
<1> DEFINE p(c) == Pos(Var(v, c))
           n(c) == Neg(Var(v, c))
<1>1. ClausesOfVertex(v) = {{p(c) : c \in 0..2}, {n(c) : c \in 0..2}}
                             \cup {{n(c) : c \in (0..2) \ {d}} \cup {p(d)} : d \in 0..2}
  BY DEF ClausesOfVertex
<1> HIDE DEF p, n
<1>2. {p(c) : c \in 0..2} = {p(0), p(1), p(2)} /\ {n(c) : c \in 0..2} = {n(0), n(1), n(2)}
  BY Three
<1>3. /\ {n(c) : c \in (0..2) \ {0}} \cup {p(0)} = {p(0), n(1), n(2)}
      /\ {n(c) : c \in (0..2) \ {1}} \cup {p(1)} = {n(0), p(1), n(2)}
      /\ {n(c) : c \in (0..2) \ {2}} \cup {p(2)} = {n(0), n(1), p(2)}
  <2>1. (0..2) \ {0} = {1, 2} /\ (0..2) \ {1} = {0, 2} /\ (0..2) \ {2} = {0, 1}
    OBVIOUS
  <2> QED BY <2>1
<1> DEFINE q(d) == {n(c) : c \in (0..2) \ {d}} \cup {p(d)}
<1>4. {q(d) : d \in 0..2} = {q(0), q(1), q(2)}
  <2> HIDE DEF q
  <2> QED BY Three
<1>5. {q(d) : d \in 0..2} = {{p(0), n(1), n(2)}, {n(0), p(1), n(2)}, {n(0), n(1), p(2)}}
  BY <1>3, <1>4
<1> DEFINE Q == {q(d) : d \in 0..2}
<1>6. ClausesOfVertex(v) = {{p(0), p(1), p(2)}, {n(0), n(1), n(2)}} \cup Q
  BY <1>1, <1>2
<1> HIDE DEF Q
<1>7. ClausesOfVertex(v) = {{p(0), p(1), p(2)}, {n(0), n(1), n(2)}, {p(0), n(1), n(2)},
                            {n(0), p(1), n(2)}, {n(0), n(1), p(2)}}
  BY <1>5, <1>6 DEF Q
<1> QED BY <1>7 DEF p, n

\* The number of a vertex and a colour tells both.
LEMMA Numbers ==
    ASSUME NEW v \in Nat, NEW c \in 0..2
    PROVE  /\ Pos(Var(v, c)) = 3 * v + c + 2 /\ Neg(Var(v, c)) = -(3 * v + c + 2)
           /\ Pos(Var(v, c)) \in Nat \ {0} /\ Neg(Var(v, c)) = -Pos(Var(v, c))
  BY DEF Pos, Neg, Var

LEMMA NumbersDiffer ==
    ASSUME NEW v \in Nat, NEW w \in Nat, NEW c \in 0..2, NEW d \in 0..2
    PROVE  /\ Pos(Var(v, c)) = Pos(Var(w, d)) <=> v = w /\ c = d
           /\ Neg(Var(v, c)) = Neg(Var(w, d)) <=> v = w /\ c = d
           /\ Pos(Var(v, c)) # Neg(Var(w, d))
  BY DEF Pos, Neg, Var

\* There are five, of three literals each, and none is of another vertex.
LEMMA ClausesDiffer ==
    ASSUME NEW v \in Nat
    PROVE  /\ IsFiniteSet(ClausesOfVertex(v)) /\ Cardinality(ClausesOfVertex(v)) = 5
           /\ \A w \in Nat : w # v => ClausesOfVertex(v) \cap ClausesOfVertex(w) = {}
           /\ {} \notin ClausesOfVertex(v)
<1> DEFINE p0 == Pos(Var(v, 0))
           p1 == Pos(Var(v, 1))
           p2 == Pos(Var(v, 2))
           n0 == Neg(Var(v, 0))
           n1 == Neg(Var(v, 1))
           n2 == Neg(Var(v, 2))
<1>1. /\ p0 \notin {p1, p2, n0, n1, n2} /\ p1 \notin {p2, n0, n1, n2} /\ p2 \notin {n0, n1, n2}
      /\ n0 \notin {n1, n2} /\ n1 # n2
  BY NumbersDiffer
<1>2. ClausesOfVertex(v) = {{p0, p1, p2}, {n0, n1, n2}, {p0, n1, n2}, {n0, p1, n2}, {n0, n1, p2}}
  BY FiveClauses
<1> HIDE DEF p0, p1, p2, n0, n1, n2
<1> DEFINE a == {p0, p1, p2}
           b == {n0, n1, n2}
           c == {p0, n1, n2}
           d == {n0, p1, n2}
           e == {n0, n1, p2}
<1>3. a \notin {b, c, d, e} /\ b \notin {c, d, e} /\ c \notin {d, e} /\ d # e
  BY <1>1
<1>4. ClausesOfVertex(v) = {a, b, c, d, e}
  BY <1>2
<1> HIDE DEF a, b, c, d, e
<1>5. IsFiniteSet(ClausesOfVertex(v)) /\ Cardinality(ClausesOfVertex(v)) = 5
  <2>1. IsFiniteSet({e}) /\ Cardinality({e}) = 1
    BY FS_Singleton
  <2>2. IsFiniteSet({e} \cup {d}) /\ Cardinality({e} \cup {d}) = 2
    BY <1>3, <2>1, FS_AddElement
  <2>3. IsFiniteSet(({e} \cup {d}) \cup {c}) /\ Cardinality(({e} \cup {d}) \cup {c}) = 3
    BY <1>3, <2>2, FS_AddElement
  <2>4. IsFiniteSet((({e} \cup {d}) \cup {c}) \cup {b}) /\ Cardinality((({e} \cup {d}) \cup {c}) \cup {b}) = 4
    BY <1>3, <2>3, FS_AddElement
  <2>5. /\ IsFiniteSet(((({e} \cup {d}) \cup {c}) \cup {b}) \cup {a})
        /\ Cardinality(((({e} \cup {d}) \cup {c}) \cup {b}) \cup {a}) = 5
    BY <1>3, <2>4, FS_AddElement
  <2>6. ((({e} \cup {d}) \cup {c}) \cup {b}) \cup {a} = ClausesOfVertex(v)
    BY <1>4
  <2> QED BY <2>5, <2>6
<1>6. ASSUME NEW w \in Nat, w # v, NEW cl \in ClausesOfVertex(v), cl \in ClausesOfVertex(w)
      PROVE  FALSE
  <2>1. ASSUME NEW u \in Nat, NEW k \in ClausesOfVertex(u)
        PROVE  \A l \in k : \E x \in 0..2 : l = Pos(Var(u, x)) \/ l = Neg(Var(u, x))
    BY <2>1 DEF ClausesOfVertex
  <2>2. PICK l : l \in cl
    BY <1>4 DEF a, b, c, d, e
  <2>3. PICK x \in 0..2 : l = Pos(Var(v, x)) \/ l = Neg(Var(v, x))
    BY <2>1, <2>2
  <2>4. PICK y \in 0..2 : l = Pos(Var(w, y)) \/ l = Neg(Var(w, y))
    BY <1>6, <2>1, <2>2
  <2> QED BY <1>6, <2>3, <2>4, NumbersDiffer
<1>7. {} \notin ClausesOfVertex(v)
  BY <1>4 DEF a, b, c, d, e
<1> QED BY <1>5, <1>6, <1>7

EdgeClause(e, c) == {Neg(Var(e.from, c)), Neg(Var(e.to, c))}

LEMMA TwoEqual ==
    ASSUME NEW a \in Int, NEW b \in Int, NEW x \in Int, NEW y \in Int, a > b, x > y, {a, b} = {x, y}
    PROVE  a = x /\ b = y
  OBVIOUS

\* The clause of an edge and a colour tells both and is none of a vertex.
LEMMA EdgeClauses ==
    ASSUME NEW e \in LineEdge, e.from < e.to, NEW c \in 0..2
    PROVE  /\ \A f \in LineEdge : \A d \in 0..2 :
                f.from < f.to /\ EdgeClause(e, c) = EdgeClause(f, d) => e = f /\ c = d
           /\ \A v \in Nat : EdgeClause(e, c) \notin ClausesOfVertex(v)
<1>1. e.from \in Nat /\ e.to \in Nat
  BY DEF LineEdge
<1>2. ASSUME NEW f \in LineEdge, NEW d \in 0..2, f.from < f.to, EdgeClause(e, c) = EdgeClause(f, d)
      PROVE  e = f /\ c = d
  <2>1. f.from \in Nat /\ f.to \in Nat
    BY DEF LineEdge
  <2> DEFINE x == Neg(Var(e.from, c))
             y == Neg(Var(e.to, c))
             u == Neg(Var(f.from, d))
             w == Neg(Var(f.to, d))
  <2>2. x \in Int /\ y \in Int /\ x > y
    BY <1>1 DEF Neg, Var
  <2>3. u \in Int /\ w \in Int /\ u > w
    BY <1>2, <2>1 DEF Neg, Var
  <2>4. {x, y} = {u, w}
    BY <1>2 DEF EdgeClause
  <2>5. x = u /\ y = w
    <3> HIDE DEF x, y, u, w
    <3> QED BY <2>2, <2>3, <2>4, TwoEqual
  <2>6. e.from = f.from /\ e.to = f.to /\ c = d
    BY <1>1, <2>1, <2>5, NumbersDiffer
  <2> QED BY <2>6 DEF LineEdge
<1>3. ASSUME NEW v \in Nat, EdgeClause(e, c) \in ClausesOfVertex(v)
      PROVE  FALSE
  <2> DEFINE x == Neg(Var(e.from, c))
             y == Neg(Var(e.to, c))
             p0 == Pos(Var(v, 0))
             p1 == Pos(Var(v, 1))
             p2 == Pos(Var(v, 2))
             n0 == Neg(Var(v, 0))
             n1 == Neg(Var(v, 1))
             n2 == Neg(Var(v, 2))
  <2>1. p0 \notin {x, y} /\ p1 \notin {x, y} /\ p2 \notin {x, y}
    BY <1>1, NumbersDiffer
  <2>2. n0 # n1 /\ n0 # n2 /\ n1 # n2
    BY NumbersDiffer
  <2>3. EdgeClause(e, c) = {x, y}
    BY DEF EdgeClause
  <2> HIDE DEF x, y
  <2>4. ClausesOfVertex(v) = {{p0, p1, p2}, {n0, n1, n2}, {p0, n1, n2}, {n0, p1, n2}, {n0, n1, p2}}
    BY FiveClauses
  <2> HIDE DEF p0, p1, p2, n0, n1, n2
  <2>5. {x, y} = {n0, n1, n2}
    BY <1>3, <2>1, <2>3, <2>4
  <2> QED BY <2>2, <2>5
<1> QED BY <1>2, <1>3

-----------------------------------------------------------------------------
\* The clauses given to the solver so far.

OfVertexBefore(cl, k) == \E v \in 0..k-1 : cl \in ClausesOfVertex(v)

\* The clause of the edge at q and the colour c comes before the place (a, d).
Before(q, c, a, d) == q < a \/ (q = a /\ c < d)

OfEdgeBefore(cl, a, d) ==
    \E q \in 0..Len(outEdges)-1, c \in 0..2 : Before(q, c, a, d) /\ cl = EdgeClause(outEdges[q+1], c)

Given(number) == cnt = number /\ IsFiniteSet(clauses) /\ Cardinality(clauses) = cnt

VerticesGiven(k) == nVars = IF k = 0 THEN 0 ELSE 3 * k + 1

VertexPhase ==
    /\ at \in 0..Len(outVertices) /\ colour = 0
    /\ VerticesGiven(at) /\ Given(5 * at)
    /\ \A cl : cl \in clauses <=> OfVertexBefore(cl, at)

EdgePhase ==
    /\ at \in 0..Len(outEdges) /\ colour \in 0..2 /\ (at = Len(outEdges) => colour = 0)
    /\ VerticesGiven(Len(outVertices)) /\ Given(5 * Len(outVertices) + 3 * at + colour)
    /\ \A cl : cl \in clauses <=> OfVertexBefore(cl, Len(outVertices)) \/ OfEdgeBefore(cl, at, colour)

NothingGiven == at = 0 /\ colour = 0 /\ cnt = 0 /\ (entry = "graph" => NewSolver)

FormulaInv ==
    /\ redPc # "idle" => entry = "graph"
    /\ redPc \in {"idle", "line", "reduced"} => NothingGiven
    /\ redPc = "vertices" /\ SimpleEdges(inputEdges) => VertexPhase
    /\ redPc \in {"edges", "filled"} /\ SimpleEdges(inputEdges) => EdgePhase
    /\ redPc = "filled" => at = Len(outEdges)

\* What the formula is made from.
LEMMA LineShape ==
    ASSUME LineInv, SimpleEdges(inputEdges), redPc \notin {"idle", "line"}
    PROVE  /\ Len(outVertices) \in Nat /\ Len(outVertices) = Len(inputEdges)
           /\ outEdges \in Seq(LineEdge) /\ Len(outEdges) \in Nat /\ AllDistinct(outEdges)
           /\ \A q \in 0..Len(outEdges)-1 :
                /\ outEdges[q+1] \in LineEdge /\ outEdges[q+1].from < outEdges[q+1].to
                /\ outEdges[q+1].to < Len(outVertices)
<1>1. /\ Len(outVertices) \in Nat /\ outEdges \in Seq(LineEdge) /\ Len(outEdges) \in Nat
      /\ AllDistinct(outEdges)
  BY LenProperties DEF LineInv, LineFits, LineProgress, LineEdges
<1>2. LineGraphIsRight
  BY LineGraphFits DEF LineInv
<1>3. ASSUME NEW q \in 0..Len(outEdges)-1
      PROVE  /\ outEdges[q+1] \in LineEdge /\ outEdges[q+1].from < outEdges[q+1].to
             /\ outEdges[q+1].to < Len(outVertices)
  <2>1. q + 1 \in 1..Len(outEdges)
    BY <1>1
  <2>2. outEdges[q+1] \in LineEdge
    BY <1>1, <2>1, ElementOfSeq
  <2>3. outEdges[q+1] \in Range(outEdges)
    BY <1>1, <2>1, RangeListed DEF Occurs
  <2>4. \A e \in Range(outEdges) : e.from < e.to /\ e.to < Len(outVertices)
    BY <1>2 DEF LineGraphIsRight, IsSimpleGraph
  <2> QED BY <2>2, <2>3, <2>4
<1>4. Len(outVertices) = Len(inputEdges)
  BY <1>2 DEF LineGraphIsRight
<1> QED BY <1>1, <1>3, <1>4

LEMMA MoreVariables ==
    ASSUME NEW k \in Nat, VerticesGiven(k)
    PROVE  Max({nVars, Var(k, 2) + 1}) = 3 * (k + 1) + 1
<1>1. nVars \in Int /\ nVars <= 3 * k + 1 /\ Var(k, 2) + 1 = 3 * (k + 1) + 1 /\ Var(k, 2) + 1 \in Int
  BY DEF VerticesGiven, Var
<1>2. Max({nVars, Var(k, 2) + 1}) = IF nVars >= Var(k, 2) + 1 THEN nVars ELSE Var(k, 2) + 1
  BY <1>1, MaxOfTwo
<1> QED BY <1>1, <1>2

LEMMA AddVertexKeeps ==
    ASSUME VertexPhase, Len(outVertices) \in Nat, AddVertex
    PROVE  VertexPhase'
<1>1. /\ at \in 0..Len(outVertices)-1 /\ at \in Nat /\ at' = at + 1 /\ cnt' = cnt + 5 /\ cnt = 5 * at
      /\ nVars' = Max({nVars, Var(at, 2) + 1}) /\ clauses' = clauses \cup ClausesOfVertex(at)
      /\ UNCHANGED <<outVertices, colour>> /\ colour = 0
  BY DEF VertexPhase, AddVertex, AddClauses, line, Given
<1>2. VerticesGiven(at)'
  <2>1. nVars' = 3 * (at + 1) + 1
    BY <1>1, MoreVariables DEF VertexPhase
  <2> QED BY <1>1, <2>1 DEF VerticesGiven
<1>3. \A v \in 0..at-1 : v \in Nat /\ v # at
  BY <1>1
<1>4. clauses \cap ClausesOfVertex(at) = {}
  <2>1. ASSUME NEW cl \in clauses, cl \in ClausesOfVertex(at)
        PROVE  FALSE
    <3>1. PICK v \in 0..at-1 : cl \in ClausesOfVertex(v)
      BY DEF VertexPhase, OfVertexBefore
    <3> QED BY <1>1, <1>3, <2>1, <3>1, ClausesDiffer
  <2> QED BY <2>1
<1>5. Given(5 * at)'
  <2>1. IsFiniteSet(clauses) /\ Cardinality(clauses) = cnt
    BY DEF VertexPhase, Given
  <2>2. IsFiniteSet(ClausesOfVertex(at)) /\ Cardinality(ClausesOfVertex(at)) = 5
    BY <1>1, ClausesDiffer
  <2>3. /\ IsFiniteSet(clauses')
        /\ Cardinality(clauses') = Cardinality(clauses) + Cardinality(ClausesOfVertex(at)) - Cardinality({})
    <3> DEFINE Five == ClausesOfVertex(at)
    <3>1. IsFiniteSet(Five) /\ clauses \cap Five = {} /\ clauses' = clauses \cup Five
      BY <1>1, <1>4, <2>2
    <3> HIDE DEF Five
    <3>2. /\ IsFiniteSet(clauses \cup Five)
          /\ Cardinality(clauses \cup Five) = Cardinality(clauses) + Cardinality(Five) - Cardinality(clauses \cap Five)
      BY <2>1, <3>1, FS_Union
    <3>3. /\ IsFiniteSet(clauses')
          /\ Cardinality(clauses') = Cardinality(clauses) + Cardinality(Five) - Cardinality({})
      BY <3>1, <3>2
    <3> QED BY <3>3 DEF Five
  <2>4. Cardinality({}) = 0
    BY FS_EmptySet
  <2>5. Cardinality(clauses') = cnt + 5
    BY <1>1, <2>1, <2>2, <2>3, <2>4
  <2> QED BY <1>1, <2>3, <2>5 DEF Given
<1>6. \A cl : cl \in clauses' <=> OfVertexBefore(cl, at + 1)
  <2> TAKE cl
  <2>1. cl \in clauses' <=> OfVertexBefore(cl, at) \/ cl \in ClausesOfVertex(at)
    BY <1>1 DEF VertexPhase
  <2>2. 0..(at+1)-1 = (0..at-1) \cup {at}
    BY <1>1
  <2> QED BY <2>1, <2>2 DEF OfVertexBefore
<1>7. \A cl, k : OfVertexBefore(cl, k)' <=> OfVertexBefore(cl, k)
  BY DEF OfVertexBefore
<1> QED BY <1>1, <1>2, <1>5, <1>6, <1>7 DEF VertexPhase

LEMMA EdgesBegin ==
    ASSUME VertexPhase, Len(outVertices) \in Nat, Len(outEdges) \in Nat, VerticesDone
    PROVE  EdgePhase'
<1>1. /\ at = Len(outVertices) /\ at' = 0 /\ colour = 0
      /\ UNCHANGED <<outVertices, outEdges, colour, cnt, nVars, clauses>>
  BY DEF VerticesDone, VertexPhase, line, solverInput
<1>2. VerticesGiven(Len(outVertices))'
  BY <1>1 DEF VertexPhase, VerticesGiven
<1>3. (Given(5 * Len(outVertices) + 3 * at + colour))'
  <2>1. 5 * Len(outVertices) + 3 * 0 + 0 = 5 * Len(outVertices)
    OBVIOUS
  <2> QED BY <1>1, <2>1 DEF VertexPhase, Given
<1>4. \A cl : ~ OfEdgeBefore(cl, 0, 0)
  BY DEF OfEdgeBefore, Before
<1>5. \A cl, a, d, k : /\ OfEdgeBefore(cl, a, d)' <=> OfEdgeBefore(cl, a, d)
                       /\ OfVertexBefore(cl, k)' <=> OfVertexBefore(cl, k)
  BY <1>1 DEF OfEdgeBefore, OfVertexBefore
<1> QED BY <1>1, <1>2, <1>3, <1>4, <1>5 DEF VertexPhase, EdgePhase

LEMMA AddEdgeColourKeeps ==
    ASSUME LineInv, SimpleEdges(inputEdges), redPc = "edges", EdgePhase, AddEdgeColour
    PROVE  EdgePhase'
<1> DEFINE n == Len(outVertices)
           m == Len(outEdges)
           e == outEdges[at+1]
           k == EdgeClause(e, colour)
<1>1. /\ n \in Nat /\ m \in Nat /\ AllDistinct(outEdges)
      /\ \A q \in 0..m-1 :
            /\ outEdges[q+1] \in LineEdge /\ outEdges[q+1].from < outEdges[q+1].to
            /\ outEdges[q+1].to < n
  BY LineShape
<1>2. /\ at \in 0..m-1 /\ colour \in 0..2 /\ cnt' = cnt + 1 /\ UNCHANGED <<outVertices, outEdges>>
      /\ IF colour < 2 THEN colour' = colour + 1 /\ at' = at ELSE colour' = 0 /\ at' = at + 1
      /\ nVars' = Max({nVars, 1}) /\ clauses' = clauses \cup {k}
  <2>1. AddClauses({k}, 0) /\ 0 + 1 = 1
    BY DEF AddEdgeColour, EdgeClause
  <2>2. at \in 0..m-1 /\ colour \in 0..2
    BY <1>1 DEF EdgePhase, AddEdgeColour
  <2> QED BY <2>1, <2>2 DEF AddEdgeColour, AddClauses, line
<1>3. /\ e \in LineEdge /\ e.from < e.to /\ e.to < n /\ e.to \in Nat
      /\ at \in Nat /\ colour \in Nat
  BY <1>1, <1>2 DEF LineEdge
<1>4. /\ VerticesGiven(n) /\ Given(5 * n + 3 * at + colour)
      /\ \A cl : cl \in clauses <=> OfVertexBefore(cl, n) \/ OfEdgeBefore(cl, at, colour)
  BY DEF EdgePhase
<1>5. VerticesGiven(n)'
  <2>1. nVars = 3 * n + 1 /\ nVars \in Int /\ nVars >= 1
    BY <1>1, <1>3, <1>4 DEF VerticesGiven
  <2>2. nVars' = nVars
    BY <1>2, <2>1, MaxOfTwo
  <2> QED BY <1>2, <1>4, <2>2 DEF VerticesGiven
<1>6. k \notin clauses
  <2>1. ~ OfVertexBefore(k, n)
    <3>1. \A v \in 0..n-1 : v \in Nat
      BY <1>1
    <3> QED BY <1>2, <1>3, <3>1, EdgeClauses DEF OfVertexBefore
  <2>2. ASSUME NEW q \in 0..m-1, NEW c \in 0..2, Before(q, c, at, colour), k = EdgeClause(outEdges[q+1], c)
        PROVE  FALSE
    <3>1. outEdges[q+1] = e /\ c = colour
      BY <1>1, <1>2, <1>3, <2>2, EdgeClauses
    <3>2. q = at
      <4>1. q + 1 \in 1..Len(outEdges) /\ at + 1 \in 1..Len(outEdges)
        BY <1>1, <1>2
      <4>2. q + 1 = at + 1
        BY <1>1, <3>1, <4>1 DEF AllDistinct
      <4> QED BY <1>1, <1>3, <4>2
    <3> QED BY <1>2, <1>3, <2>2, <3>1, <3>2 DEF Before
  <2> QED BY <1>4, <2>1, <2>2 DEF OfEdgeBefore
<1>7. Given(5 * n + 3 * at + colour)'
  <2>1. cnt = 5 * n + 3 * at + colour /\ IsFiniteSet(clauses) /\ Cardinality(clauses) = cnt
    BY <1>4 DEF Given
  <2>2. IsFiniteSet(clauses') /\ Cardinality(clauses') = cnt + 1
    <3> HIDE DEF k
    <3>1. IsFiniteSet(clauses \cup {k}) /\ Cardinality(clauses \cup {k}) = Cardinality(clauses) + 1
      BY <1>6, <2>1, FS_AddElement
    <3> QED BY <1>2, <2>1, <3>1
  <2>3. cnt' = 5 * n + 3 * at' + colour' /\ n' = n
    <3>1. CASE colour < 2
      BY <1>1, <1>2, <1>3, <2>1, <3>1
    <3>2. CASE ~ (colour < 2)
      <4>1. colour = 2 /\ colour' = 0 /\ at' = at + 1
        BY <1>2, <3>2
      <4> QED BY <1>1, <1>2, <1>3, <2>1, <4>1
    <3> QED BY <3>1, <3>2
  <2> QED BY <1>2, <2>2, <2>3 DEF Given
<1>8. \A cl : OfEdgeBefore(cl, at', colour') <=> OfEdgeBefore(cl, at, colour) \/ cl = k
  <2>1. ASSUME NEW q \in 0..m-1, NEW c \in 0..2
        PROVE  Before(q, c, at', colour') <=> Before(q, c, at, colour) \/ (q = at /\ c = colour)
    BY <1>1, <1>2, <1>3 DEF Before
  <2> QED BY <1>2, <2>1 DEF OfEdgeBefore
<1>9. \A cl, a, d, b : /\ OfEdgeBefore(cl, a, d)' <=> OfEdgeBefore(cl, a, d)
                       /\ OfVertexBefore(cl, b)' <=> OfVertexBefore(cl, b)
  BY <1>2 DEF OfEdgeBefore, OfVertexBefore
<1>10. \A cl : cl \in clauses' <=> OfVertexBefore(cl, n) \/ OfEdgeBefore(cl, at', colour')
  BY <1>2, <1>4, <1>8
<1>11. at' \in 0..m /\ colour' \in 0..2 /\ (at' = m => colour' = 0) /\ n' = n /\ m' = m
  BY <1>1, <1>2, <1>3
<1> HIDE DEF k, e
<1> QED BY <1>5, <1>7, <1>9, <1>10, <1>11 DEF EdgePhase

LEMMA FormulaStays ==
    ASSUME FormulaInv, UNCHANGED <<reduction, solverInput, entry>>
    PROVE  FormulaInv'
<1>1. UNCHANGED <<inputEdges, outVertices, outEdges, at, colour, cnt, redPc, nVars, clauses, entry>>
  BY DEF reduction, line, solverInput
<1> QED BY <1>1 DEF FormulaInv, NothingGiven, VertexPhase, EdgePhase, VerticesGiven, Given,
             OfVertexBefore, OfEdgeBefore, NewSolver

\* The solver is not touched while the line graph is made.
LEMMA NothingGivenYet ==
    ASSUME FormulaInv, redPc \in {"idle", "line", "reduced"}, UNCHANGED <<formula, entry>>,
           redPc' \in {"line", "reduced"}, entry = "graph"
    PROVE  FormulaInv'
  BY DEF FormulaInv, NothingGiven, formula, solverInput, NewSolver

LEMMA FormulaStep ==
    ASSUME LineInv, FormulaInv, [Next]_vars
    PROVE  FormulaInv'
<1>1. CASE LineGraphOfIt
  <2>1. entry = "graph" /\ entry' = entry
    BY <1>1 DEF LineGraphOfIt, driver
  <2>2. redPc \in {"idle", "line", "reduced"} /\ redPc' \in {"line", "reduced"} /\ UNCHANGED formula
    BY <1>1 DEF LineGraphOfIt, CallReduceEdge3Col, ReduceEdge3Col, Compare, NextVertex, LineGraphDone
  <2> QED BY <2>1, <2>2, NothingGivenYet
<1>2. CASE FillFromGraph
  <2>1. /\ entry = "graph" /\ entry' = entry /\ inputEdges' = inputEdges
        /\ redPc \notin {"idle", "line"} /\ redPc' \in {"vertices", "edges", "filled"}
    BY <1>2 DEF FillFromGraph, driver, CallReduceVert3Col, ReduceVert3Col, AddVertex, VerticesDone,
                AddEdgeColour, EdgesDone, line
  <2> SUFFICES /\ redPc' = "vertices" /\ SimpleEdges(inputEdges) => VertexPhase'
               /\ redPc' \in {"edges", "filled"} /\ SimpleEdges(inputEdges) => EdgePhase'
               /\ redPc' = "filled" => at' = Len(outEdges')
    BY <2>1 DEF FormulaInv
  <2>2. SimpleEdges(inputEdges) => Len(outVertices) \in Nat /\ Len(outEdges) \in Nat
    BY <2>1, LineShape
  <2>3. CASE CallReduceVert3Col
    <3>1. /\ redPc = "reduced" /\ redPc' = "vertices"
          /\ UNCHANGED <<outVertices, at, colour, cnt, nVars, clauses>>
      BY <2>3 DEF CallReduceVert3Col, line, formula, solverInput
    <3>2. at = 0 /\ colour = 0 /\ cnt = 0 /\ nVars = 0 /\ clauses = {}
      BY <2>1, <3>1 DEF FormulaInv, NothingGiven, NewSolver
    <3>3. Given(5 * at)'
      <4>1. IsFiniteSet({}) /\ Cardinality({}) = 0
        BY FS_EmptySet
      <4> QED BY <3>1, <3>2, <4>1 DEF Given
    <3>4. \A cl : ~ OfVertexBefore(cl, 0)
      BY DEF OfVertexBefore
    <3>5. VerticesGiven(at)'
      BY <3>1, <3>2 DEF VerticesGiven
    <3>6. \A cl, k : OfVertexBefore(cl, k)' <=> OfVertexBefore(cl, k)
      BY DEF OfVertexBefore
    <3>7. SimpleEdges(inputEdges) => VertexPhase'
      BY <2>2, <3>1, <3>2, <3>3, <3>4, <3>5, <3>6 DEF VertexPhase
    <3> QED BY <3>1, <3>7
  <2>4. CASE AddVertex
    <3>1. redPc = "vertices" /\ redPc' = "vertices"
      BY <2>4 DEF AddVertex
    <3> QED BY <2>2, <2>4, <3>1, AddVertexKeeps DEF FormulaInv
  <2>5. CASE VerticesDone
    <3>1. redPc = "vertices" /\ redPc' = "edges"
      BY <2>5 DEF VerticesDone
    <3> QED BY <2>2, <2>5, <3>1, EdgesBegin DEF FormulaInv
  <2>6. CASE AddEdgeColour
    <3>1. redPc = "edges" /\ redPc' = "edges"
      BY <2>6 DEF AddEdgeColour
    <3> QED BY <2>6, <3>1, AddEdgeColourKeeps DEF FormulaInv
  <2>7. CASE EdgesDone
    <3>1. /\ redPc = "edges" /\ redPc' = "filled" /\ at = Len(outEdges)
          /\ UNCHANGED <<outVertices, outEdges, at, colour, cnt, nVars, clauses>>
      BY <2>7 DEF EdgesDone, line, formula, solverInput
    <3>2. EdgePhase => EdgePhase'
      BY <3>1 DEF EdgePhase, VerticesGiven, Given, OfVertexBefore, OfEdgeBefore
    <3> QED BY <3>1, <3>2 DEF FormulaInv
  <2> QED BY <1>2, <2>3, <2>4, <2>5, <2>6, <2>7 DEF FillFromGraph, ReduceVert3Col
<1>3. CASE FillFromFile
  <2>1. entry = "file" /\ entry' = entry /\ UNCHANGED <<at, colour, cnt, redPc>>
    BY <1>3 DEF FillFromFile, driver, reduction
  <2>2. redPc = "idle"
    BY <2>1 DEF FormulaInv
  <2> QED BY <2>1, <2>2 DEF FormulaInv, NothingGiven
<1>4. CASE GraphFromBAFile \/ CallSolver \/ Interrupt \/ UNCHANGED vars
  <2>1. UNCHANGED <<reduction, solverInput, entry>>
    BY <1>4 DEF GraphFromBAFile, CallSolver, Interrupt, vars, driver, Drive, MakeSolver, SetExitHandlers,
         OpenResult, Filled, SetInterruptHandlers, EliminatedToUnsat, EliminatedToDimacs, Eliminated,
         Solve, Write, CloseResult, OutOfMemory, ParserExits, Signal
  <2> QED BY <2>1, FormulaStays
<1> QED BY <1>1, <1>2, <1>3, <1>4 DEF Next, Step

LEMMA FormulaStarts == Init => FormulaInv
  BY DEF Init, ReductionInit, NewSolver, FormulaInv, NothingGiven

-----------------------------------------------------------------------------
(* What the clauses say. *)

Opposed(m, X) == \A x \in X : -x \in m <=> x \notin m

LEMMA ValuationOpposed ==
    ASSUME NEW X \in SUBSET (Nat \ {0}), NEW T \in SUBSET X
    PROVE  LET m == {IF x \in T THEN x ELSE -x : x \in X}
           IN  Opposed(m, X) /\ \A x \in X : x \in m <=> x \in T
<1> DEFINE m == {IF x \in T THEN x ELSE -x : x \in X}
<1>1. \A l : l \in m <=> \E x \in X : l = IF x \in T THEN x ELSE -x
  OBVIOUS
<1>2. \A x \in X : x \in Nat /\ x > 0
  OBVIOUS
<1> HIDE DEF m
<1>3. ASSUME NEW x \in X
      PROVE  (x \in m <=> x \in T) /\ (-x \in m <=> x \notin T)
  <2>1. ASSUME NEW y \in X
        PROVE  -x # y /\ x # -y /\ (-x = -y => x = y)
    BY <1>2
  <2> QED BY <1>1, <2>1
<1>4. Opposed(m, X) /\ \A x \in X : x \in m <=> x \in T
  BY <1>3 DEF Opposed
<1> QED BY <1>4 DEF m

ChosenAt(m, v) == {c \in 0..2 : Pos(Var(v, c)) \in m}

\* The five clauses of a vertex say that it has exactly one colour.
LEMMA OneColour ==
    ASSUME NEW v \in Nat, NEW m, \A c \in 0..2 : Neg(Var(v, c)) \in m <=> Pos(Var(v, c)) \notin m
    PROVE  (\A cl \in ClausesOfVertex(v) : m \cap cl # {}) <=> ChosenAt(m, v) \in {{0}, {1}, {2}}
<1> DEFINE p0 == Pos(Var(v, 0))
           p1 == Pos(Var(v, 1))
           p2 == Pos(Var(v, 2))
           n0 == Neg(Var(v, 0))
           n1 == Neg(Var(v, 1))
           n2 == Neg(Var(v, 2))
<1>1. ClausesOfVertex(v) = {{p0, p1, p2}, {n0, n1, n2}, {p0, n1, n2}, {n0, p1, n2}, {n0, n1, p2}}
  BY FiveClauses
<1>2. (n0 \in m <=> p0 \notin m) /\ (n1 \in m <=> p1 \notin m) /\ (n2 \in m <=> p2 \notin m)
  OBVIOUS
<1>3. \A c : c \in ChosenAt(m, v) <=> (c = 0 /\ p0 \in m) \/ (c = 1 /\ p1 \in m) \/ (c = 2 /\ p2 \in m)
  BY Three DEF ChosenAt
<1> HIDE DEF p0, p1, p2, n0, n1, n2
<1>4. (\A cl \in ClausesOfVertex(v) : m \cap cl # {})
        <=> /\ p0 \in m \/ p1 \in m \/ p2 \in m
            /\ n0 \in m \/ n1 \in m \/ n2 \in m
            /\ p0 \in m \/ n1 \in m \/ n2 \in m
            /\ n0 \in m \/ p1 \in m \/ n2 \in m
            /\ n0 \in m \/ n1 \in m \/ p2 \in m
  <2>1. \A x, y, z : m \cap {x, y, z} # {} <=> x \in m \/ y \in m \/ z \in m
    OBVIOUS
  <2>2. (\A cl \in ClausesOfVertex(v) : m \cap cl # {})
          <=> /\ m \cap {p0, p1, p2} # {} /\ m \cap {n0, n1, n2} # {} /\ m \cap {p0, n1, n2} # {}
              /\ m \cap {n0, p1, n2} # {} /\ m \cap {n0, n1, p2} # {}
    BY <1>1
  <2> QED BY <2>1, <2>2
<1>5. ChosenAt(m, v) = {0} <=> p0 \in m /\ p1 \notin m /\ p2 \notin m
  BY <1>3
<1>6. ChosenAt(m, v) = {1} <=> p0 \notin m /\ p1 \in m /\ p2 \notin m
  BY <1>3
<1>7. ChosenAt(m, v) = {2} <=> p0 \notin m /\ p1 \notin m /\ p2 \in m
  BY <1>3
<1> QED BY <1>2, <1>4, <1>5, <1>6, <1>7

\* The clause of an edge and a colour says that its ends do not both have it.
LEMMA NotBoth ==
    ASSUME NEW e \in LineEdge, NEW c \in 0..2, NEW m,
           \A v \in {e.from, e.to} : Neg(Var(v, c)) \in m <=> Pos(Var(v, c)) \notin m
    PROVE  m \cap EdgeClause(e, c) # {} <=> ~ (c \in ChosenAt(m, e.from) /\ c \in ChosenAt(m, e.to))
  BY DEF EdgeClause, ChosenAt

Vertices == 0..Len(outVertices)-1
Numbered == {Pos(Var(v, c)) : v \in Vertices, c \in 0..2}

OfEdge(cl) == \E q \in 0..Len(outEdges)-1, c \in 0..2 : cl = EdgeClause(outEdges[q+1], c)

\* The formula, when the solver is filled.
LEMMA FormulaIs ==
    ASSUME LineInv, FormulaInv, SimpleEdges(inputEdges), redPc = "filled"
    PROVE  /\ HeaderMatches
           /\ \A cl : cl \in clauses <=> (\E v \in Vertices : cl \in ClausesOfVertex(v)) \/ OfEdge(cl)
<1>1. /\ Len(outVertices) \in Nat /\ outVertices \in Seq(LineVertex) /\ Len(outEdges) \in Nat
  BY LineShape DEF LineInv, LineFits, LineProgress
<1>2. EdgePhase /\ at = Len(outEdges) /\ colour = 0
  BY DEF FormulaInv, EdgePhase
<1>3. outVertices = <<>> <=> Len(outVertices) = 0
  BY <1>1, EmptySeq
<1>4. HeaderMatches
  BY <1>1, <1>2, <1>3 DEF EdgePhase, HeaderMatches, VerticesGiven, Given
<1>5. \A cl : OfEdgeBefore(cl, Len(outEdges), 0) <=> OfEdge(cl)
  <2>1. \A q \in 0..Len(outEdges)-1, c \in 0..2 : Before(q, c, Len(outEdges), 0)
    BY <1>1 DEF Before
  <2> QED BY <2>1 DEF OfEdgeBefore, OfEdge
<1> QED BY <1>2, <1>4, <1>5 DEF EdgePhase, OfVertexBefore, Vertices

LEMMA VariablesAre ==
    ASSUME LineInv, FormulaInv, SimpleEdges(inputEdges), redPc = "filled"
    PROVE  VarsOf(clauses) = Numbered /\ Numbered \in SUBSET (Nat \ {0})
<1>1. \A cl : cl \in clauses <=> (\E v \in Vertices : cl \in ClausesOfVertex(v)) \/ OfEdge(cl)
  BY FormulaIs
<1>2. /\ Len(outVertices) \in Nat
      /\ \A q \in 0..Len(outEdges)-1 :
            /\ outEdges[q+1] \in LineEdge /\ outEdges[q+1].from < outEdges[q+1].to
            /\ outEdges[q+1].to < Len(outVertices)
  BY LineShape
<1>3. \A v \in Vertices : v \in Nat
  BY <1>2 DEF Vertices
<1>4. ASSUME NEW v \in Vertices, NEW c \in 0..2
      PROVE  VarOf(Pos(Var(v, c))) = Pos(Var(v, c)) /\ VarOf(Neg(Var(v, c))) = Pos(Var(v, c))
  <2> DEFINE x == Pos(Var(v, c))
             y == Neg(Var(v, c))
  <2>1. x \in Nat \ {0} /\ y = -x
    BY <1>3, Numbers
  <2> HIDE DEF x, y
  <2>2. VarOf(x) = x /\ VarOf(y) = x
    BY <2>1 DEF VarOf
  <2> QED BY <2>2 DEF x, y
<1>5. ASSUME NEW cl \in clauses, NEW l \in cl
      PROVE  \E v \in Vertices, c \in 0..2 : l = Pos(Var(v, c)) \/ l = Neg(Var(v, c))
  <2>1. CASE \E v \in Vertices : cl \in ClausesOfVertex(v)
    BY <1>5, <2>1 DEF ClausesOfVertex
  <2>2. CASE OfEdge(cl)
    <3>1. PICK q \in 0..Len(outEdges)-1, c \in 0..2 : cl = EdgeClause(outEdges[q+1], c)
      BY <2>2 DEF OfEdge
    <3>2. outEdges[q+1].from \in Vertices /\ outEdges[q+1].to \in Vertices
      BY <1>2 DEF LineEdge, Vertices
    <3> QED BY <1>5, <3>1, <3>2 DEF EdgeClause
  <2> QED BY <1>1, <1>5, <2>1, <2>2
<1>6. ASSUME NEW v \in Vertices, NEW c \in 0..2
      PROVE  \E cl \in clauses : Pos(Var(v, c)) \in cl
  <2>1. {Pos(Var(v, d)) : d \in 0..2} \in ClausesOfVertex(v)
    BY DEF ClausesOfVertex
  <2> QED BY <1>1, <2>1
<1>7. VarsOf(clauses) = Numbered
  <2>1. \A x : x \in VarsOf(clauses) <=> \E cl \in clauses : \E l \in cl : x = VarOf(l)
    BY DEF VarsOf
  <2> QED BY <1>4, <1>5, <1>6, <2>1 DEF Numbered
<1>8. Numbered \in SUBSET (Nat \ {0})
  <2>1. ASSUME NEW v \in Vertices, NEW c \in 0..2
        PROVE  Pos(Var(v, c)) \in Nat \ {0}
    BY <1>3, Numbers
  <2> QED BY <2>1 DEF Numbered
<1> QED BY <1>7, <1>8

Good(m) == \A cl \in clauses : m \cap cl # {}

OneEach(m) == \A v \in Vertices : ChosenAt(m, v) \in {{0}, {1}, {2}}

EndsDiffer(m) ==
    \A q \in 0..Len(outEdges)-1 : ChosenAt(m, outEdges[q+1].from) # ChosenAt(m, outEdges[q+1].to)

\* The clauses are true when every vertex has one colour and the ends of every
\* edge have different ones.
LEMMA GoodIsColouring ==
    ASSUME LineInv, FormulaInv, SimpleEdges(inputEdges), redPc = "filled",
           NEW m, Opposed(m, Numbered)
    PROVE  Good(m) <=> OneEach(m) /\ EndsDiffer(m)
<1>1. /\ Len(outVertices) \in Nat
      /\ \A q \in 0..Len(outEdges)-1 :
            /\ outEdges[q+1] \in LineEdge /\ outEdges[q+1].from < outEdges[q+1].to
            /\ outEdges[q+1].to < Len(outVertices)
  BY LineShape
<1>2. ASSUME NEW q \in 0..Len(outEdges)-1
      PROVE  outEdges[q+1].from \in Vertices /\ outEdges[q+1].to \in Vertices
  BY <1>1 DEF Vertices, LineEdge
<1>3. \A v \in Vertices : v \in Nat
  BY <1>1 DEF Vertices
<1>4. ASSUME NEW v \in Vertices, NEW c \in 0..2
      PROVE  Neg(Var(v, c)) \in m <=> Pos(Var(v, c)) \notin m
  <2>1. Pos(Var(v, c)) \in Numbered
    BY DEF Numbered
  <2>2. Neg(Var(v, c)) = -Pos(Var(v, c))
    BY <1>3, Numbers
  <2> QED BY <2>1, <2>2 DEF Opposed
<1>5. ASSUME NEW v \in Vertices
      PROVE  (\A cl \in ClausesOfVertex(v) : m \cap cl # {}) <=> ChosenAt(m, v) \in {{0}, {1}, {2}}
  BY <1>3, <1>4, OneColour
<1>6. ASSUME NEW q \in 0..Len(outEdges)-1, NEW c \in 0..2
      PROVE  m \cap EdgeClause(outEdges[q+1], c) # {}
               <=> ~ (c \in ChosenAt(m, outEdges[q+1].from) /\ c \in ChosenAt(m, outEdges[q+1].to))
  BY <1>1, <1>2, <1>4, NotBoth
<1>7. Good(m) <=> OneEach(m) /\ \A q \in 0..Len(outEdges)-1, c \in 0..2 : m \cap EdgeClause(outEdges[q+1], c) # {}
  <2>1. \A cl : cl \in clauses <=> (\E v \in Vertices : cl \in ClausesOfVertex(v)) \/ OfEdge(cl)
    BY FormulaIs
  <2>2. (\A cl : OfEdge(cl) => m \cap cl # {})
          <=> \A q \in 0..Len(outEdges)-1, c \in 0..2 : m \cap EdgeClause(outEdges[q+1], c) # {}
    BY DEF OfEdge
  <2>3. Good(m) <=> /\ \A v \in Vertices : \A cl \in ClausesOfVertex(v) : m \cap cl # {}
                    /\ \A cl : OfEdge(cl) => m \cap cl # {}
    BY <2>1 DEF Good
  <2> QED BY <1>5, <2>2, <2>3 DEF OneEach
<1>8. \A f, g \in {{0}, {1}, {2}} : (\A c \in 0..2 : ~ (c \in f /\ c \in g)) <=> f # g
  BY Three
<1>9. OneEach(m) => ((\A q \in 0..Len(outEdges)-1, c \in 0..2 : m \cap EdgeClause(outEdges[q+1], c) # {})
                       <=> EndsDiffer(m))
  <2> SUFFICES ASSUME OneEach(m), NEW q \in 0..Len(outEdges)-1
               PROVE  (\A c \in 0..2 : m \cap EdgeClause(outEdges[q+1], c) # {})
                         <=> ChosenAt(m, outEdges[q+1].from) # ChosenAt(m, outEdges[q+1].to)
    BY DEF EndsDiffer
  <2> DEFINE f == ChosenAt(m, outEdges[q+1].from)
             g == ChosenAt(m, outEdges[q+1].to)
  <2>1. f \in {{0}, {1}, {2}} /\ g \in {{0}, {1}, {2}}
    BY <1>2 DEF OneEach
  <2>2. (\A c \in 0..2 : m \cap EdgeClause(outEdges[q+1], c) # {}) <=> \A c \in 0..2 : ~ (c \in f /\ c \in g)
    BY <1>6
  <2> HIDE DEF f, g
  <2>3. (\A c \in 0..2 : ~ (c \in f /\ c \in g)) <=> f # g
    BY <1>8, <2>1
  <2> QED BY <2>2, <2>3 DEF f, g
<1> QED BY <1>7, <1>9

\* The vertices of the line graph are the edges of the graph.
LEMMA ColouringIsProper ==
    ASSUME LineInv, SimpleEdges(inputEdges), redPc = "filled", NEW m
    PROVE  ColoursOf(m) \in ProperColourings <=> OneEach(m) /\ EndsDiffer(m)
<1>1. /\ Len(outVertices) \in Nat /\ Len(outVertices) = Len(inputEdges)
      /\ outEdges \in Seq(LineEdge) /\ Len(outEdges) \in Nat
      /\ \A q \in 0..Len(outEdges)-1 :
            /\ outEdges[q+1] \in LineEdge /\ outEdges[q+1].from < outEdges[q+1].to
            /\ outEdges[q+1].to < Len(outVertices)
  BY LineShape
<1> DEFINE Colour(n) == ChosenAt(m, n - 1)
<1>2. ColoursOf(m) = [n \in 1..Len(inputEdges) |-> Colour(n)]
  BY <1>1 DEF ColoursOf, ChosenAt
<1>3. OneEach(m) <=> \A n \in 1..Len(inputEdges) : Colour(n) \in {{0}, {1}, {2}}
  <2>1. \A n \in 1..Len(inputEdges) : n - 1 \in Vertices
    BY <1>1 DEF Vertices
  <2>2. \A v \in Vertices : v + 1 \in 1..Len(inputEdges) /\ (v + 1) - 1 = v
    BY <1>1 DEF Vertices
  <2> QED BY <2>1, <2>2 DEF OneEach
<1>4. \A n, k \in 1..Len(inputEdges) :
         MkEdge(n - 1, k - 1) \in Range(outEdges)
            <=> n # k /\ Ends(inputEdges[n]) \cap Ends(inputEdges[k]) # {}
  BY LineGraphFits DEF LineInv, LineGraphIsRight
<1>5. \A e : e \in Range(outEdges) <=> \E q \in 0..Len(outEdges)-1 : e = outEdges[q+1]
  <2>1. \A e : e \in Range(outEdges) <=> \E i \in 1..Len(outEdges) : outEdges[i] = e
    BY <1>1, RangeListed DEF Occurs
  <2>2. \A i \in 1..Len(outEdges) : i - 1 \in 0..Len(outEdges)-1 /\ (i - 1) + 1 = i
    BY <1>1
  <2>3. \A q \in 0..Len(outEdges)-1 : q + 1 \in 1..Len(outEdges)
    BY <1>1
  <2> QED BY <2>1, <2>2, <2>3
<1>6. EndsDiffer(m)
        <=> \A n, k \in 1..Len(inputEdges) :
              n < k /\ Ends(inputEdges[n]) \cap Ends(inputEdges[k]) # {} => Colour(n) # Colour(k)
  <2>1. ASSUME EndsDiffer(m), NEW n \in 1..Len(inputEdges), NEW k \in 1..Len(inputEdges),
               n < k, Ends(inputEdges[n]) \cap Ends(inputEdges[k]) # {}
        PROVE  Colour(n) # Colour(k)
    <3>1. n # k
      BY <1>1, <2>1
    <3>2. MkEdge(n - 1, k - 1) \in Range(outEdges)
      BY <1>4, <2>1, <3>1
    <3>3. PICK q \in 0..Len(outEdges)-1 : MkEdge(n - 1, k - 1) = outEdges[q+1]
      BY <1>5, <3>2
    <3>4. MkEdge(n - 1, k - 1) = [from |-> n - 1, to |-> k - 1]
      BY <1>1, <2>1 DEF MkEdge
    <3>5. outEdges[q+1].from = n - 1 /\ outEdges[q+1].to = k - 1
      BY <3>3, <3>4
    <3> QED BY <2>1, <3>5 DEF EndsDiffer
  <2>2. ASSUME NEW q \in 0..Len(outEdges)-1,
               \A n, k \in 1..Len(inputEdges) :
                  n < k /\ Ends(inputEdges[n]) \cap Ends(inputEdges[k]) # {} => Colour(n) # Colour(k)
        PROVE  ChosenAt(m, outEdges[q+1].from) # ChosenAt(m, outEdges[q+1].to)
    <3> DEFINE e == outEdges[q+1]
    <3>1. e \in LineEdge /\ e.from < e.to /\ e.to < Len(inputEdges) /\ e.from \in Nat /\ e.to \in Nat
      BY <1>1 DEF LineEdge
    <3>2. e \in Range(outEdges)
      BY <1>5
    <3> HIDE DEF e
    <3> DEFINE n == e.from + 1
               k == e.to + 1
    <3>3. /\ n \in 1..Len(inputEdges) /\ k \in 1..Len(inputEdges) /\ n < k /\ n # k
          /\ n - 1 = e.from /\ k - 1 = e.to
      BY <1>1, <3>1
    <3>4. MkEdge(n - 1, k - 1) = e
      BY <3>1, <3>3 DEF MkEdge, LineEdge
    <3> HIDE DEF n, k
    <3>5. Ends(inputEdges[n]) \cap Ends(inputEdges[k]) # {}
      BY <1>4, <3>2, <3>3, <3>4
    <3>6. Colour(n) # Colour(k)
      BY <2>2, <3>3, <3>5
    <3> QED BY <3>3, <3>6 DEF e
  <2> QED BY <2>1, <2>2 DEF EndsDiffer
<1> HIDE DEF Colour
<1>7. ColoursOf(m) \in [1..Len(inputEdges) -> {{0}, {1}, {2}}] <=> OneEach(m)
  BY <1>2, <1>3
<1>8. \A n \in 1..Len(inputEdges) : ColoursOf(m)[n] = Colour(n)
  BY <1>2
<1> QED BY <1>6, <1>7, <1>8 DEF ProperColourings

LEMMA ValuationsOpposed ==
    ASSUME NEW X \in SUBSET (Nat \ {0}), NEW m \in Valuations(X)
    PROVE  Opposed(m, X)
<1>1. PICK T \in SUBSET X : m = {IF x \in T THEN x ELSE -x : x \in X}
  BY DEF Valuations
<1> QED BY <1>1, ValuationOpposed

\* Every choice of colours is said by a valuation.
LEMMA ColoursSaid ==
    ASSUME LineInv, FormulaInv, SimpleEdges(inputEdges), redPc = "filled",
           NEW f \in [1..Len(inputEdges) -> {{0}, {1}, {2}}]
    PROVE  \E m \in Valuations(Numbered) : Opposed(m, Numbered) /\ ColoursOf(m) = f
<1>1. Len(outVertices) \in Nat /\ Len(outVertices) = Len(inputEdges)
  BY LineShape
<1>2. Numbered \in SUBSET (Nat \ {0})
  BY VariablesAre
<1> DEFINE T == {x \in Numbered : \E w \in Vertices, d \in 0..2 : d \in f[w+1] /\ x = Pos(Var(w, d))}
           m == {IF x \in T THEN x ELSE -x : x \in Numbered}
<1>3. \A v \in Vertices : v \in Nat
  BY <1>1 DEF Vertices
<1>4. ASSUME NEW v \in Vertices, NEW c \in 0..2
      PROVE  Pos(Var(v, c)) \in T <=> c \in f[v+1]
  <2>1. \A x : x \in T <=> \E w \in Vertices, d \in 0..2 : d \in f[w+1] /\ x = Pos(Var(w, d))
    BY DEF Numbered
  <2> HIDE DEF T
  <2>2. \A w \in Vertices, d \in 0..2 : Pos(Var(v, c)) = Pos(Var(w, d)) <=> v = w /\ c = d
    BY <1>3, NumbersDiffer
  <2> QED BY <2>1, <2>2
<1>5. T \in SUBSET Numbered
  OBVIOUS
<1> HIDE DEF T
<1>6. Opposed(m, Numbered) /\ \A x \in Numbered : x \in m <=> x \in T
  BY <1>2, <1>5, ValuationOpposed
<1>7. m \in Valuations(Numbered)
  BY <1>5 DEF Valuations
<1> HIDE DEF m
<1>8. ASSUME NEW n \in 1..Len(outVertices)
      PROVE  {c \in 0..2 : Pos(Var(n - 1, c)) \in m} = f[n]
  <2>1. n - 1 \in Vertices /\ (n - 1) + 1 = n
    BY <1>1 DEF Vertices
  <2>2. ASSUME NEW c \in 0..2
        PROVE  Pos(Var(n - 1, c)) \in m <=> c \in f[n]
    <3>1. Pos(Var(n - 1, c)) \in Numbered
      BY <2>1 DEF Numbered
    <3> QED BY <1>4, <1>6, <2>1, <3>1
  <2>3. f[n] \in {{0}, {1}, {2}}
    BY <1>1
  <2>4. f[n] \in SUBSET (0..2)
    BY <2>3
  <2> QED BY <2>2, <2>4
<1>9. ColoursOf(m) = f
  BY <1>1, <1>8 DEF ColoursOf
<1> QED BY <1>6, <1>7, <1>9

LEMMA SatisfyingAreColourings ==
    ASSUME LineInv, FormulaInv, SimpleEdges(inputEdges), redPc = "filled"
    PROVE  {ColoursOf(m) : m \in Satisfying(clauses)} = ProperColourings
<1>1. VarsOf(clauses) = Numbered /\ Numbered \in SUBSET (Nat \ {0})
  BY VariablesAre
<1>2. Satisfying(clauses) = {m \in Valuations(Numbered) : Good(m)}
  BY <1>1 DEF Satisfying, Good
<1>3. ASSUME NEW m, Opposed(m, Numbered)
      PROVE  Good(m) <=> ColoursOf(m) \in ProperColourings
  BY <1>3, GoodIsColouring, ColouringIsProper
<1>4. ASSUME NEW m \in Satisfying(clauses)
      PROVE  ColoursOf(m) \in ProperColourings
  BY <1>1, <1>2, <1>3, ValuationsOpposed
<1>5. ASSUME NEW f \in ProperColourings
      PROVE  \E m \in Satisfying(clauses) : f = ColoursOf(m)
  <2>1. PICK m \in Valuations(Numbered) : Opposed(m, Numbered) /\ ColoursOf(m) = f
    BY ColoursSaid DEF ProperColourings
  <2> QED BY <1>2, <1>3, <2>1
<1> QED BY <1>4, <1>5

FormulaIsRight ==
    redPc = "filled" => {ColoursOf(m) : m \in Satisfying(clauses)} = ProperColourings /\ HeaderMatches

(***************************************************************************)
(* The formula that reduceVert3Col_SAT gives the solver for a graph of any *)
(* size (GraphFunctions.cpp 326-466) is satisfied by the valuations that   *)
(* stand for a proper 3-colouring of the edges and by no others, and it    *)
(* has as many variables and clauses as the numbers it is compared with at *)
(* 460-463: no clause is added twice, though an edge of the line graph is  *)
(* met from both its ends.  The edges are those of a file that says none   *)
(* twice, as in SpecLineGraphIsRight.                                      *)
(***************************************************************************)
THEOREM SpecFormulaIsRight == Spec => [](SimpleEdges(inputEdges) => FormulaIsRight)
<1>1. LineInv /\ FormulaInv /\ [Next]_vars => FormulaInv'
  BY FormulaStep
<1>2. LineInv /\ FormulaInv => (SimpleEdges(inputEdges) => FormulaIsRight)
  BY FormulaIs, SatisfyingAreColourings DEF FormulaIsRight
<1> QED BY <1>1, <1>2, FormulaStarts, SpecLineInv, PTL DEF Spec

-----------------------------------------------------------------------------
(***************************************************************************)
(* Models finds the satisfying valuations.  Of a clause only the literals  *)
(* over the set Y of variables left can be tried; what is found of G and Y *)
(* is Solved(G, Y), which satisfies the recursion, and nothing else does.  *)
(***************************************************************************)

Numbers1 == Nat \ {0}
Literals == Int \ {0}

Covers(m, G, Y) == \A c \in G : VarsOf({c}) \subseteq Y => m \cap c # {}

Solved(G, Y) == {m \in Valuations(Y) : Covers(m, G, Y)}

\* m has one literal of each variable of Y, and no others.
OneOfEach(m, Y) ==
    /\ \A k \in m : k \in Literals /\ VarOf(k) \in Y
    /\ \A x \in Y : -x \in m <=> x \notin m

LEMMA ValuationsAre ==
    ASSUME NEW Y \in SUBSET Numbers1, NEW m
    PROVE  m \in Valuations(Y) <=> OneOfEach(m, Y)
<1>1. ASSUME m \in Valuations(Y)
      PROVE  OneOfEach(m, Y)
  <2>1. PICK T \in SUBSET Y : m = {IF x \in T THEN x ELSE -x : x \in Y}
    BY <1>1 DEF Valuations
  <2>2. \A x \in Y : -x \in m <=> x \notin m
    BY <2>1, ValuationOpposed DEF Numbers1, Opposed
  <2>3. \A k \in m : k \in Literals /\ VarOf(k) \in Y
    BY <2>1 DEF Numbers1, Literals, VarOf
  <2> QED BY <2>2, <2>3 DEF OneOfEach
<1>2. ASSUME OneOfEach(m, Y)
      PROVE  m \in Valuations(Y)
  <2> DEFINE T == m \cap Y
  <2>1. \A k \in m : k \in {IF x \in T THEN x ELSE -x : x \in Y}
    <3>1. ASSUME NEW k \in m
          PROVE  k \in {IF x \in T THEN x ELSE -x : x \in Y}
      <4>1. k \in Int /\ k # 0 /\ VarOf(k) \in Y
        BY <1>2 DEF OneOfEach, Literals
      <4>2. CASE k < 0
        <5>1. -k \in Y /\ -(-k) = k
          BY <4>1, <4>2 DEF VarOf
        <5>2. -k \notin m
          BY <1>2, <5>1 DEF OneOfEach
        <5> QED BY <5>1, <5>2
      <4>3. CASE ~ (k < 0)
        BY <4>1, <4>3 DEF VarOf
      <4> QED BY <4>2, <4>3
    <3> QED BY <3>1
  <2>2. \A x \in Y : (IF x \in T THEN x ELSE -x) \in m
    BY <1>2 DEF OneOfEach
  <2>3. m = {IF x \in T THEN x ELSE -x : x \in Y}
    BY <2>1, <2>2
  <2> QED BY <2>3 DEF Valuations
<1> QED BY <1>1, <1>2

LEMMA VarsOfClause ==
    ASSUME NEW c, NEW Y
    PROVE  VarsOf({c}) \subseteq Y <=> \A k \in c : VarOf(k) \in Y
  BY DEF VarsOf

LEMMA SameVariable ==
    ASSUME NEW k \in Literals, NEW l \in Literals
    PROVE  /\ VarOf(k) = VarOf(l) <=> k = l \/ k = -l
           /\ -l \in Literals /\ -l # l /\ VarOf(l) \in Numbers1
           /\ VarOf(l) = l \/ VarOf(l) = -l
           /\ -(-l) = l
  BY DEF Literals, VarOf, Numbers1

\* With l chosen, the rest is a valuation of the rest that covers what is left.
LEMMA Chosen ==
    ASSUME NEW Y \in SUBSET Numbers1, NEW l \in Literals, VarOf(l) \in Y,
           NEW m, OneOfEach(m, Y), l \in m
    PROVE  OneOfEach(m \ {l}, Y \ {VarOf(l)}) /\ -l \notin m
<1>1. -l \notin m
  BY SameVariable DEF OneOfEach
<1>2. \A k \in m \ {l} : k \in Literals /\ VarOf(k) \in Y \ {VarOf(l)}
  BY <1>1, SameVariable DEF OneOfEach
<1>3. ASSUME NEW x \in Y \ {VarOf(l)}
      PROVE  -x \in m \ {l} <=> x \notin m \ {l}
  <2>1. x \in Literals /\ VarOf(x) = x
    BY DEF Numbers1, Literals, VarOf
  <2>2. x # l /\ -x # l
    BY <2>1, SameVariable
  <2> QED BY <2>2 DEF OneOfEach
<1> QED BY <1>1, <1>2, <1>3 DEF OneOfEach

LEMMA Unchosen ==
    ASSUME NEW Y \in SUBSET Numbers1, NEW l \in Literals, VarOf(l) \in Y,
           NEW m, OneOfEach(m, Y \ {VarOf(l)})
    PROVE  OneOfEach({l} \cup m, Y) /\ l \notin m /\ -l \notin m
<1>1. l \notin m /\ -l \notin m
  BY SameVariable DEF OneOfEach
<1>2. ASSUME NEW x \in Y
      PROVE  -x \in {l} \cup m <=> x \notin {l} \cup m
  <2>1. x \in Literals /\ VarOf(x) = x
    BY DEF Numbers1, Literals, VarOf
  <2>2. CASE x = VarOf(l)
    <3>1. (x = l /\ -x = -l) \/ (x = -l /\ -x = l)
      BY <2>2, SameVariable
    <3> QED BY <1>1, <3>1, SameVariable
  <2>3. CASE x # VarOf(l)
    <3>1. x # l /\ -x # l
      BY <2>1, <2>3, SameVariable
    <3> QED BY <2>3, <3>1 DEF OneOfEach
  <2> QED BY <2>2, <2>3
<1> QED BY <1>1, <1>2 DEF OneOfEach

LEMMA CoversRest ==
    ASSUME NEW Y \in SUBSET Numbers1, NEW l \in Literals, VarOf(l) \in Y,
           NEW G \in SUBSET SUBSET Literals, NEW m, l \notin m, -l \notin m
    PROVE  Covers({l} \cup m, G, Y) <=> Covers(m, Under(G, l), Y \ {VarOf(l)})
<1>1. ASSUME Covers({l} \cup m, G, Y), NEW c \in Under(G, l), VarsOf({c}) \subseteq Y \ {VarOf(l)}
      PROVE  m \cap c # {}
  <2>1. PICK d \in G : l \notin d /\ c = d \ {-l}
    BY DEF Under
  <2>2. VarsOf({d}) \subseteq Y
    <3>1. ASSUME NEW k \in d
          PROVE  VarOf(k) \in Y
      <4>1. k = -l \/ k \in c
        BY <2>1
      <4>2. VarOf(-l) = VarOf(l)
        BY SameVariable
      <4> QED BY <1>1, <4>1, <4>2, VarsOfClause
    <3> QED BY <3>1, VarsOfClause
  <2>3. ({l} \cup m) \cap d # {}
    BY <1>1, <2>2 DEF Covers
  <2> QED BY <2>1, <2>3
<1>2. ASSUME Covers(m, Under(G, l), Y \ {VarOf(l)}), NEW d \in G, VarsOf({d}) \subseteq Y
      PROVE  ({l} \cup m) \cap d # {}
  <2>1. CASE l \in d
    BY <2>1
  <2>2. CASE l \notin d
    <3>1. d \ {-l} \in Under(G, l)
      BY <2>2 DEF Under
    <3>2. VarsOf({d \ {-l}}) \subseteq Y \ {VarOf(l)}
      <4>1. ASSUME NEW k \in d \ {-l}
            PROVE  VarOf(k) \in Y \ {VarOf(l)}
        <5>1. k \in Literals /\ k # l /\ k # -l
          BY <2>2
        <5>2. VarOf(k) \in Y
          BY <1>2, VarsOfClause
        <5> QED BY <5>1, <5>2, SameVariable
      <4> QED BY <4>1 DEF VarsOf
    <3>3. m \cap (d \ {-l}) # {}
      BY <1>2, <3>1, <3>2 DEF Covers
    <3> QED BY <3>3
  <2> QED BY <2>1, <2>2
<1> QED BY <1>1, <1>2 DEF Covers

\* The literals that are tried are over Y, and a solution has one of them.
LEMMA BranchesAre ==
    ASSUME NEW Y \in SUBSET Numbers1, Y # {}, NEW G \in SUBSET SUBSET Literals,
           \A c \in G : IsFiniteSet(c)
    PROVE  /\ \A l \in Branches(G, Y) : l \in Literals /\ VarOf(l) \in Y
           /\ \A m \in Solved(G, Y) : \E l \in Branches(G, Y) : l \in m
<1> DEFINE unit == {c \in G : Cardinality(c) = 1 /\ VarsOf({c}) \subseteq Y}
<1>1. CASE unit # {}
  <2>1. PICK c \in unit : Branches(G, Y) = c
    BY <1>1 DEF Branches
  <2>2. c \in G /\ Cardinality(c) = 1 /\ VarsOf({c}) \subseteq Y
    BY <2>1
  <2>3. \A m \in Solved(G, Y) : m \cap c # {}
    BY <2>2 DEF Solved, Covers
  <2> QED BY <2>1, <2>2, <2>3, VarsOfClause
<1>2. CASE unit = {}
  <2> DEFINE x == CHOOSE x \in Y : \A y \in Y : x <= y
  <2>1. \E z \in Y : \A y \in Y : z <= y
    BY LeastOf DEF Numbers1
  <2>2. x \in Y
    BY <2>1
  <2>3. Branches(G, Y) = {x, -x}
    BY <1>2 DEF Branches
  <2> HIDE DEF x
  <2>4. x \in Literals /\ -x \in Literals /\ VarOf(x) = x /\ VarOf(-x) = x
    BY <2>2 DEF Numbers1, Literals, VarOf
  <2>5. \A m \in Solved(G, Y) : x \in m \/ -x \in m
    BY <2>2, ValuationsAre DEF Solved, OneOfEach
  <2> QED BY <2>2, <2>3, <2>4, <2>5
<1> QED BY <1>1, <1>2

LEMMA SolvedByBranches ==
    ASSUME NEW Y \in SUBSET Numbers1, NEW G \in SUBSET SUBSET Literals,
           \A c \in G : IsFiniteSet(c)
    PROVE  Solved(G, Y) =
             IF {} \in G THEN {}
             ELSE IF Y = {} THEN {{}}
             ELSE UNION {{{l} \cup m : m \in Solved(Under(G, l), Y \ {VarOf(l)})} : l \in Branches(G, Y)}
<1>1. CASE {} \in G
  <2>1. VarsOf({{}}) \subseteq Y
    BY VarsOfClause
  <2>2. \A m : ~ Covers(m, G, Y)
    BY <1>1, <2>1 DEF Covers
  <2> QED BY <1>1, <2>2 DEF Solved
<1>2. CASE {} \notin G /\ Y = {}
  <2>1. \A m : OneOfEach(m, Y) <=> m = {}
    BY <1>2 DEF OneOfEach
  <2>2. \A c \in G : ~ (VarsOf({c}) \subseteq Y)
    <3>1. \A c \in G : c # {}
      BY <1>2
    <3> QED BY <1>2, <3>1, VarsOfClause
  <2>3. \A m : Covers(m, G, Y)
    BY <2>2 DEF Covers
  <2>4. \A m : m \in Valuations(Y) <=> m = {}
    BY <2>1, ValuationsAre
  <2>5. Solved(G, Y) = {{}}
    BY <2>3, <2>4 DEF Solved
  <2> QED BY <1>2, <2>5
<1>3. CASE {} \notin G /\ Y # {}
  <2> DEFINE With(l) == {{l} \cup m : m \in Solved(Under(G, l), Y \ {VarOf(l)})}
             R == UNION {With(l) : l \in Branches(G, Y)}
  <2>1. ASSUME NEW m \in Solved(G, Y)
        PROVE  m \in R
    <3>1. PICK l \in Branches(G, Y) : l \in m
      BY <1>3, BranchesAre
    <3>2. l \in Literals /\ VarOf(l) \in Y /\ OneOfEach(m, Y) /\ Covers(m, G, Y)
      BY <1>3, BranchesAre, ValuationsAre DEF Solved
    <3>3. PICK n : n = m \ {l}
      OBVIOUS
    <3>4. OneOfEach(n, Y \ {VarOf(l)}) /\ l \notin n /\ -l \notin n /\ m = {l} \cup n
      BY <3>1, <3>2, <3>3, Chosen
    <3>5. Covers(n, Under(G, l), Y \ {VarOf(l)})
      BY <3>2, <3>4, CoversRest
    <3>6. n \in Valuations(Y \ {VarOf(l)})
      <4>1. Y \ {VarOf(l)} \in SUBSET Numbers1
        OBVIOUS
      <4> QED BY <3>4, <4>1, ValuationsAre
    <3>7. n \in Solved(Under(G, l), Y \ {VarOf(l)})
      BY <3>5, <3>6 DEF Solved
    <3>8. \A S : n \in S => {l} \cup n \in {{l} \cup k : k \in S}
      OBVIOUS
    <3>9. m \in With(l)
      BY <3>4, <3>7, <3>8
    <3> HIDE DEF With
    <3> QED BY <3>1, <3>9
  <2>2. ASSUME NEW l \in Branches(G, Y), NEW n \in Solved(Under(G, l), Y \ {VarOf(l)})
        PROVE  {l} \cup n \in Solved(G, Y)
    <3>1. l \in Literals /\ VarOf(l) \in Y
      BY <1>3, BranchesAre
    <3>2. OneOfEach(n, Y \ {VarOf(l)}) /\ Covers(n, Under(G, l), Y \ {VarOf(l)})
      <4>1. Y \ {VarOf(l)} \in SUBSET Numbers1
        OBVIOUS
      <4> QED BY <4>1, ValuationsAre DEF Solved
    <3>3. OneOfEach({l} \cup n, Y) /\ l \notin n /\ -l \notin n
      BY <3>1, <3>2, Unchosen
    <3>4. Covers({l} \cup n, G, Y)
      BY <3>1, <3>2, <3>3, CoversRest
    <3> QED BY <3>3, <3>4, ValuationsAre DEF Solved
  <2>3. \A m \in R : m \in Solved(G, Y)
    <3>1. ASSUME NEW m \in R
          PROVE  m \in Solved(G, Y)
      <4>1. PICK l \in Branches(G, Y) : m \in {{l} \cup n : n \in Solved(Under(G, l), Y \ {VarOf(l)})}
        OBVIOUS
      <4> QED BY <2>2, <4>1
    <3> QED BY <3>1
  <2>4. Solved(G, Y) = R
    <3> HIDE DEF R
    <3> QED BY <2>1, <2>3
  <2> QED BY <1>3, <2>4
<1> QED BY <1>1, <1>2, <1>3

ModelsBody(f, G, Y) ==
    IF {} \in G THEN {}
    ELSE IF Y = {} THEN {{}}
    ELSE UNION {{{l} \cup m : m \in f[Y \ {VarOf(l)}][Under(G, l)]} : l \in Branches(G, Y)}

IsModels(f, A, B) == f = [Y \in B |-> [G \in A |-> ModelsBody(f, G, Y)]]

LEMMA UnderStays ==
    ASSUME NEW L \in SUBSET Literals, NEW G \in SUBSET SUBSET L, NEW l
    PROVE  Under(G, l) \in SUBSET SUBSET L
  BY DEF Under

\* Y is smaller in each call.
LEMMA RecursionIsSolved ==
    ASSUME NEW L \in SUBSET Literals, IsFiniteSet(L), NEW X \in SUBSET Numbers1, IsFiniteSet(X),
           NEW f, IsModels(f, SUBSET SUBSET L, SUBSET X)
    PROVE  \A G \in SUBSET SUBSET L, Y \in SUBSET X : f[Y][G] = Solved(G, Y)
<1> DEFINE Wrong == {n \in Nat : \E G \in SUBSET SUBSET L, Y \in SUBSET X :
                                    Cardinality(Y) = n /\ f[Y][G] # Solved(G, Y)}
<1>1. ASSUME NEW G \in SUBSET SUBSET L, NEW Y \in SUBSET X
      PROVE  f[Y][G] = ModelsBody(f, G, Y)
  BY DEF IsModels
<1>2. ASSUME NEW Y \in SUBSET X
      PROVE  IsFiniteSet(Y) /\ Cardinality(Y) \in Nat
  BY FS_Subset, FS_CardinalityType
<1>3. SUFFICES ASSUME Wrong # {}
               PROVE  FALSE
  BY <1>2
<1>4. PICK n \in Wrong : \A k \in Wrong : n <= k
  BY <1>3, LeastOf
<1>5. PICK G \in SUBSET SUBSET L, Y \in SUBSET X : Cardinality(Y) = n /\ f[Y][G] # Solved(G, Y)
  BY <1>4
<1>6. Y \in SUBSET Numbers1 /\ G \in SUBSET SUBSET Literals
  OBVIOUS
<1>7. \A c \in G : IsFiniteSet(c)
  BY FS_Subset
<1>8. ASSUME NEW l, l \in Literals, VarOf(l) \in Y
      PROVE  f[Y \ {VarOf(l)}][Under(G, l)] = Solved(Under(G, l), Y \ {VarOf(l)})
  <2>1. PICK Z \in SUBSET X : Z = Y \ {VarOf(l)}
    OBVIOUS
  <2>2. PICK H \in SUBSET SUBSET L : H = Under(G, l)
    BY UnderStays
  <2>3. Cardinality(Z) = n - 1 /\ Cardinality(Z) \in Nat
    BY <1>2, <1>5, <1>8, <2>1, FS_RemoveElement
  <2>4. n \in Nat /\ ~ (n <= n - 1)
    BY <1>4
  <2>5. n - 1 \notin Wrong
    BY <1>4, <2>4
  <2>6. f[Z][H] = Solved(H, Z)
    BY <2>3, <2>5
  <2> QED BY <2>1, <2>2, <2>6
<1> HIDE DEF Wrong
<1>9. ModelsBody(f, G, Y) = Solved(G, Y)
  <2>1. CASE {} \in G \/ Y = {}
    BY <1>6, <1>7, <2>1, SolvedByBranches DEF ModelsBody
  <2>2. CASE ~ ({} \in G \/ Y = {})
    <3> DEFINE S(l) == Solved(Under(G, l), Y \ {VarOf(l)})
               T(l) == f[Y \ {VarOf(l)}][Under(G, l)]
    <3>1. \A l \in Branches(G, Y) : T(l) = S(l)
      BY <1>6, <1>7, <1>8, <2>2, BranchesAre
    <3>2. ModelsBody(f, G, Y) = UNION {{{l} \cup m : m \in T(l)} : l \in Branches(G, Y)}
      BY <2>2 DEF ModelsBody
    <3>3. Solved(G, Y) = UNION {{{l} \cup m : m \in S(l)} : l \in Branches(G, Y)}
      BY <1>6, <1>7, <2>2, SolvedByBranches
    <3> HIDE DEF S, T
    <3> QED BY <3>1, <3>2, <3>3
  <2> QED BY <2>1, <2>2
<1> QED BY <1>1, <1>5, <1>9

\* What is found of all G and Y satisfies the recursion.
LEMMA RecursionHasSolution ==
    ASSUME NEW L \in SUBSET Literals, IsFiniteSet(L), NEW X \in SUBSET Numbers1
    PROVE  \E f : IsModels(f, SUBSET SUBSET L, SUBSET X)
<1> DEFINE f == [Y \in SUBSET X |-> [G \in SUBSET SUBSET L |-> Solved(G, Y)]]
<1>1. ASSUME NEW G \in SUBSET SUBSET L, NEW Y \in SUBSET X
      PROVE  ModelsBody(f, G, Y) = Solved(G, Y)
  <2>1. Y \in SUBSET Numbers1 /\ G \in SUBSET SUBSET Literals
    OBVIOUS
  <2>2. \A c \in G : IsFiniteSet(c)
    BY FS_Subset
  <2>3. ASSUME NEW l
        PROVE  f[Y \ {VarOf(l)}][Under(G, l)] = Solved(Under(G, l), Y \ {VarOf(l)})
    <3>1. PICK Z \in SUBSET X : Z = Y \ {VarOf(l)}
      OBVIOUS
    <3>2. PICK H \in SUBSET SUBSET L : H = Under(G, l)
      BY UnderStays
    <3>3. f[Z][H] = Solved(H, Z)
      OBVIOUS
    <3> HIDE DEF f
    <3> QED BY <3>1, <3>2, <3>3
  <2> HIDE DEF f
  <2>4. CASE {} \in G \/ Y = {}
    BY <2>1, <2>2, <2>4, SolvedByBranches DEF ModelsBody
  <2>5. CASE ~ ({} \in G \/ Y = {})
    <3> DEFINE S(l) == Solved(Under(G, l), Y \ {VarOf(l)})
               T(l) == f[Y \ {VarOf(l)}][Under(G, l)]
    <3>1. \A l \in Branches(G, Y) : T(l) = S(l)
      BY <2>3
    <3>2. ModelsBody(f, G, Y) = UNION {{{l} \cup m : m \in T(l)} : l \in Branches(G, Y)}
      BY <2>5 DEF ModelsBody
    <3>3. Solved(G, Y) = UNION {{{l} \cup m : m \in S(l)} : l \in Branches(G, Y)}
      BY <2>1, <2>2, <2>5, SolvedByBranches
    <3> HIDE DEF S, T
    <3> QED BY <3>1, <3>2, <3>3
  <2> QED BY <2>4, <2>5
<1>2. PICK g : g = f
  OBVIOUS
<1>3. g = [Y \in SUBSET X |-> [G \in SUBSET SUBSET L |-> ModelsBody(g, G, Y)]]
  BY <1>1, <1>2
<1> QED BY <1>3 DEF IsModels

(***************************************************************************)
(* Branching on the variables one after the other, clauses of one literal  *)
(* first, finds exactly the valuations that make a literal of every clause *)
(* true, for every formula of finite clauses.  That is what models is, the *)
(* set a solver filled by doSATSolve3COL or glucoseSimpFromFile answers    *)
(* from (SATSolver.cpp 233-274), and what ReductionIsRight compares with.  *)
(***************************************************************************)
THEOREM ModelsAreSatisfying ==
    ASSUME NEW F, IsFiniteSet(F), \A c \in F : IsFiniteSet(c) /\ c \in SUBSET Literals
    PROVE  ModelsAreRight(F)
<1> DEFINE L == UNION F
           X == VarsOf(F)
           models1 == CHOOSE f : IsModels(f, SUBSET SUBSET L, SUBSET X)
<1>1. IsFiniteSet(L) /\ L \in SUBSET Literals
  BY FS_UNION
<1>2. IsFiniteSet(X)
  <2>1. X = {VarOf(l) : l \in L}
    BY DEF VarsOf
  <2>2. [l \in L |-> VarOf(l)] \in Surjection(L, X)
    BY <2>1 DEF Surjection
  <2> QED BY <1>1, <2>2, FS_Surjection
<1>3. X \in SUBSET Numbers1
  BY <1>1, SameVariable DEF VarsOf
<1>4. Models(F) = models1[X][F]
  BY DEF Models, ModelsOver, IsModels, ModelsBody
<1>5. F \in SUBSET SUBSET L /\ X \in SUBSET X
  OBVIOUS
<1>6. IsModels(models1, SUBSET SUBSET L, SUBSET X)
  <2> HIDE DEF L, X
  <2> QED BY <1>1, <1>3, RecursionHasSolution
<1>7. models1[X][F] = Solved(F, X)
  <2> HIDE DEF L, X, models1
  <2> QED BY <1>1, <1>2, <1>3, <1>5, <1>6, RecursionIsSolved
<1>8. Solved(F, X) = Satisfying(F)
  <2>1. \A c \in F : VarsOf({c}) \subseteq X
    BY DEF VarsOf
  <2> QED BY <2>1 DEF Solved, Covers, Satisfying
<1> QED BY <1>4, <1>7, <1>8 DEF ModelsAreRight

LEMMA ThreeAreFinite == \A a, b, c : IsFiniteSet({a, b, c}) /\ IsFiniteSet({a, b})
<1>1. ASSUME NEW a, NEW b, NEW c
      PROVE  IsFiniteSet({a, b, c}) /\ IsFiniteSet({a, b})
  <2>1. IsFiniteSet({a})
    BY FS_Singleton
  <2>2. IsFiniteSet({a} \cup {b})
    BY <2>1, FS_AddElement
  <2>3. IsFiniteSet(({a} \cup {b}) \cup {c})
    BY <2>2, FS_AddElement
  <2>4. ({a} \cup {b}) \cup {c} = {a, b, c} /\ {a} \cup {b} = {a, b}
    OBVIOUS
  <2> QED BY <2>2, <2>3, <2>4
<1> QED BY <1>1

\* Those that the reduction hands over are such.
LEMMA ReductionHasModels ==
    ASSUME LineInv, FormulaInv, SimpleEdges(inputEdges), redPc = "filled"
    PROVE  ModelsAreRight(clauses)
<1>1. IsFiniteSet(clauses)
  BY DEF FormulaInv, EdgePhase, Given
<1>2. \A cl : cl \in clauses <=> (\E v \in Vertices : cl \in ClausesOfVertex(v)) \/ OfEdge(cl)
  BY FormulaIs
<1>3. /\ Len(outVertices) \in Nat
      /\ \A q \in 0..Len(outEdges)-1 :
            /\ outEdges[q+1] \in LineEdge /\ outEdges[q+1].from < outEdges[q+1].to
            /\ outEdges[q+1].to < Len(outVertices)
  BY LineShape
<1>4. ASSUME NEW v \in Nat, NEW c \in 0..2
      PROVE  Pos(Var(v, c)) \in Literals /\ Neg(Var(v, c)) \in Literals
  BY DEF Pos, Neg, Var, Literals
<1>5. ASSUME NEW c \in clauses
      PROVE  IsFiniteSet(c) /\ c \in SUBSET Literals
  <2>1. ASSUME NEW v \in Vertices, c \in ClausesOfVertex(v)
        PROVE  IsFiniteSet(c) /\ c \in SUBSET Literals
    <3>1. v \in Nat
      BY <1>3 DEF Vertices
    <3> DEFINE p(d) == Pos(Var(v, d))
               n(d) == Neg(Var(v, d))
    <3>2. c \in {{p(0), p(1), p(2)}, {n(0), n(1), n(2)}, {p(0), n(1), n(2)},
                 {n(0), p(1), n(2)}, {n(0), n(1), p(2)}}
      BY <2>1, <3>1, FiveClauses
    <3>3. \A d \in {0, 1, 2} : p(d) \in Literals /\ n(d) \in Literals
      BY <1>4, <3>1, Three
    <3> HIDE DEF p, n
    <3>4. \A a, b, d \in Literals : IsFiniteSet({a, b, d}) /\ {a, b, d} \in SUBSET Literals
      BY ThreeAreFinite
    <3>5. /\ p(0) \in Literals /\ p(1) \in Literals /\ p(2) \in Literals
          /\ n(0) \in Literals /\ n(1) \in Literals /\ n(2) \in Literals
      BY <3>3
    <3>6. PICK a, b, d \in Literals : c = {a, b, d}
      BY <3>2, <3>5
    <3> QED BY <3>4, <3>6
  <2>2. ASSUME NEW q \in 0..Len(outEdges)-1, NEW d \in 0..2, c = EdgeClause(outEdges[q+1], d)
        PROVE  IsFiniteSet(c) /\ c \in SUBSET Literals
    <3>1. outEdges[q+1].from \in Nat /\ outEdges[q+1].to \in Nat
      BY <1>3 DEF LineEdge
    <3> QED BY <1>4, <2>2, <3>1, ThreeAreFinite DEF EdgeClause
  <2> QED BY <1>2, <2>1, <2>2 DEF OfEdge
<1> QED BY <1>1, <1>5, ModelsAreSatisfying

(***************************************************************************)
(* The models of what reduceVert3Col_SAT hands over, as Models finds them, *)
(* are the proper 3-colourings of the edges, for a graph of any size whose *)
(* edges the reader found once each (GraphFunctions.cpp 262-466).          *)
(***************************************************************************)
THEOREM SpecReductionIsRight == Spec => [](SimpleEdges(inputEdges) => ReductionIsRight)
<1>1. LineInv /\ FormulaInv => (SimpleEdges(inputEdges) /\ redPc = "filled" => ModelsAreRight(clauses))
  BY ReductionHasModels
<1>2. LineInv /\ FormulaInv /\ [Next]_vars => FormulaInv'
  BY FormulaStep
<1>3. LineInv /\ FormulaInv /\ (SimpleEdges(inputEdges) => FormulaIsRight)
        => (SimpleEdges(inputEdges) => ReductionIsRight)
  BY <1>1 DEF FormulaIsRight, ReductionIsRight, ModelsAreRight
<1> QED BY <1>2, <1>3, FormulaStarts, SpecLineInv, SpecFormulaIsRight, PTL DEF Spec

-----------------------------------------------------------------------------
(* The types of the BA reader: a line is scanned, and edges put in, by folds. *)

Words == Nat \cup {Open, Close, Hash, Word}

\* What is known in the middle of a line.
Scanned == [numbers : Seq(Nat), par : 0..Levels-1, blocked : BOOLEAN, ended : BOOLEAN]

LEMMA SeenKeeps ==
    ASSUME NEW s \in Scanned, NEW t \in Words
    PROVE  Seen(s, t) \in Scanned
<1>1. s.numbers \in Seq(Nat) /\ s.par \in 0..Levels-1 /\ s.blocked \in BOOLEAN /\ s.ended \in BOOLEAN
  BY DEF Scanned
<1>2. /\ (s.par + 1) % Levels \in 0..Levels-1
      /\ (s.par + Levels - 1) % Levels \in 0..Levels-1
  <2>1. Levels \in Nat /\ Levels > 0
    BY SMT DEF Levels
  <2>2. \A a \in Int : a % Levels \in 0..Levels-1
    BY <2>1, SMT
  <2>3. s.par + 1 \in Int /\ s.par + Levels - 1 \in Int
    BY <1>1, <2>1
  <2> QED BY <2>2, <2>3
<1>3. t \notin {Open, Close, Hash, Word} => Append(s.numbers, t) \in Seq(Nat)
  <2>1. t \notin {Open, Close, Hash, Word} => t \in Nat
    BY DEF Words
  <2> QED BY <1>1, <2>1
<1>4. [s EXCEPT !.ended = TRUE] \in Scanned
  BY <1>1 DEF Scanned
<1>5. [s EXCEPT !.par = (s.par + 1) % Levels] \in Scanned
  <2>1. PICK q \in 0..Levels-1 : q = (s.par + 1) % Levels
    BY <1>2
  <2> QED BY <1>1, <2>1 DEF Scanned
<1>6. [s EXCEPT !.par = (s.par + Levels - 1) % Levels, !.blocked = s.blocked \/ s.par = 0] \in Scanned
  <2>1. PICK q \in 0..Levels-1 : q = (s.par + Levels - 1) % Levels
    BY <1>2
  <2>2. PICK b \in BOOLEAN : b = (s.blocked \/ s.par = 0)
    BY <1>1
  <2>3. [s EXCEPT !.par = q, !.blocked = b] \in Scanned
    BY <1>1 DEF Scanned
  <2> QED BY <2>1, <2>2, <2>3
<1>7. [s EXCEPT !.blocked = TRUE] \in Scanned
  BY <1>1 DEF Scanned
<1>8. t \notin {Open, Close, Hash, Word} => [s EXCEPT !.numbers = Append(s.numbers, t)] \in Scanned
  <2> SUFFICES ASSUME t \notin {Open, Close, Hash, Word}
               PROVE  [s EXCEPT !.numbers = Append(s.numbers, t)] \in Scanned
    OBVIOUS
  <2>1. PICK q \in Seq(Nat) : q = Append(s.numbers, t)
    BY <1>3
  <2>2. [s EXCEPT !.numbers = q] \in Scanned
    BY <1>1 DEF Scanned
  <2> QED BY <2>1, <2>2
<1> HIDE DEF Scanned
<1> QED BY <1>4, <1>5, <1>6, <1>7, <1>8 DEF Seen

LEMMA ScanIs ==
    ASSUME NEW ln \in Seq(Words), parLevel \in 0..Levels-1, blocked \in BOOLEAN
    PROVE  Scan(ln) \in Scanned
<1> DEFINE B == [numbers |-> <<>>, par |-> parLevel, blocked |-> blocked, ended |-> FALSE]
           L == Len(ln)
           F(x, n) == Seen(x, ln[n])
           g == [p \in Scanned \X (1..L) |-> F(p[1], p[2])]
           IsFold(it) == it = [s \in SUBSET (1..L) |-> IF s = {} THEN B ELSE F(it[s \ {Max(s)}], Max(s))]
<1>1. L \in Nat /\ DOMAIN ln = 1..L
  BY LenProperties
<1>2. Scan(ln) = (CHOOSE it : IsFold(it))[1..L]
  BY <1>1, SMT DEF Scan, FoldLeft, MapThenFoldSet
<1>3. B \in Scanned
  <2>1. <<>> \in Seq(Nat)
    OBVIOUS
  <2> QED BY <2>1 DEF Scanned
<1>4. \A x \in Scanned : \A n \in 1..L : F(x, n) \in Scanned
  <2>1. \A n \in 1..L : ln[n] \in Words
    BY ElementOfSeq
  <2> QED BY <2>1, SeenKeeps
<1> HIDE DEF B, F, L
<1>5. g \in [Scanned \X (1..L) -> Scanned] /\ \A x \in Scanned : \A n \in 1..L : g[<<x, n>>] = F(x, n)
  BY <1>4
<1> HIDE DEF g
<1>6. PICK it : FoldsUpTo(it, Scanned, L, B, g)
  BY <1>1, <1>3, <1>5, FoldHasValues
<1>7. \A s \in SUBSET (1..L) : s # {} => Max(s) \in 1..L /\ s \ {Max(s)} \in SUBSET (1..L)
  BY <1>1, LargestIn
<1>8. IsFold(it)
  <2>1. ASSUME NEW s \in SUBSET (1..L)
        PROVE  it[s] = IF s = {} THEN B ELSE F(it[s \ {Max(s)}], Max(s))
    BY <1>5, <1>6, <1>7 DEF FoldsUpTo
  <2>2. it = [s \in SUBSET (1..L) |-> it[s]]
    BY <1>6 DEF FoldsUpTo
  <2> QED BY <2>1, <2>2
<1>9. PICK kt : IsFold(kt) /\ Scan(ln) = kt[1..L]
  <2> HIDE DEF IsFold
  <2> QED BY <1>2, <1>8
<1>10. kt[{}] = B
  BY <1>9
<1>11. \A s \in SUBSET (1..L) : s # {} => kt[s] = F(kt[s \ {Max(s)}], Max(s))
  BY <1>9
<1>12. \A s \in SUBSET (1..L) :
           s # {} => (kt[s \ {Max(s)}] \in Scanned => kt[s] = g[<<kt[s \ {Max(s)}], Max(s)>>])
  BY <1>5, <1>7, <1>11
<1>13. kt[1..L] \in Scanned
  <2>1. g \in [Scanned \X (1..L) -> Scanned]
    BY <1>5
  <2> QED BY <1>1, <1>3, <2>1, <1>10, <1>12, FoldStays
<1> QED BY <1>9, <1>13

\* Edges with the smaller end first.
Ascending == {es \in Seq(LineEdge) : \A n \in 1..Len(es) : es[n].from < es[n].to}

LEMMA EdgeToKeeps ==
    ASSUME NEW es \in Ascending, NEW u \in Nat, actualVertex \in Nat
    PROVE  EdgeTo(es, u) \in Ascending
<1>1. CASE ~ (u > actualVertex)
  BY <1>1 DEF EdgeTo
<1>2. CASE u > actualVertex
  <2>1. PICK e : e = MkEdge(actualVertex, u)
    OBVIOUS
  <2>2. e \in LineEdge /\ e.from < e.to
    BY <1>2, <2>1 DEF MkEdge, LineEdge
  <2>3. /\ Append(es, e) \in Seq(LineEdge) /\ Len(Append(es, e)) = Len(es) + 1
        /\ Append(es, e)[Len(es) + 1] = e /\ \A n \in 1..Len(es) : Append(es, e)[n] = es[n]
    BY <2>2, PutLast DEF Ascending
  <2>4. PICK t : t = Append(es, e)
    OBVIOUS
  <2>5. Len(es) \in Nat /\ \A n \in 1..Len(es) : es[n].from < es[n].to
    BY LenProperties DEF Ascending
  <2>6. \A n \in 1..Len(t) : n = Len(es) + 1 \/ n \in 1..Len(es)
    BY <2>3, <2>4, <2>5
  <2>7. t \in Ascending
    BY <2>2, <2>3, <2>4, <2>5, <2>6 DEF Ascending
  <2> QED BY <1>2, <2>1, <2>4, <2>7 DEF EdgeTo
<1> QED BY <1>1, <1>2

LEMMA EdgesAre ==
    ASSUME NEW ln \in Seq(Nat), edges \in Ascending, actualVertex \in Nat
    PROVE  FoldLeft(EdgeTo, edges, ln) \in Ascending
<1> DEFINE B == edges
           L == Len(ln)
           F(x, n) == EdgeTo(x, ln[n])
           g == [p \in Ascending \X (1..L) |-> F(p[1], p[2])]
           IsFold(it) == it = [s \in SUBSET (1..L) |-> IF s = {} THEN B ELSE F(it[s \ {Max(s)}], Max(s))]
<1>1. L \in Nat /\ DOMAIN ln = 1..L
  BY LenProperties
<1>2. FoldLeft(EdgeTo, edges, ln) = (CHOOSE it : IsFold(it))[1..L]
  BY <1>1, SMT DEF FoldLeft, MapThenFoldSet
<1>4. \A x \in Ascending : \A n \in 1..L : F(x, n) \in Ascending
  <2>1. \A n \in 1..L : ln[n] \in Nat
    BY ElementOfSeq
  <2> QED BY <2>1, EdgeToKeeps
<1> HIDE DEF F, L
<1>5. g \in [Ascending \X (1..L) -> Ascending] /\ \A x \in Ascending : \A n \in 1..L : g[<<x, n>>] = F(x, n)
  BY <1>4
<1> HIDE DEF g
<1>6. PICK it : FoldsUpTo(it, Ascending, L, B, g)
  BY <1>1, <1>5, FoldHasValues
<1>7. \A s \in SUBSET (1..L) : s # {} => Max(s) \in 1..L /\ s \ {Max(s)} \in SUBSET (1..L)
  BY <1>1, LargestIn
<1>8. IsFold(it)
  <2>1. ASSUME NEW s \in SUBSET (1..L)
        PROVE  it[s] = IF s = {} THEN B ELSE F(it[s \ {Max(s)}], Max(s))
    BY <1>5, <1>6, <1>7 DEF FoldsUpTo
  <2>2. it = [s \in SUBSET (1..L) |-> it[s]]
    BY <1>6 DEF FoldsUpTo
  <2> QED BY <2>1, <2>2
<1>9. PICK kt : IsFold(kt) /\ FoldLeft(EdgeTo, edges, ln) = kt[1..L]
  <2> HIDE DEF IsFold
  <2> QED BY <1>2, <1>8
<1>10. kt[{}] = B
  BY <1>9
<1>11. \A s \in SUBSET (1..L) : s # {} => kt[s] = F(kt[s \ {Max(s)}], Max(s))
  BY <1>9
<1>12. \A s \in SUBSET (1..L) :
           s # {} => (kt[s \ {Max(s)}] \in Ascending => kt[s] = g[<<kt[s \ {Max(s)}], Max(s)>>])
  BY <1>5, <1>7, <1>11
<1>13. kt[1..L] \in Ascending
  <2>1. g \in [Ascending \X (1..L) -> Ascending]
    BY <1>5
  <2> QED BY <1>1, <2>1, <1>10, <1>12, FoldStays
<1> QED BY <1>9, <1>13

ReaderFits ==
    /\ BATypeOK
    /\ vertices \in Seq(LineVertex) /\ edges \in Ascending

LEMMA GotKeeps ==
    ASSUME ReaderFits, NEW b \in Seq(Nat), Got(b)
    PROVE  /\ noOfGraphs' \in Nat /\ lastRead' \in Nat /\ graphOrder' \in Int
           /\ vertices' \in Seq(LineVertex) /\ edges' \in Ascending
           /\ baPc' \in {"graphs", "number", "order", "vertex", "done", "thrown"}
<1> USE DEF ReaderFits, BATypeOK, Throw
<1>1. Len(b) = 1 => b[1] \in Nat
  <2>1. Len(b) = 1 => 1 \in 1..Len(b)
    OBVIOUS
  <2> QED BY <2>1, ElementOfSeq
<1>2. CASE GotGraphs(b)
  BY <1>1, <1>2 DEF GotGraphs
<1>3. CASE GotNumber(b)
  BY <1>1, <1>3 DEF GotNumber
<1>4. CASE GotOrder(b)
  <2>1. CASE Len(b) = 1 /\ b[1] > 0 /\ graphOrder' = b[1]
             /\ baPc' = "vertex" /\ UNCHANGED <<noOfGraphs, lastRead, vertices, edges>>
    <3>1. b[1] \in Int
      BY <1>1, <2>1
    <3> QED BY <2>1, <3>1
  <2>2. CASE Throw
    BY <2>2
  <2>3. CASE graphOrder' \in GarbageOrders /\ baPc' = "vertex"
             /\ UNCHANGED <<noOfGraphs, lastRead, vertices, edges>>
    BY <2>3, GarbageOrdersAssumption
  <2> QED BY <1>4, <2>1, <2>2, <2>3 DEF GotOrder
<1>5. CASE GotVertex(b)
  <2>1. CASE b = <<>>
    BY <1>5, <2>1 DEF GotVertex
  <2>2. CASE b # <<>>
    <3>1. actualVertex \in Nat
      BY LenProperties DEF actualVertex
    <3>2. edges' \in Ascending
      BY <1>5, <2>2, <3>1, EdgesAre DEF GotVertex
    <3>3. PICK v : v = [MkVertex(actualVertex) EXCEPT !.neighbors = b]
      OBVIOUS
    <3>4. v \in LineVertex
      BY <3>1, <3>3 DEF MkVertex, LineVertex
    <3>5. vertices' = Append(vertices, v)
      BY <1>5, <2>2, <3>3 DEF GotVertex
    <3>6. vertices' \in Seq(LineVertex)
      BY <3>4, <3>5
    <3> QED BY <1>5, <3>2, <3>6 DEF GotVertex
  <2> QED BY <2>1, <2>2
<1> QED BY <1>2, <1>3, <1>4, <1>5 DEF Got

LEMMA ReaderKeeps ==
    ASSUME ReaderFits, BANext
    PROVE  ReaderFits'
<1>1. /\ baFile \in Seq(Seq(Words)) /\ Len(baFile) \in Nat
      /\ actualLine \in Nat /\ actualLine <= Len(baFile)
  BY BAFilesAssumption, LenProperties DEF ReaderFits, BATypeOK, Words
<1>2. 0 \in 0..Levels-1 /\ FALSE \in BOOLEAN
  <2>1. Levels \in Nat /\ Levels > 0
    BY SMT DEF Levels
  <2> QED BY <2>1, SMT
<1>3. ASSUME actualLine < Len(baFile)
      PROVE  /\ Scan(baFile[actualLine + 1]) \in Scanned
             /\ actualLine + 1 \in 0..Len(baFile)
  <2>1. actualLine + 1 \in 1..Len(baFile)
    BY <1>1, <1>3
  <2>2. baFile[actualLine + 1] \in Seq(Words)
    BY <1>1, <2>1, ElementOfSeq
  <2> QED BY <2>1, <2>2, ScanIs DEF ReaderFits, BATypeOK
<1>4. \A s \in Scanned : s.numbers \in Seq(Nat) /\ s.par \in 0..Levels-1 /\ s.blocked \in BOOLEAN
  BY DEF Scanned
<1>5. CASE SkipLine
  <2>1. PICK s \in Scanned : parLevel' = s.par /\ blocked' = s.blocked
    BY <1>3, <1>5 DEF SkipLine
  <2>2. parLevel' \in 0..Levels-1 /\ blocked' \in BOOLEAN
    BY <1>4, <2>1
  <2> QED BY <1>3, <1>5, <2>2 DEF SkipLine, ReaderFits, BATypeOK
<1>6. CASE TakeLine
  <2>1. PICK b : b = Scan(baFile[actualLine + 1]).numbers /\ Got(b)
    BY <1>6 DEF TakeLine
  <2>2. b \in Seq(Nat)
    BY <1>3, <1>4, <1>6, <2>1 DEF TakeLine
  <2>3. /\ baFile' = baFile /\ actualLine' = actualLine + 1 /\ failed' = failed
        /\ parLevel' = 0 /\ blocked' = FALSE /\ actualLine + 1 \in 0..Len(baFile)
    BY <1>3, <1>6 DEF TakeLine
  <2>4. /\ noOfGraphs' \in Nat /\ lastRead' \in Nat /\ graphOrder' \in Int
        /\ vertices' \in Seq(LineVertex) /\ edges' \in Ascending
        /\ baPc' \in {"graphs", "number", "order", "vertex", "done", "thrown"}
    BY <2>1, <2>2, GotKeeps
  <2>5. edges' \in Seq([from : Nat, to : Nat])
    BY <2>4 DEF Ascending, LineEdge
  <2> QED BY <1>2, <2>3, <2>4, <2>5 DEF ReaderFits, BATypeOK
<1>7. CASE EndOfFile
  <2>1. Got(<<>>) /\ <<>> \in Seq(Nat)
    BY <1>7 DEF EndOfFile
  <2>2. /\ noOfGraphs' \in Nat /\ lastRead' \in Nat /\ graphOrder' \in Int
        /\ vertices' \in Seq(LineVertex) /\ edges' \in Ascending
        /\ baPc' \in {"graphs", "number", "order", "vertex", "done", "thrown"}
    BY <2>1, GotKeeps
  <2>3. edges' \in Seq([from : Nat, to : Nat])
    BY <2>2 DEF Ascending, LineEdge
  <2>4. /\ baFile' = baFile /\ actualLine' = actualLine /\ failed' = TRUE
        /\ parLevel' = 0 /\ blocked' = FALSE
    BY <1>7 DEF EndOfFile
  <2> QED BY <1>2, <2>2, <2>3, <2>4 DEF ReaderFits, BATypeOK
<1>8. CASE VerticesRead
  BY <1>8 DEF VerticesRead, ReaderFits, BATypeOK
<1> QED BY <1>5, <1>6, <1>7, <1>8 DEF BANext

LEMMA ReaderStays ==
    ASSUME ReaderFits, UNCHANGED baVars
    PROVE  ReaderFits'
  BY DEF ReaderFits, BATypeOK, baVars

LEMMA ReaderStarts == BAInit => ReaderFits
<1> SUFFICES ASSUME BAInit PROVE ReaderFits
  OBVIOUS
<1>1. 0 \in 0..Levels-1
  <2>1. Levels \in Nat /\ Levels > 0
    BY SMT DEF Levels
  <2> QED BY <2>1, SMT
<1>2. Len(baFile) \in Nat
  BY BAFilesAssumption, LenProperties DEF BAInit
<1>3. edges = <<>> /\ vertices = <<>> /\ <<>> \in Seq(LineEdge) /\ <<>> \in Seq(LineVertex)
      /\ Len(<<>>) = 0
  BY DEF BAInit
<1>4. edges \in Ascending /\ vertices \in Seq(LineVertex)
  BY <1>3 DEF Ascending
<1>5. edges \in Seq([from : Nat, to : Nat])
  BY <1>4 DEF Ascending, LineEdge
<1>6. /\ baFile \in BAFiles /\ actualLine \in 0..Len(baFile) /\ failed \in BOOLEAN
      /\ blocked \in BOOLEAN
  <2>1. baFile \in BAFiles /\ failed = FALSE /\ blocked = FALSE /\ actualLine = 0
    BY DEF BAInit
  <2>2. 0 \in 0..Len(baFile)
    BY <1>2
  <2> QED BY <2>1, <2>2
<1>7. parLevel \in 0..Levels-1
  BY <1>1 DEF BAInit
<1>8. /\ noOfGraphs \in Nat /\ lastRead \in Nat /\ graphOrder \in Int
      /\ baPc \in {"graphs", "number", "order", "vertex", "done", "thrown"}
  BY DEF BAInit
<1> QED BY <1>4, <1>5, <1>6, <1>7, <1>8 DEF ReaderFits, BATypeOK

-----------------------------------------------------------------------------
(* The literals are of variables that were made. *)

SolverFits ==
    /\ nVars \in Nat
    /\ \A c \in clauses : c \in SUBSET Int /\ \A l \in c : l # 0 /\ VarIndex(l) < nVars

\* The clause is of variables up to number h.
UpTo(c, h) == c \in SUBSET Int /\ \A l \in c : l # 0 /\ VarIndex(l) <= h

LEMMA AddingKeeps ==
    ASSUME SolverFits, NEW D, NEW h \in Int, h + 1 \in Nat, \A c \in D : UpTo(c, h),
           AddClauses(D, h)
    PROVE  SolverFits' /\ nVars' >= nVars /\ nVars' >= h + 1
<1>1. nVars \in Nat /\ nVars' = Max({nVars, h + 1})
  BY DEF SolverFits, AddClauses
<1>2. PICK k \in Nat : k = h + 1
  OBVIOUS
<1>3. nVars' = IF nVars >= k THEN nVars ELSE k
  BY <1>1, <1>2, MaxOfTwo
<1>4. nVars' \in Nat /\ nVars' >= nVars /\ nVars' >= h + 1
  BY <1>1, <1>2, <1>3
<1>5. \A l \in Int : VarIndex(l) \in Int
  BY DEF VarIndex
<1>6. ASSUME NEW c \in clauses'
      PROVE  c \in SUBSET Int /\ \A l \in c : l # 0 /\ VarIndex(l) < nVars'
  <2>1. c \in clauses \/ c \in D
    BY <1>6 DEF AddClauses
  <2>2. CASE c \in clauses
    <3>1. c \in SUBSET Int /\ \A l \in c : l # 0 /\ VarIndex(l) < nVars
      BY <2>2 DEF SolverFits
    <3> QED BY <1>1, <1>4, <1>5, <3>1
  <2>3. CASE c \in D
    <3>1. c \in SUBSET Int /\ \A l \in c : l # 0 /\ VarIndex(l) <= h
      BY <2>3 DEF UpTo
    <3> QED BY <1>4, <1>5, <3>1
  <2> QED BY <2>1, <2>2, <2>3
<1> QED BY <1>4, <1>6 DEF SolverFits

LEMMA SolverStays == SolverFits /\ UNCHANGED solverInput => SolverFits'
  BY DEF SolverFits, solverInput

LEMMA VarFits ==
    ASSUME NEW v \in Nat, NEW c \in 0..2
    PROVE  /\ Var(v, c) \in Nat /\ Var(v, c) <= 3 * v + 3
           /\ Pos(Var(v, c)) \in Int /\ Pos(Var(v, c)) # 0 /\ VarIndex(Pos(Var(v, c))) = Var(v, c)
           /\ Neg(Var(v, c)) \in Int /\ Neg(Var(v, c)) # 0 /\ VarIndex(Neg(Var(v, c))) = Var(v, c)
<1>1. PICK q : q = Var(v, c)
  OBVIOUS
<1>2. q \in Nat /\ q <= 3 * v + 3
  BY <1>1 DEF Var
<1>3. Pos(q) = q + 1 /\ Neg(q) = -(q + 1)
  BY DEF Pos, Neg
<1>4. VarIndex(q + 1) = q
  BY <1>2 DEF VarIndex
<1>5. VarIndex(-(q + 1)) = q
  BY <1>2 DEF VarIndex
<1>6. q + 1 \in Int /\ q + 1 # 0 /\ -(q + 1) \in Int /\ -(q + 1) # 0
  BY <1>2
<1> QED BY <1>1, <1>2, <1>3, <1>4, <1>5, <1>6

LEMMA VertexClausesFit ==
    ASSUME NEW v \in Nat
    PROVE  \A cl \in ClausesOfVertex(v) : UpTo(cl, Var(v, 2))
<1>1. Var(v, 2) = 3 * v + 3
  BY DEF Var
<1>2. \A c \in 0..2 : Var(v, c) \in Nat /\ Var(v, c) <= Var(v, 2)
  BY <1>1, VarFits
<1>3. SUFFICES ASSUME NEW cl \in ClausesOfVertex(v), NEW l \in cl
               PROVE  l \in Int /\ l # 0 /\ VarIndex(l) <= Var(v, 2)
  BY DEF UpTo
<1>4. \E c \in 0..2 : l = Pos(Var(v, c)) \/ l = Neg(Var(v, c))
  BY <1>3 DEF ClausesOfVertex
<1>5. PICK c \in 0..2 : l = Pos(Var(v, c)) \/ l = Neg(Var(v, c))
  BY <1>4
<1> QED BY <1>2, <1>5, VarFits

LEMMA EdgeClauseFits ==
    ASSUME NEW u \in Nat, NEW w \in Nat, NEW c \in 0..2, NEW n \in Nat,
           3 * u + 3 < n, 3 * w + 3 < n, SolverFits, nVars >= n,
           AddClauses({{Neg(Var(u, c)), Neg(Var(w, c))}}, 0)
    PROVE  SolverFits' /\ nVars' >= nVars
<1>1. nVars \in Nat
  BY DEF SolverFits
<1>2. nVars' = nVars /\ clauses' = clauses \cup {{Neg(Var(u, c)), Neg(Var(w, c))}}
  <2>1. nVars' = Max({nVars, 0 + 1}) /\ 0 + 1 = 1
    BY DEF AddClauses
  <2>2. nVars' = IF nVars >= 1 THEN nVars ELSE 1
    BY <1>1, <2>1, MaxOfTwo
  <2>3. nVars >= 1
    BY <1>1
  <2> QED BY <2>2, <2>3 DEF AddClauses
<1>3. ASSUME NEW l \in {Neg(Var(u, c)), Neg(Var(w, c))}
      PROVE  l \in Int /\ l # 0 /\ VarIndex(l) < nVars
  <2>1. CASE l = Neg(Var(u, c))
    <3>1. /\ Neg(Var(u, c)) \in Int /\ Neg(Var(u, c)) # 0
          /\ VarIndex(Neg(Var(u, c))) = Var(u, c) /\ Var(u, c) \in Nat /\ Var(u, c) <= 3 * u + 3
      BY VarFits
    <3>2. PICK q \in Nat : q = Var(u, c) /\ q <= 3 * u + 3
      BY <3>1
    <3>3. q < nVars
      BY <1>1, <3>2
    <3> QED BY <2>1, <3>1, <3>2, <3>3
  <2>2. CASE l = Neg(Var(w, c))
    <3>1. /\ Neg(Var(w, c)) \in Int /\ Neg(Var(w, c)) # 0
          /\ VarIndex(Neg(Var(w, c))) = Var(w, c) /\ Var(w, c) \in Nat /\ Var(w, c) <= 3 * w + 3
      BY VarFits
    <3>2. PICK q \in Nat : q = Var(w, c) /\ q <= 3 * w + 3
      BY <3>1
    <3>3. q < nVars
      BY <1>1, <3>2
    <3> QED BY <2>2, <3>1, <3>2, <3>3
  <2> QED BY <2>1, <2>2
<1>4. \A cl \in clauses' : cl \in SUBSET Int /\ \A l \in cl : l # 0 /\ VarIndex(l) < nVars'
  <2> TAKE cl \in clauses'
  <2>1. CASE cl \in clauses
    BY <1>2, <2>1 DEF SolverFits
  <2>2. CASE cl = {Neg(Var(u, c)), Neg(Var(w, c))}
    BY <1>2, <1>3, <2>2
  <2> QED BY <1>2, <2>1, <2>2
<1> QED BY <1>1, <1>2, <1>4 DEF SolverFits

-----------------------------------------------------------------------------
(* The types of the line graph. *)

\* An edge of an ascending sequence is found in it.
LEMMA EdgeIsFound ==
    ASSUME NEW es \in Ascending, NEW n \in 1..Len(es), NEW g, NEW p \in EdgePosition(es[n], es, g)
    PROVE  p \in 0..Len(es)-1
<1> DEFINE e == es[n]
           T == {q \in Nat : q < Len(es) /\ es[q+1] = e}
           First(q) == es[q+1] = e /\ \A r \in 0..q-1 : es[r+1] # es[q+1]
<1>1. es \in Seq(LineEdge) /\ Len(es) \in Nat /\ \A m \in 1..Len(es) : es[m].from < es[m].to
  BY LenProperties DEF Ascending
<1>2. e \in LineEdge /\ e.from < e.to
  BY <1>1, ElementOfSeq
<1>3. MkEdge(e.from, e.to) = e
  <2> HIDE DEF e
  <2>1. e.from \in Nat /\ e.to \in Nat /\ e = [from |-> e.from, to |-> e.to] /\ ~ (e.from > e.to)
    BY <1>2 DEF LineEdge
  <2> QED BY <2>1 DEF MkEdge
<1>4. FindEdge(e.from, e.to, es)
  <2>1. e \in Range(es)
    BY <1>1, LenProperties DEF Range
  <2> QED BY <1>3, <2>1 DEF FindEdge
<1>5. n - 1 \in T
  <2>1. n - 1 \in Nat /\ n - 1 < Len(es) /\ (n - 1) + 1 = n
    BY <1>1
  <2> QED BY <2>1
<1>6. PICK q \in T : \A r \in T : q <= r
  <2>1. T \in SUBSET Nat /\ T # {}
    BY <1>5
  <2> HIDE DEF T
  <2> QED BY <2>1, LeastOf
<1>7. q \in 0..Len(es)-1 /\ First(q)
  <2>1. q \in Nat /\ q < Len(es) /\ es[q+1] = e
    BY <1>6
  <2>2. ASSUME NEW r \in 0..q-1
        PROVE  es[r+1] # es[q+1]
    <3>1. r \in Nat /\ r < Len(es) /\ ~ (q <= r)
      BY <1>1, <2>1
    <3> QED BY <1>6, <2>1, <3>1
  <2> QED BY <1>1, <2>1, <2>2
<1>8. p = CHOOSE x \in 0..Len(es)-1 : First(x)
  BY <1>3, <1>4 DEF EdgePosition
<1> HIDE DEF First
<1> QED BY <1>7, <1>8

\* Edges between places of the input.
Within(es) ==
    /\ es \in Seq(LineEdge)
    /\ \A n \in 1..Len(es) : es[n].from < size /\ es[n].to < size

LEMMA AddedWithin ==
    ASSUME size \in Nat, NEW es, Within(es), NEW a \in 0..size-1, NEW b \in 0..size-1
    PROVE  Within(AddEdge(MkEdge(a, b), es))
<1>1. PICK e : e = MkEdge(a, b)
  OBVIOUS
<1>2. e \in LineEdge /\ e.from < size /\ e.to < size
  BY <1>1 DEF MkEdge, LineEdge
<1>3. es \in Seq(LineEdge) /\ Len(es) \in Nat /\ \A n \in 1..Len(es) : es[n].from < size /\ es[n].to < size
  BY LenProperties DEF Within
<1>4. PICK t : t = Append(es, e)
  OBVIOUS
<1>5. t \in Seq(LineEdge) /\ Len(t) = Len(es) + 1 /\ t[Len(es) + 1] = e /\ \A n \in 1..Len(es) : t[n] = es[n]
  BY <1>2, <1>3, <1>4, PutLast
<1>6. \A n \in 1..Len(t) : n = Len(es) + 1 \/ n \in 1..Len(es)
  BY <1>3, <1>5
<1>7. Within(t)
  BY <1>2, <1>3, <1>5, <1>6 DEF Within
<1>8. AddEdge(e, es) = es \/ AddEdge(e, es) = t
  BY <1>4 DEF AddEdge
<1> QED BY <1>1, <1>7, <1>8

LineTyped ==
    /\ inputEdges \in Ascending
    /\ counter \in 0..size /\ other \in 0..size
    /\ newVertex \in LineVertex
    /\ outVertices \in Seq(LineVertex) /\ Len(outVertices) = counter
    /\ Within(outEdges)
    /\ redPc \in {"idle", "line", "reduced", "vertices", "edges", "filled"}
    /\ redPc = "idle" => counter = 0 /\ other = 0 /\ outEdges = <<>>
    /\ redPc \notin {"idle", "line"} => counter = size

LEMMA SizeIs == LineTyped => size \in Nat
  BY LenProperties DEF LineTyped, Ascending, size

LEMMA CompareTyped ==
    ASSUME LineTyped, Compare
    PROVE  LineTyped'
<1>1. /\ size \in Nat /\ counter \in 0..size-1 /\ other \in 0..size-1 /\ redPc = "line"
      /\ UNCHANGED <<inputEdges, counter, outVertices, redPc>> /\ other' = other + 1
  <2>1. size \in Nat
    BY SizeIs
  <2> QED BY <2>1 DEF Compare, LineTyped, size
<1>2. size' = size /\ other' \in 0..size
  BY <1>1 DEF size
<1>3. \A es : Within(es)' <=> Within(es)
  BY <1>2 DEF Within
<1>4. newVertex' \in LineVertex /\ Within(outEdges')
  <2>1. CASE UNCHANGED <<outEdges, newVertex>>
    BY <2>1 DEF LineTyped
  <2>2. CASE \E p \in EdgePosition(otherEdge, inputEdges, {-1}) :
               /\ outEdges' = AddEdge(MkEdge(counter, p), outEdges)
               /\ newVertex' = AddNeighbor(newVertex, p)
    <3>1. PICK p \in EdgePosition(otherEdge, inputEdges, {-1}) :
               /\ outEdges' = AddEdge(MkEdge(counter, p), outEdges)
               /\ newVertex' = AddNeighbor(newVertex, p)
      BY <2>2
    <3>2. other + 1 \in 1..Len(inputEdges) /\ inputEdges \in Ascending
      BY <1>1 DEF LineTyped, size
    <3>3. p \in 0..size-1
      BY <3>1, <3>2, EdgeIsFound DEF otherEdge, size
    <3>4. Within(outEdges')
      BY <1>1, <3>1, <3>3, AddedWithin DEF LineTyped
    <3>5. PICK nb : nb = Append(newVertex.neighbors, p)
      OBVIOUS
    <3>6. newVertex.neighbors \in Seq(Nat) /\ p \in Nat
      BY <1>1, <3>3 DEF LineTyped, LineVertex
    <3>7. nb \in Seq(Nat)
      BY <3>5, <3>6
    <3>8. newVertex' = [newVertex EXCEPT !.neighbors = nb]
      BY <3>1, <3>5 DEF AddNeighbor
    <3>9. newVertex' \in LineVertex
      BY <3>7, <3>8 DEF LineTyped, LineVertex
    <3> QED BY <3>4, <3>9
  <2> QED BY <2>1, <2>2 DEF Compare
<1> QED BY <1>1, <1>2, <1>3, <1>4 DEF LineTyped

LEMMA NewVertexIs ==
    ASSUME NEW u \in Nat
    PROVE  MkVertex(u) \in LineVertex
  BY DEF MkVertex, LineVertex

LEMMA NextVertexTyped ==
    ASSUME LineTyped, NextVertex
    PROVE  LineTyped'
<1>1. /\ size \in Nat /\ counter \in 0..size-1 /\ redPc = "line"
      /\ UNCHANGED <<inputEdges, outEdges, redPc>> /\ other' = 0 /\ counter' = counter + 1
      /\ newVertex' = MkVertex(counter + 1) /\ outVertices' = Append(outVertices, newVertex)
  <2>1. size \in Nat
    BY SizeIs
  <2> QED BY <2>1 DEF NextVertex, LineTyped, size
<1>2. size' = size /\ counter' \in 0..size /\ other' \in 0..size
  BY <1>1 DEF size
<1>3. Within(outEdges)'
  BY <1>1, <1>2 DEF Within, LineTyped
<1>4. newVertex' \in LineVertex
  BY <1>1, NewVertexIs
<1>5. outVertices' \in Seq(LineVertex) /\ Len(outVertices') = counter'
  BY <1>1, PutLast DEF LineTyped
<1> QED BY <1>1, <1>2, <1>3, <1>4, <1>5 DEF LineTyped

LEMMA LineTypedStays ==
    ASSUME LineTyped, UNCHANGED line,
           redPc' \in {"idle", "line", "reduced", "vertices", "edges", "filled"},
           redPc' = "idle" => redPc = "idle",
           redPc' \notin {"idle", "line"} => redPc \notin {"idle", "line"} \/ counter = size
    PROVE  LineTyped'
<1>1. /\ UNCHANGED <<inputEdges, counter, other, newVertex, outVertices, outEdges>>
      /\ size' = size
  BY DEF line, size
<1>2. Within(outEdges)'
  BY <1>1 DEF Within, LineTyped
<1> QED BY <1>1, <1>2 DEF LineTyped

LEMMA CallLineTyped ==
    ASSUME LineTyped, NEW es \in Ascending, CallReduceEdge3Col(es)
    PROVE  LineTyped'
<1>1. /\ redPc = "idle" /\ redPc' = "line" /\ inputEdges' = es
      /\ UNCHANGED <<counter, other, newVertex, outVertices, outEdges>>
      /\ counter = 0 /\ other = 0 /\ outEdges = <<>>
  BY DEF CallReduceEdge3Col, LineTyped
<1>2. size' = Len(es) /\ Len(es) \in Nat
  BY <1>1, LenProperties DEF size, Ascending
<1>3. Within(outEdges)'
  <2>1. <<>> \in Seq(LineEdge) /\ Len(<<>>) = 0
    OBVIOUS
  <2> QED BY <1>1, <2>1 DEF Within
<1> QED BY <1>1, <1>2, <1>3 DEF LineTyped

LEMMA LineTypedStep ==
    ASSUME LineTyped, ReaderFits, [Next]_vars
    PROVE  LineTyped'
<1>1. CASE CallReduceEdge3Col(edges)
  BY <1>1, CallLineTyped DEF ReaderFits
<1>2. CASE Compare
  BY <1>2, CompareTyped
<1>3. CASE NextVertex
  BY <1>3, NextVertexTyped
<1>4. CASE LineGraphDone
  BY <1>4, LineTypedStays DEF LineGraphDone, size
<1>5. CASE CallReduceVert3Col \/ ReduceVert3Col
  <2>1. /\ UNCHANGED line /\ redPc \notin {"idle", "line"} /\ redPc' # "idle"
        /\ redPc' \in {redPc, "vertices", "edges", "filled"}
    BY <1>5 DEF CallReduceVert3Col, ReduceVert3Col, AddVertex, VerticesDone, AddEdgeColour, EdgesDone
  <2>2. redPc' \in {"idle", "line", "reduced", "vertices", "edges", "filled"}
    BY <2>1 DEF LineTyped
  <2> QED BY <2>1, <2>2, LineTypedStays
<1>6. CASE UNCHANGED reduction
  <2>1. UNCHANGED line /\ redPc' = redPc /\ redPc \in {"idle", "line", "reduced", "vertices", "edges", "filled"}
    BY <1>6 DEF reduction, LineTyped
  <2> QED BY <2>1, LineTypedStays
<1> QED BY <1>1, <1>2, <1>3, <1>4, <1>5, <1>6
    DEF Next, Step, GraphFromBAFile, LineGraphOfIt, CallSolver, FillFromGraph, FillFromFile, Interrupt,
        ReduceEdge3Col, vars

LEMMA LineTypedStarts == ReductionInit => LineTyped
<1> SUFFICES ASSUME ReductionInit PROVE LineTyped
  OBVIOUS
<1>1. /\ inputEdges = <<>> /\ outEdges = <<>> /\ outVertices = <<>> /\ counter = 0 /\ other = 0
      /\ newVertex = MkVertex(0) /\ redPc = "idle"
  BY DEF ReductionInit
<1>2. Len(<<>>) = 0 /\ <<>> \in Seq(LineEdge) /\ <<>> \in Seq(LineVertex) /\ <<>> \in Ascending
  BY DEF Ascending
<1>3. size = 0 /\ 0 \in 0..size
  BY <1>1, <1>2 DEF size
<1>4. Within(outEdges)
  BY <1>1, <1>2 DEF Within
<1>5. newVertex \in LineVertex
  BY <1>1, NewVertexIs
<1> QED BY <1>1, <1>2, <1>3, <1>4, <1>5 DEF LineTyped

-----------------------------------------------------------------------------
(* The types of the formula. *)

\* There is a variable for each vertex before k and colour.
Numbering(k) == k > 0 => nVars > 3 * k

FormulaTyped ==
    /\ SolverFits
    /\ at \in Nat /\ colour \in 0..2 /\ cnt \in Nat
    /\ redPc \in {"idle", "line", "reduced"} => at = 0
    /\ redPc = "vertices" => at <= size /\ Numbering(at)
    /\ redPc = "edges" => Numbering(size)

LEMMA AddVertexTyped ==
    ASSUME LineTyped, FormulaTyped, AddVertex
    PROVE  FormulaTyped'
<1>1. /\ at \in Nat /\ at < size /\ size \in Nat /\ at' = at + 1 /\ cnt' \in Nat
      /\ redPc = "vertices" /\ redPc' = redPc /\ colour' = colour /\ inputEdges' = inputEdges
      /\ AddClauses(ClausesOfVertex(at), Var(at, 2))
  <2>1. counter = size /\ size \in Nat /\ Len(outVertices) = size
    BY SizeIs DEF LineTyped, AddVertex
  <2> QED BY <2>1 DEF AddVertex, FormulaTyped, line
<1>2. size' = size /\ at' \in Nat /\ at' <= size
  BY <1>1 DEF size
<1>3. PICK h : h = Var(at, 2)
  OBVIOUS
<1>4. h = 3 * at + 3 /\ h \in Int /\ h + 1 \in Nat
  BY <1>1, <1>3 DEF Var
<1>5. \A c \in ClausesOfVertex(at) : UpTo(c, h)
  BY <1>1, <1>3, VertexClausesFit
<1>6. SolverFits' /\ nVars' >= h + 1
  BY <1>1, <1>3, <1>4, <1>5, AddingKeeps DEF FormulaTyped
<1>7. nVars' \in Nat
  BY <1>6 DEF SolverFits
<1>8. nVars' > 3 * (at + 1)
  BY <1>1, <1>4, <1>6, <1>7
<1>9. Numbering(at)'
  BY <1>1, <1>8 DEF Numbering
<1> QED BY <1>1, <1>2, <1>6, <1>9 DEF FormulaTyped

LEMMA AddEdgeColourTyped ==
    ASSUME LineTyped, FormulaTyped, AddEdgeColour
    PROVE  FormulaTyped'
<1> DEFINE e == outEdges[at + 1]
<1>1. /\ at \in Nat /\ at < Len(outEdges) /\ size \in Nat /\ cnt' \in Nat
      /\ redPc = "edges" /\ redPc' = redPc /\ inputEdges' = inputEdges
      /\ AddClauses({{Neg(Var(e.from, colour)), Neg(Var(e.to, colour))}}, 0)
      /\ at' \in Nat /\ colour \in 0..2 /\ colour' \in 0..2
  BY SizeIs DEF AddEdgeColour, FormulaTyped, line
<1>2. size' = size
  BY <1>1 DEF size
<1>3. e \in LineEdge /\ e.from < size /\ e.to < size
  <2>1. outEdges \in Seq(LineEdge) /\ Len(outEdges) \in Nat /\ Within(outEdges)
    BY LenProperties DEF LineTyped, Within
  <2>2. at + 1 \in 1..Len(outEdges)
    BY <1>1, <2>1
  <2> QED BY <2>1, <2>2, ElementOfSeq DEF Within
<1>4. PICK u \in Nat, w \in Nat : u = e.from /\ w = e.to
  BY <1>3 DEF LineEdge
<1> HIDE DEF e
<1>5. nVars \in Nat /\ nVars > 3 * size
  <2>0. size \in Nat /\ u < size
    BY <1>1, <1>3, <1>4
  <2>1. size > 0
    BY <2>0
  <2> QED BY <1>1, <2>1 DEF FormulaTyped, Numbering, SolverFits
<1>6. 3 * u + 3 < nVars /\ 3 * w + 3 < nVars /\ nVars >= nVars
  <2>0. size \in Nat /\ u < size /\ w < size
    BY <1>1, <1>3, <1>4
  <2>1. u + 1 <= size /\ w + 1 <= size
    BY <2>0
  <2> QED BY <1>1, <1>5, <2>1
<1>7. SolverFits' /\ nVars' >= nVars
  BY <1>1, <1>4, <1>5, <1>6, EdgeClauseFits DEF FormulaTyped
<1>8. nVars' \in Nat
  BY <1>7 DEF SolverFits
<1>9. Numbering(size)'
  BY <1>1, <1>2, <1>5, <1>7, <1>8 DEF Numbering
<1> QED BY <1>1, <1>7, <1>9 DEF FormulaTyped

\* More variables do not hurt.
LEMMA FormulaTypedStays ==
    ASSUME LineTyped, FormulaTyped, SolverFits', nVars' >= nVars, UNCHANGED <<at, colour, cnt>>,
           size' = size \/ redPc' \in {"idle", "line", "reduced"},
           redPc' \in {"idle", "line", "reduced", "vertices", "edges", "filled"},
           redPc' = redPc \/ redPc' = "filled" \/ (redPc' \in {"line", "reduced"} /\ redPc \in {"idle", "line"})
             \/ (redPc' = "vertices" /\ redPc = "reduced")
    PROVE  FormulaTyped'
<1>1. nVars \in Nat /\ nVars' \in Nat /\ size \in Nat /\ at \in Nat /\ at' = at
  BY SizeIs DEF FormulaTyped, SolverFits
<1>2. Numbering(at) => Numbering(at)'
  BY <1>1 DEF Numbering
<1>3. size' = size => (Numbering(size) => Numbering(size)')
  BY <1>1 DEF Numbering
<1>4. redPc' \in {"idle", "line", "reduced"} => at' = 0
  BY DEF FormulaTyped
<1>5. redPc' = "vertices" => at' <= size' /\ Numbering(at)'
  <2>1. CASE redPc = "vertices"
    BY <1>2, <2>1 DEF FormulaTyped
  <2>2. CASE redPc = "reduced"
    <3>1. at = 0
      BY <2>2 DEF FormulaTyped
    <3> QED BY <1>1, <3>1 DEF Numbering
  <2> QED BY <2>1, <2>2
<1>6. redPc' = "edges" => Numbering(size)'
  BY <1>3 DEF FormulaTyped
<1> QED BY <1>4, <1>5, <1>6 DEF FormulaTyped

LEMMA VerticesDoneTyped ==
    ASSUME LineTyped, FormulaTyped, VerticesDone
    PROVE  FormulaTyped'
<1>1. counter = size /\ Len(outVertices) = size
  BY DEF LineTyped, VerticesDone
<1>2. /\ at = size /\ at' = 0 /\ redPc = "vertices" /\ redPc' = "edges"
      /\ UNCHANGED <<inputEdges, colour, cnt, nVars, clauses>>
  BY <1>1 DEF VerticesDone, line, solverInput
<1>3. size' = size
  BY <1>2 DEF size
<1>4. Numbering(size)'
  BY <1>2, <1>3 DEF FormulaTyped, Numbering
<1>5. SolverFits'
  BY <1>2 DEF FormulaTyped, SolverFits
<1> QED BY <1>2, <1>4, <1>5 DEF FormulaTyped

-----------------------------------------------------------------------------
(* The types of the DIMACS parser. *)

LEMMA WordsRead ==
    ASSUME NEW words \in Seq(Int)
    PROVE  UpToEnd(words) \in Seq(Int)
<1> DEFINE Ending(w) == w = 0 \/ w \in Marks
           I == {i \in 1..Len(words) : Ending(words[i])}
<1>1. SelectInSeq(words, LAMBDA w : w = 0 \/ w \in Marks) = IF I # {} THEN Min(I) ELSE 0
  BY DEF SelectInSeq
<1>2. Len(words) \in Nat
  BY LenProperties
<1>3. I # {} => Min(I) \in 1..Len(words)
  <2> SUFFICES ASSUME I # {} PROVE Min(I) \in 1..Len(words)
    OBVIOUS
  <2>1. I \in SUBSET Nat /\ I \in SUBSET (1..Len(words))
    OBVIOUS
  <2> HIDE DEF I
  <2>2. PICK x \in I : \A y \in I : x <= y
    BY <2>1, LeastOf
  <2>3. PICK m : m = Min(I)
    OBVIOUS
  <2>4. m = CHOOSE z \in I : \A y \in I : z <= y
    BY <2>3 DEF Min
  <2>5. m \in I
    BY <2>2, <2>4
  <2> QED BY <2>1, <2>3, <2>5
<1> HIDE DEF I
<1>4. UpToEnd(words) = words \/ \E n \in 1..Len(words) : UpToEnd(words) = SubSeq(words, 1, n)
  BY <1>1, <1>3 DEF UpToEnd
<1>5. \A n \in 1..Len(words) : SubSeq(words, 1, n) \in Seq(Int)
  <2> TAKE n \in 1..Len(words)
  <2>1. \A i \in 1..n : words[i] \in Int
    <3>1. \A i \in 1..n : i \in 1..Len(words)
      BY <1>2
    <3> QED BY <3>1, ElementOfSeq
  <2> QED BY <1>2, <2>1, SubSeqProperties
<1> QED BY <1>4, <1>5

LEMMA ClauseRead ==
    ASSUME NEW words \in Seq(Int), NEW h,
           h = IF LiteralsOf(words) = {} THEN -1 ELSE Max({VarIndex(l) : l \in LiteralsOf(words)})
    PROVE  h \in Int /\ h + 1 \in Nat /\ UpTo(LiteralsOf(words), h)
<1> DEFINE lits == LiteralsOf(words)
           s == UpToEnd(words)
           S == {VarIndex(l) : l \in lits}
           t == [n \in 1..Len(s) |-> IF s[n] > 0 THEN s[n] ELSE -s[n]]
<1>1. s \in Seq(Int) /\ lits = {w \in Range(s) : w # 0}
  BY WordsRead DEF LiteralsOf
<1> HIDE DEF s, lits
<1>2. Len(s) \in Nat /\ \A n \in 1..Len(s) : s[n] \in Int
  BY <1>1, LenProperties, ElementOfSeq
<1>3. \A l \in lits : l \in Int /\ l # 0 /\ \E n \in 1..Len(s) : l = s[n]
  <2>1. \A w \in Range(s) : \E n \in 1..Len(s) : w = s[n]
    BY <1>1, LenProperties DEF Range
  <2> QED BY <1>1, <1>2, <2>1
<1>4. t \in Seq(Nat) /\ Len(t) = Len(s) /\ \A n \in 1..Len(s) : t[n] = IF s[n] > 0 THEN s[n] ELSE -s[n]
  <2>1. \A n \in 1..Len(s) : (IF s[n] > 0 THEN s[n] ELSE -s[n]) \in Nat
    BY <1>2
  <2> QED BY <1>2, <2>1
<1> HIDE DEF t
<1>5. PICK b \in Nat : \A n \in 1..Len(s) : t[n] <= b
  BY <1>4, BoundOf DEF Bounded
<1>6. \A l \in lits : VarIndex(l) \in Nat /\ VarIndex(l) <= b
  <2> TAKE l \in lits
  <2>1. PICK n \in 1..Len(s) : l = s[n]
    BY <1>3
  <2>2. l \in Int /\ l # 0 /\ (IF l > 0 THEN l ELSE -l) <= b
    BY <1>3, <1>4, <1>5, <2>1
  <2> QED BY <2>2 DEF VarIndex
<1>7. S \in SUBSET Nat /\ \A x \in S : x <= b
  BY <1>6
<1>8. CASE lits = {}
  <2>1. h = -1
    BY <1>8 DEF lits
  <2> QED BY <1>8, <2>1 DEF UpTo, lits
<1>9. CASE lits # {}
  <2>1. h = Max(S) /\ S # {}
    BY <1>9 DEF lits
  <2> HIDE DEF S
  <2>2. Max(S) \in S /\ \A x \in S : x <= Max(S)
    BY <1>7, <2>1, GreatestOf
  <2>3. h \in Nat /\ \A x \in S : x <= h
    BY <1>7, <2>1, <2>2
  <2>4. \A l \in lits : VarIndex(l) <= h
    BY <2>3 DEF S
  <2> QED BY <1>3, <2>3, <2>4 DEF UpTo, lits
<1> QED BY <1>8, <1>9

LEMMA DimacsStarts == DimacsInit => DimacsTypeOK
<1> SUFFICES ASSUME DimacsInit PROVE DimacsTypeOK
  OBVIOUS
<1>1. Len(dimacsFile) \in Nat
  BY DimacsFilesAssumption, LenProperties DEF DimacsInit
<1>2. header \in Seq(Int) /\ Len(header) = 2
  BY DEF DimacsInit
<1> QED BY <1>1, <1>2 DEF DimacsInit, DimacsTypeOK

LEMMA DimacsStays == DimacsTypeOK /\ UNCHANGED dimacs => DimacsTypeOK'
  BY DEF DimacsTypeOK, dimacs

LEMMA HeaderFits ==
    ASSUME DimacsTypeOK, Header
    PROVE  DimacsTypeOK'
<1>1. /\ dimacsFile \in Seq(Seq(Int)) /\ Len(dimacsFile) \in Nat /\ lineNumber \in Nat
      /\ lineNumber < Len(dimacsFile) /\ clauseCount \in 0..lineNumber
      /\ UNCHANGED <<dimacsFile, opened, clauseCount>>
  BY DimacsFilesAssumption, LenProperties DEF DimacsTypeOK, Header, parsing
<1>2. dimacsLine \in Seq(Int)
  <2>1. lineNumber + 1 \in 1..Len(dimacsFile)
    BY <1>1
  <2> QED BY <1>1, <2>1, ElementOfSeq DEF dimacsLine
<1>3. Len(dimacsLine) \in Nat
  BY <1>2, LenProperties
<1>4. CASE dimacsPc' = "exit3" /\ UNCHANGED <<header, lineNumber>>
  BY <1>1, <1>4 DEF DimacsTypeOK
<1>5. CASE /\ header' = [n \in 1..2 |-> IF Len(dimacsLine) > n + 1 /\ dimacsLine[n + 2] \notin Marks
                                          THEN dimacsLine[n + 2] ELSE 0]
           /\ lineNumber' = lineNumber + 1 /\ dimacsPc' = dimacsPc
  <2> DEFINE value(n) == IF Len(dimacsLine) > n + 1 /\ dimacsLine[n + 2] \notin Marks
                           THEN dimacsLine[n + 2] ELSE 0
  <2>1. ASSUME NEW n \in 1..2
        PROVE  value(n) \in Int
    <3>1. CASE Len(dimacsLine) > n + 1
      <4>1. n + 2 \in 1..Len(dimacsLine)
        BY <1>3, <3>1
      <4> QED BY <1>2, <4>1, ElementOfSeq
    <3> QED BY <3>1
  <2>2. header' = [n \in 1..2 |-> value(n)]
    BY <1>5
  <2> HIDE DEF value
  <2>3. header' \in Seq(Int) /\ Len(header') = 2
    BY <2>1, <2>2
  <2>4. lineNumber' \in 0..Len(dimacsFile) /\ clauseCount \in 0..lineNumber'
    BY <1>1, <1>5
  <2> QED BY <1>1, <1>5, <2>3, <2>4 DEF DimacsTypeOK
<1> QED BY <1>4, <1>5 DEF Header

LEMMA ParserKeeps ==
    ASSUME DimacsTypeOK, SolverFits, ParseDimacs \/ CallParseDimacs
    PROVE  DimacsTypeOK' /\ SolverFits' /\ nVars' >= nVars
<1>1. nVars \in Nat /\ nVars >= nVars
  BY DEF SolverFits
<1>2. /\ dimacsFile \in Seq(Seq(Int)) /\ Len(dimacsFile) \in Nat /\ lineNumber \in Nat
      /\ lineNumber <= Len(dimacsFile) /\ clauseCount \in 0..lineNumber
  BY DimacsFilesAssumption, LenProperties DEF DimacsTypeOK
<1>3. UNCHANGED solverInput => SolverFits' /\ nVars' >= nVars
  BY <1>1, SolverStays DEF solverInput
<1>4. CASE CallParseDimacs \/ ReadWord \/ NeverEnds \/ DimacsDone
  <2>1. /\ UNCHANGED <<dimacsFile, opened, lineNumber, header, clauseCount, solverInput>>
        /\ dimacsPc' \in {"idle", "parse", "parsed", "exit3", "outOfMemory"}
    BY <1>4 DEF CallParseDimacs, ReadWord, NeverEnds, DimacsDone
  <2> QED BY <1>3, <2>1 DEF DimacsTypeOK
<1>5. CASE SkipDimacsLine
  <2>1. lineNumber' = lineNumber + 1 /\ lineNumber < Len(dimacsFile)
        /\ UNCHANGED <<dimacsFile, opened, header, clauseCount, dimacsPc, solverInput>>
    BY <1>5 DEF SkipDimacsLine, parsing
  <2>2. lineNumber' \in 0..Len(dimacsFile) /\ clauseCount \in 0..lineNumber'
    BY <1>2, <2>1
  <2> QED BY <1>3, <2>1, <2>2 DEF DimacsTypeOK
<1>6. CASE Header
  <2>1. UNCHANGED solverInput
    BY <1>6 DEF Header
  <2> QED BY <1>3, <1>6, <2>1, HeaderFits
<1>7. CASE ReadClause
  <2>1. /\ lineNumber' = lineNumber + 1 /\ clauseCount' = clauseCount + 1 /\ lineNumber < Len(dimacsFile)
        /\ UNCHANGED <<dimacsFile, opened, header, dimacsPc>>
    BY <1>7 DEF ReadClause, parsing
  <2>2. lineNumber' \in 0..Len(dimacsFile) /\ clauseCount' \in 0..lineNumber'
    BY <1>2, <2>1
  <2>3. dimacsLine \in Seq(Int)
    <3>1. lineNumber + 1 \in 1..Len(dimacsFile)
      BY <1>2, <2>1
    <3> QED BY <1>2, <3>1, ElementOfSeq DEF dimacsLine
  <2>4. PICK h : h = IF LiteralsOf(dimacsLine) = {} THEN -1
                     ELSE Max({VarIndex(l) : l \in LiteralsOf(dimacsLine)})
    OBVIOUS
  <2>5. AddClauses({LiteralsOf(dimacsLine)}, h)
    BY <1>7, <2>4 DEF ReadClause
  <2>6. h \in Int /\ h + 1 \in Nat /\ UpTo(LiteralsOf(dimacsLine), h)
    BY <2>3, <2>4, ClauseRead
  <2>7. PICK D : D = {LiteralsOf(dimacsLine)}
    OBVIOUS
  <2>8. SolverFits' /\ nVars' >= nVars
    <3>1. \A c \in D : UpTo(c, h)
      BY <2>6, <2>7
    <3>2. AddClauses(D, h)
      BY <2>5, <2>7
    <3> QED BY <2>6, <3>1, <3>2, AddingKeeps
  <2> QED BY <2>1, <2>2, <2>8 DEF DimacsTypeOK
<1>8. CASE ReadNothing
  BY <1>3, <1>8, DimacsStays DEF ReadNothing
<1> QED BY <1>4, <1>5, <1>6, <1>7, <1>8 DEF ParseDimacs

-----------------------------------------------------------------------------

Typed == ReaderFits /\ LineTyped /\ FormulaTyped /\ DimacsTypeOK

LEMMA TypedStarts == Init => Typed
<1> SUFFICES ASSUME Init PROVE Typed
  OBVIOUS
<1>1. ReaderFits /\ LineTyped /\ DimacsTypeOK
  BY ReaderStarts, LineTypedStarts, DimacsStarts DEF Init
<1>2. SolverFits
  BY DEF Init, NewSolver, SolverFits
<1>3. FormulaTyped
  BY <1>2 DEF Init, ReductionInit, FormulaTyped
<1> QED BY <1>1, <1>3 DEF Typed

LEMMA FormulaTypedStep ==
    ASSUME Typed, [Next]_vars
    PROVE  FormulaTyped'
<1>1. /\ LineTyped /\ FormulaTyped /\ SolverFits /\ nVars \in Nat /\ nVars >= nVars
      /\ redPc \in {"idle", "line", "reduced", "vertices", "edges", "filled"}
  BY DEF Typed, FormulaTyped, SolverFits, LineTyped
<1>2. UNCHANGED solverInput => SolverFits' /\ nVars' >= nVars
  BY <1>1, SolverStays DEF solverInput
<1>3. CASE CallReduceEdge3Col(edges)
  <2>1. UNCHANGED <<at, colour, cnt, solverInput>> /\ redPc = "idle" /\ redPc' = "line"
    BY <1>3 DEF CallReduceEdge3Col, formula
  <2> QED BY <1>1, <1>2, <2>1, FormulaTypedStays
<1>4. CASE Compare \/ NextVertex \/ LineGraphDone \/ CallReduceVert3Col \/ EdgesDone
  <2>1. /\ UNCHANGED <<at, colour, cnt, solverInput, inputEdges>>
        /\ \/ redPc' = redPc \/ (redPc = "line" /\ redPc' = "reduced")
           \/ (redPc = "reduced" /\ redPc' = "vertices") \/ redPc' = "filled"
    BY <1>4 DEF Compare, NextVertex, LineGraphDone, CallReduceVert3Col, EdgesDone, formula, line
  <2>2. size' = size
    BY <2>1 DEF size
  <2> QED BY <1>1, <1>2, <2>1, <2>2, FormulaTypedStays
<1>5. CASE AddVertex
  BY <1>1, <1>5, AddVertexTyped
<1>6. CASE VerticesDone
  BY <1>1, <1>6, VerticesDoneTyped
<1>7. CASE AddEdgeColour
  BY <1>1, <1>7, AddEdgeColourTyped
<1>8. CASE UNCHANGED reduction /\ (UNCHANGED solverInput \/ ParseDimacs \/ CallParseDimacs)
  <2>1. SolverFits' /\ nVars' >= nVars
    BY <1>1, <1>2, <1>8, ParserKeeps DEF Typed
  <2>2. UNCHANGED <<at, colour, cnt, inputEdges, redPc>>
    BY <1>8 DEF reduction, line
  <2>3. size' = size
    BY <2>2 DEF size
  <2> QED BY <1>1, <2>1, <2>2, <2>3, FormulaTypedStays
<1> QED BY <1>3, <1>4, <1>5, <1>6, <1>7, <1>8
    DEF Next, Step, GraphFromBAFile, LineGraphOfIt, CallSolver, FillFromGraph, FillFromFile, Interrupt,
        ReduceEdge3Col, ReduceVert3Col, vars

LEMMA TypedStep ==
    ASSUME Typed, [Next]_vars
    PROVE  Typed'
<1>1. ReaderFits'
  <2>1. ReaderFits
    BY DEF Typed
  <2>2. BANext \/ UNCHANGED baVars
    BY DEF Next, Step, GraphFromBAFile, LineGraphOfIt, CallSolver, FillFromGraph, FillFromFile, Interrupt, vars
  <2> QED BY <2>1, <2>2, ReaderKeeps, ReaderStays
<1>2. LineTyped'
  BY LineTypedStep DEF Typed
<1>3. FormulaTyped'
  BY FormulaTypedStep
<1>4. DimacsTypeOK'
  <2>1. DimacsTypeOK /\ SolverFits
    BY DEF Typed, FormulaTyped
  <2>2. ParseDimacs \/ CallParseDimacs \/ UNCHANGED dimacs
    BY DEF Next, Step, GraphFromBAFile, LineGraphOfIt, CallSolver, FillFromGraph, FillFromFile, Interrupt, vars
  <2> QED BY <2>1, <2>2, ParserKeeps, DimacsStays
<1> QED BY <1>1, <1>2, <1>3, <1>4 DEF Typed

(***************************************************************************)
(* Whatever the files contain and whenever a signal comes: the reader's    *)
(* level of braces stays a number of its width, an edge that is looked up  *)
(* has a place in the list (the -1 of GraphFunctions.cpp 285 is never      *)
(* used), every literal handed to the solver is of a variable that was     *)
(* made before (GraphFunctions.cpp 326-466, SATSolver.cpp 50-140), and the *)
(* driver is in one of its states.                                         *)
(***************************************************************************)
THEOREM SpecTypeOK == Spec => []TypeOK
<1>1. Init => Typed /\ Inv
  <2>1. DriverInit => DriverTypeOK /\ NothingYet /\ AnswerFits /\ BufferFits
    BY DEF DriverInit, DriverTypeOK, NothingYet, AnswerFits, BufferFits, Over
  <2>2. DriverInit => AnswerIsWritten
    BY DEF DriverInit, AnswerIsWritten
  <2> QED BY <2>1, <2>2, TypedStarts DEF Init, Inv
<1>2. Typed /\ Inv /\ [Next]_vars => Typed' /\ Inv'
  <2> SUFFICES ASSUME Typed, Inv, [Next]_vars PROVE Typed' /\ Inv'
    OBVIOUS
  <2>1. Inv'
    <3>1. CASE GraphFromBAFile \/ LineGraphOfIt \/ FillFromGraph \/ FillFromFile
      BY <3>1, StutterKeepsInv DEF GraphFromBAFile, LineGraphOfIt, FillFromGraph, FillFromFile
    <3>2. CASE CallSolver
      BY <3>2, DriveKeepsInv DEF CallSolver
    <3>3. CASE Interrupt
      BY <3>3, SignalKeepsInv DEF Interrupt
    <3>4. CASE UNCHANGED vars
      BY <3>4, StutterKeepsInv DEF vars
    <3> QED BY <3>1, <3>2, <3>3, <3>4 DEF Next, Step
  <2>2. Typed'
    BY TypedStep
  <2> QED BY <2>1, <2>2
<1>3. Typed /\ Inv => TypeOK
  <2> SUFFICES ASSUME Typed, Inv PROVE TypeOK
    OBVIOUS
  <2>1. BATypeOK /\ DimacsTypeOK /\ DriverTypeOK
    BY DEF Typed, ReaderFits, Inv
  <2>2. SolverInputOK
    BY DEF Typed, FormulaTyped, SolverFits, SolverInputOK
  <2>3. ReductionTypeOK
    <3>1. inputEdges \in Seq([from : Nat, to : Nat]) /\ outEdges \in Seq([from : Nat, to : Nat])
      BY DEF Typed, LineTyped, Within, Ascending, LineEdge
    <3> QED BY <3>1 DEF Typed, LineTyped, FormulaTyped, ReductionTypeOK, size
  <2> QED BY <2>1, <2>2, <2>3 DEF TypeOK
<1> QED BY <1>1, <1>2, <1>3, PTL DEF Spec
=============================================================================
