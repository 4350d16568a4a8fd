----------------------- MODULE BFSColouriser_proofs -----------------------
(***************************************************************************)
(* What holds of the search for every set of cubic graphs, every root and  *)
(* every stack size: the types, the consistency of all the maps it may go  *)
(* back to, that list.pop_back() takes off the vertex that was coloured,   *)
(* that coloured is assigned before it is read, that it never reports      *)
(* success, and that it is right where it reports that there is none.      *)
(*                                                                         *)
(* The inductive invariant says of every active call what makes it safe to *)
(* go back to: its maps are consistent, its copy of the list ends with its *)
(* vertex and names no vertex twice, and it has options only if a colour   *)
(* is free at its vertex.                                                  *)
(***************************************************************************)
EXTENDS BFSColouriser, SequenceLemmas

-----------------------------------------------------------------------------
\* Cubic graphs and their colourings.

\* Two pairs are equal when they are the same pair in one of the two orders.
LEMMA PairEqual ==
    ASSUME NEW v, NEW w, NEW x, NEW y
    PROVE  {v, w} = {x, y} <=> (v = x /\ w = y) \/ (v = y /\ w = x)
  OBVIOUS

\* The edge at position k of v is, seen from the neighbour, at one position m.
LEMMA OtherEnd ==
    ASSUME NEW g, IsCubicGraph(g), NEW v \in V, NEW k \in Ports
    PROVE  \E m \in Ports :
             /\ g[g[v][k]][m] = v
             /\ \A x \in V : \A j \in Ports :
                  Edge(g, x, j) = Edge(g, v, k) <=>
                    (x = v /\ j = k) \/ (x = g[v][k] /\ j = m)
<1> DEFINE w == g[v][k]
<1>1. w \in V /\ w # v
  BY DEF IsCubicGraph
<1>2. PICK m \in Ports : g[w][m] = v
  BY DEF IsCubicGraph
<1>3. ASSUME NEW x \in V, NEW j \in Ports
      PROVE  Edge(g, x, j) = Edge(g, v, k) <=> (x = v /\ j = k) \/ (x = w /\ j = m)
  <2>1. Edge(g, x, j) = Edge(g, v, k) <=>
          (x = v /\ g[x][j] = w) \/ (x = w /\ g[x][j] = v)
    BY PairEqual DEF Edge
  <2>2. x = v => (g[x][j] = w <=> j = k)
    BY DEF IsCubicGraph
  <2>3. x = w => (g[x][j] = v <=> j = m)
    <3>1. \A i, j1 \in Ports : g[w][i] = g[w][j1] => i = j1
      BY <1>1 DEF IsCubicGraph
    <3> QED BY <1>2, <3>1
  <2> QED BY <2>1, <2>2, <2>3
<1> QED BY <1>2, <1>3

\* Giving an uncoloured edge a colour that is free at both of its ends, and
\* taking the colour off both tables, keeps the colouring proper and the
\* tables in agreement with it.
LEMMA PaintConsistent ==
    ASSUME NEW g, IsCubicGraph(g),
           NEW col \in Colourings(g), NEW free \in FreeColours,
           Proper(g, col), FreeMatches(g, col, free),
           NEW v \in V, NEW k \in Ports, NEW c \in Colours,
           col[Edge(g, v, k)] = NoColour,
           free[v][c] = 1, free[g[v][k]][c] = 1,
           NEW col2, col2 = [col EXCEPT ![Edge(g, v, k)] = c],
           NEW free2, free2 = [free EXCEPT ![v][c] = -1, ![g[v][k]][c] = -1]
    PROVE  /\ col2 \in Colourings(g)
           /\ free2 \in FreeColours
           /\ Proper(g, col2)
           /\ FreeMatches(g, col2, free2)
<1>0. PICK w : w = g[v][k]
  OBVIOUS
<1>1. w \in V /\ w # v
  BY <1>0 DEF IsCubicGraph
<1>2. PICK m \in Ports :
        \A x \in V : \A j \in Ports :
          Edge(g, x, j) = Edge(g, v, k) <=> (x = v /\ j = k) \/ (x = w /\ j = m)
  <2>1. PICK m \in Ports :
          /\ g[g[v][k]][m] = v
          /\ \A x \in V : \A j \in Ports :
               Edge(g, x, j) = Edge(g, v, k) <=>
                 (x = v /\ j = k) \/ (x = g[v][k] /\ j = m)
    BY OtherEnd
  <2> QED BY <2>1, <1>0
<1>3. \A x \in V : \A j \in Ports : Edge(g, x, j) \in Edges(g)
  BY DEF Edges
<1>4. \A x \in V : \A j \in Ports :
        col2[Edge(g, x, j)] =
          IF (x = v /\ j = k) \/ (x = w /\ j = m) THEN c ELSE col[Edge(g, x, j)]
  BY <1>2, <1>3 DEF Colourings
<1>5. \A x \in V : \A d \in Colours :
        IF (x = v \/ x = w) /\ d = c THEN free2[x][d] = -1
                                    ELSE free2[x][d] = free[x][d]
  <2> DEFINE f == [free EXCEPT ![v][c] = -1]
  <2>1. \A x \in V : \A d \in Colours :
          IF x = v /\ d = c THEN f[x][d] = -1 ELSE f[x][d] = free[x][d]
    BY DEF FreeColours
  <2>2. f \in FreeColours
    BY DEF FreeColours
  <2>3. free2 = [f EXCEPT ![w][c] = -1]
    BY <1>0
  <2> HIDE DEF f
  <2>4. \A x \in V : \A d \in Colours :
          IF x = w /\ d = c THEN free2[x][d] = -1 ELSE free2[x][d] = f[x][d]
    BY <1>1, <2>2, <2>3 DEF FreeColours
  <2> SUFFICES ASSUME NEW x \in V, NEW d \in Colours
               PROVE  IF (x = v \/ x = w) /\ d = c THEN free2[x][d] = -1
                                                   ELSE free2[x][d] = free[x][d]
    OBVIOUS
  <2>5. IF x = v /\ d = c THEN f[x][d] = -1 ELSE f[x][d] = free[x][d]
    BY <2>1
  <2>6. IF x = w /\ d = c THEN free2[x][d] = -1 ELSE free2[x][d] = f[x][d]
    BY <2>4
  <2> QED BY <2>5, <2>6
<1>6. col2 \in Colourings(g)
  BY DEF Colourings
<1>7. free2 \in FreeColours
  BY <1>0, <1>1 DEF FreeColours
<1>8. c # NoColour
  BY DEF Colours, NoColour
<1>9. \A j \in Ports : col[Edge(g, v, j)] # c /\ col[Edge(g, w, j)] # c
  BY <1>0, <1>1 DEF FreeMatches
<1>10. col[Edge(g, w, m)] = NoColour
  BY <1>1, <1>2
<1>11. Proper(g, col2)
  <2> SUFFICES ASSUME NEW x \in V, NEW j \in Ports, NEW jj \in Ports, j # jj,
                      col2[Edge(g, x, j)] # NoColour
               PROVE  col2[Edge(g, x, j)] # col2[Edge(g, x, jj)]
    BY DEF Proper
  <2>1. CASE x # v /\ x # w
    BY <2>1, <1>4 DEF Proper
  <2>2. CASE x = v
    BY <2>2, <1>1, <1>4, <1>8, <1>9 DEF Proper
  <2>3. CASE x = w
    BY <2>3, <1>1, <1>4, <1>8, <1>9 DEF Proper
  <2> QED BY <2>1, <2>2, <2>3
<1>12. FreeMatches(g, col2, free2)
  <2> SUFFICES ASSUME NEW x \in V, NEW d \in Colours
               PROVE  free2[x][d] = -1 <=> \E j \in Ports : col2[Edge(g, x, j)] = d
    BY DEF FreeMatches
  <2>1. free[x][d] = -1 <=> \E j \in Ports : col[Edge(g, x, j)] = d
    BY DEF FreeMatches
  <2>2. d # NoColour
    BY DEF Colours, NoColour
  <2>3. CASE x # v /\ x # w
    <3>1. \A j \in Ports : col2[Edge(g, x, j)] = col[Edge(g, x, j)]
      BY <2>3, <1>4
    <3>2. free2[x][d] = free[x][d]
      BY <2>3, <1>5
    <3> QED BY <2>1, <3>1, <3>2
  <2>4. CASE x = v
    <3>1. \A j \in Ports : col2[Edge(g, x, j)] = IF j = k THEN c ELSE col[Edge(g, x, j)]
      BY <2>4, <1>1, <1>4
    <3>2. col[Edge(g, x, k)] = NoColour
      BY <2>4
    <3>3. IF d = c THEN free2[x][d] = -1 ELSE free2[x][d] = free[x][d]
      BY <2>4, <1>5
    <3> QED BY <2>1, <2>2, <3>1, <3>2, <3>3
  <2>5. CASE x = w
    <3>1. \A j \in Ports : col2[Edge(g, x, j)] = IF j = m THEN c ELSE col[Edge(g, x, j)]
      BY <2>5, <1>1, <1>4
    <3>2. col[Edge(g, x, m)] = NoColour
      BY <2>5, <1>10
    <3>3. IF d = c THEN free2[x][d] = -1 ELSE free2[x][d] = free[x][d]
      BY <2>5, <1>5
    <3> QED BY <2>1, <2>2, <3>1, <3>2, <3>3
  <2> QED BY <2>3, <2>4, <2>5
<1> QED BY <1>6, <1>7, <1>11, <1>12

\* A vertex with a free colour has an uncoloured edge: three coloured edges of
\* a properly coloured vertex use the three colours up.
LEMMA FreeHasUncoloured ==
    ASSUME NEW g, IsCubicGraph(g),
           NEW col \in Colourings(g), NEW free \in FreeColours,
           Proper(g, col), FreeMatches(g, col, free),
           NEW v \in V, NEW c \in Colours, free[v][c] = 1
    PROVE  \E k \in Ports : col[Edge(g, v, k)] = NoColour
<1> SUFFICES ASSUME \A k \in Ports : col[Edge(g, v, k)] # NoColour
             PROVE  FALSE
  OBVIOUS
<1> DEFINE a == col[Edge(g, v, 1)]
           b == col[Edge(g, v, 2)]
           d == col[Edge(g, v, 3)]
<1>1. a \in Colours /\ b \in Colours /\ d \in Colours
  BY DEF Ports, Colourings, Edges
<1>2. a # b /\ a # d /\ b # d
  BY DEF Ports, Proper
<1>3. c \in {a, b, d}
  <2> HIDE DEF a, b, d
  <2> QED BY <1>1, <1>2 DEF Colours
<1>4. free[v][c] = -1
  BY <1>3 DEF FreeMatches, Ports
<1> QED BY <1>4

\* The uncoloured graph with every colour free is consistent.
LEMMA BlankConsistent ==
    ASSUME NEW g, NEW col, NEW free,
           col = [e \in Edges(g) |-> NoColour],
           free = [v \in V |-> [c \in Colours |-> 1]]
    PROVE  /\ col \in Colourings(g)
           /\ free \in FreeColours
           /\ Proper(g, col)
           /\ FreeMatches(g, col, free)
<1>1. \A v \in V : \A k \in Ports : col[Edge(g, v, k)] = NoColour
  BY DEF Edges
<1>2. NoColour \notin Colours
  BY DEF Colours, NoColour
<1> QED BY <1>1, <1>2 DEF Colourings, FreeColours, Proper, FreeMatches

\* At a vertex a full and proper colouring has each colour at one position.
LEMMA EachColourOnce ==
    ASSUME NEW g, NEW F \in [Edges(g) -> Colours], Proper(g, F),
           NEW v \in V, NEW c \in Colours
    PROVE  \E k \in Ports : \A j \in Ports : F[Edge(g, v, j)] = c <=> j = k
<1> DEFINE a == F[Edge(g, v, 1)]
           b == F[Edge(g, v, 2)]
           d == F[Edge(g, v, 3)]
<1>1. a \in Colours /\ b \in Colours /\ d \in Colours
  BY DEF Ports, Edges
<1>2. a # b /\ a # d /\ b # d
  BY <1>1 DEF Ports, Proper, Colours, NoColour
<1>3. c = a \/ c = b \/ c = d
  <2> HIDE DEF a, b, d
  <2> QED BY <1>1, <1>2 DEF Colours
<1>4. \A j \in Ports : j = 1 \/ j = 2 \/ j = 3
  BY DEF Ports
<1>5. 1 \in Ports /\ 2 \in Ports /\ 3 \in Ports
  BY DEF Ports
<1>6. CASE c = a
  BY <1>2, <1>4, <1>5, <1>6
<1>7. CASE c = b
  BY <1>2, <1>4, <1>5, <1>7
<1>8. CASE c = d
  BY <1>2, <1>4, <1>5, <1>8
<1> QED BY <1>3, <1>6, <1>7, <1>8

\* Colourable says that some colouring of all the edges is proper.
LEMMA ColourableMeans ==
    ASSUME NEW g, IsCubicGraph(g)
    PROVE  Colourable(g) <=> \E F \in [Edges(g) -> Colours] : Proper(g, F)
<1>1. ASSUME Colourable(g)
      PROVE  \E F \in [Edges(g) -> Colours] : Proper(g, F)
  <2>1. PICK A \in ColourClass(g), B \in ColourClass(g) : A \cap B = {}
    BY <1>1 DEF Colourable
  <2> DEFINE F == [e \in Edges(g) |-> IF e \in A THEN 0 ELSE IF e \in B THEN 1 ELSE 2]
  <2>2. F \in [Edges(g) -> Colours]
    BY DEF Colours
  <2>3. ASSUME NEW v \in V, NEW j \in Ports, NEW k \in Ports, j # k
        PROVE  F[Edge(g, v, j)] # F[Edge(g, v, k)]
    <3>1. PICK m \in Ports : \A i \in Ports : Edge(g, v, i) \in A <=> i = m
      BY <2>1 DEF ColourClass
    <3>2. PICK n \in Ports : \A i \in Ports : Edge(g, v, i) \in B <=> i = n
      BY <2>1 DEF ColourClass
    <3>3. m # n
      BY <2>1, <3>1, <3>2
    <3>4. \A i \in Ports : F[Edge(g, v, i)] = IF i = m THEN 0 ELSE IF i = n THEN 1 ELSE 2
      BY <3>1, <3>2 DEF Edges
    <3> HIDE DEF F
    <3> QED BY <2>3, <3>3, <3>4 DEF Ports
  <2>4. Proper(g, F)
    BY <2>3 DEF Proper
  <2> QED BY <2>2, <2>4
<1>2. ASSUME NEW F \in [Edges(g) -> Colours], Proper(g, F)
      PROVE  Colourable(g)
  <2> DEFINE Class(c) == {e \in Edges(g) : F[e] = c}
  <2>1. ASSUME NEW c \in Colours
        PROVE  Class(c) \in ColourClass(g)
    <3>1. ASSUME NEW v \in V
          PROVE  \E k \in Ports : \A j \in Ports : Edge(g, v, j) \in Class(c) <=> j = k
      <4>1. PICK k \in Ports : \A j \in Ports : F[Edge(g, v, j)] = c <=> j = k
        BY <1>2, EachColourOnce
      <4> QED BY <4>1 DEF Edges
    <3> QED BY <3>1 DEF ColourClass
  <2>2. Class(0) \cap Class(1) = {}
    OBVIOUS
  <2> QED BY <2>1, <2>2 DEF Colourable, Colours
<1> QED BY <1>1, <1>2

-----------------------------------------------------------------------------
\* The invariant of the search: what a call can be given back.

GoodFrame ==
    {f \in Frame :
        /\ Consistent(f.inColour, f.inAvail)
        /\ f.localList # <<>> /\ Last(f.localList) = f.vertex
        /\ Distinct(f.localList)
        /\ f.options # <<>> => \E c \in Colours : f.inAvail[f.vertex][c] = 1}

\* The part of the invariant for the edges of the root.
RootPhase ==
    pc = "root" =>
        /\ frames = <<>>
        /\ Len(list) = port - 1
        /\ \A n \in 1..Len(list) : \E j \in Ports : j < port /\ list[n] = graph[root][j]
        /\ \A j \in Ports : j >= port => colour[Edge(graph, root, j)] = NoColour

\* The part for the walk over the edges of a vertex.
EdgePhase ==
    pc = "edge" =>
        /\ frames # <<>>
        /\ top.i < Len(top.options)
        /\ list # <<>> /\ Last(list) = top.vertex
        /\ coloured = "yes" => Len(list) >= 2
        /\ coloured = "unset" =>
             /\ colour = top.inColour /\ avail = top.inAvail
             /\ \A j \in Ports : j < port => colour[Edge(graph, top.vertex, j)] # NoColour

IInv ==
    /\ TypeOK
    /\ Consistent(colour, avail)
    /\ frames \in Seq(GoodFrame)
    /\ Distinct(list)
    /\ ~ ret
    /\ RootPhase
    /\ pc = "while" => list # <<>> /\ frames = <<>>
    /\ pc = "option" => frames # <<>> /\ list = top.localList
    /\ EdgePhase

-----------------------------------------------------------------------------
\* list.push_front leaves the back where it is, and a new vertex is no double.
LEMMA PushFront ==
    ASSUME NEW S, NEW s \in Seq(S), NEW w \in S
    PROVE  /\ <<w>> \o s \in Seq(S)
           /\ Len(<<w>> \o s) = Len(s) + 1
           /\ <<w>> \o s # <<>>
           /\ s # <<>> => Last(<<w>> \o s) = Last(s)
           /\ Distinct(s) /\ w \notin Range(s) => Distinct(<<w>> \o s)
           /\ \A n \in 1..Len(s) + 1 : (<<w>> \o s)[n] = IF n = 1 THEN w ELSE s[n - 1]
<1> DEFINE t == <<w>> \o s
<1>1. <<w>> \in Seq(S) /\ Len(<<w>>) = 1 /\ <<w>>[1] = w
  OBVIOUS
<1>2. Len(s) \in Nat
  BY LenProperties
<1>3. /\ t \in Seq(S)
      /\ Len(t) = Len(s) + 1
      /\ \A n \in 1..Len(s) + 1 : t[n] = IF n <= 1 THEN <<w>>[n] ELSE s[n - 1]
  BY <1>1, <1>2, ConcatProperties
<1> HIDE DEF t
<1>4. \A n \in 1..Len(s) + 1 : t[n] = IF n = 1 THEN w ELSE s[n - 1]
  BY <1>1, <1>2, <1>3
<1>5. t # <<>>
  BY <1>2, <1>3
<1>6. s # <<>> => Last(t) = Last(s)
  BY <1>2, <1>3, <1>4, EmptySeq DEF Last
<1>7. ASSUME Distinct(s), w \notin Range(s)
      PROVE  Distinct(t)
  <2>1. Range(s) = {s[n] : n \in 1..Len(s)}
    BY RangeEquality
  <2>2. \A n \in 1..Len(s) : s[n] # w
    BY <1>7, <2>1
  <2>3. \A n \in 2..Len(s) + 1 : n - 1 \in 1..Len(s) /\ t[n] = s[n - 1]
    BY <1>2, <1>4
  <2>4. t[1] = w
    BY <1>2, <1>4
  <2> SUFFICES ASSUME NEW j \in 1..Len(s) + 1, NEW k \in 1..Len(s) + 1, t[j] = t[k]
               PROVE  j = k
    BY <1>3 DEF Distinct
  <2>5. CASE j = 1 \/ k = 1
    BY <2>2, <2>3, <2>4, <2>5, <1>2
  <2>6. CASE j # 1 /\ k # 1
    <3>1. j - 1 \in 1..Len(s) /\ k - 1 \in 1..Len(s) /\ s[j - 1] = s[k - 1]
      BY <2>3, <2>6, <1>2
    <3> QED BY <3>1, <1>2, <1>7 DEF Distinct
  <2> QED BY <2>5, <2>6
<1> QED BY <1>3, <1>4, <1>5, <1>6, <1>7 DEF t

LEMMA FrontDistinct ==
    ASSUME NEW S, NEW s \in Seq(S), s # <<>>, Distinct(s)
    PROVE  Distinct(Front(s))
<1>1. Len(s) \in Nat \ {0}
  BY EmptySeq
<1> QED BY <1>1, FrontOf DEF Distinct

\* The options of a call are colours, and there is one only if one is free.
LEMMA OptionsAre ==
    ASSUME NEW free \in [Colours -> {1, -1}]
    PROVE  /\ Options(free) \in Seq(Colours)
           /\ Options(free) # <<>> => \E c \in Colours : free[c] = 1
<1>1. \A c \in Colours : IfFree(free, c) \in Seq(Colours)
  BY DEF IfFree
<1>2. {0, 1, 2} \subseteq Colours
  BY DEF Colours
<1>3. Options(free) \in Seq(Colours)
  BY <1>1, <1>2, ConcatProperties DEF Options
<1>4. ASSUME \A c \in Colours : free[c] # 1
      PROVE  Options(free) = <<>>
  BY <1>2, <1>4, ConcatEmptySeq DEF Options, IfFree
<1> QED BY <1>3, <1>4

\* The frames after a call, a return, and the step to the next option.
LEMMA CallFrames ==
    ASSUME TypeOK, frames \in Seq(GoodFrame), Consistent(colour, avail),
           NEW lst \in Seq(V), lst # <<>>, Distinct(lst),
           Call(Last(lst), colour, avail, lst), UNCHANGED graph
    PROVE  /\ frames' \in Seq(GoodFrame') /\ Len(frames') <= MaxDepth
           /\ pc' \in {"option", "overflow"}
           /\ pc' = "option" => frames' # <<>> /\ Last(frames').localList = lst
<1> DEFINE f == [vertex   |-> Last(lst), options |-> Options(avail[Last(lst)]), i |-> 0,
                 localList |-> lst,  inColour |-> colour, inAvail |-> avail]
<1>1. Last(lst) \in V
  BY LastOf
<1>2. avail[Last(lst)] \in [Colours -> {1, -1}]
  BY <1>1 DEF TypeOK, FreeColours
<1>3. f \in Frame
  BY <1>1, <1>2, OptionsAre DEF TypeOK, Frame
<1>4. Len(f.options) \in Nat
  BY <1>2, OptionsAre, LenProperties
<1>5. f \in GoodFrame
  BY <1>2, <1>3, <1>4, OptionsAre DEF GoodFrame
<1>6. GoodFrame' = GoodFrame
  BY DEF GoodFrame, Frame, Consistent
<1>7. Len(frames) \in Nat
  BY LenProperties
<1> HIDE DEF f
<1>8. CASE Len(frames) < MaxDepth
  <2>1. frames' = Append(frames, f) /\ pc' = "option"
    BY <1>8 DEF Call, f
  <2>2. /\ Append(frames, f) \in Seq(GoodFrame)
        /\ Len(Append(frames, f)) = Len(frames) + 1
        /\ Append(frames, f) # <<>>
    BY <1>5, AppendProperties
  <2>3. Last(Append(frames, f)) = f
    BY <1>5, LastOfAppend
  <2>4. f.localList = lst
    BY DEF f
  <2> QED BY <2>1, <2>2, <2>3, <2>4, <1>6, <1>7, <1>8, DepthAssumption
<1>9. CASE ~ (Len(frames) < MaxDepth)
  <2>1. frames' = frames /\ pc' = "overflow"
    BY <1>9 DEF Call
  <2> QED BY <2>1, <1>6 DEF TypeOK
<1> QED BY <1>8, <1>9

LEMMA ReturnFrames ==
    ASSUME TypeOK, frames \in Seq(GoodFrame), frames # <<>>,
           NEW value, Return(value), UNCHANGED graph
    PROVE  /\ frames' \in Seq(GoodFrame') /\ Len(frames') <= MaxDepth
           /\ pc' = "returned"
<1>1. GoodFrame' = GoodFrame
  BY DEF GoodFrame, Frame, Consistent
<1>2. Len(frames) \in Nat
  BY LenProperties
<1> QED BY <1>1, <1>2, FrontOf, DepthAssumption DEF Return, TypeOK

LEMMA BumpRecord ==
    ASSUME NEW A, NEW B, NEW C, NEW D, NEW E,
           NEW t \in [vertex : A, options : B, i : Nat, localList : C,
                      inColour : D, inAvail : E]
    PROVE  [t EXCEPT !.i = @ + 1] \in [vertex : A, options : B, i : Nat, localList : C,
                                       inColour : D, inAvail : E]
  OBVIOUS

LEMMA NextOptionFrames ==
    ASSUME TypeOK, frames \in Seq(GoodFrame), frames # <<>>,
           UNCHANGED graph,
           frames' = [frames EXCEPT ![Len(frames)].i = @ + 1]
    PROVE  /\ frames' \in Seq(GoodFrame') /\ Len(frames') <= MaxDepth
           /\ frames' # <<>>
           /\ Last(frames').localList = top.localList
<1> DEFINE g == [top EXCEPT !.i = @ + 1]
<1>1. GoodFrame' = GoodFrame
  BY DEF GoodFrame, Frame, Consistent
<1>2. Len(frames) \in Nat \ {0}
  BY EmptySeq
<1>3. top \in GoodFrame
  BY LastOf DEF top
<1>4. Len(top.options) \in Nat /\ top.i \in Nat
  BY <1>3, LenProperties DEF GoodFrame, Frame
<1>5. top \in Frame
  BY <1>3 DEF GoodFrame
<1>6. g \in GoodFrame
  <2>1. /\ g.vertex = top.vertex /\ g.options = top.options /\ g.i = top.i + 1
        /\ g.localList = top.localList
        /\ g.inColour = top.inColour /\ g.inAvail = top.inAvail
    BY <1>5 DEF Frame
  <2>2. g \in Frame
    BY <1>4, <1>5, BumpRecord DEF Frame
  <2> HIDE DEF g
  <2> QED BY <1>3, <2>1, <2>2 DEF GoodFrame
<1>7. frames' = [frames EXCEPT ![Len(frames)] = g]
  BY Zenon DEF Last, top
<1>8. g.localList = top.localList
  BY <1>5 DEF Frame
<1> HIDE DEF g
<1>9. /\ frames' \in Seq(GoodFrame)
      /\ Len(frames') = Len(frames)
      /\ frames'[Len(frames)] = g
  BY <1>2, <1>6, <1>7, ExceptSeq
<1>10. frames' # <<>> /\ Last(frames') = g
  BY <1>2, <1>9 DEF Last
<1> QED BY <1>1, <1>8, <1>9, <1>10 DEF TypeOK

-----------------------------------------------------------------------------
LEMMA GraphIsCubic == ASSUME TypeOK PROVE IsCubicGraph(graph)
  BY GraphsAssumption DEF TypeOK

LEMMA NeighbourIsVertex ==
    ASSUME TypeOK, NEW v \in V, NEW k \in Ports
    PROVE  graph[v][k] \in V /\ graph[v][k] # v
  BY GraphIsCubic DEF IsCubicGraph

\* colourEdge on an uncoloured edge whose colour is free at both ends.
LEMMA PaintKeeps ==
    ASSUME TypeOK, Consistent(colour, avail), UNCHANGED graph,
           NEW v \in V, NEW k \in Ports, NEW c \in Colours,
           colour[Edge(graph, v, k)] = NoColour,
           CanPaint(v, graph[v][k], c), PaintEdge(v, graph[v][k], c)
    PROVE  /\ colour' \in Colourings(graph') /\ avail' \in FreeColours
           /\ Consistent(colour, avail)'
           /\ \A j \in Ports : j # k =>
                colour'[Edge(graph, v, j)] = colour[Edge(graph, v, j)]
           /\ colour'[Edge(graph, v, k)] = c
<1>1. IsCubicGraph(graph)
  BY GraphIsCubic
<1>2. colour' = [colour EXCEPT ![Edge(graph, v, k)] = c]
  BY DEF PaintEdge, Edge
<1>3. avail' = [avail EXCEPT ![v][c] = -1, ![graph[v][k]][c] = -1]
  BY DEF PaintEdge
<1>4. avail[v][c] = 1 /\ avail[graph[v][k]][c] = 1
  BY DEF CanPaint
<1>5. colour \in Colourings(graph) /\ avail \in FreeColours
  BY DEF TypeOK
<1>6. Proper(graph, colour) /\ FreeMatches(graph, colour, avail)
  BY DEF Consistent
<1>7. /\ colour' \in Colourings(graph) /\ avail' \in FreeColours
      /\ Proper(graph, colour') /\ FreeMatches(graph, colour', avail')
  BY <1>1, <1>2, <1>3, <1>4, <1>5, <1>6, PaintConsistent
<1>8. \A j \in Ports : Edge(graph, v, j) \in Edges(graph)
  BY DEF Edges
<1>9. \A j \in Ports : j # k => Edge(graph, v, j) # Edge(graph, v, k)
  <2>1. graph[v][k] # v
    BY NeighbourIsVertex
  <2>2. \A j \in Ports : graph[v][j] = graph[v][k] => j = k
    BY <1>1 DEF IsCubicGraph
  <2> QED BY <2>1, <2>2, PairEqual DEF Edge
<1> QED BY <1>2, <1>5, <1>7, <1>8, <1>9 DEF Consistent, Colourings

LEMMA BlankKeeps ==
    ASSUME NEW g
    PROVE  /\ Blank(g) \in Colourings(g) /\ AllFree \in FreeColours
           /\ Proper(g, Blank(g)) /\ FreeMatches(g, Blank(g), AllFree)
           /\ \A v \in V : \A k \in Ports : Blank(g)[Edge(g, v, k)] = NoColour
<1>1. \A v \in V : \A k \in Ports : Blank(g)[Edge(g, v, k)] = NoColour
  BY DEF Blank, Edges
<1> QED BY <1>1, BlankConsistent DEF Blank, AllFree

LEMMA PermsAre ==
    /\ Len(Perms) = 6
    /\ \A l \in 1..6 : \A k \in Ports : Perms[l][k] \in Colours
<1>1. Len(Perms) = 6
  BY DEF Perms
<1>2. ASSUME NEW l \in 1..6, NEW k \in Ports
      PROVE  Perms[l][k] \in Colours
  <2>1. \A a, b, c \in Colours : <<a, b, c>>[k] \in Colours
    BY DEF Ports
  <2>2. {0, 1, 2} \subseteq Colours
    BY DEF Colours
  <2>3. \E a, b, c \in {0, 1, 2} : Perms[l] = <<a, b, c>>
    BY DEF Perms
  <2> QED BY <2>1, <2>2, <2>3
<1> QED BY <1>1, <1>2

LEMMA SameGraph == UNCHANGED graph => Frame' = Frame /\ GoodFrame' = GoodFrame
  BY DEF GoodFrame, Frame, Consistent

LEMMA TopIsGood ==
    ASSUME frames \in Seq(GoodFrame), frames # <<>>
    PROVE  /\ top \in GoodFrame /\ top \in Frame
           /\ top.vertex \in V /\ top.options \in Seq(Colours) /\ top.i \in Nat
           /\ top.localList \in Seq(V) /\ top.inColour \in Colourings(graph)
           /\ top.inAvail \in FreeColours
           /\ Len(top.options) \in Nat
<1>1. top \in GoodFrame
  BY LastOf DEF top
<1> QED BY <1>1, LenProperties DEF GoodFrame, Frame

LEMMA GoodFramesAreFrames == frames \in Seq(GoodFrame) => frames \in Seq(Frame)
  BY SeqMonotonic DEF GoodFrame

LEMMA InitInv == Init => IInv
<1> SUFFICES ASSUME Init PROVE IInv
  OBVIOUS
<1> USE DEF Init
<1>1. /\ colour \in Colourings(graph) /\ avail \in FreeColours
      /\ Consistent(colour, avail)
      /\ \A k \in Ports : colour[Edge(graph, root, k)] = NoColour
  BY BlankKeeps, RootAssumption DEF Consistent
<1>2. TypeOK
  <2>1. frames \in Seq(Frame) /\ Len(frames) = 0
    BY EmptySeq
  <2>2. list \in Seq(V)
    BY EmptySeq
  <2>3. perm \in 1..Len(Perms) /\ Len(frames) <= MaxDepth
    BY <2>1, DepthAssumption, PermsAre
  <2>4. graph \in Graphs /\ port \in 1..4 /\ order \in Nat
    OBVIOUS
  <2> QED BY <1>1, <2>1, <2>2, <2>3, <2>4 DEF TypeOK
<1>3. Distinct(list)
  BY DEF Distinct
<1>4. RootPhase
  BY <1>1 DEF RootPhase
<1>5. EdgePhase
  BY DEF EdgePhase
<1> QED BY <1>1, <1>2, <1>3, <1>4, <1>5 DEF IInv

LEMMA RootEdgeInv == IInv /\ RootEdge => IInv'
<1> SUFFICES ASSUME IInv, RootEdge PROVE IInv'
  OBVIOUS
<1> DEFINE w == graph[root][port]
           c == Perms[perm][port]
<1>1. /\ TypeOK /\ Consistent(colour, avail) /\ Distinct(list) /\ ~ ret
      /\ frames = <<>> /\ Len(list) = port - 1
      /\ \A n \in 1..Len(list) : \E j \in Ports : j < port /\ list[n] = graph[root][j]
      /\ \A j \in Ports : j >= port => colour[Edge(graph, root, j)] = NoColour
      /\ list \in Seq(V) /\ port \in Ports
  BY DEF IInv, RootPhase, RootEdge, TypeOK
<1>2. w \in V /\ c \in Colours
  BY <1>1, RootAssumption, NeighbourIsVertex, PermsAre DEF TypeOK
<1>3. UNCHANGED <<graph, perm, frames, order, coloured, ret>> /\ port' = port + 1
  BY DEF RootEdge
<1>4. /\ colour' \in Colourings(graph') /\ avail' \in FreeColours
      /\ Consistent(colour, avail)'
      /\ \A j \in Ports : j >= port + 1 => colour'[Edge(graph, root, j)] = NoColour
  <2>1. CASE CanPaint(root, w, c)
    <3>1. PaintEdge(root, w, c) /\ CanPaint(root, graph[root][port], c)
      BY <2>1 DEF RootEdge
    <3>2. colour[Edge(graph, root, port)] = NoColour
      BY <1>1 DEF Ports
    <3>3. /\ colour' \in Colourings(graph') /\ avail' \in FreeColours
          /\ Consistent(colour, avail)'
          /\ \A j \in Ports : j # port =>
               colour'[Edge(graph, root, j)] = colour[Edge(graph, root, j)]
      <4> HIDE DEF c
      <4> QED BY <1>1, <1>2, <1>3, <3>1, <3>2, RootAssumption, PaintKeeps
    <3> QED BY <1>1, <3>3 DEF Ports
  <2>2. CASE ~ CanPaint(root, w, c)
    <3>1. UNCHANGED <<colour, avail>>
      BY <2>2 DEF RootEdge
    <3> QED BY <1>1, <1>3, <3>1 DEF Consistent, TypeOK, Ports
  <2> QED BY <2>1, <2>2
<1>5. list' = <<w>> \o list
  BY DEF RootEdge
<1>6. w \notin Range(list)
  <2>1. Range(list) = {list[n] : n \in 1..Len(list)}
    BY <1>1, RangeEquality
  <2>2. \A j \in Ports : j < port => graph[root][j] # w
    <3>1. \A j \in Ports : graph[root][j] = graph[root][port] => j = port
      BY <1>1, GraphIsCubic, RootAssumption DEF IsCubicGraph
    <3> QED BY <3>1, <1>1 DEF Ports
  <2> QED BY <1>1, <2>1, <2>2
<1>7. /\ list' \in Seq(V) /\ Distinct(list)' /\ list' # <<>>
      /\ Len(list') = Len(list) + 1
      /\ \A n \in 1..Len(list) + 1 : list'[n] = IF n = 1 THEN w ELSE list[n - 1]
  <2> HIDE DEF w
  <2>1. Distinct(<<w>> \o list)
    BY <1>1, <1>2, <1>6, PushFront
  <2> QED BY <1>1, <1>2, <1>5, <2>1, PushFront DEF Distinct
<1>8. TypeOK'
  <2>1. pc' \in {"while", "root"}
    BY DEF RootEdge
  <2>2. frames' \in Seq(Frame')
    BY <1>1, <1>3, EmptySeq
  <2>3. port' \in 1..4
    BY <1>1, <1>3 DEF Ports
  <2> QED BY <1>1, <1>3, <1>4, <1>7, <2>1, <2>2, <2>3 DEF TypeOK
<1>9. RootPhase'
  <2>1. Len(list') = port' - 1
    BY <1>1, <1>3, <1>7 DEF Ports
  <2>2. ASSUME NEW n \in 1..Len(list')
        PROVE  \E j \in Ports : j < port' /\ list'[n] = graph'[root][j]
    <3>1. CASE n = 1
      BY <1>1, <1>3, <1>7, <3>1 DEF Ports
    <3>2. CASE n # 1
      <4>1. n - 1 \in 1..Len(list) /\ list'[n] = list[n - 1]
        BY <1>1, <1>7, <3>2 DEF Ports
      <4>2. PICK j \in Ports : j < port /\ list[n - 1] = graph[root][j]
        BY <1>1, <4>1
      <4> QED BY <1>1, <1>3, <4>1, <4>2 DEF Ports
    <3> QED BY <3>1, <3>2
  <2> QED BY <1>1, <1>3, <1>4, <2>1, <2>2 DEF RootPhase
<1>10. frames' \in Seq(GoodFrame')
  BY <1>1, <1>3, EmptySeq
<1>11. pc' \in {"while", "root"}
  BY DEF RootEdge
<1> QED BY <1>1, <1>3, <1>4, <1>7, <1>8, <1>9, <1>10, <1>11 DEF IInv, EdgePhase

\* An action that keeps the maps and hands the list it has to a call.
LEMMA CallInv ==
    ASSUME IInv, NEW lst \in Seq(V), lst # <<>>, Distinct(lst),
           Call(Last(lst), colour, avail, lst), list' = lst,
           UNCHANGED <<graph, perm, colour, avail, port, order, coloured, ret>>
    PROVE  IInv'
<1>1. TypeOK /\ Consistent(colour, avail) /\ frames \in Seq(GoodFrame) /\ ~ ret
  BY DEF IInv
<1>2. /\ frames' \in Seq(GoodFrame') /\ Len(frames') <= MaxDepth
      /\ pc' \in {"option", "overflow"}
      /\ pc' = "option" => frames' # <<>> /\ Last(frames').localList = lst
  BY <1>1, CallFrames
<1>3. GoodFrame' = GoodFrame /\ Frame' = Frame /\ frames' \in Seq(Frame')
  BY <1>2, SameGraph, SeqMonotonic DEF GoodFrame
<1>4. TypeOK'
  BY <1>1, <1>2, <1>3 DEF TypeOK
<1>5. Consistent(colour, avail)' /\ Distinct(list)'
  BY <1>1 DEF Consistent, Distinct
<1> QED BY <1>1, <1>2, <1>4, <1>5 DEF IInv, RootPhase, EdgePhase, top

\* An action that ends the innermost call with FALSE.
LEMMA ReturnInv ==
    ASSUME IInv, frames # <<>>, Return(FALSE), list' \in Seq(V), Distinct(list)',
           UNCHANGED <<graph, perm, colour, avail, port, order, coloured>>
    PROVE  IInv'
<1>1. TypeOK /\ Consistent(colour, avail) /\ frames \in Seq(GoodFrame)
  BY DEF IInv
<1>2. /\ frames' \in Seq(GoodFrame') /\ Len(frames') <= MaxDepth
      /\ pc' = "returned" /\ ret' = FALSE
  BY <1>1, ReturnFrames DEF Return
<1>3. frames' \in Seq(Frame')
  BY <1>2, SameGraph, SeqMonotonic DEF GoodFrame
<1>4. TypeOK'
  BY <1>1, <1>2, <1>3 DEF TypeOK
<1>5. Consistent(colour, avail)'
  BY <1>1 DEF Consistent
<1> QED BY <1>2, <1>4, <1>5 DEF IInv, RootPhase, EdgePhase

\* An action that puts the list of the innermost call back and makes it go on
\* with its next option.
LEMMA NextOptionInv ==
    ASSUME IInv, frames # <<>>,
           list' = top.localList,
           frames' = [frames EXCEPT ![Len(frames)].i = @ + 1], pc' = "option",
           UNCHANGED <<graph, perm, colour, avail, port, order, coloured, ret>>
    PROVE  IInv'
<1>1. TypeOK /\ Consistent(colour, avail) /\ frames \in Seq(GoodFrame) /\ ~ ret
  BY DEF IInv
<1>2. /\ frames' \in Seq(GoodFrame') /\ Len(frames') <= MaxDepth
      /\ frames' # <<>> /\ Last(frames').localList = list'
  BY <1>1, NextOptionFrames
<1>3. frames' \in Seq(Frame')
  BY <1>2, SameGraph, SeqMonotonic DEF GoodFrame
<1>4. list' \in Seq(V) /\ Distinct(list)'
  BY <1>1, TopIsGood DEF GoodFrame, Distinct
<1>5. TypeOK'
  BY <1>1, <1>2, <1>3, <1>4 DEF TypeOK
<1>6. Consistent(colour, avail)'
  BY <1>1 DEF Consistent
<1> QED BY <1>1, <1>2, <1>4, <1>5, <1>6 DEF IInv, RootPhase, EdgePhase, top

LEMMA WhileLoopInv == IInv /\ WhileLoop => IInv'
<1> SUFFICES ASSUME IInv, WhileLoop PROVE IInv'
  OBVIOUS
<1>1. list # <<>> /\ list \in Seq(V) /\ Distinct(list)
  BY DEF IInv, WhileLoop, TypeOK
<1>2. /\ Call(Last(list), colour, avail, list) /\ list' = list
      /\ UNCHANGED <<graph, perm, colour, avail, port, order, coloured, ret>>
  BY <1>1 DEF WhileLoop
<1> QED BY <1>1, <1>2, CallInv

LEMMA NothingFreeInv == IInv /\ NothingFree => IInv'
<1> SUFFICES ASSUME IInv, NothingFree PROVE IInv'
  OBVIOUS
<1>1. list \in Seq(V) /\ Distinct(list) /\ frames # <<>> /\ list = top.localList
  BY DEF IInv, NothingFree, TypeOK
<1>2. list # <<>>
  BY <1>1, TopIsGood DEF IInv, GoodFrame
<1>3. /\ Call(Last(list), colour, avail, list) /\ list' = list
      /\ UNCHANGED <<graph, perm, colour, avail, port, order, coloured, ret>>
  BY <1>2 DEF NothingFree
<1> QED BY <1>1, <1>2, <1>3, CallInv

LEMMA BeginOptionInv == IInv /\ BeginOption => IInv'
<1> SUFFICES ASSUME IInv, BeginOption PROVE IInv'
  OBVIOUS
<1>1. /\ TypeOK /\ frames \in Seq(GoodFrame) /\ frames # <<>> /\ ~ ret
      /\ list \in Seq(V) /\ Distinct(list) /\ list = top.localList
  BY DEF IInv, BeginOption, TypeOK
<1>2. UNCHANGED <<graph, perm, list, frames, ret>> /\ pc' = "edge"
  BY DEF BeginOption
<1>3. /\ colour' = top.inColour /\ avail' = top.inAvail
      /\ port' = 1 /\ order' = 0 /\ coloured' = "unset"
      /\ top.i < Len(top.options)
  BY DEF BeginOption
<1>4. GoodFrame' = GoodFrame /\ Frame' = Frame
  BY <1>2, SameGraph
<1>5. TypeOK'
  <2>1. colour' \in Colourings(graph') /\ avail' \in FreeColours
    BY <1>1, <1>2, <1>3, TopIsGood
  <2> QED BY <1>1, <1>2, <1>3, <1>4, <2>1 DEF TypeOK
<1>6. Consistent(colour, avail)'
  <2>1. Consistent(top.inColour, top.inAvail)
    BY <1>1, TopIsGood DEF GoodFrame
  <2> QED BY <1>2, <1>3, <2>1 DEF Consistent
<1>7. EdgePhase'
  <2>1. top' = top
    BY <1>2 DEF top
  <2>2. list # <<>> /\ Last(list) = top.vertex
    BY <1>1, TopIsGood DEF GoodFrame
  <2>3. \A j \in Ports : ~ (j < port')
    BY <1>3 DEF Ports
  <2> QED BY <1>1, <1>2, <1>3, <2>1, <2>2, <2>3 DEF EdgePhase
<1>8. Distinct(list)'
  BY <1>1, <1>2 DEF Distinct
<1> QED BY <1>1, <1>2, <1>4, <1>5, <1>6, <1>7, <1>8 DEF IInv, RootPhase

LEMMA OptionsExhaustedInv == IInv /\ OptionsExhausted => IInv'
<1> SUFFICES ASSUME IInv, OptionsExhausted PROVE IInv'
  OBVIOUS
<1>1. list \in Seq(V) /\ Distinct(list) /\ frames # <<>>
  BY DEF IInv, OptionsExhausted, TypeOK
<1>2. /\ Return(FALSE) /\ list' = list
      /\ UNCHANGED <<graph, perm, colour, avail, port, order, coloured>>
  BY DEF OptionsExhausted
<1>3. Distinct(list)'
  BY <1>1, <1>2 DEF Distinct
<1> QED BY <1>1, <1>2, <1>3, ReturnInv

\* What the walk over the edges of a vertex may rely on.
LEMMA EdgeFacts ==
    ASSUME IInv, pc = "edge"
    PROVE  /\ TypeOK /\ Consistent(colour, avail) /\ frames \in Seq(GoodFrame) /\ ~ ret
           /\ frames # <<>> /\ top.vertex \in V
           /\ top.i < Len(top.options) /\ Len(top.options) \in Nat \ {0} /\ top.i \in Nat
           /\ list \in Seq(V) /\ list # <<>> /\ Last(list) = top.vertex /\ Distinct(list)
           /\ coloured = "yes" => Len(list) >= 2
           /\ coloured = "unset" =>
                /\ colour = top.inColour /\ avail = top.inAvail
                /\ \A j \in Ports : j < port => colour[Edge(graph, top.vertex, j)] # NoColour
<1>1. /\ TypeOK /\ Consistent(colour, avail) /\ frames \in Seq(GoodFrame) /\ ~ ret
      /\ frames # <<>> /\ top.i < Len(top.options)
      /\ list \in Seq(V) /\ list # <<>> /\ Last(list) = top.vertex /\ Distinct(list)
  BY DEF IInv, EdgePhase, TypeOK
<1>2. top.vertex \in V /\ Len(top.options) \in Nat /\ top.i \in Nat
  BY <1>1, TopIsGood
<1>3. Len(top.options) \in Nat \ {0}
  BY <1>1, <1>2
<1> QED BY <1>1, <1>2, <1>3 DEF IInv, EdgePhase

LEMMA SkipEdgeInv == IInv /\ SkipEdge => IInv'
<1> SUFFICES ASSUME IInv, SkipEdge PROVE IInv'
  OBVIOUS
<1>1. /\ pc = "edge" /\ port \in Ports /\ port' = port + 1
      /\ colour[Edge(graph, top.vertex, port)] # NoColour
      /\ UNCHANGED <<graph, perm, list, frames, colour, avail, order, coloured, ret, pc>>
  BY DEF SkipEdge
<1>2. GoodFrame' = GoodFrame /\ Frame' = Frame /\ top' = top
  BY <1>1, SameGraph DEF top
<1>3. TypeOK' /\ frames' \in Seq(GoodFrame') /\ ~ ret'
  BY <1>1, <1>2, EdgeFacts DEF TypeOK, Ports
<1>4. Consistent(colour, avail)' /\ Distinct(list)'
  BY <1>1, EdgeFacts DEF Consistent, Distinct
<1>5. EdgePhase'
  <2>1. \A j \in Ports : j < port + 1 => j < port \/ j = port
    BY <1>1 DEF Ports
  <2> QED BY <1>1, <1>2, <2>1, EdgeFacts DEF EdgePhase
<1> QED BY <1>1, <1>3, <1>4, <1>5 DEF IInv, RootPhase

\* The rotation picks a position of the options.
LEMMA RotationIndex ==
    ASSUME NEW n \in Nat, NEW m \in Nat \ {0}
    PROVE  (n % m) + 1 \in 1..m
  OBVIOUS

LEMMA ColourEdgeInv == IInv /\ ColourEdge => IInv'
<1> SUFFICES ASSUME IInv, ColourEdge PROVE IInv'
  OBVIOUS
<1> DEFINE v == top.vertex
           w == graph[v][port]
<1>1. /\ pc = "edge" /\ port \in Ports /\ port' = port + 1
      /\ colour[Edge(graph, v, port)] = NoColour
      /\ CanPaint(v, w, Choice) /\ PaintEdge(v, w, Choice)
      /\ coloured' = "yes" /\ order' = order + 1
      /\ list' = IF w \in Range(list) THEN list ELSE <<w>> \o list
      /\ UNCHANGED <<graph, perm, frames, ret, pc>>
  BY DEF ColourEdge
<1>2. GoodFrame' = GoodFrame /\ Frame' = Frame /\ top' = top
  BY <1>1, SameGraph DEF top
<1>3. w \in V /\ w # v
  BY <1>1, EdgeFacts, NeighbourIsVertex
<1>4. Choice \in Colours
  <2>1. order \in Nat
    BY EdgeFacts, <1>1 DEF TypeOK
  <2>2. ((top.i + order) % Len(top.options)) + 1 \in 1..Len(top.options)
    <3>1. Len(top.options) \in Nat \ {0} /\ top.i \in Nat
      BY <1>1, EdgeFacts
    <3>2. top.i + order \in Nat
      BY <2>1, <3>1
    <3> QED BY <3>1, <3>2, RotationIndex
  <2>3. top.options \in Seq(Colours)
    BY <1>1, EdgeFacts, TopIsGood
  <2> QED BY <2>2, <2>3, ElementOfSeq DEF Choice
<1>5. /\ colour' \in Colourings(graph') /\ avail' \in FreeColours
      /\ Consistent(colour, avail)'
  <2>1. v \in V /\ TypeOK /\ Consistent(colour, avail) /\ UNCHANGED graph
    BY <1>1, EdgeFacts
  <2> HIDE DEF v
  <2> QED BY <1>1, <1>4, <2>1, PaintKeeps
<1>6. /\ list' \in Seq(V) /\ list' # <<>> /\ Last(list') = v
      /\ Distinct(list') /\ Len(list') >= 2
  <2>1. list \in Seq(V) /\ list # <<>> /\ Last(list) = v /\ Distinct(list)
    BY <1>1, EdgeFacts
  <2>2. Len(list) \in Nat \ {0}
    BY <2>1, EmptySeq
  <2> HIDE DEF v, w
  <2>3. CASE w \in Range(list)
    <3>1. Range(list) = {list[n] : n \in 1..Len(list)}
      BY <2>1, RangeEquality
    <3>2. PICK n \in 1..Len(list) : list[n] = w
      BY <2>3, <3>1
    <3>3. n # Len(list)
      BY <1>3, <2>1, <3>2 DEF Last
    <3> QED BY <1>1, <2>1, <2>2, <2>3, <3>3
  <2>4. CASE w \notin Range(list)
    BY <1>1, <1>3, <2>1, <2>2, <2>4, PushFront
  <2> QED BY <2>3, <2>4
<1>7. TypeOK'
  <2>1. port' \in 1..4 /\ order' \in Nat
    BY <1>1, EdgeFacts DEF TypeOK, Ports
  <2> QED BY <1>1, <1>2, <1>5, <1>6, <2>1, EdgeFacts DEF TypeOK
<1>8. EdgePhase'
  BY <1>1, <1>2, <1>6, EdgeFacts DEF EdgePhase
<1>9. Distinct(list)'
  BY <1>6 DEF Distinct
<1> QED BY <1>1, <1>2, <1>5, <1>7, <1>8, <1>9, EdgeFacts DEF IInv, RootPhase

LEMMA EdgeRefusedInv == IInv /\ EdgeRefused => IInv'
<1> SUFFICES ASSUME IInv, EdgeRefused PROVE IInv'
  OBVIOUS
<1>1. /\ pc = "edge" /\ port' = 4 /\ coloured' = "no"
      /\ UNCHANGED <<graph, perm, list, frames, colour, avail, order, ret, pc>>
  BY DEF EdgeRefused
<1>2. GoodFrame' = GoodFrame /\ Frame' = Frame /\ top' = top
  BY <1>1, SameGraph DEF top
<1>3. TypeOK' /\ frames' \in Seq(GoodFrame') /\ ~ ret'
  BY <1>1, <1>2, EdgeFacts DEF TypeOK
<1>4. Consistent(colour, avail)' /\ Distinct(list)'
  BY <1>1, EdgeFacts DEF Consistent, Distinct
<1>5. EdgePhase'
  BY <1>1, <1>2, EdgeFacts DEF EdgePhase
<1> QED BY <1>1, <1>3, <1>4, <1>5 DEF IInv, RootPhase

\* coloured is read after it was assigned.
LEMMA AssignedBeforeRead ==
    ASSUME IInv, pc = "edge", port = 4
    PROVE  coloured # "unset"
<1> SUFFICES ASSUME coloured = "unset" PROVE FALSE
  OBVIOUS
<1>1. \A j \in Ports : colour[Edge(graph, top.vertex, j)] # NoColour
  BY EdgeFacts DEF Ports
<1>2. top.options # <<>>
  BY EdgeFacts, EmptySeq, TopIsGood
<1>3. PICK c \in Colours : top.inAvail[top.vertex][c] = 1
  BY <1>2, EdgeFacts, TopIsGood DEF GoodFrame
<1>4. avail[top.vertex][c] = 1
  BY <1>3, EdgeFacts
<1>5. /\ IsCubicGraph(graph) /\ colour \in Colourings(graph) /\ avail \in FreeColours
      /\ Proper(graph, colour) /\ FreeMatches(graph, colour, avail) /\ top.vertex \in V
  BY EdgeFacts, GraphIsCubic DEF TypeOK, Consistent
<1>6. \E k \in Ports : colour[Edge(graph, top.vertex, k)] = NoColour
  BY <1>4, <1>5, FreeHasUncoloured
<1> QED BY <1>1, <1>6

LEMMA BacktrackInv == IInv /\ Backtrack => IInv'
<1> SUFFICES ASSUME IInv, Backtrack PROVE IInv'
  OBVIOUS
<1>1. /\ pc = "edge" /\ list' = top.localList
      /\ UNCHANGED <<graph, perm, colour, avail, port, order, coloured>>
  BY DEF Backtrack
<1>2. list' \in Seq(V) /\ Distinct(list)'
  BY <1>1, EdgeFacts, TopIsGood DEF GoodFrame, Distinct
<1>3. CASE top.i + 1 = Len(top.options)
  BY <1>1, <1>2, <1>3, EdgeFacts, ReturnInv DEF Backtrack
<1>4. CASE top.i + 1 # Len(top.options)
  BY <1>1, <1>4, EdgeFacts, NextOptionInv DEF Backtrack
<1> QED BY <1>3, <1>4

LEMMA AdvanceInv == IInv /\ Advance => IInv'
<1> SUFFICES ASSUME IInv, Advance PROVE IInv'
  OBVIOUS
<1>1. /\ pc = "edge" /\ port = 4 /\ list' = Front(list) /\ "yes" \in ColouredValues
      /\ UNCHANGED <<graph, perm, colour, avail, port, order, coloured>>
  BY DEF Advance
<1>2. coloured = "yes"
  BY <1>1, AssignedBeforeRead DEF ColouredValues
<1>3. Len(list) >= 2 /\ Len(list) \in Nat
  BY <1>1, <1>2, EdgeFacts, LenProperties
<1>4. Front(list) \in Seq(V) /\ Len(Front(list)) = Len(list) - 1 /\ Distinct(Front(list))
  BY <1>1, EdgeFacts, FrontOf, FrontDistinct
<1>5. Front(list) # <<>>
  <2>1. Len(Front(list)) # 0
    BY <1>3, <1>4
  <2> QED BY <2>1, EmptySeq
<1>6. Call(Last(Front(list)), colour, avail, Front(list)) /\ UNCHANGED ret
  <2>1. \A n \in Nat : n >= 2 => n # 1
    OBVIOUS
  <2>2. Len(list) # 1
    BY <1>3, <2>1
  <2> QED BY <2>2 DEF Advance
<1> QED BY <1>1, <1>4, <1>5, <1>6, CallInv

LEMMA AfterCallInv == IInv /\ AfterCall => IInv'
<1> SUFFICES ASSUME IInv, AfterCall PROVE IInv'
  OBVIOUS
<1>1. /\ frames # <<>> /\ frames \in Seq(GoodFrame) /\ ~ ret
      /\ list \in Seq(V) /\ Distinct(list)
      /\ UNCHANGED <<graph, perm, colour, avail, port, order, coloured>>
  BY DEF IInv, AfterCall, TypeOK
<1>2. CASE top.options = <<>>
  <2>1. Return(ret) /\ UNCHANGED list
    BY <1>2 DEF AfterCall
  <2>2. Return(FALSE)
    BY <1>1, <2>1 DEF Return, IInv, TypeOK
  <2>3. list' \in Seq(V) /\ Distinct(list)'
    BY <1>1, <2>1 DEF Distinct
  <2> QED BY <1>1, <2>2, <2>3, ReturnInv
<1>3. CASE top.options # <<>>
  <2>1. /\ list' = top.localList /\ pc' = "option" /\ ret' = ret
        /\ frames' = [frames EXCEPT ![Len(frames)].i = @ + 1]
    BY <1>1, <1>3 DEF AfterCall
  <2> QED BY <1>1, <2>1, NextOptionInv
<1> QED BY <1>2, <1>3

LEMMA AfterSearchInv == IInv /\ AfterSearch => IInv'
<1> SUFFICES ASSUME IInv, AfterSearch PROVE IInv'
  OBVIOUS
<1>1. /\ TypeOK /\ Consistent(colour, avail) /\ Distinct(list) /\ ~ ret
      /\ frames = <<>> /\ UNCHANGED <<graph, frames, order, coloured, ret>>
  BY DEF IInv, AfterSearch
<1>2. frames' \in Seq(GoodFrame') /\ frames' \in Seq(Frame')
  BY <1>1, EmptySeq
<1>3. CASE perm < Len(Perms)
  <2>1. /\ perm' = perm + 1 /\ list' = <<>> /\ port' = 1 /\ pc' = "root"
        /\ colour' = Blank(graph) /\ avail' = AllFree
    BY <1>1, <1>3 DEF AfterSearch
  <2>2. /\ colour' \in Colourings(graph') /\ avail' \in FreeColours
        /\ Consistent(colour, avail)'
        /\ \A k \in Ports : colour'[Edge(graph, root, k)] = NoColour
    BY <1>1, <2>1, BlankKeeps, RootAssumption DEF Consistent
  <2>3. perm' \in 1..Len(Perms)
    BY <1>1, <1>3, <2>1, PermsAre DEF TypeOK
  <2>4. list' \in Seq(V) /\ Len(list') = 0 /\ Distinct(list)'
    BY <2>1, EmptySeq DEF Distinct
  <2>5. TypeOK'
    BY <1>1, <1>2, <2>1, <2>2, <2>3, <2>4 DEF TypeOK
  <2>6. RootPhase'
    BY <1>1, <2>1, <2>2, <2>4 DEF RootPhase
  <2> QED BY <1>1, <1>2, <2>1, <2>2, <2>4, <2>5, <2>6 DEF IInv, EdgePhase
<1>4. CASE ~ (perm < Len(Perms))
  <2>1. pc' = "done" /\ UNCHANGED <<perm, list, colour, avail, port>>
    BY <1>1, <1>4 DEF AfterSearch
  <2>2. TypeOK' /\ Consistent(colour, avail)' /\ Distinct(list)'
    BY <1>1, <1>2, <2>1 DEF TypeOK, Consistent, Distinct
  <2> QED BY <1>1, <1>2, <2>1, <2>2 DEF IInv, RootPhase, EdgePhase
<1> QED BY <1>3, <1>4

LEMMA StutterInv == IInv /\ UNCHANGED vars => IInv'
<1> SUFFICES ASSUME IInv, UNCHANGED vars PROVE IInv'
  OBVIOUS
<1>1. GoodFrame' = GoodFrame /\ Frame' = Frame /\ top' = top
  BY SameGraph DEF vars, top
<1>2. TypeOK' /\ Consistent(colour, avail)' /\ Distinct(list)'
  BY <1>1 DEF IInv, TypeOK, Consistent, Distinct, vars
<1>3. RootPhase' /\ EdgePhase'
  BY <1>1 DEF IInv, RootPhase, EdgePhase, vars
<1> QED BY <1>1, <1>2, <1>3 DEF IInv, vars

LEMMA NextInv == IInv /\ [Next]_vars => IInv'
  BY RootEdgeInv, WhileLoopInv, NothingFreeInv, BeginOptionInv, OptionsExhaustedInv,
     SkipEdgeInv, ColourEdgeInv, EdgeRefusedInv, BacktrackInv, AdvanceInv,
     AfterCallInv, AfterSearchInv, StutterInv DEF Next

LEMMA AlwaysIInv == Spec => []IInv
  BY InitInv, NextInv, PTL DEF Spec

-----------------------------------------------------------------------------
(***************************************************************************)
(* The variables of the search keep their types: no index of a vector or   *)
(* key of a map is outside of it, on any set of cubic graphs.              *)
(***************************************************************************)
THEOREM SpecTypeOK == Spec => []TypeOK
<1>1. IInv => TypeOK
  BY DEF IInv
<1> QED BY <1>1, AlwaysIInv, PTL

(***************************************************************************)
(* Whatever was tried and undone, the colouring is proper and the table of *)
(* available colours agrees with it, in the working maps and in the maps   *)
(* of every call the search can go back to.                                *)
(***************************************************************************)
THEOREM SpecMapsConsistent == Spec => []MapsConsistent
<1>1. IInv => MapsConsistent
  <2> SUFFICES ASSUME IInv PROVE MapsConsistent
    OBVIOUS
  <2>1. frames \in Seq(GoodFrame) /\ Consistent(colour, avail)
    BY DEF IInv
  <2>2. \A d \in 1..Len(frames) : frames[d] \in GoodFrame
    BY <2>1, ElementOfSeq
  <2> QED BY <2>1, <2>2 DEF MapsConsistent, GoodFrame
<1> QED BY <1>1, AlwaysIInv, PTL

(***************************************************************************)
(* list.pop_back() takes off the vertex the call has coloured, and no      *)
(* vertex is listed twice, after any number of options that were undone.   *)
(***************************************************************************)
THEOREM SpecPopsCurrentVertex == Spec => []PopsCurrentVertex
<1>1. IInv => PopsCurrentVertex
  BY DEF IInv, EdgePhase, PopsCurrentVertex
<1> QED BY <1>1, AlwaysIInv, PTL

(***************************************************************************)
(* The uninitialised local coloured is assigned before it is read, because *)
(* a vertex of a cubic graph that has a free colour has an uncoloured edge.*)
(***************************************************************************)
THEOREM SpecColouredAssigned == Spec => []ColouredAssigned
<1>1. IInv => ColouredAssigned
  BY AssignedBeforeRead DEF ColouredAssigned
<1> QED BY <1>1, AlwaysIInv, PTL

(***************************************************************************)
(* edge3COLBFS prints "Success" for no cubic graph, however large the      *)
(* stack: no call returns true.                                            *)
(***************************************************************************)
THEOREM SpecNeverSucceeds == Spec => []NeverSucceeds
<1>1. IInv => NeverSucceeds
  BY DEF IInv, NeverSucceeds
<1> QED BY <1>1, AlwaysIInv, PTL

-----------------------------------------------------------------------------
(***************************************************************************)
(* The verdict of the breadth-first search is right for every set of cubic *)
(* graphs, every root and every stack size: "Graph not colourable!!!" is   *)
(* printed only of graphs without a 3-edge-colouring.                      *)
(*                                                                         *)
(* Two invariants on top of the one above.  The first says that the work   *)
(* list forgets no vertex, in the maps of every active call.  The second   *)
(* follows one full colouring F of the graph down the stack: a call that   *)
(* was given a part of F has an option left that agrees with F, and the    *)
(* calls below an option that agrees were given a part of F too; such a    *)
(* call cannot return FALSE.                                               *)
(***************************************************************************)

HasColoured(g, col, v)   == \E k \in Ports : col[Edge(g, v, k)] # NoColour
HasUncoloured(g, col, v) == \E k \in Ports : col[Edge(g, v, k)] = NoColour

\* A vertex with a coloured and an uncoloured edge is on the list, and one on
\* the list has a coloured edge.
Frontier(g, col, lst) ==
    \A v \in V : HasColoured(g, col, v) /\ HasUncoloured(g, col, v) => Occurs(lst, v)

Reached(g, col, lst) == \A n \in 1..Len(lst) : HasColoured(g, col, lst[n])

\* How many uncoloured edges of v come before position k.
Blanks(g, col, v, j) == IF col[Edge(g, v, j)] = NoColour THEN 1 ELSE 0

Rank(g, col, v, k) ==
    (IF k > 1 THEN Blanks(g, col, v, 1) ELSE 0) + (IF k > 2 THEN Blanks(g, col, v, 2) ELSE 0)
        + (IF k > 3 THEN Blanks(g, col, v, 3) ELSE 0)

GoodCall(g, f) ==
    /\ f.options = Options(f.inAvail[f.vertex])
    /\ Frontier(g, f.inColour, f.localList)
    /\ Reached(g, f.inColour, f.localList)

\* At the root only edges of the root have a colour, that of the permutation.
RootWalk ==
    pc \in {"root", "while"} =>
        /\ pc = "while" => port = 4
        /\ \A v \in V : \A k \in Ports : colour[Edge(graph, v, k)] # NoColour =>
             \E j \in Ports : j < port /\ Edge(graph, v, k) = Edge(graph, root, j)
        /\ \A j \in Ports : j < port => /\ colour[Edge(graph, root, j)] = Perms[perm][j]
                                        /\ Occurs(list, graph[root][j])
        /\ \A n \in 1..Len(list) : \E j \in Ports : j < port /\ list[n] = graph[root][j]

\* Where nothing is free the working map is the one the call was given.
OptionWalk == pc = "option" /\ top.options = <<>> => colour = top.inColour

EdgeWalk ==
    pc = "edge" =>
        /\ Frontier(graph, colour, list)
        /\ Reached(graph, colour, list)
        /\ \A j \in Ports : j >= port =>
             colour[Edge(graph, top.vertex, j)] = top.inColour[Edge(graph, top.vertex, j)]
        /\ coloured = "no" => port = 4
        /\ coloured # "no" =>
             /\ order = Rank(graph, top.inColour, top.vertex, port)
             /\ \A j \in Ports : j < port => colour[Edge(graph, top.vertex, j)] # NoColour

WInv ==
    /\ \A d \in 1..Len(frames) : GoodCall(graph, frames[d])
    /\ RootWalk
    /\ OptionWalk
    /\ EdgeWalk

-----------------------------------------------------------------------------
\* The stack after a call, after a return and after the step to an option.
LEMMA PushedFrames ==
    ASSUME IInv, NEW v \in V, NEW lst \in Seq(V), Call(v, colour, avail, lst)
    PROVE  \/ pc' = "overflow" /\ frames' = frames
           \/ /\ pc' = "option" /\ frames' # <<>>
              /\ Len(frames) \in Nat /\ Len(frames') = Len(frames) + 1
              /\ \A d \in 1..Len(frames) : frames'[d] = frames[d]
              /\ top' = frames'[Len(frames')]
              /\ top'.vertex = v /\ top'.options = Options(avail[v]) /\ top'.i = 0
              /\ top'.localList = lst /\ top'.inColour = colour /\ top'.inAvail = avail
<1>1. CASE ~ (Len(frames) < MaxDepth)
  BY <1>1 DEF Call
<1>2. CASE Len(frames) < MaxDepth
  <2> DEFINE f == [vertex |-> v, options |-> Options(avail[v]), i |-> 0,
                   localList |-> lst, inColour |-> colour, inAvail |-> avail]
  <2>1. frames' = Append(frames, f) /\ pc' = "option"
    BY <1>2 DEF Call
  <2>2. /\ f.vertex = v /\ f.options = Options(avail[v]) /\ f.i = 0
        /\ f.localList = lst /\ f.inColour = colour /\ f.inAvail = avail
    OBVIOUS
  <2>3. avail[v] \in [Colours -> {1, -1}]
    BY DEF IInv, TypeOK, FreeColours
  <2>4. f \in Frame
    BY <2>3, OptionsAre DEF IInv, TypeOK, Frame
  <2>5. frames \in Seq(Frame)
    BY DEF IInv, TypeOK
  <2> HIDE DEF f
  <2>6. /\ Append(frames, f) \in Seq(Frame)
        /\ Len(Append(frames, f)) = Len(frames) + 1
        /\ \A d \in 1..Len(frames) : Append(frames, f)[d] = frames[d]
        /\ Append(frames, f)[Len(frames) + 1] = f
        /\ Append(frames, f) # <<>> /\ Len(frames) \in Nat
    BY <2>4, <2>5, AppendProperties, LenProperties
  <2>7. top' = f /\ frames'[Len(frames')] = f
    BY <2>1, <2>6 DEF top, Last
  <2> QED BY <2>1, <2>2, <2>6, <2>7
<1> QED BY <1>1, <1>2

LEMMA PoppedFrames ==
    ASSUME IInv, frames # <<>>, NEW value, Return(value)
    PROVE  /\ pc' = "returned" /\ ret' = value
           /\ Len(frames) \in Nat \ {0} /\ Len(frames') = Len(frames) - 1
           /\ \A d \in 1..Len(frames') : frames'[d] = frames[d]
           /\ frames' # <<>> <=> Len(frames) > 1
           /\ frames' # <<>> => top' = frames[Len(frames) - 1]
<1>1. frames \in Seq(Frame) /\ frames' = Front(frames) /\ pc' = "returned" /\ ret' = value
  BY DEF IInv, TypeOK, Return
<1>2. Len(frames) \in Nat \ {0}
  BY <1>1, EmptySeq
<1>3. /\ frames' \in Seq(Frame) /\ Len(frames') = Len(frames) - 1
      /\ \A n \in 1..Len(frames) - 1 : frames'[n] = frames[n]
  BY <1>1, FrontOf
<1>4. frames' # <<>> <=> Len(frames') # 0
  BY <1>3, EmptySeq
<1>5. frames' # <<>> => Len(frames) - 1 \in 1..Len(frames) - 1
  BY <1>2, <1>3, <1>4
<1>6. frames' # <<>> => top' = frames[Len(frames) - 1]
  BY <1>3, <1>5 DEF top, Last
<1> QED BY <1>1, <1>2, <1>3, <1>4, <1>6

LEMMA BumpedFrames ==
    ASSUME IInv, frames # <<>>, frames' = [frames EXCEPT ![Len(frames)].i = @ + 1]
    PROVE  /\ frames' # <<>>
           /\ Len(frames) \in Nat \ {0} /\ Len(frames') = Len(frames)
           /\ \A d \in 1..Len(frames) - 1 : frames'[d] = frames[d]
           /\ top = frames[Len(frames)] /\ top' = frames'[Len(frames)]
           /\ top'.vertex = top.vertex /\ top'.options = top.options /\ top'.i = top.i + 1
           /\ top'.localList = top.localList
           /\ top'.inColour = top.inColour /\ top'.inAvail = top.inAvail
<1> DEFINE g == [top EXCEPT !.i = @ + 1]
<1>1. frames \in Seq(GoodFrame) /\ frames \in Seq(Frame)
  BY DEF IInv, TypeOK
<1>2. Len(frames) \in Nat \ {0}
  BY <1>1, EmptySeq
<1>3. top \in Frame
  BY <1>1, LastOf DEF top
<1>4. Len(top.options) \in Nat /\ top.i \in Nat
  BY <1>3, LenProperties DEF Frame
<1>5. g \in Frame
  BY <1>3, <1>4, BumpRecord DEF Frame
<1>6. /\ g.vertex = top.vertex /\ g.options = top.options /\ g.i = top.i + 1
      /\ g.localList = top.localList
      /\ g.inColour = top.inColour /\ g.inAvail = top.inAvail
  BY <1>3 DEF Frame
<1>7. frames' = [frames EXCEPT ![Len(frames)] = g]
  BY Zenon DEF Last, top
<1> HIDE DEF g
<1>8. /\ frames' \in Seq(Frame) /\ Len(frames') = Len(frames)
      /\ frames'[Len(frames)] = g
      /\ \A d \in 1..Len(frames) - 1 : frames'[d] = frames[d]
  BY <1>1, <1>2, <1>5, <1>7, ReplaceTop
<1>9. frames' # <<>> /\ top' = g
  BY <1>2, <1>8, EmptySeq DEF top, Last
<1>10. top = frames[Len(frames)]
  BY DEF top, Last
<1> QED BY <1>2, <1>6, <1>8, <1>9, <1>10

-----------------------------------------------------------------------------
\* A call that gets a list and maps in order keeps the first invariant, and so
\* do a return and a step to the next option.
LEMMA CallWalk ==
    ASSUME IInv, WInv, UNCHANGED <<graph, colour>>,
           NEW lst \in Seq(V), lst # <<>>,
           Frontier(graph, colour, lst), Reached(graph, colour, lst),
           Call(Last(lst), colour, avail, lst)
    PROVE  WInv'
<1>1. Last(lst) \in V
  BY LastOf
<1>2. CASE pc' = "overflow" /\ frames' = frames
  BY <1>2 DEF WInv, RootWalk, OptionWalk, EdgeWalk
<1>3. CASE ~ (pc' = "overflow" /\ frames' = frames)
  <2>1. /\ pc' = "option"
        /\ Len(frames) \in Nat /\ Len(frames') = Len(frames) + 1
        /\ \A d \in 1..Len(frames) : frames'[d] = frames[d]
        /\ top' = frames'[Len(frames')]
        /\ top'.vertex = Last(lst) /\ top'.options = Options(avail[Last(lst)])
        /\ top'.localList = lst /\ top'.inColour = colour /\ top'.inAvail = avail
    BY <1>1, <1>3, PushedFrames
  <2>2. GoodCall(graph, top')
    BY <2>1 DEF GoodCall
  <2>3. \A d \in 1..Len(frames') : GoodCall(graph, frames'[d])
    <3> TAKE d \in 1..Len(frames')
    <3>1. CASE d \in 1..Len(frames)
      BY <2>1, <3>1 DEF WInv
    <3>2. CASE d = Len(frames')
      BY <2>1, <2>2, <3>2
    <3> QED BY <2>1, <3>1, <3>2
  <2> QED BY <2>1, <2>3 DEF WInv, RootWalk, OptionWalk, EdgeWalk
<1> QED BY <1>2, <1>3

LEMMA ReturnWalk ==
    ASSUME IInv, WInv, UNCHANGED graph, frames # <<>>, NEW value, Return(value)
    PROVE  WInv'
<1>1. /\ pc' = "returned"
      /\ Len(frames) \in Nat \ {0} /\ Len(frames') = Len(frames) - 1
      /\ \A d \in 1..Len(frames') : frames'[d] = frames[d]
  BY PoppedFrames
<1>2. \A d \in 1..Len(frames') : GoodCall(graph, frames'[d])
  BY <1>1 DEF WInv
<1> QED BY <1>1, <1>2 DEF WInv, RootWalk, OptionWalk, EdgeWalk

LEMMA NextOptionWalk ==
    ASSUME IInv, WInv, UNCHANGED graph, frames # <<>>, top.options # <<>>, pc' = "option",
           frames' = [frames EXCEPT ![Len(frames)].i = @ + 1]
    PROVE  WInv'
<1>1. /\ Len(frames) \in Nat \ {0} /\ Len(frames') = Len(frames)
      /\ \A d \in 1..Len(frames) - 1 : frames'[d] = frames[d]
      /\ top = frames[Len(frames)] /\ top' = frames'[Len(frames)]
      /\ top'.vertex = top.vertex /\ top'.options = top.options
      /\ top'.localList = top.localList
      /\ top'.inColour = top.inColour /\ top'.inAvail = top.inAvail
  BY BumpedFrames
<1>2. GoodCall(graph, top')
  BY <1>1 DEF WInv, GoodCall
<1>3. \A d \in 1..Len(frames') : GoodCall(graph, frames'[d])
  <2> TAKE d \in 1..Len(frames')
  <2>1. CASE d \in 1..Len(frames) - 1
    BY <1>1, <2>1 DEF WInv
  <2>2. CASE d = Len(frames)
    BY <1>1, <1>2, <2>2
  <2> QED BY <1>1, <2>1, <2>2
<1> QED BY <1>1, <1>3 DEF WInv, RootWalk, OptionWalk, EdgeWalk

-----------------------------------------------------------------------------
LEMMA InitWalk == Init => WInv
<1> SUFFICES ASSUME Init PROVE WInv
  OBVIOUS
<1>1. \A v \in V : \A k \in Ports : colour[Edge(graph, v, k)] = NoColour
  BY BlankKeeps DEF Init
<1>2. pc = "root" /\ port = 1 /\ Len(frames) = 0 /\ Len(list) = 0
  BY EmptySeq DEF Init
<1>3. RootWalk
  BY <1>1, <1>2 DEF RootWalk, Ports
<1> QED BY <1>2, <1>3 DEF WInv, OptionWalk, EdgeWalk

\* The colour of the permutation is free at both ends of the next root edge.
LEMMA RootEdgePainted ==
    ASSUME IInv, WInv, RootEdge
    PROVE  PaintEdge(root, graph[root][port], Perms[perm][port])
<1> DEFINE w == graph[root][port]
           c == Perms[perm][port]
<1>1. /\ pc = "root" /\ port \in Ports /\ TypeOK
      /\ FreeMatches(graph, colour, avail) /\ IsCubicGraph(graph)
      /\ avail \in FreeColours /\ root \in V
  BY GraphIsCubic, RootAssumption DEF IInv, Consistent, RootEdge, TypeOK
<1>2. w \in V /\ w # root
  BY <1>1, NeighbourIsVertex
<1>3. perm \in 1..6 /\ \A k \in Ports : Perms[perm][k] \in Colours
  BY <1>1, PermsAre DEF TypeOK
<1>4. \A j, k \in Ports : Perms[perm][j] = Perms[perm][k] => j = k
  <2>1. \E a, b, d \in {0, 1, 2} : a # b /\ a # d /\ b # d /\ Perms[perm] = <<a, b, d>>
    BY <1>3 DEF Perms
  <2> QED BY <2>1 DEF Ports
<1>5. \A v \in V : \A k \in Ports : colour[Edge(graph, v, k)] # NoColour =>
        \E j \in Ports : j < port /\ Edge(graph, v, k) = Edge(graph, root, j)
  BY <1>1 DEF WInv, RootWalk
<1>6. \A j \in Ports : j < port => colour[Edge(graph, root, j)] = Perms[perm][j]
  BY <1>1 DEF WInv, RootWalk
<1>7. c \in Colours /\ c # NoColour
  BY <1>1, <1>3 DEF Colours, NoColour
<1>8. avail[root][c] # -1
  <2> SUFFICES ASSUME avail[root][c] = -1 PROVE FALSE
    OBVIOUS
  <2>1. PICK k \in Ports : colour[Edge(graph, root, k)] = c
    BY <1>1, <1>7 DEF FreeMatches
  <2>2. PICK j \in Ports : j < port /\ Edge(graph, root, k) = Edge(graph, root, j)
    BY <1>1, <1>5, <1>7, <2>1
  <2>3. Perms[perm][j] = c
    BY <1>6, <2>1, <2>2
  <2>4. j = port
    BY <1>1, <1>4, <2>3
  <2> QED BY <1>1, <2>2, <2>4 DEF Ports
<1>9. avail[w][c] # -1
  <2> SUFFICES ASSUME avail[w][c] = -1 PROVE FALSE
    OBVIOUS
  <2>1. PICK k \in Ports : colour[Edge(graph, w, k)] = c
    BY <1>1, <1>2, <1>7 DEF FreeMatches
  <2>2. PICK j \in Ports : j < port /\ Edge(graph, w, k) = Edge(graph, root, j)
    BY <1>2, <1>5, <1>7, <2>1
  <2>3. w = graph[root][j]
    BY <1>2, <2>2, PairEqual DEF Edge
  <2>4. j = port
    BY <1>1, <2>3 DEF IsCubicGraph
  <2> QED BY <1>1, <2>2, <2>4 DEF Ports
<1>10. avail[root][c] = 1 /\ avail[w][c] = 1
  BY <1>1, <1>2, <1>7, <1>8, <1>9 DEF FreeColours
<1> QED BY <1>10 DEF RootEdge, CanPaint

LEMMA PaintedEdges ==
    ASSUME TypeOK, NEW v \in V, NEW k \in Ports, NEW c \in Colours, PaintEdge(v, graph[v][k], c)
    PROVE  \A x \in V : \A j \in Ports :
             /\ Edge(graph, x, j) = Edge(graph, v, k) => colour'[Edge(graph, x, j)] = c
             /\ Edge(graph, x, j) # Edge(graph, v, k) =>
                  colour'[Edge(graph, x, j)] = colour[Edge(graph, x, j)]
<1>1. colour' = [colour EXCEPT ![Edge(graph, v, k)] = c]
  BY DEF PaintEdge, Edge
<1>2. colour \in [Edges(graph) -> Colours \cup {NoColour}]
  BY DEF TypeOK, Colourings
<1>3. \A x \in V : \A j \in Ports : Edge(graph, x, j) \in Edges(graph)
  BY DEF Edges
<1> QED BY <1>1, <1>2, <1>3

LEMMA SameVertexEdges ==
    ASSUME TypeOK, NEW v \in V, NEW j \in Ports, NEW k \in Ports,
           Edge(graph, v, j) = Edge(graph, v, k)
    PROVE  j = k
<1>1. graph[v][j] # v /\ graph[v][k] # v
  BY NeighbourIsVertex
<1>2. graph[v][j] = graph[v][k]
  BY <1>1, PairEqual DEF Edge
<1> QED BY <1>2, GraphIsCubic DEF IsCubicGraph

LEMMA RootEdgeWalk == IInv /\ WInv /\ RootEdge => WInv'
<1> SUFFICES ASSUME IInv, WInv, RootEdge PROVE WInv'
  OBVIOUS
<1> DEFINE w == graph[root][port]
           c == Perms[perm][port]
<1>1. /\ pc = "root" /\ port \in Ports /\ port' = port + 1 /\ TypeOK
      /\ pc' = (IF port = 3 THEN "while" ELSE "root")
      /\ list' = <<w>> \o list /\ list \in Seq(V)
      /\ UNCHANGED <<graph, perm, frames, order, coloured, ret>>
      /\ root \in V /\ w \in V
  BY RootAssumption, NeighbourIsVertex DEF RootEdge, IInv, TypeOK
<1>2. PaintEdge(root, w, c)
  BY RootEdgePainted
<1>3. \A x \in V : \A j \in Ports :
        /\ Edge(graph, x, j) = Edge(graph, root, port) => colour'[Edge(graph, x, j)] = c
        /\ Edge(graph, x, j) # Edge(graph, root, port) =>
             colour'[Edge(graph, x, j)] = colour[Edge(graph, x, j)]
  <2>1. c \in Colours
    BY <1>1, PermsAre DEF TypeOK
  <2> HIDE DEF c
  <2> QED BY <1>1, <1>2, <2>1, PaintedEdges
<1>4. \A v \in V : \A k \in Ports : colour'[Edge(graph, v, k)] # NoColour =>
        \E j \in Ports : j < port + 1 /\ Edge(graph, v, k) = Edge(graph, root, j)
  <2> TAKE v \in V
  <2> TAKE k \in Ports
  <2>1. CASE Edge(graph, v, k) = Edge(graph, root, port)
    BY <1>1, <2>1 DEF Ports
  <2>2. CASE Edge(graph, v, k) # Edge(graph, root, port)
    <3>1. colour[Edge(graph, v, k)] # NoColour =>
            \E j \in Ports : j < port /\ Edge(graph, v, k) = Edge(graph, root, j)
      BY <1>1 DEF WInv, RootWalk
    <3>2. \A j \in Ports : j < port => j < port + 1
      BY <1>1 DEF Ports
    <3> QED BY <1>3, <2>2, <3>1, <3>2
  <2> QED BY <2>1, <2>2
<1>5. ASSUME NEW j \in Ports, j < port + 1
      PROVE  colour'[Edge(graph, root, j)] = Perms[perm][j] /\ Occurs(list', graph[root][j])
  <2>1. CASE j = port
    BY <1>1, <1>3, <2>1, PutFirst
  <2>2. CASE j # port
    <3>1. j < port
      BY <1>1, <1>5, <2>2 DEF Ports
    <3>2. Edge(graph, root, j) # Edge(graph, root, port)
      BY <1>1, <2>2, SameVertexEdges
    <3>3. colour[Edge(graph, root, j)] = Perms[perm][j] /\ Occurs(list, graph[root][j])
      BY <1>1, <3>1 DEF WInv, RootWalk
    <3> QED BY <1>1, <1>3, <3>2, <3>3, PutFirst
  <2> QED BY <2>1, <2>2
<1>6. ASSUME NEW n \in 1..Len(list')
      PROVE  \E j \in Ports : j < port + 1 /\ list'[n] = graph[root][j]
  <2>1. list'[n] = w \/ \E m \in 1..Len(list) : list'[n] = list[m]
    BY <1>1, <1>6, PutFirst
  <2>2. \A m \in 1..Len(list) : \E j \in Ports : j < port /\ list[m] = graph[root][j]
    BY <1>1 DEF WInv, RootWalk
  <2>3. port < port + 1 /\ \A j \in Ports : j < port => j < port + 1
    BY <1>1 DEF Ports
  <2> QED BY <1>1, <2>1, <2>2, <2>3
<1>7. RootWalk'
  <2>1. pc' = "while" => port' = 4
    BY <1>1
  <2> QED BY <1>1, <1>4, <1>5, <1>6, <2>1 DEF RootWalk
<1>8. \A d \in 1..Len(frames') : GoodCall(graph', frames'[d])
  BY <1>1 DEF WInv
<1>9. OptionWalk' /\ EdgeWalk'
  BY <1>1 DEF OptionWalk, EdgeWalk
<1> QED BY <1>7, <1>8, <1>9 DEF WInv

\* When all the edges of the root have their colour, its neighbours are listed
\* and the colouring is the permutation at the root and nothing else.
LEMMA RootListed ==
    ASSUME IInv, WInv, pc = "while"
    PROVE  /\ \A j \in Ports : /\ colour[Edge(graph, root, j)] = Perms[perm][j]
                               /\ colour[Edge(graph, root, j)] # NoColour
           /\ \A v \in V : \A k \in Ports : colour[Edge(graph, v, k)] # NoColour =>
                \E j \in Ports : Edge(graph, v, k) = Edge(graph, root, j)
           /\ Frontier(graph, colour, list) /\ Reached(graph, colour, list)
<1>1. list \in Seq(V) /\ port = 4 /\ TypeOK /\ root \in V
  BY RootAssumption DEF IInv, WInv, RootWalk, TypeOK
<1>2. \A j \in Ports : j < 4
  BY DEF Ports
<1>3. \A j \in Ports : /\ colour[Edge(graph, root, j)] = Perms[perm][j]
                       /\ colour[Edge(graph, root, j)] # NoColour
                       /\ Occurs(list, graph[root][j])
  <2>1. perm \in 1..6
    BY <1>1, PermsAre DEF TypeOK
  <2>2. \A j \in Ports : Perms[perm][j] # NoColour
    BY <2>1, PermsAre DEF Colours, NoColour
  <2>3. \A j \in Ports : /\ colour[Edge(graph, root, j)] = Perms[perm][j]
                         /\ Occurs(list, graph[root][j])
    BY <1>1, <1>2 DEF WInv, RootWalk
  <2> QED BY <2>2, <2>3
<1>4. \A v \in V : \A k \in Ports : colour[Edge(graph, v, k)] # NoColour =>
        \E j \in Ports : Edge(graph, v, k) = Edge(graph, root, j)
  BY DEF WInv, RootWalk
<1>5. Frontier(graph, colour, list)
  <2> SUFFICES ASSUME NEW v \in V, NEW k \in Ports, colour[Edge(graph, v, k)] # NoColour,
                      NEW m \in Ports, colour[Edge(graph, v, m)] = NoColour
               PROVE  Occurs(list, v)
    BY DEF Frontier, HasColoured, HasUncoloured
  <2>1. PICK j \in Ports : Edge(graph, v, k) = Edge(graph, root, j)
    BY <1>4
  <2>2. v = root \/ v = graph[root][j]
    BY <2>1, PairEqual DEF Edge
  <2>3. v # root
    BY <1>3
  <2> QED BY <1>3, <2>2, <2>3
<1>6. Reached(graph, colour, list)
  <2> SUFFICES ASSUME NEW n \in 1..Len(list)
               PROVE  HasColoured(graph, colour, list[n])
    BY DEF Reached
  <2>1. PICK j \in Ports : list[n] = graph[root][j]
    BY DEF WInv, RootWalk
  <2>2. PICK m \in Ports : graph[graph[root][j]][m] = root
    BY <1>1, GraphIsCubic DEF IsCubicGraph
  <2>3. Edge(graph, list[n], m) = Edge(graph, root, j)
    BY <2>1, <2>2, PairEqual DEF Edge
  <2> QED BY <1>3, <2>3 DEF HasColoured
<1> QED BY <1>3, <1>4, <1>5, <1>6

LEMMA WhileLoopWalk == IInv /\ WInv /\ WhileLoop => WInv'
<1> SUFFICES ASSUME IInv, WInv, WhileLoop PROVE WInv'
  OBVIOUS
<1>1. /\ pc = "while" /\ list # <<>> /\ list \in Seq(V)
      /\ UNCHANGED <<graph, perm, list, colour, avail, port, order, coloured, ret>>
  BY DEF WhileLoop, IInv, TypeOK
<1>2. Call(Last(list), colour, avail, list)
  BY <1>1 DEF WhileLoop
<1> QED BY <1>1, <1>2, RootListed, CallWalk

\* The innermost call.
LEMMA TopOfStack ==
    ASSUME IInv, frames # <<>>
    PROVE  /\ Len(frames) \in Nat \ {0} /\ top = frames[Len(frames)]
           /\ top \in GoodFrame /\ top.vertex \in V /\ top.i \in Nat
           /\ top.options \in Seq(Colours) /\ Len(top.options) \in Nat
           /\ top.localList \in Seq(V) /\ top.localList # <<>>
           /\ top.inColour \in Colourings(graph)
           /\ WInv => GoodCall(graph, top)
<1>1. frames \in Seq(GoodFrame)
  BY DEF IInv
<1>2. Len(frames) \in Nat \ {0} /\ top = frames[Len(frames)]
  BY <1>1, EmptySeq DEF top, Last
<1>3. top.localList # <<>>
  BY <1>1, TopIsGood DEF GoodFrame
<1> QED BY <1>1, <1>2, <1>3, TopIsGood DEF WInv

LEMMA NothingFreeWalk == IInv /\ WInv /\ NothingFree => WInv'
<1> SUFFICES ASSUME IInv, WInv, NothingFree PROVE WInv'
  OBVIOUS
<1>1. /\ pc = "option" /\ top.options = <<>> /\ frames # <<>> /\ list = top.localList
      /\ UNCHANGED <<graph, colour>>
  BY DEF IInv, NothingFree
<1>2. list \in Seq(V) /\ list # <<>>
  BY <1>1, TopOfStack
<1>3. Call(Last(list), colour, avail, list)
  BY <1>2 DEF NothingFree
<1>4. Frontier(graph, colour, list) /\ Reached(graph, colour, list)
  BY <1>1, TopOfStack DEF WInv, OptionWalk, GoodCall
<1> QED BY <1>1, <1>2, <1>3, <1>4, CallWalk

LEMMA RankNext ==
    ASSUME NEW g, NEW col, NEW v, NEW k \in Ports
    PROVE  /\ Rank(g, col, v, 1) = 0
           /\ Rank(g, col, v, k + 1) = Rank(g, col, v, k) + Blanks(g, col, v, k)
           /\ Rank(g, col, v, k) \in Nat
<1>1. \A j : Blanks(g, col, v, j) \in {0, 1}
  BY DEF Blanks
<1> QED BY <1>1 DEF Rank, Ports

LEMMA BeginOptionWalk == IInv /\ WInv /\ BeginOption => WInv'
<1> SUFFICES ASSUME IInv, WInv, BeginOption PROVE WInv'
  OBVIOUS
<1>1. /\ pc = "option" /\ pc' = "edge" /\ frames # <<>> /\ list = top.localList
      /\ colour' = top.inColour /\ port' = 1 /\ order' = 0 /\ coloured' = "unset"
      /\ UNCHANGED <<graph, perm, list, frames, ret>>
  BY DEF IInv, BeginOption
<1>2. top' = top
  BY <1>1 DEF top
<1>3. Frontier(graph, colour', list) /\ Reached(graph, colour', list)
  BY <1>1, TopOfStack DEF GoodCall
<1>4. order' = Rank(graph, top.inColour, top.vertex, 1)
  <2>1. 1 \in Ports
    BY DEF Ports
  <2> QED BY <1>1, <2>1, RankNext
<1>5. EdgeWalk'
  BY <1>1, <1>2, <1>3, <1>4 DEF EdgeWalk, Ports
<1>6. \A d \in 1..Len(frames') : GoodCall(graph', frames'[d])
  BY <1>1 DEF WInv
<1> QED BY <1>1, <1>5, <1>6 DEF WInv, RootWalk, OptionWalk

LEMMA OptionsExhaustedWalk == IInv /\ WInv /\ OptionsExhausted => WInv'
<1> SUFFICES ASSUME IInv, WInv, OptionsExhausted PROVE WInv'
  OBVIOUS
<1>1. frames # <<>> /\ Return(FALSE) /\ UNCHANGED graph
  BY DEF IInv, OptionsExhausted
<1> QED BY <1>1, ReturnWalk

LEMMA SkipEdgeWalk == IInv /\ WInv /\ SkipEdge => WInv'
<1> SUFFICES ASSUME IInv, WInv, SkipEdge PROVE WInv'
  OBVIOUS
<1>1. /\ pc = "edge" /\ port \in Ports /\ port' = port + 1
      /\ colour[Edge(graph, top.vertex, port)] # NoColour
      /\ UNCHANGED <<graph, perm, list, frames, colour, avail, order, coloured, ret, pc>>
  BY DEF SkipEdge
<1>2. top' = top
  BY <1>1 DEF top
<1>3. /\ Frontier(graph, colour, list) /\ Reached(graph, colour, list)
      /\ \A j \in Ports : j >= port =>
           colour[Edge(graph, top.vertex, j)] = top.inColour[Edge(graph, top.vertex, j)]
      /\ coloured # "no"
      /\ order = Rank(graph, top.inColour, top.vertex, port)
      /\ \A j \in Ports : j < port => colour[Edge(graph, top.vertex, j)] # NoColour
  BY <1>1 DEF WInv, EdgeWalk, Ports
<1>4. Blanks(graph, top.inColour, top.vertex, port) = 0
  BY <1>1, <1>3 DEF Blanks, Ports
<1>5. order = Rank(graph, top.inColour, top.vertex, port + 1)
  BY <1>1, <1>3, <1>4, RankNext
<1>6. /\ \A j \in Ports : j >= port + 1 => j >= port
      /\ \A j \in Ports : j < port + 1 => j < port \/ j = port
  BY <1>1 DEF Ports
<1>7. EdgeWalk'
  BY <1>1, <1>2, <1>3, <1>5, <1>6 DEF EdgeWalk
<1>8. \A d \in 1..Len(frames') : GoodCall(graph', frames'[d])
  BY <1>1 DEF WInv
<1> QED BY <1>1, <1>7, <1>8 DEF WInv, RootWalk, OptionWalk

LEMMA EdgeRefusedWalk == IInv /\ WInv /\ EdgeRefused => WInv'
<1> SUFFICES ASSUME IInv, WInv, EdgeRefused PROVE WInv'
  OBVIOUS
<1>1. /\ pc = "edge" /\ port' = 4 /\ coloured' = "no"
      /\ UNCHANGED <<graph, perm, list, frames, colour, avail, order, ret, pc>>
  BY DEF EdgeRefused
<1>2. top' = top
  BY <1>1 DEF top
<1>3. Frontier(graph, colour, list) /\ Reached(graph, colour, list)
  BY <1>1 DEF WInv, EdgeWalk
<1>4. EdgeWalk'
  BY <1>1, <1>2, <1>3 DEF EdgeWalk, Ports
<1>5. \A d \in 1..Len(frames') : GoodCall(graph', frames'[d])
  BY <1>1 DEF WInv
<1> QED BY <1>1, <1>4, <1>5 DEF WInv, RootWalk, OptionWalk

LEMMA BacktrackWalk == IInv /\ WInv /\ Backtrack => WInv'
<1> SUFFICES ASSUME IInv, WInv, Backtrack PROVE WInv'
  OBVIOUS
<1>1. frames # <<>> /\ top.options # <<>> /\ UNCHANGED graph
  BY EdgeFacts, EmptySeq, TopIsGood DEF Backtrack
<1>2. CASE top.i + 1 = Len(top.options)
  BY <1>1, <1>2, ReturnWalk DEF Backtrack
<1>3. CASE top.i + 1 # Len(top.options)
  BY <1>1, <1>3, NextOptionWalk DEF Backtrack
<1> QED BY <1>2, <1>3

LEMMA AfterCallWalk == IInv /\ WInv /\ AfterCall => WInv'
<1> SUFFICES ASSUME IInv, WInv, AfterCall PROVE WInv'
  OBVIOUS
<1>1. frames # <<>> /\ UNCHANGED graph /\ ~ ret
  BY DEF AfterCall, IInv
<1>2. CASE top.options = <<>>
  BY <1>1, <1>2, ReturnWalk DEF AfterCall
<1>3. CASE top.options # <<>>
  BY <1>1, <1>3, NextOptionWalk DEF AfterCall
<1> QED BY <1>2, <1>3

LEMMA ChoiceIsColour == ASSUME IInv, pc = "edge" PROVE Choice \in Colours
<1>1. order \in Nat
  BY DEF IInv, TypeOK
<1>2. Len(top.options) \in Nat \ {0} /\ top.i \in Nat
  BY EdgeFacts
<1>3. top.i + order \in Nat
  BY <1>1, <1>2
<1>4. ((top.i + order) % Len(top.options)) + 1 \in 1..Len(top.options)
  BY <1>2, <1>3, RotationIndex
<1>5. top.options \in Seq(Colours)
  BY EdgeFacts, TopIsGood
<1> QED BY <1>4, <1>5, ElementOfSeq DEF Choice

\* What ColourEdge does, with the vertex and its neighbour named.
LEMMA ColourEdgeDoes ==
    ASSUME IInv, ColourEdge
    PROVE  /\ pc = "edge" /\ port \in Ports /\ port' = port + 1
           /\ top' = top /\ top.vertex \in V /\ graph[top.vertex][port] \in V
           /\ colour[Edge(graph, top.vertex, port)] = NoColour
           /\ \A x \in V : \A j \in Ports :
                /\ Edge(graph, x, j) = Edge(graph, top.vertex, port) =>
                     colour'[Edge(graph, x, j)] = Choice
                /\ Edge(graph, x, j) # Edge(graph, top.vertex, port) =>
                     colour'[Edge(graph, x, j)] = colour[Edge(graph, x, j)]
           /\ coloured' = "yes" /\ order' = order + 1
           /\ UNCHANGED <<graph, perm, frames, ret, pc>>
<1>1. /\ pc = "edge" /\ port \in Ports /\ port' = port + 1
      /\ colour[Edge(graph, top.vertex, port)] = NoColour
      /\ PaintEdge(top.vertex, graph[top.vertex][port], Choice)
      /\ coloured' = "yes" /\ order' = order + 1
      /\ UNCHANGED <<graph, perm, frames, ret, pc>>
  BY DEF ColourEdge
<1>2. TypeOK /\ top.vertex \in V /\ graph[top.vertex][port] \in V
  BY <1>1, EdgeFacts, NeighbourIsVertex
<1>3. top' = top
  BY <1>1 DEF top
<1>4. Choice \in Colours
  BY <1>1, ChoiceIsColour
<1> QED BY <1>1, <1>2, <1>3, <1>4, PaintedEdges

LEMMA ColourEdgeWalk == IInv /\ WInv /\ ColourEdge => WInv'
<1> SUFFICES ASSUME IInv, WInv, ColourEdge PROVE WInv'
  OBVIOUS
<1>1. PICK v \in V, w \in V, k \in Ports : v = top.vertex /\ k = port /\ w = graph[v][k]
  BY ColourEdgeDoes
<1>2. /\ \A x \in V : \A j \in Ports :
           Edge(graph, x, j) # Edge(graph, v, k) =>
             colour'[Edge(graph, x, j)] = colour[Edge(graph, x, j)]
      /\ colour'[Edge(graph, v, k)] # NoColour
      /\ pc = "edge" /\ top' = top /\ port' = k + 1 /\ coloured' = "yes" /\ order' = order + 1
      /\ colour[Edge(graph, v, k)] = NoColour
      /\ UNCHANGED <<graph, perm, frames, ret, pc>>
  <2>1. Choice # NoColour
    BY ColourEdgeDoes, ChoiceIsColour DEF Colours, NoColour
  <2> QED BY <1>1, <2>1, ColourEdgeDoes
<1>3. /\ Frontier(graph, colour, list) /\ Reached(graph, colour, list)
      /\ \A j \in Ports : j >= k =>
           colour[Edge(graph, v, j)] = top.inColour[Edge(graph, v, j)]
      /\ coloured # "no"
      /\ order = Rank(graph, top.inColour, v, k)
      /\ \A j \in Ports : j < k => colour[Edge(graph, v, j)] # NoColour
  BY <1>1, <1>2 DEF WInv, EdgeWalk, Ports
<1>4. list \in Seq(V) /\ list # <<>> /\ Last(list) = v /\ Len(list) \in Nat \ {0} /\ TypeOK
  BY <1>1, <1>2, EdgeFacts, EmptySeq
<1>5. Occurs(list, v)
  BY <1>4 DEF Occurs, Last
<1>6. /\ Occurs(list', w)
      /\ \A x \in V : Occurs(list, x) => Occurs(list', x)
      /\ \A n \in 1..Len(list') : list'[n] = w \/ \E m \in 1..Len(list) : list'[n] = list[m]
  <2>1. CASE w \in Range(list)
    <3>1. list' = list
      BY <1>1, <2>1 DEF ColourEdge
    <3>2. Occurs(list, w)
      BY <1>4, <2>1, RangeEquality DEF Occurs
    <3> QED BY <3>1, <3>2
  <2>2. CASE w \notin Range(list)
    <3>1. list' = <<w>> \o list
      BY <1>1, <2>2 DEF ColourEdge
    <3> QED BY <1>4, <3>1, PutFirst
  <2> QED BY <2>1, <2>2
<1>7. \A x \in V : \A j \in Ports :
        Edge(graph, x, j) = Edge(graph, v, k) => x = v \/ x = w
  BY <1>1, PairEqual DEF Edge
<1>8. Frontier(graph, colour', list')
  <2> SUFFICES ASSUME NEW x \in V, HasColoured(graph, colour', x), HasUncoloured(graph, colour', x)
               PROVE  Occurs(list', x)
    BY DEF Frontier
  <2>1. CASE x = v \/ x = w
    BY <1>5, <1>6, <2>1
  <2>2. CASE x # v /\ x # w
    <3>1. \A j \in Ports : colour'[Edge(graph, x, j)] = colour[Edge(graph, x, j)]
      BY <1>2, <1>7, <2>2
    <3> QED BY <1>3, <1>6, <3>1 DEF Frontier, HasColoured, HasUncoloured
  <2> QED BY <2>1, <2>2
<1>9. Reached(graph, colour', list')
  <2>1. ASSUME NEW x \in V, HasColoured(graph, colour, x)
        PROVE  HasColoured(graph, colour', x)
    BY <1>2, <2>1 DEF HasColoured
  <2>2. HasColoured(graph, colour', w)
    <3>1. PICK m \in Ports : graph[w][m] = v
      BY <1>1, <1>4, GraphIsCubic DEF IsCubicGraph
    <3>2. Edge(graph, w, m) = Edge(graph, v, k)
      BY <1>1, <3>1, PairEqual DEF Edge
    <3> QED BY <1>2, <3>2 DEF HasColoured
  <2>3. \A m \in 1..Len(list) : list[m] \in V /\ HasColoured(graph, colour, list[m])
    BY <1>3, <1>4, ElementOfSeq DEF Reached
  <2> QED BY <1>6, <2>1, <2>2, <2>3 DEF Reached
<1>10. \A j \in Ports : j # k => colour'[Edge(graph, v, j)] = colour[Edge(graph, v, j)]
  BY <1>2, <1>4, SameVertexEdges
<1>11. order' = Rank(graph, top.inColour, v, k + 1)
  <2>1. Blanks(graph, top.inColour, v, k) = 1
    BY <1>2, <1>3 DEF Blanks, Ports
  <2> QED BY <1>2, <1>3, <2>1, RankNext
<1>12. EdgeWalk'
  <2>1. \A j \in Ports : j >= k + 1 =>
          colour'[Edge(graph, v, j)] = top.inColour[Edge(graph, v, j)]
    BY <1>3, <1>10 DEF Ports
  <2>2. \A j \in Ports : j < k + 1 => colour'[Edge(graph, v, j)] # NoColour
    BY <1>2, <1>3, <1>10 DEF Ports
  <2> QED BY <1>1, <1>2, <1>8, <1>9, <1>11, <2>1, <2>2 DEF EdgeWalk
<1>13. \A d \in 1..Len(frames') : GoodCall(graph', frames'[d])
  BY <1>2 DEF WInv
<1> QED BY <1>2, <1>12, <1>13 DEF WInv, RootWalk, OptionWalk

\* The vertex that leaves the list has all its edges coloured, and the vertex
\* before it on the list is called.
LEMMA AdvanceCalls ==
    ASSUME IInv, WInv, Advance
    PROVE  /\ Front(list) \in Seq(V) /\ Front(list) # <<>>
           /\ Frontier(graph, colour, Front(list)) /\ Reached(graph, colour, Front(list))
           /\ Call(Last(Front(list)), colour, avail, Front(list))
<1>1. /\ pc = "edge" /\ port = 4 /\ list' = Front(list) /\ "yes" \in ColouredValues
      /\ UNCHANGED <<graph, perm, colour, avail, port, order, coloured>>
  BY DEF Advance
<1>2. coloured = "yes"
  BY <1>1, AssignedBeforeRead DEF ColouredValues
<1>3. /\ list \in Seq(V) /\ list # <<>> /\ Last(list) = top.vertex
      /\ Len(list) >= 2 /\ Len(list) \in Nat
  BY <1>1, <1>2, EdgeFacts, LenProperties
<1>4. /\ Front(list) \in Seq(V) /\ Len(Front(list)) = Len(list) - 1
      /\ \A n \in 1..Len(list) - 1 : Front(list)[n] = list[n]
  BY <1>3, FrontOf
<1>5. Front(list) # <<>>
  <2>1. Len(Front(list)) # 0
    BY <1>3, <1>4
  <2> QED BY <2>1, EmptySeq
<1>6. Call(Last(Front(list)), colour, avail, Front(list))
  <2>1. \A n \in Nat : n >= 2 => n # 1
    OBVIOUS
  <2>2. Len(list) # 1
    BY <1>3, <2>1
  <2> QED BY <2>2 DEF Advance
<1>7. Frontier(graph, colour, list) /\ Reached(graph, colour, list)
  BY <1>1 DEF WInv, EdgeWalk
<1>8. ~ HasUncoloured(graph, colour, top.vertex)
  BY <1>1, <1>2 DEF WInv, EdgeWalk, HasUncoloured, Ports
<1>9. Frontier(graph, colour, Front(list))
  <2> SUFFICES ASSUME NEW x \in V, HasColoured(graph, colour, x), HasUncoloured(graph, colour, x)
               PROVE  Occurs(Front(list), x)
    BY DEF Frontier
  <2>1. PICK n \in 1..Len(list) : list[n] = x
    BY <1>7 DEF Frontier, Occurs
  <2>2. n # Len(list)
    BY <1>3, <1>8, <2>1 DEF Last
  <2>3. n \in 1..Len(list) - 1
    BY <1>3, <2>1, <2>2
  <2> QED BY <1>4, <2>1, <2>3 DEF Occurs
<1>10. Reached(graph, colour, Front(list))
  <2>1. \A n \in 1..Len(list) - 1 : n \in 1..Len(list)
    BY <1>3
  <2> QED BY <1>4, <1>7, <2>1 DEF Reached
<1> QED BY <1>4, <1>5, <1>6, <1>9, <1>10

LEMMA AdvanceWalk == IInv /\ WInv /\ Advance => WInv'
<1> SUFFICES ASSUME IInv, WInv, Advance PROVE WInv'
  OBVIOUS
<1>1. UNCHANGED <<graph, colour>>
  BY DEF Advance
<1> QED BY <1>1, AdvanceCalls, CallWalk

LEMMA AfterSearchWalk == IInv /\ WInv /\ AfterSearch => WInv'
<1> SUFFICES ASSUME IInv, WInv, AfterSearch PROVE WInv'
  OBVIOUS
<1>1. ~ ret /\ frames = <<>> /\ UNCHANGED <<graph, frames>>
  BY DEF IInv, AfterSearch
<1>2. Len(frames') = 0
  BY <1>1, EmptySeq
<1>3. CASE perm < Len(Perms)
  <2>1. /\ list' = <<>> /\ colour' = Blank(graph) /\ port' = 1 /\ pc' = "root"
    BY <1>1, <1>3 DEF AfterSearch
  <2>2. \A v \in V : \A k \in Ports : colour'[Edge(graph, v, k)] = NoColour
    BY <2>1, BlankKeeps
  <2>3. Len(list') = 0
    BY <2>1, EmptySeq
  <2>4. RootWalk'
    BY <1>1, <2>1, <2>2, <2>3 DEF RootWalk, Ports
  <2> QED BY <1>2, <2>1, <2>4 DEF WInv, OptionWalk, EdgeWalk
<1>4. CASE ~ (perm < Len(Perms))
  <2>1. pc' = "done"
    BY <1>1, <1>4 DEF AfterSearch
  <2> QED BY <1>2, <2>1 DEF WInv, RootWalk, OptionWalk, EdgeWalk
<1> QED BY <1>3, <1>4

LEMMA StutterWalk == WInv /\ UNCHANGED vars => WInv'
<1> SUFFICES ASSUME WInv, UNCHANGED vars PROVE WInv'
  OBVIOUS
<1>1. UNCHANGED vars /\ top' = top
  BY DEF vars, top
<1> QED BY <1>1 DEF WInv, RootWalk, OptionWalk, EdgeWalk, vars

LEMMA NextWalk == IInv /\ WInv /\ [Next]_vars => WInv'
  BY RootEdgeWalk, WhileLoopWalk, NothingFreeWalk, BeginOptionWalk, OptionsExhaustedWalk,
     SkipEdgeWalk, ColourEdgeWalk, EdgeRefusedWalk, BacktrackWalk, AdvanceWalk,
     AfterCallWalk, AfterSearchWalk, StutterWalk DEF Next

LEMMA AlwaysWInv == Spec => []WInv
  BY InitWalk, NextWalk, AlwaysIInv, PTL DEF Spec

(***************************************************************************)
(* The search forgets no vertex: whatever was undone, a vertex with a      *)
(* coloured and an uncoloured edge is on the work list (712, 744).         *)
(***************************************************************************)
THEOREM SpecFrontierListed == Spec => []FrontierListed
<1>1. IInv /\ WInv => FrontierListed
  <2> SUFFICES ASSUME IInv, WInv, pc = "edge",
                      NEW v \in V, HasColoured(graph, colour, v), HasUncoloured(graph, colour, v)
               PROVE  v \in Range(list)
    BY DEF FrontierListed, HasColoured, HasUncoloured
  <2>1. Occurs(list, v)
    BY DEF WInv, EdgeWalk, Frontier
  <2>2. Range(list) = {list[n] : n \in 1..Len(list)}
    BY RangeEquality DEF IInv, TypeOK
  <2> QED BY <2>1, <2>2 DEF Occurs
<1> QED BY <1>1, AlwaysIInv, AlwaysWInv, PTL

-----------------------------------------------------------------------------
\* A colouring col is a part of F.
Ext(g, F, col) ==
    \A v \in V : \A k \in Ports :
        col[Edge(g, v, k)] # NoColour => F[Edge(g, v, k)] = col[Edge(g, v, k)]

\* F gives the uncoloured edges of v the colours of option o.
FitsAt(g, F, col, v, options, o) ==
    \A k \in Ports : col[Edge(g, v, k)] = NoColour =>
        F[Edge(g, v, k)] = options[((o + Rank(g, col, v, k)) % Len(options)) + 1]

Fits(g, F, f, o) == FitsAt(g, F, f.inColour, f.vertex, f.options, o)

\* The call was given a part of F and is at the option that agrees with F.
OnPath(g, F, f) == Ext(g, F, f.inColour) /\ (f.options = <<>> \/ Fits(g, F, f, f.i))

\* A call that was given a part of F still has such an option before it.
Untried(g, F, f) ==
    Ext(g, F, f.inColour) /\ f.options # <<>> =>
        \E o \in f.i..Len(f.options) - 1 : Fits(g, F, f, o)

RootFits(g, F, p) == \A k \in Ports : F[Edge(g, root, k)] = Perms[p][k]

Path(F) ==
    /\ \E p \in perm..6 : RootFits(graph, F, p)
    /\ \A d \in 1..Len(frames) : Untried(graph, F, frames[d])
    /\ \A d \in 1..Len(frames) - 1 :
         OnPath(graph, F, frames[d]) => Ext(graph, F, frames[d + 1].inColour)
    /\ frames # <<>> /\ RootFits(graph, F, perm) => Ext(graph, F, frames[1].inColour)
    /\ pc = "edge" /\ OnPath(graph, F, top) => Ext(graph, F, colour) /\ coloured # "no"
    /\ pc = "returned" /\ frames = <<>> => ~ RootFits(graph, F, perm)
    /\ pc = "returned" /\ frames # <<>> => ~ OnPath(graph, F, top)
    /\ pc # "done"

VInv == \A F \in [Edges(graph) -> Colours] : Proper(graph, F) => Path(F)

-----------------------------------------------------------------------------
\* The options of a call: the free colours in ascending order.
LEMMA OneOption ==
    ASSUME NEW free \in [Colours -> {1, -1}], NEW a \in Colours,
           \A c \in Colours : free[c] = 1 <=> c = a
    PROVE  Options(free) = <<a>>
<1>1. 0 \in Colours /\ 1 \in Colours /\ 2 \in Colours /\ (a = 0 \/ a = 1 \/ a = 2)
  BY DEF Colours
<1>2. /\ IfFree(free, 0) = IF a = 0 THEN <<0>> ELSE <<>>
      /\ IfFree(free, 1) = IF a = 1 THEN <<1>> ELSE <<>>
      /\ IfFree(free, 2) = IF a = 2 THEN <<2>> ELSE <<>>
  BY <1>1 DEF IfFree
<1>3. \A c : <<c>> \in Seq({c})
  OBVIOUS
<1> QED BY <1>1, <1>2, <1>3, ConcatEmptySeq DEF Options

\* Two sequences of one element in a row.
LEMMA TwoInARow ==
    ASSUME NEW c \in Colours, NEW d \in Colours
    PROVE  <<c>> \o <<d>> = <<c, d>>
<1>1. <<c>> \in Seq(Colours) /\ <<d>> \in Seq(Colours) /\ Len(<<c>>) = 1 /\ Len(<<d>>) = 1
  OBVIOUS
<1> DEFINE t == <<c>> \o <<d>>
<1>2. t \in Seq(Colours) /\ Len(t) = 2 /\ t[1] = c /\ t[2] = d
  BY <1>1, ConcatProperties
<1> HIDE DEF t
<1>3. <<c, d>> \in Seq(Colours) /\ Len(<<c, d>>) = 2
      /\ <<c, d>>[1] = c /\ <<c, d>>[2] = d
  OBVIOUS
<1>4. \A n \in 1..Len(t) : t[n] = <<c, d>>[n]
  BY <1>2, <1>3
<1>5. t = <<c, d>>
  BY <1>2, <1>3, <1>4, SeqEqual
<1> QED BY <1>5 DEF t

LEMMA TwoOptions ==
    ASSUME NEW free \in [Colours -> {1, -1}], NEW a \in Colours, NEW b \in Colours, a < b,
           \A c \in Colours : free[c] = 1 <=> c = a \/ c = b
    PROVE  Options(free) = <<a, b>>
<1>1. 0 \in Colours /\ 1 \in Colours /\ 2 \in Colours
  BY DEF Colours
<1>2. (a = 0 /\ b = 1) \/ (a = 0 /\ b = 2) \/ (a = 1 /\ b = 2)
  BY DEF Colours
<1>3. /\ IfFree(free, 0) = IF a = 0 THEN <<0>> ELSE <<>>
      /\ IfFree(free, 1) = IF a = 1 \/ b = 1 THEN <<1>> ELSE <<>>
      /\ IfFree(free, 2) = IF b = 2 THEN <<2>> ELSE <<>>
  BY <1>1, <1>2 DEF IfFree
<1>4. /\ <<0>> \o <<1>> = <<0, 1>> /\ <<0>> \o <<2>> = <<0, 2>> /\ <<1>> \o <<2>> = <<1, 2>>
      /\ <<0>> \in Seq(Colours) /\ <<1>> \in Seq(Colours) /\ <<0, 1>> \in Seq(Colours)
  <2>1. \A c, d \in Colours : <<c>> \in Seq(Colours) /\ <<c, d>> \in Seq(Colours)
    OBVIOUS
  <2> QED BY <1>1, <2>1, TwoInARow
<1>5. \A s \in Seq(Colours) : s \o <<>> = s /\ <<>> \o s = s
  BY ConcatEmptySeq
<1>6. CASE a = 0 /\ b = 1
  <2>1. IfFree(free, 0) = <<0>> /\ IfFree(free, 1) = <<1>> /\ IfFree(free, 2) = <<>>
    BY <1>3, <1>6
  <2> QED BY <1>4, <1>5, <1>6, <2>1 DEF Options
<1>7. CASE a = 0 /\ b = 2
  <2>1. IfFree(free, 0) = <<0>> /\ IfFree(free, 1) = <<>> /\ IfFree(free, 2) = <<2>>
    BY <1>3, <1>7
  <2> QED BY <1>4, <1>5, <1>7, <2>1 DEF Options
<1>8. CASE a = 1 /\ b = 2
  <2>1. IfFree(free, 0) = <<>> /\ IfFree(free, 1) = <<1>> /\ IfFree(free, 2) = <<2>>
    BY <1>3, <1>8
  <2> QED BY <1>4, <1>5, <1>8, <2>1 DEF Options
<1> QED BY <1>2, <1>6, <1>7, <1>8

\* A colour is free at a vertex when the full colouring gives it to an edge
\* that is not coloured yet.
LEMMA FreeIsLeft ==
    ASSUME NEW g, NEW col \in Colourings(g), NEW free \in FreeColours,
           FreeMatches(g, col, free),
           NEW F \in [Edges(g) -> Colours], Proper(g, F), Ext(g, F, col),
           NEW v \in V, NEW c \in Colours
    PROVE  free[v][c] = 1 <=>
             \E k \in Ports : col[Edge(g, v, k)] = NoColour /\ F[Edge(g, v, k)] = c
<1>1. PICK k \in Ports : \A j \in Ports : F[Edge(g, v, j)] = c <=> j = k
  BY EachColourOnce
<1>2. c # NoColour
  BY DEF Colours, NoColour
<1>3. free[v][c] = -1 <=> \E j \in Ports : col[Edge(g, v, j)] = c
  BY DEF FreeMatches
<1>4. \A j \in Ports : col[Edge(g, v, j)] = c => F[Edge(g, v, j)] = c
  BY <1>2 DEF Ext
<1>5. (\E j \in Ports : col[Edge(g, v, j)] = c) <=> col[Edge(g, v, k)] = c
  BY <1>1, <1>4
<1>6. col[Edge(g, v, k)] = c <=> col[Edge(g, v, k)] # NoColour
  BY <1>1, <1>2 DEF Ext
<1>7. free[v][c] = 1 <=> free[v][c] # -1
  BY DEF FreeColours
<1> QED BY <1>1, <1>3, <1>5, <1>6, <1>7

\* The ranks of two uncoloured edges when the third edge has a colour.
LEMMA RankOfTwo ==
    ASSUME NEW g, NEW col, NEW v, NEW a \in Ports, NEW b \in Ports, a < b,
           \A k \in Ports : col[Edge(g, v, k)] = NoColour <=> k = a \/ k = b
    PROVE  Rank(g, col, v, a) = 0 /\ Rank(g, col, v, b) = 1
<1>1. 1 \in Ports /\ 2 \in Ports /\ 3 \in Ports
  BY DEF Ports
<1>2. (a = 1 /\ b = 2) \/ (a = 1 /\ b = 3) \/ (a = 2 /\ b = 3)
  BY DEF Ports
<1>3. /\ Blanks(g, col, v, 1) = IF a = 1 THEN 1 ELSE 0
      /\ Blanks(g, col, v, 2) = IF a = 2 \/ b = 2 THEN 1 ELSE 0
  BY <1>1, <1>2 DEF Blanks
<1> QED BY <1>2, <1>3 DEF Rank

\* The rotations leave nothing out at a vertex that has a coloured edge.
LEMMA OptionFits ==
    ASSUME NEW g, NEW col \in Colourings(g), NEW free \in FreeColours,
           FreeMatches(g, col, free),
           NEW F \in [Edges(g) -> Colours], Proper(g, F), Ext(g, F, col),
           NEW v \in V, HasColoured(g, col, v), Options(free[v]) # <<>>
    PROVE  \E o \in 0..Len(Options(free[v])) - 1 : FitsAt(g, F, col, v, Options(free[v]), o)
<1> DEFINE Blank1(k) == col[Edge(g, v, k)] = NoColour
           opts == Options(free[v])
<1>1. free[v] \in [Colours -> {1, -1}]
  BY DEF FreeColours
<1>2. \A c \in Colours : free[v][c] = 1 <=> \E k \in Ports : Blank1(k) /\ F[Edge(g, v, k)] = c
  BY FreeIsLeft
<1>3. \E k \in Ports : Blank1(k)
  BY <1>1, <1>2, OptionsAre
<1>4. \E k \in Ports : ~ Blank1(k)
  BY DEF HasColoured
<1>5. \A k \in Ports : F[Edge(g, v, k)] \in Colours
  BY DEF Edges
<1>6. \/ \E a \in Ports : \A k \in Ports : Blank1(k) <=> k = a
      \/ \E a, b \in Ports : a < b /\ \A k \in Ports : Blank1(k) <=> k = a \/ k = b
  <2> HIDE DEF Blank1
  <2> QED BY <1>3, <1>4 DEF Ports
<1>7. CASE \E a \in Ports : \A k \in Ports : Blank1(k) <=> k = a
  <2>1. PICK a \in Ports : \A k \in Ports : Blank1(k) <=> k = a
    BY <1>7
  <2>2. opts = <<F[Edge(g, v, a)]>>
    BY <1>1, <1>2, <1>5, <2>1, OneOption
  <2>3. \A n \in Nat : n % 1 = 0
    OBVIOUS
  <2>4. Rank(g, col, v, a) \in Nat /\ 0 + Rank(g, col, v, a) = Rank(g, col, v, a)
    BY RankNext
  <2>5. FitsAt(g, F, col, v, opts, 0)
    BY <2>1, <2>2, <2>3, <2>4 DEF FitsAt
  <2> QED BY <2>2, <2>5
<1>8. CASE \E a, b \in Ports : a < b /\ \A k \in Ports : Blank1(k) <=> k = a \/ k = b
  <2>1. PICK a, b \in Ports : a < b /\ \A k \in Ports : Blank1(k) <=> k = a \/ k = b
    BY <1>8
  <2> DEFINE x == F[Edge(g, v, a)]
             y == F[Edge(g, v, b)]
  <2>2. Rank(g, col, v, a) = 0 /\ Rank(g, col, v, b) = 1
    BY <2>1, RankOfTwo
  <2>3. x \in Colours /\ y \in Colours /\ x # NoColour
    BY <1>5 DEF Colours, NoColour
  <2>4. a # b
    BY <2>1 DEF Ports
  <2>5. x # y
    BY <2>3, <2>4 DEF Proper
  <2>6. \A c \in Colours : free[v][c] = 1 <=> c = x \/ c = y
    BY <1>2, <2>1
  <2>7. (0 + 0) % 2 = 0 /\ (0 + 1) % 2 = 1 /\ (1 + 0) % 2 = 1 /\ (1 + 1) % 2 = 0
    OBVIOUS
  <2>8. CASE x < y
    <3>1. opts = <<x, y>>
      <4> HIDE DEF x, y
      <4> QED BY <1>1, <2>3, <2>6, <2>8, TwoOptions
    <3>2. Len(opts) = 2 /\ opts[1] = x /\ opts[2] = y
      BY <3>1
    <3>3. FitsAt(g, F, col, v, opts, 0)
      BY <2>1, <2>2, <2>7, <3>2 DEF FitsAt
    <3> QED BY <3>2, <3>3
  <2>9. CASE y < x
    <3>1. opts = <<y, x>>
      <4> HIDE DEF x, y
      <4> QED BY <1>1, <2>3, <2>6, <2>9, TwoOptions
    <3>2. Len(opts) = 2 /\ opts[1] = y /\ opts[2] = x
      BY <3>1
    <3>3. FitsAt(g, F, col, v, opts, 1)
      BY <2>1, <2>2, <2>7, <3>2 DEF FitsAt
    <3> QED BY <3>2, <3>3
  <2>10. x < y \/ y < x
    <3> HIDE DEF x, y
    <3> QED BY <2>3, <2>5 DEF Colours
  <2> QED BY <2>8, <2>9, <2>10
<1> QED BY <1>6, <1>7, <1>8

-----------------------------------------------------------------------------
LEMMA CallPath ==
    ASSUME IInv, WInv, NEW F \in [Edges(graph) -> Colours], Proper(graph, F), Path(F),
           UNCHANGED <<graph, perm, colour>>,
           NEW lst \in Seq(V), lst # <<>>, Reached(graph, colour, lst),
           Call(Last(lst), colour, avail, lst),
           frames = <<>> /\ RootFits(graph, F, perm) => Ext(graph, F, colour),
           frames # <<>> /\ OnPath(graph, F, top) => Ext(graph, F, colour)
    PROVE  Path(F)'
<1>1. Last(lst) \in V
  BY LastOf
<1>2. CASE pc' = "overflow" /\ frames' = frames
  BY <1>2 DEF Path
<1>3. CASE ~ (pc' = "overflow" /\ frames' = frames)
  <2> DEFINE m == Len(frames)
  <2>1. /\ pc' = "option" /\ frames' # <<>>
        /\ m \in Nat /\ Len(frames') = m + 1
        /\ \A d \in 1..m : frames'[d] = frames[d]
        /\ top' = frames'[m + 1]
        /\ top'.vertex = Last(lst) /\ top'.options = Options(avail[Last(lst)]) /\ top'.i = 0
        /\ top'.inColour = colour
    BY <1>1, <1>3, PushedFrames
  <2>2. m # 0 => frames # <<>> /\ top = frames[m] /\ m \in 1..m
    BY <2>1, EmptySeq DEF top, Last
  <2>3. m = 0 => frames = <<>>
    BY EmptySeq DEF IInv
  <2>4. Untried(graph, F, top')
    <3> SUFFICES ASSUME Ext(graph, F, colour), Options(avail[Last(lst)]) # <<>>
                 PROVE  \E o \in 0..Len(Options(avail[Last(lst)])) - 1 :
                          FitsAt(graph, F, colour, Last(lst), Options(avail[Last(lst)]), o)
      BY <2>1 DEF Untried, Fits
    <3>1. Len(lst) \in 1..Len(lst)
      <4>1. Len(lst) \in Nat \ {0}
        BY EmptySeq
      <4> QED BY <4>1
    <3>2. HasColoured(graph, colour, Last(lst))
      BY <3>1 DEF Reached, Last
    <3>3. /\ colour \in Colourings(graph) /\ avail \in FreeColours
          /\ FreeMatches(graph, colour, avail)
      BY DEF IInv, TypeOK, Consistent
    <3> QED BY <1>1, <3>2, <3>3, OptionFits
  <2>5. \A d \in 1..m + 1 : Untried(graph, F, frames'[d])
    <3> TAKE d \in 1..m + 1
    <3>1. CASE d = m + 1
      BY <2>1, <2>4, <3>1
    <3>2. CASE d \in 1..m
      BY <2>1, <3>2 DEF Path
    <3> QED BY <2>1, <3>1, <3>2
  <2>6. \A d \in 1..m : OnPath(graph, F, frames'[d]) => Ext(graph, F, frames'[d + 1].inColour)
    <3> SUFFICES ASSUME NEW d \in 1..m, OnPath(graph, F, frames[d])
                 PROVE  Ext(graph, F, frames'[d + 1].inColour)
      BY <2>1
    <3>1. CASE d = m
      BY <2>1, <2>2, <3>1
    <3>2. CASE d # m
      <4>1. d \in 1..m - 1 /\ d + 1 \in 1..m
        BY <2>1, <3>2
      <4>2. frames'[d + 1] = frames[d + 1]
        BY <2>1, <4>1
      <4> QED BY <4>1, <4>2 DEF Path
    <3> QED BY <3>1, <3>2
  <2>7. RootFits(graph, F, perm) => Ext(graph, F, frames'[1].inColour)
    <3>1. CASE m = 0
      BY <2>1, <2>3, <3>1
    <3>2. CASE m # 0
      <4>1. 1 \in 1..m
        BY <2>1, <3>2
      <4> QED BY <2>1, <2>2, <3>2, <4>1 DEF Path
    <3> QED BY <3>1, <3>2
  <2>8. m + 1 - 1 = m
    BY <2>1
  <2> HIDE DEF m
  <2> QED BY <2>1, <2>5, <2>6, <2>7, <2>8 DEF Path
<1> QED BY <1>2, <1>3

\* A call that was not given a part of F returns FALSE.
LEMMA ReturnPath ==
    ASSUME IInv, NEW F, Path(F), UNCHANGED <<graph, perm>>,
           frames # <<>>, Return(FALSE), ~ Ext(graph, F, top.inColour)
    PROVE  Path(F)'
<1> DEFINE m == Len(frames)
<1>1. /\ pc' = "returned"
      /\ m \in Nat \ {0} /\ Len(frames') = m - 1
      /\ \A d \in 1..m - 1 : frames'[d] = frames[d]
      /\ frames' # <<>> <=> m > 1
      /\ frames' # <<>> => top' = frames[m - 1]
      /\ top = frames[m]
  <2>1. \A d \in 1..Len(frames') : frames'[d] = frames[d]
    BY PoppedFrames
  <2> QED BY <2>1, PoppedFrames, TopOfStack
<1> HIDE DEF m
<1>2. \A d \in 1..m - 1 : d \in 1..m
  BY <1>1
<1>3. \A d \in 1..m - 1 : Untried(graph, F, frames'[d])
  BY <1>1, <1>2 DEF Path, m
<1>4. \A d \in 1..m - 1 - 1 : d \in 1..m - 1 /\ d + 1 \in 1..m - 1
  BY <1>1
<1>5. \A d \in 1..m - 1 - 1 : OnPath(graph, F, frames'[d]) => Ext(graph, F, frames'[d + 1].inColour)
  BY <1>1, <1>4 DEF Path, m
<1>6. frames' # <<>> => 1 \in 1..m - 1 /\ m - 1 \in 1..m - 1 /\ m - 1 + 1 = m
  BY <1>1
<1>7. frames' # <<>> /\ RootFits(graph, F, perm) => Ext(graph, F, frames'[1].inColour)
  BY <1>1, <1>6 DEF Path
<1>8. frames' = <<>> => ~ RootFits(graph, F, perm)
  <2>1. frames' = <<>> => m = 1
    BY <1>1
  <2> QED BY <1>1, <2>1 DEF Path
<1>9. frames' # <<>> => ~ OnPath(graph, F, top')
  BY <1>1, <1>6 DEF Path, m
<1> QED BY <1>1, <1>3, <1>5, <1>7, <1>8, <1>9 DEF Path

\* A call that is not at an option that agrees with F goes on to the next.
LEMMA NextOptionPath ==
    ASSUME IInv, NEW F, Path(F), UNCHANGED <<graph, perm>>,
           frames # <<>>, top.options # <<>>, ~ OnPath(graph, F, top), pc' = "option",
           frames' = [frames EXCEPT ![Len(frames)].i = @ + 1]
    PROVE  Path(F)'
<1> DEFINE m == Len(frames)
<1>1. /\ m \in Nat \ {0} /\ Len(frames') = m
      /\ \A d \in 1..m - 1 : frames'[d] = frames[d]
      /\ top = frames[m] /\ top' = frames'[m]
      /\ top'.vertex = top.vertex /\ top'.options = top.options /\ top'.i = top.i + 1
      /\ top'.inColour = top.inColour
      /\ top.i \in Nat /\ Len(top.options) \in Nat
  BY BumpedFrames, TopOfStack
<1> HIDE DEF m
<1>2. \A d \in 1..m : frames'[d].inColour = frames[d].inColour
  <2> TAKE d \in 1..m
  <2>1. d = m \/ d \in 1..m - 1
    BY <1>1
  <2> QED BY <1>1, <2>1
<1>3. Untried(graph, F, top')
  <2> SUFFICES ASSUME Ext(graph, F, top.inColour)
               PROVE  \E o \in top.i + 1..Len(top.options) - 1 : Fits(graph, F, top, o)
    BY <1>1 DEF Untried, Fits
  <2>1. m \in 1..m
    BY <1>1
  <2>2. PICK o \in top.i..Len(top.options) - 1 : Fits(graph, F, top, o)
    BY <1>1, <2>1 DEF Path, Untried, m
  <2>3. o # top.i
    BY <2>2 DEF OnPath
  <2>4. o \in top.i + 1..Len(top.options) - 1
    BY <1>1, <2>2, <2>3
  <2> QED BY <2>2, <2>4
<1>4. \A d \in 1..m : Untried(graph, F, frames'[d])
  <2> TAKE d \in 1..m
  <2>1. d = m \/ d \in 1..m - 1
    BY <1>1
  <2> QED BY <1>1, <1>3, <2>1 DEF Path, m
<1>5. \A d \in 1..m - 1 : d \in 1..m /\ d + 1 \in 1..m
  BY <1>1
<1>6. \A d \in 1..m - 1 : OnPath(graph, F, frames'[d]) => Ext(graph, F, frames'[d + 1].inColour)
  BY <1>1, <1>2, <1>5 DEF Path, m
<1>7. 1 \in 1..m
  BY <1>1
<1>8. RootFits(graph, F, perm) => Ext(graph, F, frames'[1].inColour)
  BY <1>2, <1>7 DEF Path
<1> QED BY <1>1, <1>4, <1>6, <1>8 DEF Path

-----------------------------------------------------------------------------
\* A full colouring gives the root the colours of one of the six permutations.
LEMMA RootPermutation ==
    ASSUME NEW g, NEW F \in [Edges(g) -> Colours], Proper(g, F)
    PROVE  \E p \in 1..6 : RootFits(g, F, p)
<1> DEFINE a == F[Edge(g, root, 1)]
           b == F[Edge(g, root, 2)]
           d == F[Edge(g, root, 3)]
<1>1. \A k \in Ports : F[Edge(g, root, k)] \in Colours
  BY RootAssumption DEF Edges
<1>2. \A j, k \in Ports : j # k => F[Edge(g, root, j)] # F[Edge(g, root, k)]
  BY <1>1, RootAssumption DEF Proper, Colours, NoColour
<1>3. 1 \in Ports /\ 2 \in Ports /\ 3 \in Ports /\ \A k \in Ports : k = 1 \/ k = 2 \/ k = 3
  BY DEF Ports
<1>4. a \in Colours /\ b \in Colours /\ d \in Colours /\ a # b /\ a # d /\ b # d
  BY <1>1, <1>2, <1>3
<1>5. ASSUME NEW p \in 1..6, Perms[p][1] = a, Perms[p][2] = b, Perms[p][3] = d
      PROVE  RootFits(g, F, p)
  BY <1>3, <1>5 DEF RootFits
<1> HIDE DEF a, b, d
<1>6. \E p \in 1..6 : Perms[p][1] = a /\ Perms[p][2] = b /\ Perms[p][3] = d
  <2>1. \/ (a = 0 /\ b = 1 /\ d = 2) \/ (a = 0 /\ b = 2 /\ d = 1)
        \/ (a = 1 /\ b = 0 /\ d = 2) \/ (a = 1 /\ b = 2 /\ d = 0)
        \/ (a = 2 /\ b = 0 /\ d = 1) \/ (a = 2 /\ b = 1 /\ d = 0)
    BY <1>4 DEF Colours
  <2>2. /\ Perms[1] = <<0,1,2>> /\ Perms[2] = <<0,2,1>> /\ Perms[3] = <<1,0,2>>
        /\ Perms[4] = <<1,2,0>> /\ Perms[5] = <<2,0,1>> /\ Perms[6] = <<2,1,0>>
    BY DEF Perms
  <2>3. 1 \in 1..6 /\ 2 \in 1..6 /\ 3 \in 1..6 /\ 4 \in 1..6 /\ 5 \in 1..6 /\ 6 \in 1..6
    OBVIOUS
  <2> QED BY <2>1, <2>2, <2>3
<1> QED BY <1>5, <1>6

LEMMA InitPath ==
    ASSUME Init, NEW F \in [Edges(graph) -> Colours], Proper(graph, F)
    PROVE  Path(F)
<1>1. perm = 1 /\ frames = <<>> /\ Len(frames) = 0 /\ pc = "root"
  BY EmptySeq DEF Init
<1> QED BY <1>1, RootPermutation DEF Path

LEMMA RootEdgePath ==
    ASSUME NEW F, Path(F), IInv, RootEdge
    PROVE  Path(F)'
<1>1. /\ pc' \in {"root", "while"} /\ frames = <<>> /\ Len(frames) = 0
      /\ UNCHANGED <<graph, perm, frames>>
  BY EmptySeq DEF RootEdge, IInv, RootPhase
<1> QED BY <1>1 DEF Path

LEMMA WhileLoopPath ==
    ASSUME IInv, WInv, NEW F \in [Edges(graph) -> Colours], Proper(graph, F), Path(F), WhileLoop
    PROVE  Path(F)'
<1>1. /\ pc = "while" /\ list # <<>> /\ list \in Seq(V) /\ frames = <<>>
      /\ UNCHANGED <<graph, perm, colour>>
  BY DEF WhileLoop, IInv, TypeOK
<1>2. Call(Last(list), colour, avail, list)
  BY <1>1 DEF WhileLoop
<1>3. RootFits(graph, F, perm) => Ext(graph, F, colour)
  <2> SUFFICES ASSUME RootFits(graph, F, perm), NEW v \in V, NEW k \in Ports,
                      colour[Edge(graph, v, k)] # NoColour
               PROVE  F[Edge(graph, v, k)] = colour[Edge(graph, v, k)]
    BY DEF Ext
  <2>1. PICK j \in Ports : Edge(graph, v, k) = Edge(graph, root, j)
    BY <1>1, RootListed
  <2>2. colour[Edge(graph, root, j)] = Perms[perm][j]
    BY <1>1, RootListed
  <2> QED BY <2>1, <2>2 DEF RootFits
<1> QED BY <1>1, <1>2, <1>3, RootListed, CallPath

LEMMA NothingFreePath ==
    ASSUME IInv, WInv, NEW F \in [Edges(graph) -> Colours], Proper(graph, F), Path(F),
           NothingFree
    PROVE  Path(F)'
<1>1. /\ pc = "option" /\ top.options = <<>> /\ frames # <<>> /\ list = top.localList
      /\ UNCHANGED <<graph, perm, colour>>
  BY DEF IInv, NothingFree
<1>2. list \in Seq(V) /\ list # <<>>
  BY <1>1, TopOfStack
<1>3. Call(Last(list), colour, avail, list)
  BY <1>2 DEF NothingFree
<1>4. colour = top.inColour
  BY <1>1 DEF WInv, OptionWalk
<1>5. Reached(graph, colour, list)
  BY <1>1, <1>4, TopOfStack DEF GoodCall
<1>6. OnPath(graph, F, top) => Ext(graph, F, colour)
  BY <1>4 DEF OnPath
<1> QED BY <1>1, <1>2, <1>3, <1>5, <1>6, CallPath

LEMMA BeginOptionPath ==
    ASSUME IInv, NEW F, Path(F), BeginOption
    PROVE  Path(F)'
<1>1. /\ pc' = "edge" /\ frames # <<>> /\ colour' = top.inColour /\ coloured' = "unset"
      /\ UNCHANGED <<graph, perm, frames>>
  BY DEF IInv, BeginOption
<1>2. top' = top
  BY <1>1 DEF top
<1>3. OnPath(graph, F, top) => Ext(graph, F, colour') /\ coloured' # "no"
  BY <1>1 DEF OnPath
<1> QED BY <1>1, <1>2, <1>3 DEF Path

\* Where the last option was tried, the call was not given a part of F.
LEMMA OptionsExhaustedPath ==
    ASSUME IInv, NEW F, Path(F), OptionsExhausted
    PROVE  Path(F)'
<1>1. /\ frames # <<>> /\ Return(FALSE) /\ UNCHANGED <<graph, perm>>
      /\ top.options # <<>> /\ top.i >= Len(top.options)
  BY DEF IInv, OptionsExhausted
<1>2. Untried(graph, F, top) /\ top.i \in Nat /\ Len(top.options) \in Nat
  BY <1>1, TopOfStack DEF Path
<1>3. \A o \in top.i..Len(top.options) - 1 : FALSE
  BY <1>1, <1>2
<1>4. ~ Ext(graph, F, top.inColour)
  BY <1>1, <1>2, <1>3 DEF Untried
<1> QED BY <1>1, <1>4, ReturnPath

LEMMA SkipEdgePath ==
    ASSUME NEW F, Path(F), SkipEdge
    PROVE  Path(F)'
<1>1. UNCHANGED <<graph, perm, frames, colour, coloured, pc>> /\ top' = top
  BY DEF SkipEdge, top
<1> QED BY <1>1 DEF Path

\* On the path the option gives the next uncoloured edge the colour F gives it.
LEMMA ChoiceAgrees ==
    ASSUME IInv, WInv, NEW F, Path(F), pc = "edge", port \in Ports,
           colour[Edge(graph, top.vertex, port)] = NoColour, OnPath(graph, F, top)
    PROVE  /\ Ext(graph, F, colour) /\ coloured # "no"
           /\ F[Edge(graph, top.vertex, port)] = Choice
<1>1. Ext(graph, F, colour) /\ coloured # "no"
  BY DEF Path
<1>2. top.options # <<>>
  BY EdgeFacts, EmptySeq, TopIsGood
<1>3. /\ top.inColour[Edge(graph, top.vertex, port)] = NoColour
      /\ order = Rank(graph, top.inColour, top.vertex, port)
  BY <1>1 DEF WInv, EdgeWalk, Ports
<1>4. Fits(graph, F, top, top.i)
  BY <1>2 DEF OnPath
<1> QED BY <1>1, <1>3, <1>4 DEF Fits, FitsAt, Choice

LEMMA ColourEdgePath ==
    ASSUME IInv, WInv, NEW F, Path(F), ColourEdge
    PROVE  Path(F)'
<1>1. PICK v \in V, k \in Ports : v = top.vertex /\ k = port
  BY ColourEdgeDoes
<1>2. /\ \A x \in V : \A j \in Ports :
           /\ Edge(graph, x, j) = Edge(graph, v, k) => colour'[Edge(graph, x, j)] = Choice
           /\ Edge(graph, x, j) # Edge(graph, v, k) =>
                colour'[Edge(graph, x, j)] = colour[Edge(graph, x, j)]
      /\ colour[Edge(graph, v, k)] = NoColour
      /\ pc = "edge" /\ coloured' = "yes" /\ top' = top
      /\ UNCHANGED <<graph, perm, frames, ret, pc>>
  BY <1>1, ColourEdgeDoes
<1>3. OnPath(graph, F, top) => Ext(graph, F, colour')
  <2> SUFFICES ASSUME OnPath(graph, F, top), NEW x \in V, NEW j \in Ports,
                      colour'[Edge(graph, x, j)] # NoColour
               PROVE  F[Edge(graph, x, j)] = colour'[Edge(graph, x, j)]
    BY DEF Ext
  <2>1. Ext(graph, F, colour) /\ F[Edge(graph, v, k)] = Choice
    BY <1>1, <1>2, ChoiceAgrees
  <2> QED BY <1>2, <2>1 DEF Ext
<1>4. pc' = "edge" /\ coloured' # "no"
  BY <1>2
<1> QED BY <1>2, <1>3, <1>4 DEF Path

\* An edge is never refused the colour F gives it.
LEMMA EdgeRefusedPath ==
    ASSUME IInv, WInv, NEW F \in [Edges(graph) -> Colours], Proper(graph, F), Path(F),
           EdgeRefused
    PROVE  Path(F)'
<1>1. PICK v \in V, w \in V, k \in Ports : v = top.vertex /\ k = port /\ w = graph[v][k]
  <2>1. port \in Ports /\ pc = "edge"
    BY DEF EdgeRefused
  <2> QED BY <2>1, EdgeFacts, NeighbourIsVertex
<1>2. /\ pc = "edge" /\ colour[Edge(graph, v, k)] = NoColour /\ ~ CanPaint(v, w, Choice)
      /\ UNCHANGED <<graph, perm, frames, colour, pc>> /\ top' = top
  BY <1>1 DEF EdgeRefused, top
<1>3. Choice \in Colours /\ Choice # NoColour
  BY <1>2, ChoiceIsColour DEF Colours, NoColour
<1>4. ~ OnPath(graph, F, top)
  <2> SUFFICES ASSUME OnPath(graph, F, top) PROVE FALSE
    OBVIOUS
  <2>1. Ext(graph, F, colour) /\ F[Edge(graph, v, k)] = Choice
    BY <1>1, <1>2, ChoiceAgrees
  <2>2. PICK m \in Ports : graph[w][m] = v
    <3>1. IsCubicGraph(graph)
      BY <1>2, EdgeFacts, GraphIsCubic
    <3> QED BY <1>1, <3>1 DEF IsCubicGraph
  <2>3. Edge(graph, w, m) = Edge(graph, v, k)
    BY <1>1, <2>2, PairEqual DEF Edge
  <2>4. PICK x \in V, n \in Ports :
          /\ Edge(graph, x, n) = Edge(graph, v, k)
          /\ avail[x][Choice] = -1
    <3>1. avail[v][Choice] = -1 \/ avail[w][Choice] = -1
      BY <1>2, <1>3 DEF CanPaint, IInv, TypeOK, FreeColours
    <3> QED BY <2>3, <3>1
  <2>5. PICK j \in Ports : colour[Edge(graph, x, j)] = Choice
    BY <1>3, <2>4 DEF IInv, Consistent, FreeMatches
  <2>6. F[Edge(graph, x, j)] = Choice /\ F[Edge(graph, x, n)] = Choice
    BY <1>3, <2>1, <2>4, <2>5 DEF Ext
  <2>7. j # n
    BY <1>2, <1>3, <2>4, <2>5
  <2> QED BY <1>3, <2>6, <2>7 DEF Proper
<1> QED BY <1>2, <1>4 DEF Path

\* An option failed that does not agree with F.
LEMMA BacktrackPath ==
    ASSUME IInv, NEW F, Path(F), Backtrack
    PROVE  Path(F)'
<1>1. /\ pc = "edge" /\ port = 4 /\ "no" \in ColouredValues /\ UNCHANGED <<graph, perm>>
  BY DEF Backtrack
<1>2. coloured = "no"
  BY <1>1, AssignedBeforeRead DEF ColouredValues
<1>3. frames # <<>> /\ top.options # <<>>
  BY <1>1, EdgeFacts, EmptySeq, TopIsGood
<1>4. ~ OnPath(graph, F, top)
  BY <1>1, <1>2 DEF Path
<1>5. CASE top.i + 1 = Len(top.options)
  <2>1. Untried(graph, F, top) /\ top.i \in Nat /\ Len(top.options) \in Nat
    BY <1>3, TopOfStack DEF Path
  <2>2. \A o \in top.i..Len(top.options) - 1 : o = top.i
    BY <1>5, <2>1
  <2>3. ~ Ext(graph, F, top.inColour)
    BY <1>3, <1>4, <2>1, <2>2 DEF Untried, OnPath
  <2>4. Return(FALSE)
    BY <1>5 DEF Backtrack
  <2> QED BY <1>1, <1>3, <2>3, <2>4, ReturnPath
<1>6. CASE top.i + 1 # Len(top.options)
  BY <1>1, <1>3, <1>4, <1>6, NextOptionPath DEF Backtrack
<1> QED BY <1>5, <1>6

LEMMA AdvancePath ==
    ASSUME IInv, WInv, NEW F \in [Edges(graph) -> Colours], Proper(graph, F), Path(F), Advance
    PROVE  Path(F)'
<1>1. /\ pc = "edge" /\ port = 4 /\ "yes" \in ColouredValues
      /\ UNCHANGED <<graph, perm, colour>>
  BY DEF Advance
<1>2. coloured = "yes"
  BY <1>1, AssignedBeforeRead DEF ColouredValues
<1>3. frames # <<>> /\ (OnPath(graph, F, top) => Ext(graph, F, colour))
  BY <1>1, EdgeFacts DEF Path
<1>4. /\ Front(list) \in Seq(V) /\ Front(list) # <<>>
      /\ Reached(graph, colour, Front(list))
      /\ Call(Last(Front(list)), colour, avail, Front(list))
  BY <1>1, <1>2, AdvanceCalls
<1> QED BY <1>1, <1>3, <1>4, CallPath

LEMMA AfterCallPath ==
    ASSUME IInv, NEW F, Path(F), AfterCall
    PROVE  Path(F)'
<1>1. pc = "returned" /\ frames # <<>> /\ UNCHANGED <<graph, perm>> /\ ~ ret
  BY DEF AfterCall, IInv
<1>2. ~ OnPath(graph, F, top)
  BY <1>1 DEF Path
<1>3. CASE top.options = <<>>
  <2>1. Return(FALSE)
    BY <1>1, <1>3 DEF AfterCall, IInv, TypeOK
  <2> QED BY <1>1, <1>2, <1>3, <2>1, ReturnPath DEF OnPath
<1>4. CASE top.options # <<>>
  BY <1>1, <1>2, <1>4, NextOptionPath DEF AfterCall
<1> QED BY <1>3, <1>4

\* The permutation that failed was not that of F: F's comes later.
LEMMA AfterSearchPath ==
    ASSUME IInv, NEW F, Path(F), AfterSearch
    PROVE  Path(F)'
<1>1. /\ pc = "returned" /\ frames = <<>> /\ ~ ret /\ Len(frames) = 0
      /\ UNCHANGED <<graph, frames>> /\ perm \in 1..6 /\ Len(Perms) = 6
  BY EmptySeq, PermsAre DEF IInv, TypeOK, AfterSearch
<1>2. PICK p \in perm..6 : RootFits(graph, F, p)
  BY DEF Path
<1>3. p # perm
  BY <1>1, <1>2 DEF Path
<1>4. perm < 6 /\ p \in perm + 1..6
  BY <1>1, <1>2, <1>3
<1>5. perm' = perm + 1 /\ pc' = "root"
  BY <1>1, <1>4 DEF AfterSearch
<1> QED BY <1>1, <1>2, <1>4, <1>5 DEF Path

LEMMA StutterPath ==
    ASSUME NEW F, Path(F), UNCHANGED vars
    PROVE  Path(F)'
<1>1. UNCHANGED vars /\ top' = top
  BY DEF vars, top
<1> QED BY <1>1 DEF Path, vars

LEMMA NextPath == IInv /\ WInv /\ VInv /\ [Next]_vars => VInv'
<1> SUFFICES ASSUME IInv, WInv, VInv, [Next]_vars PROVE VInv'
  OBVIOUS
<1>1. graph' = graph
  BY DEF Next, vars, RootEdge, WhileLoop, NothingFree, BeginOption, OptionsExhausted, SkipEdge,
         ColourEdge, EdgeRefused, Backtrack, Advance, AfterCall, AfterSearch
<1>2. ASSUME NEW F \in [Edges(graph) -> Colours], Proper(graph, F)
      PROVE  Path(F)'
  <2>1. Path(F)
    BY <1>2 DEF VInv
  <2> QED BY <1>2, <2>1, RootEdgePath, WhileLoopPath, NothingFreePath, BeginOptionPath,
             OptionsExhaustedPath, SkipEdgePath, ColourEdgePath, EdgeRefusedPath, BacktrackPath,
             AdvancePath, AfterCallPath, AfterSearchPath, StutterPath DEF Next
<1> QED BY <1>1, <1>2 DEF VInv

(***************************************************************************)
(* "Graph not colourable!!!" (602) is printed only of graphs that have no  *)
(* 3-edge-colouring: the six permutations at the root and the rotations at *)
(* the other vertices leave no colouring out.                              *)
(***************************************************************************)
THEOREM SpecNotColourableIsRight == Spec => []NotColourableIsRight
<1>1. Init => VInv
  BY InitPath DEF VInv
<1>2. Spec => []VInv
  BY <1>1, NextPath, AlwaysIInv, AlwaysWInv, PTL DEF Spec
<1>3. IInv /\ VInv => NotColourableIsRight
  <2> SUFFICES ASSUME IInv, VInv, pc = "done" PROVE ~ Colourable(graph)
    BY DEF NotColourableIsRight
  <2>1. \A F \in [Edges(graph) -> Colours] : ~ Proper(graph, F)
    BY DEF VInv, Path
  <2> QED BY <2>1, ColourableMeans, GraphIsCubic DEF IInv
<1> QED BY <1>2, <1>3, AlwaysIInv, PTL
=============================================================================
