-------------------------- MODULE DepthFirst_proofs --------------------------
(***************************************************************************)
(* What holds of the depth-first search for every set of graphs with at    *)
(* most three edges a vertex and every root: the types (so the permutation *)
(* is never asked for a fourth colour), that front is never called on an   *)
(* empty stack, that no edge is made, lost or written in one direction     *)
(* only, and that a call which returns leaves the edge it came by as it    *)
(* found it.                                                               *)
(*                                                                         *)
(* The last one is about the copies the calls keep: along the active calls *)
(* each copy has the coloured edges of the one before and the edge between *)
(* the two, and what a call colours had no colour in its own copy.         *)
(*                                                                         *)
(* A second layer of the invariant, for the graphs whose root is no cut    *)
(* vertex, says that colouring and table stay sound, that a permutation    *)
(* begins with everything undone and that 1 is returned with a colouring.  *)
(*                                                                         *)
(* A third layer, for cubic graphs, says that 0 is returned only for a     *)
(* graph without a colouring.                                              *)
(***************************************************************************)
EXTENDS DepthFirst, ColouringLemmas

\* What is coloured in G has the same colour in H.
Below(G, H) == \A x, y \in V : G[x][y] > 1 => H[x][y] = G[x][y]

\* Each of the calls fs can give back G without losing what others coloured.
Restorable(fs, G) == \A d \in 1..Len(fs) : Below(fs[d].initGraph, G)

\* A deeper call found what the calls above it found, and their edges coloured.
Nested(fs) ==
    \A d, e \in 1..Len(fs) : d < e =>
        /\ Below(fs[d].initGraph, fs[e].initGraph)
        /\ fs[e].initGraph[fs[d].vertex][fs[d].i] = fs[d].act + 2

\* The first n calls wait for a call on an edge that had no colour.
Followed(fs, n) ==
    \A d \in 1..n : fs[d].i \in V /\ fs[d].initGraph[fs[d].vertex][fs[d].i] = 1

\* A call is on the other end of the edge its caller follows.
Linked(fs) == \A d \in 1..Len(fs) - 1 : fs[d + 1].vertex = fs[d].i

Trail(fs, G, n) == Restorable(fs, G) /\ Nested(fs) /\ Followed(fs, n) /\ Linked(fs)

Waiting == IF pc = "returned" THEN Len(frames) ELSE Len(frames) - 1

RootEdgesPassed == {k \in V : k < j /\ graph[root][k] = 1}

\* While the root is coloured: the stack holds the vertices passed.
RootPhase ==
    pc = "root" =>
        /\ Len(stack1) = addedVertexes
        /\ \A n \in 1..Len(stack1) : stack1[n] < j
        /\ actColor <= Cardinality(RootEdgesPassed)

\* While the root calls: one vertex on the stack for each call that is left.
CallsPhase ==
    /\ pc \in {"calls", "scan", "returned"} => Len(stack1) = addedVertexes - j
    /\ pc \in {"scan", "returned"} => j < addedVertexes
    /\ pc \in {"root", "calls", "done"} => frames = <<>>
    /\ pc = "scan" => frames # <<>>

IInv ==
    /\ TypeOK
    /\ EdgesKept
    /\ Trail(frames, graphColors, Waiting)
    /\ RootPhase
    /\ CallsPhase

-----------------------------------------------------------------------------
LEMMA LeastColour ==
    ASSUME NEW u, NEW w, FreeColours(u, w) # {}
    PROVE  Least(FreeColours(u, w)) \in FreeColours(u, w)
           /\ Least(FreeColours(u, w)) \in Colours
<1>1. FreeColours(u, w) \in SUBSET Nat
  BY DEF FreeColours, Colours
<1>2. Least(FreeColours(u, w)) \in FreeColours(u, w)
  BY <1>1, LeastIn
<1> QED BY <1>2 DEF FreeColours

LEMMA InputGraph ==
    ASSUME TypeOK
    PROVE  IsGraph(graph) /\ IsSubcubic(graph)
  BY GraphsAssumption DEF TypeOK

LEMMA LastFrame ==
    ASSUME frames \in Seq(FrameType), frames # <<>>
    PROVE  /\ Len(frames) \in Nat \ {0}
           /\ top = frames[Len(frames)] /\ top \in FrameType
  BY EmptySeq DEF top, Last

-----------------------------------------------------------------------------
\* The trail of calls.

LEMMA FrameIsTyped ==
    ASSUME NEW v \in V, NEW G \in Matrices, NEW U \in Tables
    PROVE  /\ Frame(v, G, U) \in FrameType
           /\ Frame(v, G, U).vertex = v /\ Frame(v, G, U).initGraph = G
           /\ Frame(v, G, U).initUsed = U
<1>1. 0 \in Nat /\ -1 \in {-1, 0, 1} /\ 0 \in Colours /\ FALSE \in BOOLEAN
  BY DEF Colours
<1>2. Frame(v, G, U) \in FrameType
  BY <1>1, Zenon DEF Frame, FrameType
<1> QED BY <1>2 DEF Frame

\* The matrix G with n in both cells of the edge {v, k}.
Painted(G, v, k, n) == [G EXCEPT ![v][k] = n, ![k][v] = n]

LEMMA PaintedType ==
    ASSUME NEW S, NEW G \in [V -> [V -> S]], NEW v \in V, NEW k \in V, NEW n \in S
    PROVE  Painted(G, v, k, n) \in [V -> [V -> S]]
  BY DEF Painted

LEMMA PaintedHere ==
    ASSUME NEW S, NEW G \in [V -> [V -> S]], NEW v \in V, NEW k \in V, NEW n \in S
    PROVE  Painted(G, v, k, n)[v][k] = n /\ Painted(G, v, k, n)[k][v] = n
  BY DEF Painted

LEMMA PaintedElsewhere ==
    ASSUME NEW S, NEW G \in [V -> [V -> S]], NEW v \in V, NEW k \in V, NEW n \in S,
           NEW x \in V, NEW y \in V, ~ (x = v /\ y = k), ~ (x = k /\ y = v)
    PROVE  Painted(G, v, k, n)[x][y] = G[x][y]
  BY DEF Painted

\* H is the matrix G but for the edge {v, k}, which has n.
Repainted(G, H, v, k, n) ==
    /\ H \in Matrices
    /\ H[v][k] = n /\ H[k][v] = n
    /\ \A x, y \in V : ~ (x = v /\ y = k) /\ ~ (x = k /\ y = v) => H[x][y] = G[x][y]

LEMMA PaintedMatrix ==
    ASSUME NEW G \in Matrices, NEW v \in V, NEW k \in V, NEW n \in 0..4
    PROVE  Repainted(G, Painted(G, v, k, n), v, k, n)
<1> DEFINE S == 0..4
<1>1. n \in S /\ G \in [V -> [V -> S]]
  BY DEF Matrices
<1>2. Matrices = [V -> [V -> S]]
  BY DEF Matrices
<1> HIDE DEF S
<1>3. Painted(G, v, k, n) \in [V -> [V -> S]]
  BY <1>1, PaintedType
<1>4. Painted(G, v, k, n)[v][k] = n /\ Painted(G, v, k, n)[k][v] = n
  BY <1>1, PaintedHere
<1>5. ASSUME NEW x \in V, NEW y \in V, ~ (x = v /\ y = k), ~ (x = k /\ y = v)
      PROVE  Painted(G, v, k, n)[x][y] = G[x][y]
  BY <1>1, <1>5, PaintedElsewhere
<1> QED BY <1>2, <1>3, <1>4, <1>5 DEF Repainted

LEMMA PaintedColouring ==
    ASSUME TypeOK, Colouring(graphColors),
           NEW v \in V, NEW k \in V, NEW n \in 0..4,
           n # 0, graph[v][k] # 0, UNCHANGED graph,
           Repainted(graphColors, graphColors', v, k, n)
    PROVE  Colouring(graphColors)'
<1>1. /\ graphColors'[v][k] = n /\ graphColors'[k][v] = n
      /\ \A x, y \in V : ~ (x = v /\ y = k) /\ ~ (x = k /\ y = v)
           => graphColors'[x][y] = graphColors[x][y]
  BY DEF Repainted
<1>2. graph[k][v] # 0
  BY InputGraph DEF IsGraph
<1>3. ASSUME NEW x \in V, NEW y \in V
      PROVE  graphColors'[x][y] = graphColors'[y][x]
             /\ (graphColors'[x][y] = 0 <=> graph[x][y] = 0)
  <2>1. CASE x = v /\ y = k
    BY <1>1, <1>2, <2>1
  <2>2. CASE x = k /\ y = v
    BY <1>1, <1>2, <2>2
  <2>3. CASE ~ (x = v /\ y = k) /\ ~ (x = k /\ y = v)
    <3>1. graphColors'[x][y] = graphColors[x][y] /\ graphColors'[y][x] = graphColors[y][x]
      BY <1>1, <2>3
    <3> QED BY <3>1 DEF Colouring
  <2> QED BY <2>1, <2>2, <2>3
<1> QED BY <1>3 DEF Colouring

\* An uncoloured edge of the current vertex was uncoloured when the call began.
LEMMA UncolouredSinceCall ==
    ASSUME TypeOK, EdgesKept, frames # <<>>, Below(top.initGraph, graphColors),
           NEW k \in V, graphColors[top.vertex][k] = 1
    PROVE  top.initGraph[top.vertex][k] = 1
<1>1. top \in FrameType /\ Len(frames) \in 1..Len(frames) /\ top = frames[Len(frames)]
  BY LastFrame DEF TypeOK
<1>2. top.vertex \in V /\ top.initGraph \in Matrices
  BY <1>1 DEF FrameType
<1>6. top.initGraph[top.vertex][k] \in 0..4
  BY <1>2 DEF Matrices
<1>3. graph[top.vertex][k] # 0
  BY <1>2 DEF EdgesKept, Colouring
<1>4. top.initGraph[top.vertex][k] # 0
  BY <1>1, <1>2, <1>3 DEF EdgesKept, Colouring
<1>5. ~ (top.initGraph[top.vertex][k] > 1)
  BY <1>2 DEF Below
<1> QED BY <1>4, <1>5, <1>6

-----------------------------------------------------------------------------
\* What the frames of a call stack are made of.
LEMMA FrameFields ==
    ASSUME NEW fs \in Seq(FrameType), NEW d \in 1..Len(fs)
    PROVE  /\ fs[d].vertex \in V /\ fs[d].i \in Nat /\ fs[d].act \in Colours
           /\ fs[d].initGraph \in Matrices /\ fs[d].initUsed \in Tables
<1>1. fs[d] \in FrameType
  BY ElementOfSeq
<1> QED BY <1>1 DEF FrameType

\* A copy in which an edge has no colour does not see the edge painted.
LEMMA BelowRepainted ==
    ASSUME NEW G, NEW H, NEW K, NEW v \in V, NEW k \in V, NEW m,
           Below(K, G), Repainted(G, H, v, k, m), ~ (K[v][k] > 1), ~ (K[k][v] > 1)
    PROVE  Below(K, H)
<1>1. ASSUME NEW x \in V, NEW y \in V, K[x][y] > 1
      PROVE  H[x][y] = K[x][y]
  <2>1. ~ (x = v /\ y = k) /\ ~ (x = k /\ y = v)
    BY <1>1
  <2>2. H[x][y] = G[x][y]
    BY <2>1 DEF Repainted
  <2>3. G[x][y] = K[x][y]
    BY <1>1 DEF Below
  <2> QED BY <2>2, <2>3
<1> QED BY <1>1 DEF Below

\* The innermost call paints the edge {v, k} and calls itself on k.
LEMMA TrailPush ==
    ASSUME NEW fs \in Seq(FrameType), fs # <<>>, NEW t, NEW G, NEW H,
           NEW L, L = Len(fs), NEW n, n \in {L - 1, L}, Trail(fs, G, n),
           NEW v, v = fs[L].vertex, NEW k \in V, NEW m, Repainted(G, H, v, k, m),
           fs[L].initGraph[v][k] = 1, fs[L].initGraph[k][v] = 1,
           Len(t) = L + 1, \A d \in 1..L - 1 : t[d] = fs[d],
           t[L].vertex = v, t[L].initGraph = fs[L].initGraph,
           t[L].i = k, t[L].act + 2 = m,
           t[L + 1].initGraph = H, t[L + 1].vertex = k
    PROVE  Trail(t, H, L)
<1>1. L \in Nat \ {0}
  BY EmptySeq
<1>2. /\ L \in 1..L /\ L - 1 \in Nat /\ L + 1 \in Nat
      /\ \A d \in 1..L : d \in 1..L - 1 \/ d = L
      /\ \A d \in 1..L + 1 : d \in 1..L \/ d = L + 1
      /\ \A d \in 1..L - 1 : d \in 1..L /\ d + 1 \in 1..L /\ d < L /\ d # L
      /\ \A d \in 1..L : d < L + 1 /\ d # L + 1
      /\ \A d \in 1..L : ~ (L + 1 < d)
  BY <1>1
<1>3. v \in V
  BY <1>2, FrameFields
<1>4. \A d \in 1..L : t[d].vertex = fs[d].vertex /\ t[d].initGraph = fs[d].initGraph
  BY <1>2
<1>5. ASSUME NEW d \in 1..L
      PROVE  Below(t[d].initGraph, H)
  <2>1. fs[d].initGraph \in Matrices /\ Below(fs[d].initGraph, G)
    BY <1>5, FrameFields DEF Trail, Restorable
  <2>2. d = L \/ Below(fs[d].initGraph, fs[L].initGraph)
    BY <1>2, <1>5 DEF Trail, Nested
  <2>3. ~ (fs[d].initGraph[v][k] > 1) /\ ~ (fs[d].initGraph[k][v] > 1)
    <3>1. CASE d = L
      BY <3>1
    <3>2. CASE Below(fs[d].initGraph, fs[L].initGraph)
      <4>1. fs[d].initGraph[v][k] > 1 => 1 = fs[d].initGraph[v][k]
        BY <1>3, <3>2 DEF Below
      <4>2. fs[d].initGraph[k][v] > 1 => 1 = fs[d].initGraph[k][v]
        BY <1>3, <3>2 DEF Below
      <4> QED BY <4>1, <4>2
    <3> QED BY <2>2, <3>1, <3>2
  <2>4. Below(fs[d].initGraph, H)
    BY <1>3, <2>1, <2>3, BelowRepainted
  <2> QED BY <1>4, <2>4
<1>6. Restorable(t, H)
  <2>1. Below(t[L + 1].initGraph, H)
    BY DEF Below
  <2> QED BY <1>2, <1>5, <2>1 DEF Restorable
<1>7. Followed(t, L)
  <2>1. ASSUME NEW d \in 1..L - 1
        PROVE  t[d].i \in V /\ t[d].initGraph[t[d].vertex][t[d].i] = 1
    <3>1. d \in 1..n
      BY <1>1, <2>1
    <3>2. t[d] = fs[d]
      BY <2>1
    <3> QED BY <3>1, <3>2 DEF Trail, Followed
  <2>2. t[L].i \in V /\ t[L].initGraph[t[L].vertex][t[L].i] = 1
    OBVIOUS
  <2> QED BY <1>2, <2>1, <2>2 DEF Followed
<1>8. Linked(t)
  <2>1. Len(t) - 1 = L
    BY <1>1
  <2>2. ASSUME NEW d \in 1..L
        PROVE  t[d + 1].vertex = t[d].i
    <3>1. CASE d = L
      BY <3>1
    <3>2. CASE d \in 1..L - 1
      <4>1. t[d + 1].vertex = fs[d + 1].vertex /\ t[d] = fs[d]
        BY <1>2, <1>4, <3>2
      <4> QED BY <3>2, <4>1 DEF Trail, Linked
    <3> QED BY <1>2, <2>2, <3>1, <3>2
  <2> QED BY <2>1, <2>2 DEF Linked
<1>9. ASSUME NEW d \in 1..L, NEW e \in 1..L, d < e
      PROVE  /\ Below(t[d].initGraph, t[e].initGraph)
             /\ t[e].initGraph[t[d].vertex][t[d].i] = t[d].act + 2
  <2>1. d \in 1..L - 1
    BY <1>1, <1>9
  <2>2. t[d] = fs[d] /\ t[e].initGraph = fs[e].initGraph
    BY <1>4, <2>1, <1>9
  <2>3. /\ Below(fs[d].initGraph, fs[e].initGraph)
        /\ fs[e].initGraph[fs[d].vertex][fs[d].i] = fs[d].act + 2
    BY <1>9 DEF Trail, Nested
  <2> QED BY <2>2, <2>3
<1>10. ASSUME NEW d \in 1..L
       PROVE  H[t[d].vertex][t[d].i] = t[d].act + 2
  <2>1. CASE d = L
    BY <2>1 DEF Repainted
  <2>2. CASE d \in 1..L - 1
    <3>1. d \in 1..n /\ d < L
      BY <1>1, <2>2
    <3>2. t[d] = fs[d]
      BY <2>2
    <3>3. fs[d].vertex \in V /\ fs[d].act \in Colours /\ fs[d].i \in V
      BY <3>1, <1>10, FrameFields DEF Trail, Followed
    <3>4. fs[L].initGraph[fs[d].vertex][fs[d].i] = fs[d].act + 2
      BY <3>1, <1>2, <1>10 DEF Trail, Nested
    <3>5. fs[d].act + 2 > 1
      BY <3>3 DEF Colours
    <3>6. Below(fs[L].initGraph, H)
      BY <1>2, <1>5
    <3>7. H[fs[d].vertex][fs[d].i] = fs[L].initGraph[fs[d].vertex][fs[d].i]
      BY <3>3, <3>4, <3>5, <3>6 DEF Below
    <3> QED BY <3>2, <3>4, <3>7
  <2> QED BY <1>2, <1>10, <2>1, <2>2
<1>11. Nested(t)
  <2>1. ASSUME NEW d \in 1..L + 1, NEW e \in 1..L + 1, d < e
        PROVE  /\ Below(t[d].initGraph, t[e].initGraph)
               /\ t[e].initGraph[t[d].vertex][t[d].i] = t[d].act + 2
    <3>1. d \in 1..L
      BY <1>1, <2>1
    <3>2. CASE e = L + 1
      BY <1>5, <1>10, <3>1, <3>2
    <3>3. CASE e \in 1..L
      BY <1>9, <2>1, <3>1, <3>3
    <3> QED BY <1>2, <2>1, <3>2, <3>3
  <2> QED BY <2>1 DEF Nested
<1> QED BY <1>6, <1>7, <1>8, <1>11 DEF Trail

\* The innermost call returns: the graph is the one it leaves or its copy.
LEMMA TrailPop ==
    ASSUME NEW fs \in Seq(FrameType), fs # <<>>, NEW t, NEW G, NEW H,
           NEW L, L = Len(fs), NEW n, n \in {L - 1, L}, Trail(fs, G, n),
           H = G \/ H = fs[L].initGraph,
           Len(t) = L - 1, \A d \in 1..L - 1 : t[d] = fs[d]
    PROVE  Trail(t, H, Len(t))
<1>1. L \in Nat \ {0}
  BY EmptySeq
<1>2. /\ L \in 1..L
      /\ \A d \in 1..L - 1 : d \in 1..L /\ d \in 1..n /\ d < L
      /\ \A d \in 1..L - 1 - 1 : d \in 1..L - 1 /\ d + 1 \in 1..L - 1
  BY <1>1
<1>3. Restorable(t, H)
  <2>1. ASSUME NEW d \in 1..L - 1
        PROVE  Below(fs[d].initGraph, H)
    <3>1. CASE H = G
      BY <1>2, <2>1, <3>1 DEF Trail, Restorable
    <3>2. CASE H = fs[L].initGraph
      BY <1>2, <2>1, <3>2 DEF Trail, Nested
    <3> QED BY <3>1, <3>2
  <2> QED BY <2>1 DEF Restorable
<1>4. Nested(t)
  <2>1. ASSUME NEW d \in 1..L - 1, NEW e \in 1..L - 1, d < e
        PROVE  /\ Below(fs[d].initGraph, fs[e].initGraph)
               /\ fs[e].initGraph[fs[d].vertex][fs[d].i] = fs[d].act + 2
    BY <1>2, <2>1 DEF Trail, Nested
  <2> QED BY <2>1 DEF Nested
<1>5. Followed(t, Len(t))
  <2>1. ASSUME NEW d \in 1..L - 1
        PROVE  fs[d].i \in V /\ fs[d].initGraph[fs[d].vertex][fs[d].i] = 1
    <3>1. d \in 1..n
      BY <1>2, <2>1
    <3> QED BY <3>1 DEF Trail, Followed
  <2> QED BY <2>1 DEF Followed
<1>6. Linked(t)
  BY <1>2 DEF Trail, Linked
<1> QED BY <1>3, <1>4, <1>5, <1>6 DEF Trail

\* The innermost call goes on with its scan.
LEMMA TrailTop ==
    ASSUME NEW fs \in Seq(FrameType), fs # <<>>, NEW t, NEW G,
           NEW L, L = Len(fs), Trail(fs, G, L),
           Len(t) = L, \A d \in 1..L - 1 : t[d] = fs[d],
           t[L].vertex = fs[L].vertex, t[L].initGraph = fs[L].initGraph
    PROVE  Trail(t, G, L - 1)
<1>1. L \in Nat \ {0}
  BY EmptySeq
<1>2. /\ L \in 1..L
      /\ \A d \in 1..L - 1 : d \in 1..L /\ d + 1 \in 1..L /\ d < L
      /\ \A d \in 1..L : d \in 1..L - 1 \/ d = L
      /\ \A d, e \in 1..L : d < e => d \in 1..L - 1
  BY <1>1
<1>3. \A d \in 1..L : t[d].vertex = fs[d].vertex /\ t[d].initGraph = fs[d].initGraph
  BY <1>2
<1>4. Restorable(t, G)
  BY <1>3 DEF Trail, Restorable
<1>5. Nested(t)
  <2>1. ASSUME NEW d \in 1..L, NEW e \in 1..L, d < e
        PROVE  /\ Below(t[d].initGraph, t[e].initGraph)
               /\ t[e].initGraph[t[d].vertex][t[d].i] = t[d].act + 2
    <3>1. t[d] = fs[d] /\ t[e].initGraph = fs[e].initGraph
      BY <1>2, <1>3, <2>1
    <3>2. /\ Below(fs[d].initGraph, fs[e].initGraph)
          /\ fs[e].initGraph[fs[d].vertex][fs[d].i] = fs[d].act + 2
      BY <2>1 DEF Trail, Nested
    <3> QED BY <3>1, <3>2
  <2> QED BY <2>1 DEF Nested
<1>6. Followed(t, L - 1)
  BY <1>2 DEF Trail, Followed
<1>7. Linked(t)
  BY <1>2, <1>3 DEF Trail, Linked
<1> QED BY <1>4, <1>5, <1>6, <1>7 DEF Trail

LEMMA TrailEmpty ==
    ASSUME NEW G, NEW n \in {-1, 0}
    PROVE  Trail(<<>>, G, n)
  BY DEF Trail, Restorable, Nested, Followed, Linked

\* EdgesKept with the graph as a parameter.
ColouringOf(g, G) == \A u, w \in V : G[u][w] = G[w][u] /\ (G[u][w] = 0 <=> g[u][w] = 0)

LEMMA EdgesKeptIs ==
    EdgesKept <=> /\ ColouringOf(graph, graphColors)
                  /\ \A d \in 1..Len(frames) : ColouringOf(graph, frames[d].initGraph)
  BY DEF EdgesKept, Colouring, ColouringOf

LEMMA EdgesKeptIsNext ==
    EdgesKept' <=> /\ ColouringOf(graph', graphColors')
                   /\ \A d \in 1..Len(frames') : ColouringOf(graph', frames'[d].initGraph)
  BY DEF EdgesKept, Colouring, ColouringOf

-----------------------------------------------------------------------------
\* The steps of the recursive search keep the invariant.

\* The innermost call paints one of its edges and calls itself.
LEMMA CallStep ==
    ASSUME IInv, frames # <<>>, pc \in {"scan", "returned"},
           NEW k \in V, NEW c \in Colours, NEW f \in FrameType,
           top.initGraph[top.vertex][k] = 1,
           f.vertex = top.vertex, f.initGraph = top.initGraph, f.i = k, f.act = c,
           graphColors' = [graphColors EXCEPT ![top.vertex][k] = c + 2,
                                              ![k][top.vertex] = c + 2],
           usedColors' \in Tables,
           CallFrom(f, k), RootUnchanged
    PROVE  IInv'
<1> DEFINE L == Len(frames)
           v == top.vertex
<1>1. TypeOK /\ EdgesKept
  BY DEF IInv
<1>2. L \in Nat \ {0} /\ top = frames[L] /\ top \in FrameType /\ frames \in Seq(FrameType)
  BY <1>1, LastFrame DEF TypeOK
<1>3. v \in V /\ top.initGraph \in Matrices /\ L \in 1..L
  BY <1>2 DEF FrameType
<1>4. PICK m \in 2..4 : m = c + 2
  BY DEF Colours
<1>5. Repainted(graphColors, graphColors', v, k, m)
  <2>1. graphColors' = Painted(graphColors, v, k, m)
    BY <1>4 DEF Painted
  <2>2. m \in 0..4 /\ graphColors \in Matrices
    BY <1>1, <1>4 DEF TypeOK
  <2>3. Repainted(graphColors, Painted(graphColors, v, k, m), v, k, m)
    BY <1>3, <2>2, PaintedMatrix
  <2> QED BY <2>1, <2>3
<1>6. graphColors' \in Matrices
  BY <1>5 DEF Repainted
<1>7. PICK g \in FrameType :
        g = Frame(k, graphColors', usedColors') /\ g.vertex = k /\ g.initGraph = graphColors'
  BY <1>6, FrameIsTyped
<1>8. PICK t : t = Append([frames EXCEPT ![Len(frames)] = f], g)
  OBVIOUS
<1>18. frames' = t /\ pc' = "scan" /\ ret' = ret
  BY <1>7, <1>8 DEF CallFrom
<1>9. /\ t \in Seq(FrameType) /\ Len(t) = L + 1
      /\ t[L] = f /\ t[L + 1] = g
      /\ \A n \in 1..L - 1 : t[n] = frames[n]
  BY <1>2, <1>7, <1>8, ReplaceTopAndPush
<1>10. top.initGraph[k][v] = 1
  BY <1>1, <1>2, <1>3 DEF EdgesKept, Colouring
<1>11. Trail(frames, graphColors, Waiting) /\ Waiting \in {L - 1, L}
  BY DEF IInv, Waiting
<1> HIDE DEF L, v
<1>12. Trail(t, graphColors', L)
  <2>1. L = Len(frames) /\ v = frames[L].vertex
    BY <1>2 DEF L, v
  <2>2. frames[L].initGraph[v][k] = 1 /\ frames[L].initGraph[k][v] = 1
    BY <1>2, <1>10 DEF v
  <2>3. /\ t[L].vertex = v /\ t[L].initGraph = frames[L].initGraph
        /\ t[L].i = k /\ t[L].act + 2 = m
        /\ t[L + 1].initGraph = graphColors' /\ t[L + 1].vertex = k
    BY <1>2, <1>4, <1>7, <1>9 DEF v
  <2>4. PICK n \in {L - 1, L} : Trail(frames, graphColors, n)
    BY <1>11
  <2>5. Len(t) = L + 1 /\ \A d \in 1..L - 1 : t[d] = frames[d]
    BY <1>9
  <2> QED BY <1>2, <1>5, <2>1, <2>2, <2>3, <2>4, <2>5, TrailPush
<1>13. TypeOK'
  BY <1>1, <1>6, <1>18, <1>9 DEF TypeOK, RootUnchanged
<1>14. EdgesKept'
  <2>1. graph' = graph
    BY DEF RootUnchanged
  <2>2. graph[v][k] # 0
    BY <1>1, <1>2, <1>3 DEF EdgesKept, Colouring, L, v
  <2>3. ColouringOf(graph, graphColors')
    <3>1. m \in 0..4 /\ m # 0
      BY <1>4
    <3>2. Colouring(graphColors)'
      BY <1>1, <1>3, <1>5, <2>1, <2>2, <3>1, PaintedColouring DEF EdgesKept
    <3> QED BY <2>1, <3>2 DEF Colouring, ColouringOf
  <2>4. ASSUME NEW d \in 1..L + 1
        PROVE  ColouringOf(graph, t[d].initGraph)
    <3>1. CASE d = L + 1
      BY <1>7, <1>9, <2>3, <3>1
    <3>2. CASE d \in 1..L
      <4>1. t[d].initGraph = frames[d].initGraph
        BY <1>2, <1>9, <3>2
      <4> QED BY <1>1, <3>2, <4>1, EdgesKeptIs DEF L
    <3> QED BY <1>2, <2>4, <3>1, <3>2
  <2>5. Len(frames') = L + 1 /\ frames' = t
    BY <1>9, <1>18
  <2> QED BY <2>1, <2>3, <2>4, <2>5, EdgesKeptIsNext
<1>15. Trail(frames, graphColors, Waiting)'
  BY <1>2, <1>18, <1>9, <1>12 DEF Waiting
<1>16. RootPhase'
  BY <1>18 DEF RootPhase
<1>17. CallsPhase'
  <2>1. frames' # <<>>
    BY <1>2, <1>18, <1>9
  <2> QED BY <1>18, <2>1 DEF CallsPhase, RootUnchanged, IInv
<1> QED BY <1>13, <1>14, <1>15, <1>16, <1>17 DEF IInv

\* The innermost call returns, the graph as it is or as the call found it.
LEMMA ReturnStep ==
    ASSUME IInv, frames # <<>>, pc \in {"scan", "returned"},
           NEW value \in {0, 1}, Return(value),
           graphColors' = graphColors \/ graphColors' = top.initGraph,
           usedColors' \in Tables, RootUnchanged
    PROVE  IInv'
<1>1. TypeOK /\ EdgesKept
  BY DEF IInv
<1>2. PICK L : L = Len(frames)
  OBVIOUS
<1>3. L \in Nat \ {0} /\ top = frames[L] /\ top \in FrameType /\ frames \in Seq(FrameType)
  BY <1>1, <1>2, LastFrame DEF TypeOK
<1>4. L \in 1..L /\ \A d \in 1..L - 1 : d \in 1..L
  BY <1>3
<1>5. PICK t : t = Front(frames)
  OBVIOUS
<1>6. frames' = t /\ pc' = "returned" /\ ret' \in {0, 1}
  BY <1>5 DEF Return
<1>7. /\ t \in Seq(FrameType) /\ Len(t) = L - 1
      /\ \A d \in 1..L - 1 : t[d] = frames[d]
  BY <1>2, <1>3, <1>5, FrontOf
<1>8. Trail(frames, graphColors, Waiting)'
  <2>1. PICK n \in {L - 1, L} : Trail(frames, graphColors, n)
    BY <1>2 DEF IInv, Waiting
  <2>2. graphColors' = graphColors \/ graphColors' = frames[L].initGraph
    BY <1>3
  <2>3. Trail(t, graphColors', Len(t))
    BY <1>2, <1>3, <1>7, <2>1, <2>2, TrailPop
  <2>4. Waiting' = Len(t)
    BY <1>6 DEF Waiting
  <2> QED BY <1>6, <2>3, <2>4
<1>9. TypeOK'
  <2>1. graphColors' \in Matrices
    BY <1>1, <1>3 DEF TypeOK, FrameType
  <2> QED BY <1>1, <1>6, <1>7, <2>1 DEF TypeOK, RootUnchanged
<1>10. EdgesKept'
  <2>1. graph' = graph
    BY DEF RootUnchanged
  <2>2. ColouringOf(graph, graphColors) /\ ColouringOf(graph, frames[L].initGraph)
    BY <1>1, <1>2, <1>4, EdgesKeptIs
  <2>3. ColouringOf(graph, graphColors')
    BY <1>3, <2>2
  <2>4. \A d \in 1..L - 1 : ColouringOf(graph, t[d].initGraph)
    BY <1>1, <1>2, <1>4, <1>7, EdgesKeptIs
  <2> QED BY <1>6, <1>7, <2>1, <2>3, <2>4, EdgesKeptIsNext
<1>11. RootPhase'
  BY <1>6 DEF RootPhase
<1>12. CallsPhase'
  BY <1>6 DEF CallsPhase, RootUnchanged, IInv
<1> QED BY <1>8, <1>9, <1>10, <1>11, <1>12 DEF IInv

LEMMA NoColourLeftStep ==
    ASSUME IInv, NoColourLeft
    PROVE  IInv'
<1>1. frames # <<>> /\ pc \in {"scan", "returned"}
  BY DEF NoColourLeft, IInv, CallsPhase
<1>2. usedColors' \in Tables
  BY <1>1, LastFrame DEF IInv, TypeOK, NoColourLeft, GiveUp, FrameType
<1> QED BY <1>1, <1>2, ReturnStep DEF NoColourLeft, GiveUp

LEMMA CallFailedStep ==
    ASSUME IInv, CallFailed
    PROVE  IInv'
<1>1. frames # <<>> /\ pc \in {"scan", "returned"}
  BY DEF CallFailed
<1>2. usedColors' \in Tables
  BY <1>1, LastFrame DEF IInv, TypeOK, CallFailed, GiveUp, FrameType
<1> QED BY <1>1, <1>2, ReturnStep DEF CallFailed, GiveUp

LEMMA ScanDoneStep ==
    ASSUME IInv, ScanDone
    PROVE  IInv'
<1>1. frames # <<>> /\ pc \in {"scan", "returned"}
  BY DEF ScanDone, IInv, CallsPhase
<1>2. PICK value \in {0, 1} : Return(value)
  BY DEF ScanDone
<1>3. usedColors' \in Tables
  BY DEF IInv, TypeOK, ScanDone
<1> QED BY <1>1, <1>2, <1>3, ReturnStep DEF ScanDone

LEMMA CallSucceededStep ==
    ASSUME IInv, CallSucceeded
    PROVE  IInv'
<1>1. TypeOK /\ EdgesKept /\ frames # <<>> /\ pc = "returned"
  BY DEF IInv, CallSucceeded
<1>2. PICK L : L = Len(frames)
  OBVIOUS
<1>3. L \in Nat \ {0} /\ top = frames[L] /\ top \in FrameType /\ frames \in Seq(FrameType)
  BY <1>1, <1>2, LastFrame DEF TypeOK
<1>4. PICK f : f = [top EXCEPT !.result = 1, !.i = @ + 1]
  OBVIOUS
<1>5. f \in FrameType /\ f.vertex = top.vertex /\ f.initGraph = top.initGraph
  <2>1. PICK n \in Nat : n = top.i + 1
    BY <1>3 DEF FrameType
  <2>2. f = [top EXCEPT !.result = 1, !.i = n]
    BY <1>4, <2>1
  <2>3. f \in FrameType
    BY <1>3, <2>2 DEF FrameType
  <2>4. f.vertex = top.vertex /\ f.initGraph = top.initGraph
    BY <1>3, <2>2 DEF FrameType
  <2> QED BY <2>3, <2>4
<1>6. PICK t : t = [frames EXCEPT ![Len(frames)] = f]
  OBVIOUS
<1>7. frames' = t
  BY <1>4, <1>6 DEF CallSucceeded
<1>8. /\ t \in Seq(FrameType) /\ Len(t) = L /\ t[L] = f
      /\ \A d \in 1..L - 1 : t[d] = frames[d]
  BY <1>1, <1>2, <1>3, <1>5, <1>6, ReplaceTop
<1>9. pc' = "scan" /\ UNCHANGED <<graphColors, usedColors, ret>> /\ RootUnchanged
  BY DEF CallSucceeded
<1>10. Trail(frames, graphColors, Waiting)'
  <2>1. Trail(frames, graphColors, L)
    BY <1>1, <1>2 DEF IInv, Waiting
  <2>2. t[L].vertex = frames[L].vertex /\ t[L].initGraph = frames[L].initGraph
    BY <1>3, <1>5, <1>8
  <2>3. Trail(t, graphColors, L - 1)
    BY <1>1, <1>2, <1>3, <1>8, <2>1, <2>2, TrailTop
  <2>4. Waiting' = L - 1
    BY <1>7, <1>8, <1>9 DEF Waiting
  <2> QED BY <1>7, <1>9, <2>3, <2>4
<1>11. TypeOK'
  BY <1>1, <1>7, <1>8, <1>9 DEF TypeOK, RootUnchanged
<1>12. EdgesKept'
  <2>1. graph' = graph /\ graphColors' = graphColors
    BY <1>9 DEF RootUnchanged
  <2>2. ASSUME NEW d \in 1..L
        PROVE  t[d].initGraph = frames[d].initGraph
    BY <1>3, <1>5, <1>8, <2>2
  <2> QED BY <1>1, <1>2, <1>7, <1>8, <2>1, <2>2, EdgesKeptIs, EdgesKeptIsNext
<1>13. RootPhase'
  BY <1>9 DEF RootPhase
<1>14. CallsPhase'
  <2>1. frames' # <<>>
    BY <1>3, <1>7, <1>8
  <2> QED BY <1>1, <1>9, <2>1 DEF CallsPhase, RootUnchanged, IInv
<1> QED BY <1>10, <1>11, <1>12, <1>13, <1>14 DEF IInv

\* What the two attempts at an edge do, with the edge and the colour named.
LEMMA FirstAttemptDoes ==
    ASSUME IInv, FirstAttempt
    PROVE  /\ frames # <<>> /\ pc = "scan" /\ RootUnchanged
           /\ \E k \in V, c \in Colours, f \in FrameType :
                /\ graphColors[top.vertex][k] = 1 /\ top.initGraph[top.vertex][k] = 1
                /\ \A w \in V : w >= top.i /\ graphColors[top.vertex][w] = 1 => k <= w
                /\ usedColors[top.vertex][c] = 0 /\ usedColors[k][c] = 0
                /\ f.vertex = top.vertex /\ f.i = k /\ f.act = c /\ f.second = FALSE
                /\ f.initGraph = top.initGraph /\ f.initUsed = top.initUsed
                /\ Paint(top.vertex, k, c) /\ CallFrom(f, k)
<1>1. TypeOK /\ EdgesKept /\ frames # <<>> /\ pc = "scan" /\ EdgesLeft # {}
  BY DEF IInv, CallsPhase, FirstAttempt
<1>2. Len(frames) \in 1..Len(frames) /\ top = frames[Len(frames)] /\ top \in FrameType
  BY <1>1, LastFrame DEF TypeOK
<1>3. PICK k : k = Least(EdgesLeft)
  OBVIOUS
<1>4. /\ k \in V /\ graphColors[top.vertex][k] = 1
      /\ \A w \in V : w >= top.i /\ graphColors[top.vertex][w] = 1 => k <= w
  <2>1. EdgesLeft \in SUBSET Nat
    BY VIsNat DEF EdgesLeft
  <2>2. k \in EdgesLeft /\ \A w \in EdgesLeft : k <= w
    BY <1>1, <1>3, <2>1, LeastIn
  <2> QED BY <2>2 DEF EdgesLeft
<1>5. FreeColours(top.vertex, k) # {}
  BY <1>3 DEF FirstAttempt
<1>6. PICK c \in Colours :
        /\ c = Least(FreeColours(top.vertex, k))
        /\ usedColors[top.vertex][c] = 0 /\ usedColors[k][c] = 0
  <2>1. Least(FreeColours(top.vertex, k)) \in FreeColours(top.vertex, k)
    BY <1>5, LeastColour
  <2> QED BY <2>1 DEF FreeColours
<1>7. top.initGraph[top.vertex][k] = 1
  <2>1. Below(top.initGraph, graphColors)
    BY <1>2 DEF IInv, Trail, Restorable
  <2> QED BY <1>1, <1>4, <2>1, UncolouredSinceCall
<1>8. PICK f : f = [top EXCEPT !.i = k, !.act = c, !.second = FALSE]
  OBVIOUS
<1>9. /\ f \in FrameType
      /\ f.vertex = top.vertex /\ f.i = k /\ f.act = c /\ f.second = FALSE
      /\ f.initGraph = top.initGraph /\ f.initUsed = top.initUsed
  <2>1. k \in Nat /\ FALSE \in BOOLEAN
    BY <1>4, VIsNat
  <2>2. f \in FrameType
    BY <1>2, <1>6, <1>8, <2>1 DEF FrameType
  <2>3. /\ f.vertex = top.vertex /\ f.i = k /\ f.act = c /\ f.second = FALSE
        /\ f.initGraph = top.initGraph /\ f.initUsed = top.initUsed
    BY <1>2, <1>8 DEF FrameType
  <2> QED BY <2>2, <2>3
<1>10. Paint(top.vertex, k, c) /\ CallFrom(f, k) /\ RootUnchanged
  BY <1>3, <1>6, <1>8 DEF FirstAttempt
<1> QED BY <1>1, <1>4, <1>6, <1>7, <1>9, <1>10

LEMMA SecondAttemptDoes ==
    ASSUME IInv, SecondAttempt
    PROVE  /\ frames # <<>> /\ pc = "returned" /\ ret = 0 /\ RootUnchanged
           /\ top.i \in V /\ top.initGraph[top.vertex][top.i] = 1
           /\ \E c \in Colours, f \in FrameType :
                /\ usedColors[top.vertex][c] = 0 /\ usedColors[top.i][c] = 0 /\ c # top.act
                /\ f.vertex = top.vertex /\ f.i = top.i /\ f.act = c /\ f.second = TRUE
                /\ f.initGraph = top.initGraph /\ f.initUsed = top.initUsed
                /\ graphColors' = [graphColors EXCEPT ![top.vertex][top.i] = c + 2,
                                                      ![top.i][top.vertex] = c + 2]
                /\ usedColors' = [usedColors EXCEPT
                                    ![top.vertex] = [@ EXCEPT ![top.act] = 0, ![c] = 1],
                                    ![top.i] = [@ EXCEPT ![top.act] = 0, ![c] = 1]]
                /\ CallFrom(f, top.i)
<1>1. TypeOK /\ frames # <<>> /\ pc = "returned" /\ OtherColours # {} /\ ret = 0
  BY DEF IInv, SecondAttempt
<1>2. Len(frames) \in 1..Len(frames) /\ top = frames[Len(frames)] /\ top \in FrameType
  BY <1>1, LastFrame DEF TypeOK
<1>3. top.i \in V /\ top.initGraph[top.vertex][top.i] = 1
  BY <1>1, <1>2 DEF IInv, Waiting, Trail, Followed
<1>4. PICK c \in Colours :
        /\ c = Least(OtherColours) /\ c # top.act
        /\ usedColors[top.vertex][c] = 0 /\ usedColors[top.i][c] = 0
  <2>1. OtherColours \in SUBSET Nat
    BY DEF OtherColours, FreeColours, Colours
  <2>2. Least(OtherColours) \in OtherColours
    BY <1>1, <2>1, LeastIn
  <2> QED BY <2>2 DEF OtherColours, FreeColours
<1>5. PICK f : f = [top EXCEPT !.act = c, !.second = TRUE, !.result = 0]
  OBVIOUS
<1>6. /\ f \in FrameType
      /\ f.vertex = top.vertex /\ f.i = top.i /\ f.act = c /\ f.second = TRUE
      /\ f.initGraph = top.initGraph /\ f.initUsed = top.initUsed
  <2>1. 0 \in {-1, 0, 1} /\ TRUE \in BOOLEAN
    OBVIOUS
  <2>2. f \in FrameType
    BY <1>2, <1>4, <1>5, <2>1 DEF FrameType
  <2>3. /\ f.vertex = top.vertex /\ f.i = top.i /\ f.act = c /\ f.second = TRUE
        /\ f.initGraph = top.initGraph /\ f.initUsed = top.initUsed
    BY <1>2, <1>5 DEF FrameType
  <2> QED BY <2>2, <2>3
<1>7. /\ graphColors' = [graphColors EXCEPT ![top.vertex][top.i] = c + 2,
                                            ![top.i][top.vertex] = c + 2]
      /\ usedColors' = [usedColors EXCEPT
                          ![top.vertex] = [@ EXCEPT ![top.act] = 0, ![c] = 1],
                          ![top.i] = [@ EXCEPT ![top.act] = 0, ![c] = 1]]
      /\ CallFrom(f, top.i) /\ RootUnchanged
  BY <1>4, <1>5 DEF SecondAttempt
<1> QED BY <1>1, <1>3, <1>4, <1>6, <1>7

LEMMA FirstAttemptStep ==
    ASSUME IInv, FirstAttempt
    PROVE  IInv'
<1>1. PICK k \in V, c \in Colours, f \in FrameType :
        /\ top.initGraph[top.vertex][k] = 1
        /\ f.vertex = top.vertex /\ f.initGraph = top.initGraph /\ f.i = k /\ f.act = c
        /\ Paint(top.vertex, k, c) /\ CallFrom(f, k)
  BY FirstAttemptDoes
<1>2. frames # <<>> /\ pc = "scan" /\ RootUnchanged
  BY FirstAttemptDoes
<1>3. usedColors' \in Tables
  <2>1. usedColors \in Tables /\ top.vertex \in V
    BY <1>2, LastFrame DEF IInv, TypeOK, FrameType
  <2> QED BY <1>1, <2>1 DEF Paint, Tables
<1>4. graphColors' = [graphColors EXCEPT ![top.vertex][k] = c + 2,
                                         ![k][top.vertex] = c + 2]
  BY <1>1 DEF Paint
<1> QED BY <1>1, <1>2, <1>3, <1>4, CallStep

LEMMA SecondAttemptStep ==
    ASSUME IInv, SecondAttempt
    PROVE  IInv'
<1>1. PICK c \in Colours, f \in FrameType :
        /\ f.vertex = top.vertex /\ f.initGraph = top.initGraph /\ f.i = top.i /\ f.act = c
        /\ graphColors' = [graphColors EXCEPT ![top.vertex][top.i] = c + 2,
                                              ![top.i][top.vertex] = c + 2]
        /\ usedColors' = [usedColors EXCEPT
                            ![top.vertex] = [@ EXCEPT ![top.act] = 0, ![c] = 1],
                            ![top.i] = [@ EXCEPT ![top.act] = 0, ![c] = 1]]
        /\ CallFrom(f, top.i)
  BY SecondAttemptDoes
<1>2. /\ frames # <<>> /\ pc = "returned" /\ RootUnchanged
      /\ top.i \in V /\ top.initGraph[top.vertex][top.i] = 1
  BY SecondAttemptDoes
<1>3. usedColors' \in Tables
  <2>1. usedColors \in Tables /\ top.vertex \in V /\ top.act \in Colours
    BY <1>2, LastFrame DEF IInv, TypeOK, FrameType
  <2> QED BY <1>1, <1>2, <2>1 DEF Tables
<1> QED BY <1>1, <1>2, <1>3, CallStep

-----------------------------------------------------------------------------
\* The steps of the root keep the invariant.

\* The part of the invariant that is about the calls, when there are none.
LEMMA NoCalls ==
    ASSUME frames = <<>>, Colouring(graphColors)
    PROVE  EdgesKept /\ Trail(frames, graphColors, Waiting)
<1>1. Len(frames) = 0
  BY EmptySeq
<1>2. Waiting \in {-1, 0}
  BY <1>1 DEF Waiting
<1> QED BY <1>1, <1>2, TrailEmpty DEF EdgesKept

LEMMA AtMostThree ==
    ASSUME TypeOK, NEW T \in SUBSET {w \in V : graph[root][w] = 1}
    PROVE  IsFiniteSet(T) /\ Cardinality(T) <= 3
<1>1. PICK a, b, c \in V : \A w \in V : graph[root][w] = 1 => w \in {a, b, c}
  BY InputGraph, RootAssumption DEF IsSubcubic
<1>2. IsFiniteSet({a}) /\ Cardinality({a}) = 1
  BY FS_Singleton
<1>3. IsFiniteSet({a} \cup {b}) /\ Cardinality({a} \cup {b}) <= 2
  BY <1>2, FS_AddElement
<1>4. Cardinality({a} \cup {b}) \in Nat
  BY <1>3, FS_CardinalityType
<1>5. IsFiniteSet({a} \cup {b} \cup {c}) /\ Cardinality({a} \cup {b} \cup {c}) <= 3
  <2> DEFINE P == {a} \cup {b}
  <2>1. IsFiniteSet(P) /\ Cardinality(P) <= 2 /\ Cardinality(P) \in Nat
    BY <1>3, <1>4
  <2> HIDE DEF P
  <2>2. IsFiniteSet(P \cup {c}) /\ Cardinality(P \cup {c}) <= 3
    BY <2>1, FS_AddElement
  <2> QED BY <2>2 DEF P
<1>6. T \in SUBSET ({a} \cup {b} \cup {c})
  BY <1>1
<1>7. IsFiniteSet(T) /\ Cardinality(T) <= Cardinality({a} \cup {b} \cup {c})
  BY <1>5, <1>6, FS_Subset
<1>8. Cardinality(T) \in Nat /\ Cardinality({a} \cup {b} \cup {c}) \in Nat
  BY <1>5, <1>7, FS_CardinalityType
<1> QED BY <1>5, <1>7, <1>8

LEMMA InitInv ==
    ASSUME Init
    PROVE  IInv
<1>1. graph \in Graphs /\ IsGraph(graph)
  BY GraphsAssumption DEF Init
<1>2. graphColors \in Matrices /\ Colouring(graphColors)
  BY <1>1 DEF Init, IsGraph, Matrices, Colouring
<1>3. usedColors \in Tables
  BY DEF Init, AllUnused, Tables
<1>4. TypeOK
  BY <1>1, <1>2, <1>3, PermsAre DEF Init, TypeOK
<1>5. EdgesKept /\ Trail(frames, graphColors, Waiting)
  BY <1>2, NoCalls DEF Init
<1>6. RootPhase
  <2>1. Cardinality(RootEdgesPassed) \in Nat
    <3>1. RootEdgesPassed \in SUBSET {w \in V : graph[root][w] = 1}
      BY DEF RootEdgesPassed
    <3> QED BY <1>4, <3>1, AtMostThree, FS_CardinalityType
  <2> QED BY <2>1 DEF RootPhase, Init
<1>7. CallsPhase
  BY DEF CallsPhase, Init
<1> QED BY <1>4, <1>5, <1>6, <1>7 DEF IInv

\* What the step of the root does, with the neighbour and the colour named.
LEMMA ColourRootEdgeDoes ==
    ASSUME IInv, ColourRootEdge
    PROVE  \E k \in V, m \in 2..4, c \in Colours :
             /\ m = Perms[perm][actColor + 1] /\ c + 2 = m /\ actColor + 1 \in 1..3
             /\ k \in Nat /\ k >= j /\ graphColors[root][k] = 1 /\ graph[root][k] = 1
             /\ \A w \in V : w >= j /\ graphColors[root][w] = 1 => k <= w
             /\ k \notin RootEdgesPassed
             /\ Cardinality(RootEdgesPassed \cup {k}) \in Nat
             /\ actColor + 1 <= Cardinality(RootEdgesPassed \cup {k})
             /\ Paint(root, k, c)
             /\ Repainted(graphColors, graphColors', root, k, m)
             /\ stack1' = <<k>> \o stack1 /\ addedVertexes' = addedVertexes + 1
             /\ pc = "root" /\ pc' = "root" /\ j' = k + 1 /\ actColor' = actColor + 1
             /\ UNCHANGED <<graph, perm, frames, ret, found>>
<1>1. TypeOK /\ EdgesKept /\ RootPhase /\ CallsPhase /\ pc = "root" /\ RootEdgesLeft # {}
  BY DEF IInv, ColourRootEdge
<1>2. PICK k : k = Least(RootEdgesLeft)
  OBVIOUS
<1>3. /\ k \in V /\ k \in Nat /\ k >= j /\ graphColors[root][k] = 1
      /\ \A w \in V : w >= j /\ graphColors[root][w] = 1 => k <= w
  <2>1. RootEdgesLeft \in SUBSET Nat
    BY VIsNat DEF RootEdgesLeft
  <2>2. k \in RootEdgesLeft /\ \A w \in RootEdgesLeft : k <= w
    BY <1>1, <1>2, <2>1, LeastIn
  <2> QED BY <2>1, <2>2 DEF RootEdgesLeft
<1>4. graph[root][k] = 1
  <2>1. graph[root][k] \in {0, 1}
    BY <1>1, <1>3, InputGraph, RootAssumption DEF IsGraph
  <2>2. Colouring(graphColors) /\ root \in V /\ k \in V /\ graphColors[root][k] = 1
    BY <1>1, <1>3, RootAssumption DEF EdgesKept
  <2>3. graphColors[root][k] = 0 <=> graph[root][k] = 0
    BY <2>2 DEF Colouring
  <2> QED BY <2>1, <2>2, <2>3
<1>5. /\ j \in Nat /\ actColor \in Nat /\ stack1 \in Seq(V) /\ Len(stack1) \in Nat
      /\ addedVertexes = Len(stack1) /\ frames = <<>>
  BY <1>1, LenProperties DEF TypeOK, RootPhase, CallsPhase
<1>6. /\ k \notin RootEdgesPassed
      /\ Cardinality(RootEdgesPassed \cup {k}) \in Nat
      /\ actColor + 1 <= Cardinality(RootEdgesPassed \cup {k})
      /\ Cardinality(RootEdgesPassed \cup {k}) <= 3
  <2>1. RootEdgesPassed \in SUBSET {w \in V : graph[root][w] = 1} /\ k \notin RootEdgesPassed
    BY <1>3, <1>5 DEF RootEdgesPassed
  <2>2. (RootEdgesPassed \cup {k}) \in SUBSET {w \in V : graph[root][w] = 1}
    BY <1>3, <1>4, <2>1
  <2>3. /\ IsFiniteSet(RootEdgesPassed) /\ IsFiniteSet(RootEdgesPassed \cup {k})
        /\ Cardinality(RootEdgesPassed \cup {k}) <= 3
    BY <1>1, <2>1, <2>2, AtMostThree
  <2>4. Cardinality(RootEdgesPassed \cup {k}) = Cardinality(RootEdgesPassed) + 1
    BY <2>1, <2>3, FS_AddElement
  <2>5. /\ Cardinality(RootEdgesPassed) \in Nat
        /\ Cardinality(RootEdgesPassed \cup {k}) \in Nat
    BY <2>3, FS_CardinalityType
  <2>6. actColor <= Cardinality(RootEdgesPassed)
    BY <1>1 DEF RootPhase
  <2> QED BY <1>5, <2>1, <2>3, <2>4, <2>5, <2>6
<1>7. PICK m \in 2..4 : m = Perms[perm][actColor + 1] /\ actColor + 1 \in 1..3
  <2>1. actColor + 1 \in 1..3
    BY <1>5, <1>6
  <2>2. perm \in 1..6
    BY <1>1, PermsAre DEF TypeOK
  <2> QED BY <2>1, <2>2, PermsAre
<1>8. PICK c \in Colours : c = m - 2 /\ c + 2 = m
  BY <1>7 DEF Colours
<1>9. Paint(root, k, c)
  BY <1>2, <1>7, <1>8 DEF ColourRootEdge
<1>10. /\ pc' = "root" /\ j' = k + 1 /\ actColor' = actColor + 1
       /\ addedVertexes' = addedVertexes + 1
       /\ UNCHANGED <<graph, perm, frames, ret, found>>
  BY <1>1, <1>2 DEF ColourRootEdge
<1>11. stack1' = <<k>> \o stack1
  <2>1. k \notin Range(stack1)
    <3>1. \A n \in 1..Len(stack1) : stack1[n] < j /\ stack1[n] \in Nat
      BY <1>1, <1>5, ElementOfSeq, VIsNat DEF RootPhase
    <3>2. DOMAIN stack1 = 1..Len(stack1)
      BY <1>5, LenProperties
    <3>3. ASSUME k \in Range(stack1)
          PROVE  FALSE
      <4>1. PICK n \in 1..Len(stack1) : k = stack1[n]
        BY <3>2, <3>3 DEF Range
      <4>2. k < j
        BY <3>1, <4>1
      <4> QED BY <1>3, <1>5, <4>2
    <3> QED BY <3>3
  <2> QED BY <1>2, <2>1 DEF ColourRootEdge
<1>12. Repainted(graphColors, graphColors', root, k, m)
  <2>1. graphColors' = Painted(graphColors, root, k, m)
    BY <1>8, <1>9 DEF Paint, Painted
  <2>2. m \in 0..4 /\ graphColors \in Matrices /\ root \in V
    BY <1>1, RootAssumption DEF TypeOK
  <2>3. Repainted(graphColors, Painted(graphColors, root, k, m), root, k, m)
    BY <1>3, <2>2, PaintedMatrix
  <2> QED BY <2>1, <2>3
<1> QED BY <1>1, <1>3, <1>4, <1>6, <1>7, <1>8, <1>9, <1>10, <1>11, <1>12

LEMMA ColourRootEdgeStep ==
    ASSUME IInv, ColourRootEdge
    PROVE  IInv'
<1>1. TypeOK /\ EdgesKept /\ RootPhase /\ CallsPhase /\ pc = "root"
  BY DEF IInv, ColourRootEdge
<1>2. PICK k \in V, m \in 2..4, c \in Colours :
        /\ k \in Nat /\ k >= j /\ graph[root][k] = 1
        /\ Cardinality(RootEdgesPassed \cup {k}) \in Nat
        /\ actColor + 1 <= Cardinality(RootEdgesPassed \cup {k})
        /\ Paint(root, k, c)
        /\ Repainted(graphColors, graphColors', root, k, m)
        /\ stack1' = <<k>> \o stack1 /\ addedVertexes' = addedVertexes + 1
        /\ pc' = "root" /\ j' = k + 1 /\ actColor' = actColor + 1
        /\ UNCHANGED <<graph, perm, frames, ret, found>>
  BY ColourRootEdgeDoes
<1>5. /\ j \in Nat /\ actColor \in Nat /\ stack1 \in Seq(V) /\ Len(stack1) \in Nat
      /\ addedVertexes = Len(stack1) /\ frames = <<>>
  BY <1>1, LenProperties DEF TypeOK, RootPhase, CallsPhase
<1>13. Colouring(graphColors)'
  <2>1. m \in 0..4 /\ m # 0 /\ graph[root][k] # 0 /\ graph' = graph
    BY <1>2
  <2> QED BY <1>1, <1>2, <2>1, RootAssumption, PaintedColouring DEF EdgesKept
<1>14. PICK t : t = <<k>> \o stack1
  OBVIOUS
<1>15. /\ t \in Seq(V) /\ Len(t) = Len(stack1) + 1
       /\ \A n \in 1..Len(t) : t[n] = k \/ \E e \in 1..Len(stack1) : t[n] = stack1[e]
  BY <1>2, <1>5, <1>14, PutFirst
<1>16. TypeOK'
  <2>1. graphColors' \in Matrices
    BY <1>2 DEF Repainted
  <2>2. usedColors' \in Tables
    BY <1>1, <1>2, RootAssumption DEF Paint, TypeOK, Tables
  <2>3. stack1' \in Seq(V) /\ addedVertexes' \in Nat /\ j' \in Nat /\ actColor' \in Nat
    BY <1>2, <1>5, <1>14, <1>15
  <2> QED BY <1>1, <1>2, <2>1, <2>2, <2>3 DEF TypeOK
<1>17. EdgesKept' /\ Trail(frames, graphColors, Waiting)'
  <2>1. frames' = <<>>
    BY <1>5, <1>2
  <2>2. Len(frames') = 0
    BY <2>1, EmptySeq
  <2>3. Waiting' \in {-1, 0}
    BY <2>2 DEF Waiting
  <2> QED BY <1>13, <2>1, <2>2, <2>3, TrailEmpty DEF EdgesKept
<1>18. RootPhase'
  <2>1. Len(stack1') = addedVertexes'
    BY <1>5, <1>2, <1>14, <1>15
  <2>2. ASSUME NEW n \in 1..Len(t)
        PROVE  t[n] < k + 1
    <3>1. CASE t[n] = k
      BY <1>2, <3>1
    <3>2. CASE \E e \in 1..Len(stack1) : t[n] = stack1[e]
      <4>1. PICK e \in 1..Len(stack1) : t[n] = stack1[e]
        BY <3>2
      <4>2. t[n] < j /\ t[n] \in Nat
        BY <1>1, <1>5, <4>1, ElementOfSeq, VIsNat DEF RootPhase
      <4> QED BY <1>2, <1>5, <4>2
    <3> QED BY <1>15, <3>1, <3>2
  <2>3. actColor' <= Cardinality(RootEdgesPassed')
    <3>1. (RootEdgesPassed \cup {k}) \subseteq RootEdgesPassed'
      <4>1. RootEdgesPassed' = {w \in V : w < k + 1 /\ graph[root][w] = 1}
        BY <1>2 DEF RootEdgesPassed
      <4>2. ASSUME NEW w \in RootEdgesPassed \cup {k}
            PROVE  w \in V /\ w < k + 1 /\ graph[root][w] = 1
        <5>1. CASE w = k
          BY <1>2, <5>1
        <5>2. CASE w \in RootEdgesPassed
          <6>1. w \in V /\ w \in Nat /\ w < j /\ graph[root][w] = 1
            BY <5>2, VIsNat DEF RootEdgesPassed
          <6> QED BY <1>2, <1>5, <6>1
        <5> QED BY <4>2, <5>1, <5>2
      <4> QED BY <4>1, <4>2
    <3>2. RootEdgesPassed' \in SUBSET {w \in V : graph[root][w] = 1}
      BY <1>2 DEF RootEdgesPassed
    <3>3. PICK P : P = RootEdgesPassed'
      OBVIOUS
    <3>4. IsFiniteSet(P)
      BY <1>1, <3>2, <3>3, AtMostThree
    <3>5. Cardinality(RootEdgesPassed \cup {k}) <= Cardinality(P) /\ Cardinality(P) \in Nat
      BY <3>1, <3>3, <3>4, FS_Subset, FS_CardinalityType
    <3> QED BY <1>5, <1>2, <3>3, <3>5
  <2> QED BY <1>2, <1>14, <2>1, <2>2, <2>3 DEF RootPhase
<1>19. CallsPhase'
  BY <1>5, <1>2 DEF CallsPhase
<1> QED BY <1>16, <1>17, <1>18, <1>19 DEF IInv

LEMMA RootColouredStep ==
    ASSUME IInv, RootColoured
    PROVE  IInv'
<1>1. TypeOK /\ EdgesKept /\ RootPhase /\ CallsPhase /\ pc = "root" /\ frames = <<>>
  BY DEF IInv, RootColoured, CallsPhase
<1>2. /\ j' = 0 /\ pc' = "calls"
      /\ UNCHANGED <<graph, graphColors, usedColors, perm, stack1, addedVertexes,
                     actColor, frames, ret, found>>
  BY DEF RootColoured
<1>3. TypeOK'
  BY <1>1, <1>2 DEF TypeOK
<1>4. EdgesKept'
  BY <1>1, <1>2 DEF EdgesKept, Colouring
<1>5. Trail(frames, graphColors, Waiting)'
  BY <1>1, <1>2 DEF IInv, Waiting
<1>6. RootPhase'
  BY <1>2 DEF RootPhase
<1>7. CallsPhase'
  BY <1>1, <1>2 DEF CallsPhase, RootPhase, TypeOK
<1> QED BY <1>3, <1>4, <1>5, <1>6, <1>7 DEF IInv

LEMMA FoundStep ==
    ASSUME IInv, Found
    PROVE  IInv'
<1>1. TypeOK /\ EdgesKept /\ CallsPhase /\ pc = "calls" /\ frames = <<>>
  BY DEF IInv, Found, CallsPhase
<1>2. /\ found' = 1 /\ addedVertexes' = 0 /\ pc' = "done"
      /\ UNCHANGED <<graph, graphColors, usedColors, perm, stack1, j, actColor,
                     frames, ret>>
  BY DEF Found
<1>3. TypeOK'
  BY <1>1, <1>2 DEF TypeOK
<1>4. EdgesKept'
  BY <1>1, <1>2 DEF EdgesKept, Colouring
<1>5. Trail(frames, graphColors, Waiting)'
  BY <1>1, <1>2 DEF IInv, Waiting
<1>6. RootPhase' /\ CallsPhase'
  BY <1>1, <1>2 DEF RootPhase, CallsPhase
<1> QED BY <1>3, <1>4, <1>5, <1>6 DEF IInv

LEMMA RootCallStep ==
    ASSUME IInv, RootCall
    PROVE  IInv'
<1>1. TypeOK /\ EdgesKept /\ CallsPhase /\ pc = "calls" /\ j < addedVertexes
  BY DEF IInv, RootCall
<1>2. PICK v \in V : v = Head(stack1)
  <2>1. /\ stack1 \in Seq(V) /\ Len(stack1) = addedVertexes - j
        /\ addedVertexes \in Nat /\ j \in Nat
    BY <1>1 DEF TypeOK, CallsPhase
  <2>2. stack1 # <<>>
    BY <1>1, <2>1, EmptySeq
  <2> QED BY <2>1, <2>2, HeadTailProperties
<1>3. PICK f \in FrameType :
        f = Frame(v, graphColors, usedColors) /\ f.initGraph = graphColors
  BY <1>1, FrameIsTyped DEF TypeOK
<1>4. /\ frames' = <<f>> /\ pc' = "scan"
      /\ UNCHANGED <<graph, graphColors, usedColors, perm, stack1, addedVertexes, j,
                     actColor, ret, found>>
  BY <1>2, <1>3 DEF RootCall
<1>5. PICK t : t = <<f>>
  OBVIOUS
<1>6. t \in Seq(FrameType) /\ Len(t) = 1 /\ t[1] = f /\ t # <<>>
  BY <1>3, <1>5
<1>7. TypeOK'
  BY <1>1, <1>4, <1>5, <1>6 DEF TypeOK
<1>8. EdgesKept'
  <2>1. ColouringOf(graph, graphColors)
    BY <1>1, EdgesKeptIs
  <2>2. \A d \in 1..1 : t[d].initGraph = graphColors
    BY <1>3, <1>6
  <2> QED BY <1>4, <1>5, <1>6, <2>1, <2>2, EdgesKeptIsNext
<1>9. Trail(frames, graphColors, Waiting)'
  <2>1. Waiting' = 0
    BY <1>4, <1>5, <1>6 DEF Waiting
  <2>2. Below(t[1].initGraph, graphColors)
    BY <1>3, <1>6 DEF Below
  <2>3. Restorable(t, graphColors)
    BY <1>6, <2>2 DEF Restorable
  <2>4. Nested(t) /\ Linked(t) /\ Followed(t, 0)
    BY <1>6 DEF Nested, Linked, Followed
  <2>5. Trail(t, graphColors, 0)
    BY <2>3, <2>4 DEF Trail
  <2> QED BY <1>4, <1>5, <2>1, <2>5
<1>10. RootPhase'
  BY <1>4 DEF RootPhase
<1>11. CallsPhase'
  BY <1>1, <1>4, <1>5, <1>6 DEF CallsPhase
<1> QED BY <1>7, <1>8, <1>9, <1>10, <1>11 DEF IInv

LEMMA RootCallSucceededStep ==
    ASSUME IInv, RootCallSucceeded
    PROVE  IInv'
<1>1. TypeOK /\ EdgesKept /\ CallsPhase /\ pc = "returned" /\ frames = <<>>
  BY DEF IInv, RootCallSucceeded
<1>2. /\ stack1' = Tail(stack1) /\ j' = j + 1 /\ pc' = "calls"
      /\ UNCHANGED <<graph, graphColors, usedColors, perm, addedVertexes, actColor,
                     frames, ret, found>>
  BY DEF RootCallSucceeded
<1>3. /\ stack1 \in Seq(V) /\ Len(stack1) = addedVertexes - j
      /\ addedVertexes \in Nat /\ j \in Nat /\ j < addedVertexes
  BY <1>1 DEF TypeOK, CallsPhase
<1>4. stack1 # <<>>
  BY <1>3, EmptySeq
<1>5. Tail(stack1) \in Seq(V) /\ Len(Tail(stack1)) = Len(stack1) - 1
  BY <1>3, <1>4, HeadTailProperties
<1>6. TypeOK'
  BY <1>1, <1>2, <1>5 DEF TypeOK
<1>7. EdgesKept' /\ Trail(frames, graphColors, Waiting)'
  <2>1. Colouring(graphColors)' /\ frames' = <<>>
    BY <1>1, <1>2 DEF EdgesKept, Colouring
  <2>2. Len(frames') = 0
    BY <2>1, EmptySeq
  <2>3. Waiting' \in {-1, 0}
    BY <2>2 DEF Waiting
  <2> QED BY <2>1, <2>2, <2>3, TrailEmpty DEF EdgesKept
<1>8. RootPhase' /\ CallsPhase'
  <2>1. Len(stack1') = addedVertexes' - j'
    BY <1>2, <1>3, <1>5
  <2> QED BY <1>1, <1>2, <2>1 DEF RootPhase, CallsPhase
<1> QED BY <1>6, <1>7, <1>8 DEF IInv

LEMMA RootCallFailedStep ==
    ASSUME IInv, RootCallFailed
    PROVE  IInv'
<1>1. TypeOK /\ EdgesKept /\ pc = "returned" /\ frames = <<>>
  BY DEF IInv, RootCallFailed
<1>2. /\ UndoRow
      /\ stack1' = <<>> /\ addedVertexes' = 0 /\ actColor' = 0 /\ j' = 0
      /\ UNCHANGED <<graph, frames, ret, found>>
  BY DEF RootCallFailed
<1>3. graphColors \in Matrices /\ usedColors \in Tables
  BY <1>1 DEF TypeOK
<1>4. IsGraph(graph)
  BY <1>1, InputGraph
<1>5. graphColors' \in Matrices
  <2>1. ASSUME NEW u \in V, NEW w \in V
        PROVE  graph[u][w] \in 0..4 /\ graphColors[u][w] \in 0..4
    BY <1>3, <1>4 DEF IsGraph, Matrices
  <2> QED BY <1>2, <2>1 DEF UndoRow, Matrices
<1>6. usedColors' \in Tables
  BY <1>2, <1>3 DEF UndoRow, Tables
<1>7. Colouring(graphColors)'
  <2>1. ASSUME NEW u \in V, NEW w \in V
        PROVE  graphColors'[u][w] = graphColors'[w][u]
               /\ (graphColors'[u][w] = 0 <=> graph[u][w] = 0)
    <3>1. /\ graph[u][w] = graph[w][u] /\ graphColors[u][w] = graphColors[w][u]
          /\ graphColors[u][w] = 0 <=> graph[u][w] = 0
      BY <1>1, <1>4 DEF IsGraph, EdgesKept, Colouring
    <3>2. /\ graphColors'[u][w] =
               IF (u = root /\ w \in Changed) \/ (w = root /\ u \in Changed)
                 THEN graph[u][w] ELSE graphColors[u][w]
          /\ graphColors'[w][u] =
               IF (w = root /\ u \in Changed) \/ (u = root /\ w \in Changed)
                 THEN graph[w][u] ELSE graphColors[w][u]
      BY <1>2 DEF UndoRow
    <3> QED BY <3>1, <3>2
  <2> QED BY <1>2, <2>1 DEF Colouring
<1>8. perm' \in 1..Len(Perms) /\ pc' \in {"root", "done"}
  BY <1>1, PermsAre DEF RootCallFailed, TypeOK
<1>9. TypeOK'
  BY <1>1, <1>2, <1>5, <1>6, <1>8 DEF TypeOK
<1>10. EdgesKept' /\ Trail(frames, graphColors, Waiting)'
  <2>1. frames' = <<>>
    BY <1>1, <1>2
  <2>2. Len(frames') = 0
    BY <2>1, EmptySeq
  <2>3. Waiting' \in {-1, 0}
    BY <2>2 DEF Waiting
  <2> QED BY <1>7, <2>1, <2>2, <2>3, TrailEmpty DEF EdgesKept
<1>11. RootPhase'
  <2>1. Len(stack1') = 0
    BY <1>2, EmptySeq
  <2>2. PICK P : P = RootEdgesPassed'
    OBVIOUS
  <2>3. P \in SUBSET {w \in V : graph[root][w] = 1}
    BY <1>2, <2>2 DEF RootEdgesPassed
  <2>4. Cardinality(P) \in Nat
    BY <1>1, <2>3, AtMostThree, FS_CardinalityType
  <2> QED BY <1>2, <2>1, <2>2, <2>4 DEF RootPhase
<1>12. CallsPhase'
  BY <1>1, <1>2, <1>8 DEF CallsPhase
<1> QED BY <1>9, <1>10, <1>11, <1>12 DEF IInv

-----------------------------------------------------------------------------
LEMMA NextInv ==
    ASSUME IInv, [Next]_vars
    PROVE  IInv'
<1>1. CASE ColourRootEdge
  BY <1>1, ColourRootEdgeStep
<1>2. CASE RootColoured
  BY <1>2, RootColouredStep
<1>3. CASE RootCall
  BY <1>3, RootCallStep
<1>4. CASE Found
  BY <1>4, FoundStep
<1>5. CASE RootCallSucceeded
  BY <1>5, RootCallSucceededStep
<1>6. CASE RootCallFailed
  BY <1>6, RootCallFailedStep
<1>7. CASE FirstAttempt
  BY <1>7, FirstAttemptStep
<1>8. CASE NoColourLeft
  BY <1>8, NoColourLeftStep
<1>9. CASE ScanDone
  BY <1>9, ScanDoneStep
<1>10. CASE CallSucceeded
  BY <1>10, CallSucceededStep
<1>11. CASE SecondAttempt
  BY <1>11, SecondAttemptStep
<1>12. CASE CallFailed
  BY <1>12, CallFailedStep
<1>13. CASE UNCHANGED vars
  <2>1. TypeOK'
    BY <1>13 DEF IInv, TypeOK, vars
  <2>2. EdgesKept'
    BY <1>13 DEF IInv, EdgesKept, Colouring, vars
  <2>3. Trail(frames, graphColors, Waiting)'
    BY <1>13 DEF IInv, Waiting, vars
  <2>4. RootPhase' /\ CallsPhase'
    BY <1>13 DEF IInv, RootPhase, RootEdgesPassed, CallsPhase, vars
  <2> QED BY <2>1, <2>2, <2>3, <2>4 DEF IInv
<1> QED BY <1>1, <1>2, <1>3, <1>4, <1>5, <1>6, <1>7, <1>8, <1>9, <1>10, <1>11,
           <1>12, <1>13 DEF Next

LEMMA SpecInv == Spec => []IInv
<1>1. Init => IInv
  BY InitInv
<1>2. IInv /\ [Next]_vars => IInv'
  BY NextInv
<1> QED BY <1>1, <1>2, PTL DEF Spec

\* The colour of an active call's edge is in the copies of the calls below it,
\* and what a copy has coloured the graph has.
LEMMA TrailColouredInv ==
    ASSUME IInv
    PROVE  TrailColoured
<1>1. PICK L : L = Len(frames)
  OBVIOUS
<1>2. L \in Nat /\ frames \in Seq(FrameType)
  BY <1>1, LenProperties DEF IInv, TypeOK
<1>3. ASSUME NEW d \in 1..L - 1
      PROVE  graphColors[frames[d].vertex][frames[d + 1].vertex] = frames[d].act + 2
  <2>1. d \in 1..L /\ d + 1 \in 1..L /\ d < d + 1 /\ d \in 1..Waiting
    BY <1>1, <1>2 DEF Waiting
  <2>2. frames[d].vertex \in V /\ frames[d].act \in Colours /\ frames[d].i \in V
    BY <1>1, <1>2, <2>1, FrameFields DEF IInv, Trail, Followed
  <2>3. frames[d + 1].vertex = frames[d].i
    BY <1>1 DEF IInv, Trail, Linked
  <2>4. frames[d + 1].initGraph[frames[d].vertex][frames[d].i] = frames[d].act + 2
    BY <1>1, <2>1 DEF IInv, Trail, Nested
  <2>5. frames[d].act + 2 > 1
    BY <2>2 DEF Colours
  <2>6. Below(frames[d + 1].initGraph, graphColors)
    BY <1>1, <2>1 DEF IInv, Trail, Restorable
  <2>7. graphColors[frames[d].vertex][frames[d].i]
          = frames[d + 1].initGraph[frames[d].vertex][frames[d].i]
    BY <2>2, <2>4, <2>5, <2>6 DEF Below
  <2> QED BY <2>3, <2>4, <2>7
<1> QED BY <1>1, <1>3 DEF TrailColoured

-----------------------------------------------------------------------------
(***************************************************************************)
(* The variables keep their types: the colours in the matrix are 2..4, so  *)
(* the permutation is never asked for a fourth colour.                     *)
(***************************************************************************)
THEOREM SpecTypeOK == Spec => []TypeOK
<1>1. IInv => TypeOK
  BY DEF IInv
<1> QED BY <1>1, SpecInv, PTL

(***************************************************************************)
(* The matrix and every copy of it stay symmetric, with the edges of the   *)
(* input: no step of the search makes or loses an edge.                    *)
(***************************************************************************)
THEOREM SpecEdgesKept == Spec => []EdgesKept
<1>1. IInv => EdgesKept
  BY DEF IInv
<1> QED BY <1>1, SpecInv, PTL

(***************************************************************************)
(* However deep the search is, the edge by which each active call was      *)
(* reached has the colour its caller gave it: no deeper call, and no copy  *)
(* a deeper call puts back, overwrites what a caller will take back.       *)
(***************************************************************************)
THEOREM SpecTrailColoured == Spec => []TrailColoured
<1>1. IInv => TrailColoured
  BY TrailColouredInv
<1> QED BY <1>1, SpecInv, PTL

(***************************************************************************)
(* The root's stack has a vertex for each call that is left, so front is   *)
(* never called on an empty stack.                                         *)
(***************************************************************************)
THEOREM SpecFrontHasValue == Spec => []FrontHasValue
<1>1. IInv => FrontHasValue
  BY DEF IInv, CallsPhase, FrontHasValue
<1> QED BY <1>1, SpecInv, PTL
-----------------------------------------------------------------------------
(***************************************************************************)
(* The second layer: what the search colours is proper, and what it takes  *)
(* back is everything, if the root is no cut vertex.                       *)
(*                                                                         *)
(* A vertex is open when it has a coloured edge that is not the root's and *)
(* an edge without a colour.  Only the vertices of active calls are open,  *)
(* in the matrix and in each copy.  So when the first call of the root has *)
(* returned 1 nothing is open, and what can be reached from its vertex     *)
(* without the root has no uncoloured edge: the calls that follow find     *)
(* nothing to do and cannot fail.  When the first call has returned 0 the  *)
(* matrix is the copy it made, with colours at the root alone.             *)
(***************************************************************************)
RowProper(G, x) ==
    \A u, w \in V : u # w /\ G[x][u] > 1 => G[x][u] # G[x][w]

RowUsed(G, U, x) ==
    \A c \in Colours : U[x][c] = 1 <=> \E w \in V : G[x][w] = c + 2

Sound(G, U) == \A x \in V : RowProper(G, x) /\ RowUsed(G, U, x)

HasBlank(G, x) == \E w \in V : G[x][w] = 1

Open(G, x) == HasBlank(G, x) /\ \E w \in V \ {root} : G[x][w] > 1

NoneOpen(G) == \A x \in V : ~ Open(G, x)

\* One of the first d calls is on x.
Active(fs, d, x) == \E e \in 1..d : fs[e].vertex = x

\* What the call f has passed in its row of G has a colour or is no edge.
Scanned(f, G) == \A w \in V : w < f.i => G[f.vertex][w] # 1

\* Only the root's edges differ from the input g.
RootAlone(g, G) == \A u, w \in V \ {root} : G[u][w] = g[u][w]

Neighbours(g) == {w \in V : g[root][w] = 1}

\* The neighbours of the root have no uncoloured edge.
Around(g, G) == \A w \in Neighbours(g) : ~ HasBlank(G, w)

\* What call d found.
GoodCopy(fs, d) ==
    /\ fs[d].vertex # root
    /\ Sound(fs[d].initGraph, fs[d].initUsed)
    /\ ~ HasBlank(fs[d].initGraph, root)
    /\ \A x \in V : Open(fs[d].initGraph, x) => Active(fs, d, x)
    /\ \A e \in 1..d - 1 : Scanned(fs[e], fs[d].initGraph)

Copies(fs, G) == \A d \in 1..Len(fs) : GoodCopy(fs, d) /\ Scanned(fs[d], G)

Current ==
    /\ Sound(graphColors, usedColors)
    /\ pc \in {"calls", "scan", "returned"} => ~ HasBlank(graphColors, root)
    /\ pc = "scan" =>
         /\ top.result # 0
         /\ \A x \in V : Open(graphColors, x) => Active(frames, Len(frames), x)
    /\ pc = "returned" /\ frames # <<>> =>
         /\ graphColors[top.vertex][top.i] = top.act + 2
         /\ \A x \in V : Open(graphColors, x) =>
              Active(frames, Len(frames), x) \/ (ret = 0 /\ x = top.i)

OnStack ==
    /\ \A n \in 1..Len(stack1) : stack1[n] \in Neighbours(graph)
    /\ frames # <<>> => frames[1].vertex = stack1[1]
    /\ pc = "root" => \A w \in Neighbours(graph) : w < j => Occurs(stack1, w)
    /\ pc \in {"calls", "scan", "returned"} /\ j = 0 =>
         \A w \in Neighbours(graph) : Occurs(stack1, w)

Permuted ==
    pc = "root" =>
        /\ RootAlone(graph, graphColors)
        /\ \A w \in V : w < j => graphColors[root][w] # 1
        /\ \A w \in V : w >= j => graphColors[root][w] <= 1
        /\ \A w \in V : graphColors[root][w] > 1 =>
             \E n \in 1..actColor : graphColors[root][w] = Perms[perm][n]
        /\ actColor = 0 => graphColors = graph /\ usedColors = AllUnused

FirstCall ==
    /\ pc = "calls" /\ j = 0 => RootAlone(graph, graphColors)
    /\ frames # <<>> /\ j = 0 => RootAlone(graph, frames[1].initGraph)
    /\ pc = "returned" /\ frames = <<>> /\ ret = 0 => RootAlone(graph, graphColors)
    /\ pc = "returned" /\ frames = <<>> /\ ret = 1 =>
         NoneOpen(graphColors) /\ ~ HasBlank(graphColors, stack1[1])

LaterCalls ==
    /\ pc \in {"calls", "scan", "returned"} /\ j > 0 =>
         /\ Around(graph, graphColors) /\ NoneOpen(graphColors)
         /\ pc = "scan" => Len(frames) = 1
         /\ pc = "returned" => frames = <<>> /\ ret = 1
    /\ found = 1 =>
         /\ pc = "done" /\ ~ HasBlank(graphColors, root)
         /\ Around(graph, graphColors) /\ NoneOpen(graphColors)

CInv ==
    /\ Copies(frames, graphColors)
    /\ Current
    /\ OnStack
    /\ Permuted
    /\ FirstCall
    /\ LaterCalls

-----------------------------------------------------------------------------
\* H is G in row x but for the cell at y, which has n.
CellSet(G, H, x, y, n) == H[x][y] = n /\ \A w \in V : w # y => H[x][w] = G[x][w]

\* No edge of x has the colour c.
Absent(G, x, c) == \A w \in V : G[x][w] # c + 2

\* T is U at x but that an edge with n in the matrix got the colour c.
RowMarked(U, T, x, c, n) ==
    \A e \in Colours : T[x][e] = IF e = c THEN 1 ELSE IF e + 2 = n THEN 0 ELSE U[x][e]

\* Row x gets the colour c at y, where it had no colour or another.
LEMMA RowRepainted ==
    ASSUME NEW G, NEW H, NEW U, NEW T, NEW x \in V, NEW y \in V, NEW c \in Colours,
           RowProper(G, x), RowUsed(G, U, x),
           CellSet(G, H, x, y, c + 2), Absent(G, x, c), RowMarked(U, T, x, c, G[x][y])
    PROVE  RowProper(H, x) /\ RowUsed(H, T, x)
<1>1. H[x][y] = c + 2 /\ \A w \in V : w # y => H[x][w] = G[x][w]
  BY DEF CellSet
<1>2. \A w \in V : G[x][w] # c + 2
  BY DEF Absent
<1>3. \A e \in Colours :
        T[x][e] = IF e = c THEN 1 ELSE IF e + 2 = G[x][y] THEN 0 ELSE U[x][e]
  BY DEF RowMarked
<1>4. RowProper(H, x)
  <2>1. ASSUME NEW u \in V, NEW w \in V, u # w, H[x][u] > 1
        PROVE  H[x][u] # H[x][w]
    <3>1. CASE u = y
      BY <1>1, <1>2, <2>1, <3>1
    <3>2. CASE w = y
      BY <1>1, <1>2, <2>1, <3>2
    <3>3. CASE u # y /\ w # y
      BY <1>1, <2>1, <3>3 DEF RowProper
    <3> QED BY <3>1, <3>2, <3>3
  <2> QED BY <2>1 DEF RowProper
<1>5. ASSUME NEW e \in Colours
      PROVE  T[x][e] = 1 <=> \E w \in V : H[x][w] = e + 2
  <2>1. CASE e = c
    BY <1>1, <1>3, <2>1
  <2>2. CASE e # c /\ e + 2 = G[x][y]
    <3>1. T[x][e] = 0 /\ e + 2 > 1 /\ e + 2 # c + 2
      BY <1>3, <2>2 DEF Colours
    <3>2. ASSUME NEW w \in V, H[x][w] = e + 2
          PROVE  FALSE
      <4>1. w # y
        BY <1>1, <3>1, <3>2
      <4>2. G[x][w] = e + 2 /\ G[x][y] > 1
        BY <1>1, <2>2, <3>1, <3>2, <4>1
      <4> QED BY <2>2, <4>1, <4>2 DEF RowProper
    <3> QED BY <3>1, <3>2
  <2>3. CASE e # c /\ e + 2 # G[x][y]
    <3>1. T[x][e] = U[x][e] /\ e + 2 # c + 2
      BY <1>3, <2>3 DEF Colours
    <3>2. \A w \in V : H[x][w] = e + 2 <=> G[x][w] = e + 2
      BY <1>1, <1>2, <2>3, <3>1
    <3> QED BY <3>1, <3>2 DEF RowUsed
  <2> QED BY <2>1, <2>2, <2>3
<1> QED BY <1>4, <1>5 DEF RowUsed

\* A row that stays as it is.
LEMMA RowKept ==
    ASSUME NEW G, NEW H, NEW U, NEW T, NEW x \in V,
           RowProper(G, x), RowUsed(G, U, x),
           \A w \in V : H[x][w] = G[x][w], \A e \in Colours : T[x][e] = U[x][e]
    PROVE  RowProper(H, x) /\ RowUsed(H, T, x)
  BY DEF RowProper, RowUsed

\* T is the table U after the edge {v, k}, with n in the matrix, got the colour c.
Retabled(U, T, v, k, c, n) ==
    /\ RowMarked(U, T, v, c, n) /\ RowMarked(U, T, k, c, n)
    /\ \A x \in V \ {v, k}, e \in Colours : T[x][e] = U[x][e]

\* An edge gets a colour that neither end has.
LEMMA SoundRepainted ==
    ASSUME NEW G, NEW H, NEW U, NEW T, NEW v \in V, NEW k \in V, v # k, NEW c \in Colours,
           Sound(G, U), Repainted(G, H, v, k, c + 2), G[v][k] = G[k][v],
           Absent(G, v, c), Absent(G, k, c), Retabled(U, T, v, k, c, G[v][k])
    PROVE  Sound(H, T)
<1>1. RowProper(H, v) /\ RowUsed(H, T, v)
  <2>1. CellSet(G, H, v, k, c + 2) /\ RowMarked(U, T, v, c, G[v][k])
    BY DEF CellSet, Repainted, Retabled
  <2>2. RowProper(G, v) /\ RowUsed(G, U, v)
    BY DEF Sound
  <2> QED BY <2>1, <2>2, RowRepainted
<1>2. RowProper(H, k) /\ RowUsed(H, T, k)
  <2>1. CellSet(G, H, k, v, c + 2) /\ RowMarked(U, T, k, c, G[k][v])
    BY DEF CellSet, Repainted, Retabled
  <2>2. RowProper(G, k) /\ RowUsed(G, U, k)
    BY DEF Sound
  <2> QED BY <2>1, <2>2, RowRepainted
<1>3. ASSUME NEW x \in V, x \notin {v, k}
      PROVE  RowProper(H, x) /\ RowUsed(H, T, x)
  <2>1. \A w \in V : H[x][w] = G[x][w]
    BY <1>3 DEF Repainted
  <2>2. \A e \in Colours : T[x][e] = U[x][e]
    BY <1>3 DEF Retabled
  <2>3. RowProper(G, x) /\ RowUsed(G, U, x)
    BY DEF Sound
  <2> QED BY <2>1, <2>2, <2>3, RowKept
<1> QED BY <1>1, <1>2, <1>3 DEF Sound

LEMMA BlankRepainted ==
    ASSUME NEW G, NEW H, NEW v \in V, NEW k \in V, NEW m, m # 1,
           Repainted(G, H, v, k, m)
    PROVE  \A x, w \in V : H[x][w] = 1 => G[x][w] = 1
  BY DEF Repainted

LEMMA RootStaysFull ==
    ASSUME NEW G, NEW H, NEW v \in V, NEW k \in V, NEW m, m # 1,
           Repainted(G, H, v, k, m), ~ HasBlank(G, root)
    PROVE  ~ HasBlank(H, root)
  BY BlankRepainted, RootAssumption DEF HasBlank

\* Colouring an edge opens at most its ends.
LEMMA OpenRepainted ==
    ASSUME NEW G, NEW H, NEW v \in V, NEW k \in V, NEW m, m # 1,
           Repainted(G, H, v, k, m), NEW x \in V, x # v, x # k, Open(H, x)
    PROVE  Open(G, x)
<1>1. \A w \in V : H[x][w] = G[x][w]
  BY DEF Repainted
<1> QED BY <1>1 DEF Open, HasBlank

\* With colours at the root alone nothing is open.
LEMMA RootAloneOpensNone ==
    ASSUME NEW g, IsGraph(g), NEW G, RootAlone(g, G), ~ HasBlank(G, root)
    PROVE  NoneOpen(G)
<1>1. ASSUME NEW x \in V, Open(G, x)
      PROVE  FALSE
  <2>1. x # root
    BY <1>1 DEF Open
  <2>2. PICK w \in V \ {root} : G[x][w] > 1
    BY <1>1 DEF Open
  <2>3. G[x][w] = g[x][w] /\ g[x][w] \in {0, 1}
    BY <2>1, <2>2 DEF RootAlone, IsGraph
  <2> QED BY <2>2, <2>3
<1> QED BY <1>1 DEF NoneOpen

\* The matrices with which a permutation begins.
LEMMA BlankIsSound ==
    ASSUME NEW g, IsGraph(g)
    PROVE  Sound(g, AllUnused)
<1>1. ASSUME NEW x \in V
      PROVE  RowProper(g, x) /\ RowUsed(g, AllUnused, x)
  <2>1. \A w \in V : g[x][w] \in {0, 1}
    BY DEF IsGraph
  <2>2. RowProper(g, x)
    BY <2>1 DEF RowProper
  <2>3. \A c \in Colours : AllUnused[x][c] = 0 /\ c + 2 \notin {0, 1}
    BY DEF AllUnused, Colours
  <2>4. RowUsed(g, AllUnused, x)
    BY <2>1, <2>3 DEF RowUsed
  <2> QED BY <2>2, <2>4
<1> QED BY <1>1 DEF Sound

\* A colour that usedColors does not mark is on no edge of the vertex.
LEMMA UnusedIsAbsent ==
    ASSUME NEW G, NEW U, Sound(G, U), NEW x \in V, NEW c \in Colours, U[x][c] = 0
    PROVE  Absent(G, x, c)
<1>1. U[x][c] # 1
  OBVIOUS
<1> QED BY <1>1 DEF Sound, RowUsed, Absent

-----------------------------------------------------------------------------
\* Steps of the calls keep the second layer.

\* While a call can fail or colour, the root is in its first call.
LEMMA FirstCallOnly ==
    ASSUME TypeOK, LaterCalls, pc = "returned", frames # <<>> \/ ret = 0
    PROVE  j = 0
  BY DEF LaterCalls, TypeOK

\* The call the root made is on a neighbour of the root.
LEMMA BottomIsNeighbour ==
    ASSUME IInv, OnStack, frames # <<>>
    PROVE  1 \in 1..Len(stack1) /\ stack1[1] \in Neighbours(graph) /\ stack1[1] \in V
<1>1. /\ frames \in Seq(FrameType) /\ stack1 \in Seq(V) /\ Len(stack1) = addedVertexes - j
      /\ j < addedVertexes /\ j \in Nat /\ addedVertexes \in Nat
  BY DEF IInv, TypeOK, CallsPhase
<1>2. 1 \in 1..Len(stack1)
  BY <1>1
<1> QED BY <1>2 DEF OnStack, Neighbours

\* The scan of a later call of the root finds nothing to colour.
LEMMA LaterScanFindsNothing ==
    ASSUME IInv, CInv, pc = "scan", NEW w \in V, graphColors[top.vertex][w] = 1
    PROVE  j = 0
<1>1. frames # <<>> /\ frames \in Seq(FrameType) /\ j \in Nat
  BY DEF IInv, CallsPhase, TypeOK
<1>2. CASE j > 0
  <2>1. Len(frames) = 1 /\ Around(graph, graphColors)
    BY <1>2 DEF CInv, LaterCalls
  <2>2. top.vertex = stack1[1]
    BY <1>1, <2>1, LastFrame DEF CInv, OnStack
  <2>3. stack1[1] \in Neighbours(graph)
    BY <1>1, BottomIsNeighbour DEF CInv
  <2> QED BY <2>1, <2>2, <2>3 DEF Around, HasBlank
<1> QED BY <1>1, <1>2

\* Row v of G has no uncoloured edge before k.
PassedTo(G, v, k) == \A w \in V : w < k => G[v][w] # 1

\* Only the first d calls are on open vertices, unless k is open.
OpenOnlyAt(fs, d, G, k) == \A x \in V : Open(G, x) => Active(fs, d, x) \/ x = k

\* The L calls fs after the innermost called itself on k and the call copied
\* the matrices H and T.
Pushed(fs, t, L, k, H, T) ==
    /\ Len(t) = L + 1 /\ \A d \in 1..L - 1 : t[d] = fs[d]
    /\ t[L].vertex = fs[L].vertex /\ t[L].i = k
    /\ t[L].initGraph = fs[L].initGraph /\ t[L].initUsed = fs[L].initUsed
    /\ t[L + 1].vertex = k /\ t[L + 1].i = 0
    /\ t[L + 1].initGraph = H /\ t[L + 1].initUsed = T

\* The copies of the calls that go on calling, and of the new call on k.
LEMMA PushCopies ==
    ASSUME NEW fs \in Seq(FrameType), fs # <<>>, NEW t, NEW G, NEW H, NEW T,
           NEW L, L = Len(fs), NEW v \in V, v = fs[L].vertex,
           NEW k \in V, k # root, NEW m, m # 1,
           Repainted(G, H, v, k, m), Copies(fs, G),
           Sound(H, T), ~ HasBlank(H, root),
           OpenOnlyAt(fs, L, G, k), PassedTo(G, v, k),
           Pushed(fs, t, L, k, H, T)
    PROVE  /\ Copies(t, H)
           /\ \A x \in V : Open(H, x) => Active(t, L + 1, x)
<1>1. L \in Nat \ {0}
  BY EmptySeq
<1>2. /\ L \in 1..L /\ L + 1 \in 1..L + 1 /\ L + 1 - 1 = L
      /\ \A d \in 1..L : d \in 1..L - 1 \/ d = L
      /\ \A d \in 1..L + 1 : d \in 1..L \/ d = L + 1
      /\ \A d \in 1..L : d \in 1..L + 1
      /\ \A d \in 1..L : \A e \in 1..d - 1 : e \in 1..L - 1
      /\ \A d \in 1..L : \A e \in 1..d : e \in 1..L
  BY <1>1
<1>3. \A d \in 1..L : /\ t[d].vertex = fs[d].vertex /\ t[d].initGraph = fs[d].initGraph
                      /\ t[d].initUsed = fs[d].initUsed
  BY <1>2 DEF Pushed
<1>4. \A x, w \in V : H[x][w] = 1 => G[x][w] = 1
  BY BlankRepainted
<1>5. ASSUME NEW e \in 1..L
      PROVE  Scanned(t[e], H)
  <2>1. ASSUME NEW w \in V, w < t[e].i, H[t[e].vertex][w] = 1
        PROVE  FALSE
    <3>1. fs[e].vertex \in V
      BY <1>5, FrameFields
    <3>2. G[t[e].vertex][w] = 1
      BY <1>3, <1>5, <1>4, <2>1, <3>1
    <3>3. CASE e = L
      BY <2>1, <3>2, <3>3 DEF PassedTo, Pushed
    <3>4. CASE e \in 1..L - 1
      <4>1. t[e] = fs[e] /\ Scanned(fs[e], G)
        BY <3>4, <1>5 DEF Copies, Pushed
      <4> QED BY <2>1, <3>2, <4>1 DEF Scanned
    <3> QED BY <1>2, <1>5, <3>3, <3>4
  <2> QED BY <2>1 DEF Scanned
<1>6. ASSUME NEW x \in V, Open(H, x)
      PROVE  Active(t, L + 1, x)
  <2>1. CASE x = k
    BY <1>2, <2>1 DEF Active, Pushed
  <2>2. CASE x = v
    BY <1>2, <2>2 DEF Active, Pushed
  <2>3. CASE x # k /\ x # v
    <3>1. Open(G, x)
      BY <1>6, <2>3, OpenRepainted
    <3>2. PICK e \in 1..L : fs[e].vertex = x
      BY <2>3, <3>1 DEF Active, OpenOnlyAt
    <3> QED BY <1>2, <1>3, <3>2 DEF Active
  <2> QED BY <2>1, <2>2, <2>3
<1>7. ASSUME NEW d \in 1..L
      PROVE  GoodCopy(t, d)
  <2>1. GoodCopy(fs, d)
    BY <1>7 DEF Copies
  <2>2. \A x : Active(fs, d, x) => Active(t, d, x)
    BY <1>2, <1>3, <1>7 DEF Active
  <2>3. \A e \in 1..d - 1 : t[e] = fs[e]
    BY <1>2, <1>7 DEF Pushed
  <2> QED BY <1>3, <1>7, <2>1, <2>2, <2>3 DEF GoodCopy
<1>8. GoodCopy(t, L + 1)
  BY <1>2, <1>5, <1>6 DEF GoodCopy, Pushed
<1>9. Scanned(t[L + 1], H)
  BY SizeAssumption DEF Scanned, V, Pushed
<1> QED BY <1>2, <1>5, <1>6, <1>7, <1>8, <1>9 DEF Copies, Pushed

\* The innermost call gives its edge to k a colour that neither end has and
\* calls itself on k.
LEMMA CallKeeps ==
    ASSUME IInv, CInv, frames # <<>>, pc \in {"scan", "returned"}, j = 0,
           NEW k \in V, NEW c \in Colours, NEW f \in FrameType,
           top.initGraph[top.vertex][k] = 1,
           usedColors[top.vertex][c] = 0, usedColors[k][c] = 0,
           f.vertex = top.vertex, f.i = k, f.act = c,
           f.initGraph = top.initGraph, f.initUsed = top.initUsed,
           Repainted(graphColors, graphColors', top.vertex, k, c + 2),
           usedColors' \in Tables,
           Retabled(usedColors, usedColors', top.vertex, k, c, graphColors[top.vertex][k]),
           PassedTo(graphColors, top.vertex, k),
           OpenOnlyAt(frames, Len(frames), graphColors, k),
           CallFrom(f, k), RootUnchanged
    PROVE  CInv'
<1>1. TypeOK /\ EdgesKept /\ Copies(frames, graphColors) /\ Sound(graphColors, usedColors)
  BY DEF IInv, CInv, Current
<1>2. PICK L : L = Len(frames)
  OBVIOUS
<1>3. L \in Nat \ {0} /\ top = frames[L] /\ top \in FrameType /\ frames \in Seq(FrameType)
  BY <1>1, <1>2, LastFrame DEF TypeOK
<1>4. PICK v \in V : v = top.vertex
  BY <1>3 DEF FrameType
<1>5. L \in 1..L /\ L + 1 \in 1..L + 1 /\ 1 \in 1..L
  BY <1>3
<1>6. GoodCopy(frames, L) /\ Colouring(top.initGraph)
  BY <1>1, <1>2, <1>3, <1>5 DEF Copies, EdgesKept
<1>7. v # k /\ k # root
  <2>1. top.initGraph[v][k] = 1 /\ top.initGraph[k][v] = 1 /\ graph[v][k] # 0
    BY <1>4, <1>6 DEF Colouring
  <2>2. graph[v][v] = 0
    BY <1>1, <1>4, InputGraph DEF IsGraph
  <2>3. k # root
    BY <1>3, <1>4, <1>6, <2>1 DEF GoodCopy, HasBlank
  <2> QED BY <2>1, <2>2, <2>3
<1>8. PICK m \in 2..4 : m = c + 2
  BY DEF Colours
<1>9. PICK H, T : H = graphColors' /\ T = usedColors'
  OBVIOUS
<1>10. /\ Repainted(graphColors, H, v, k, m) /\ H \in Matrices
       /\ Retabled(usedColors, T, v, k, c, graphColors[v][k])
       /\ PassedTo(graphColors, v, k) /\ OpenOnlyAt(frames, L, graphColors, k)
  BY <1>2, <1>4, <1>8, <1>9 DEF Repainted
<1>11. Sound(H, T) /\ ~ HasBlank(H, root)
  <2>1. Absent(graphColors, v, c) /\ Absent(graphColors, k, c)
    BY <1>1, <1>4, UnusedIsAbsent
  <2>2. graphColors[v][k] = graphColors[k][v] /\ ~ HasBlank(graphColors, root)
    BY <1>1 DEF EdgesKept, Colouring, CInv, Current
  <2>3. Repainted(graphColors, H, v, k, c + 2) /\ m # 1
    BY <1>8, <1>10
  <2>4. Sound(H, T)
    BY <1>1, <1>7, <1>10, <2>1, <2>2, <2>3, SoundRepainted
  <2>5. ~ HasBlank(H, root)
    BY <1>10, <2>2, <2>3, RootStaysFull
  <2> QED BY <2>4, <2>5
<1>12. PICK g \in FrameType :
         /\ g = Frame(k, H, T)
         /\ g.vertex = k /\ g.initGraph = H /\ g.initUsed = T
         /\ g.i = 0 /\ g.result = -1
  <2>1. H \in Matrices /\ T \in Tables
    BY <1>9, <1>10
  <2>2. Frame(k, H, T).i = 0 /\ Frame(k, H, T).result = -1
    BY DEF Frame
  <2> QED BY <2>1, <2>2, FrameIsTyped
<1>13. PICK t : t = Append([frames EXCEPT ![Len(frames)] = f], g)
  OBVIOUS
<1>14. frames' = t /\ pc' = "scan" /\ ret' = ret
  BY <1>9, <1>12, <1>13 DEF CallFrom
<1>15. /\ t \in Seq(FrameType) /\ Len(t) = L + 1
       /\ t[L] = f /\ t[L + 1] = g
       /\ \A n \in 1..L - 1 : t[n] = frames[n]
  BY <1>2, <1>3, <1>12, <1>13, ReplaceTopAndPush
<1>16. Copies(t, H) /\ \A x \in V : Open(H, x) => Active(t, L + 1, x)
  <2>1. Pushed(frames, t, L, k, H, T)
    BY <1>3, <1>12, <1>15 DEF Pushed
  <2>2. v = frames[L].vertex /\ m # 1
    BY <1>3, <1>4, <1>8
  <2> QED BY <1>1, <1>2, <1>3, <1>7, <1>10, <1>11, <2>1, <2>2, PushCopies
<1>17. Current'
  <2>1. top' = g /\ Len(frames') = L + 1
    BY <1>14, <1>15 DEF top, Last
  <2>2. top'.result # 0
    BY <1>12, <2>1
  <2>3. \A x \in V : Open(graphColors', x) => Active(frames', Len(frames'), x)
    BY <1>9, <1>14, <1>16, <2>1
  <2> QED BY <1>9, <1>11, <1>14, <2>2, <2>3 DEF Current
<1>18. /\ UNCHANGED <<graph, perm, stack1, addedVertexes, j, actColor, found>>
       /\ found = 1 => pc = "done"
  BY DEF RootUnchanged, CInv, LaterCalls
<1>19. t[1].vertex = frames[1].vertex /\ t[1].initGraph = frames[1].initGraph
  <2>1. CASE L = 1
    BY <1>3, <1>15, <2>1
  <2>2. CASE L # 1
    <3>1. 1 \in 1..L - 1
      BY <1>3, <2>2
    <3> QED BY <1>15, <3>1
  <2> QED BY <2>1, <2>2
<1>20. OnStack'
  <2>1. frames[1].vertex = stack1[1]
        /\ \A n \in 1..Len(stack1) : stack1[n] \in Neighbours(graph)
    BY DEF CInv, OnStack
  <2>2. \A w \in Neighbours(graph) : Occurs(stack1, w)
    BY DEF CInv, OnStack
  <2> QED BY <1>14, <1>18, <1>19, <2>1, <2>2 DEF OnStack
<1>21. FirstCall'
  <2>1. RootAlone(graph, frames[1].initGraph)
    BY DEF CInv, FirstCall
  <2> QED BY <1>14, <1>18, <1>19, <2>1 DEF FirstCall
<1>22. Permuted' /\ LaterCalls'
  BY <1>14, <1>18 DEF Permuted, LaterCalls
<1> QED BY <1>9, <1>14, <1>16, <1>17, <1>20, <1>21, <1>22 DEF CInv

LEMMA FirstAttemptKeeps ==
    ASSUME IInv, CInv, FirstAttempt
    PROVE  CInv'
<1>1. PICK k \in V, c \in Colours, f \in FrameType :
        /\ graphColors[top.vertex][k] = 1 /\ top.initGraph[top.vertex][k] = 1
        /\ \A w \in V : w >= top.i /\ graphColors[top.vertex][w] = 1 => k <= w
        /\ usedColors[top.vertex][c] = 0 /\ usedColors[k][c] = 0
        /\ f.vertex = top.vertex /\ f.i = k /\ f.act = c
        /\ f.initGraph = top.initGraph /\ f.initUsed = top.initUsed
        /\ Paint(top.vertex, k, c) /\ CallFrom(f, k)
  BY FirstAttemptDoes
<1>2. frames # <<>> /\ pc = "scan" /\ RootUnchanged
  BY FirstAttemptDoes
<1>3. TypeOK /\ EdgesKept /\ Current /\ Copies(frames, graphColors)
  BY DEF IInv, CInv
<1>4. Len(frames) \in 1..Len(frames) /\ top = frames[Len(frames)] /\ top \in FrameType
  BY <1>2, <1>3, LastFrame DEF TypeOK
<1>5. top.vertex \in V /\ top.i \in Nat
  BY <1>4 DEF FrameType
<1>6. j = 0
  BY <1>1, <1>2, LaterScanFindsNothing
<1>7. graph[top.vertex][k] # 0 /\ top.vertex # k
  <2>1. graph[top.vertex][k] # 0
    BY <1>1, <1>3, <1>5 DEF EdgesKept, Colouring
  <2>2. graph[top.vertex][top.vertex] = 0
    BY <1>3, <1>5, InputGraph DEF IsGraph
  <2> QED BY <2>1, <2>2
<1>8. PICK m \in 2..4 : m = c + 2
  BY DEF Colours
<1>9. Repainted(graphColors, graphColors', top.vertex, k, c + 2)
  <2>1. graphColors' = Painted(graphColors, top.vertex, k, m)
    BY <1>1, <1>8 DEF Paint, Painted
  <2>2. m \in 0..4 /\ graphColors \in Matrices
    BY <1>3, <1>8 DEF TypeOK
  <2>3. Repainted(graphColors, Painted(graphColors, top.vertex, k, m), top.vertex, k, m)
    BY <1>5, <2>2, PaintedMatrix
  <2> QED BY <1>8, <2>1, <2>3
<1>10. /\ usedColors' \in Tables
       /\ Retabled(usedColors, usedColors', top.vertex, k, c, graphColors[top.vertex][k])
  <2>1. usedColors \in Tables /\ \A e \in Colours : e + 2 # 1
    BY <1>3 DEF TypeOK, Colours
  <2>2. usedColors' = [usedColors EXCEPT ![top.vertex][c] = 1, ![k][c] = 1]
    BY <1>1 DEF Paint
  <2>3. usedColors' \in Tables
    BY <1>5, <2>1, <2>2 DEF Tables
  <2>4. RowMarked(usedColors, usedColors', top.vertex, c, 1)
    BY <1>5, <1>7, <2>1, <2>2 DEF Tables, RowMarked
  <2>5. RowMarked(usedColors, usedColors', k, c, 1)
    BY <1>5, <1>7, <2>1, <2>2 DEF Tables, RowMarked
  <2>6. \A x \in V \ {top.vertex, k}, e \in Colours : usedColors'[x][e] = usedColors[x][e]
    BY <2>1, <2>2 DEF Tables
  <2> QED BY <1>1, <2>3, <2>4, <2>5, <2>6 DEF Retabled
<1>11. PassedTo(graphColors, top.vertex, k)
  <2>1. ASSUME NEW w \in V, w < k
        PROVE  graphColors[top.vertex][w] # 1
    <3>1. w \in Nat /\ k \in Nat
      BY VIsNat
    <3>2. CASE w < top.i
      BY <1>3, <1>4, <3>2 DEF Copies, Scanned
    <3>3. CASE w >= top.i
      BY <1>1, <2>1, <3>1, <3>3
    <3> QED BY <1>5, <3>1, <3>2, <3>3
  <2> QED BY <2>1 DEF PassedTo
<1>12. OpenOnlyAt(frames, Len(frames), graphColors, k)
  BY <1>2, <1>3 DEF Current, OpenOnlyAt
<1> QED BY <1>1, <1>2, <1>6, <1>9, <1>10, <1>11, <1>12, CallKeeps

LEMMA SecondAttemptKeeps ==
    ASSUME IInv, CInv, SecondAttempt
    PROVE  CInv'
<1> DEFINE k == top.i
           v == top.vertex
<1>1. PICK c \in Colours, f \in FrameType :
        /\ usedColors[top.vertex][c] = 0 /\ usedColors[top.i][c] = 0 /\ c # top.act
        /\ f.vertex = top.vertex /\ f.i = top.i /\ f.act = c
        /\ f.initGraph = top.initGraph /\ f.initUsed = top.initUsed
        /\ graphColors' = [graphColors EXCEPT ![top.vertex][top.i] = c + 2,
                                              ![top.i][top.vertex] = c + 2]
        /\ usedColors' = [usedColors EXCEPT
                            ![top.vertex] = [@ EXCEPT ![top.act] = 0, ![c] = 1],
                            ![top.i] = [@ EXCEPT ![top.act] = 0, ![c] = 1]]
        /\ CallFrom(f, top.i)
  BY SecondAttemptDoes
<1>2. /\ frames # <<>> /\ pc = "returned" /\ ret = 0 /\ RootUnchanged
      /\ top.i \in V /\ top.initGraph[top.vertex][top.i] = 1
  BY SecondAttemptDoes
<1>3. TypeOK /\ EdgesKept /\ Current /\ Copies(frames, graphColors)
  BY DEF IInv, CInv
<1>4. Len(frames) \in 1..Len(frames) /\ top = frames[Len(frames)] /\ top \in FrameType
  BY <1>2, <1>3, LastFrame DEF TypeOK
<1>5. v \in V /\ k \in V /\ top.act \in Colours
  BY <1>2, <1>4 DEF FrameType
<1>6. j = 0
  BY <1>2, <1>3, FirstCallOnly DEF CInv
<1>7. graphColors[v][k] = top.act + 2
  BY <1>2, <1>3 DEF Current
<1>8. v # k
  <2>1. Colouring(top.initGraph)
    BY <1>3, <1>4 DEF EdgesKept
  <2>2. graph[v][k] # 0
    BY <1>2, <1>5, <2>1 DEF Colouring
  <2>3. graph[v][v] = 0
    BY <1>3, <1>5, InputGraph DEF IsGraph
  <2> QED BY <2>2, <2>3
<1>9. PICK m \in 2..4 : m = c + 2
  BY DEF Colours
<1>10. PICK a \in Colours : a = top.act
  BY <1>5
<1>11. Repainted(graphColors, graphColors', v, k, c + 2)
  <2>1. graphColors' = Painted(graphColors, v, k, m)
    BY <1>1, <1>9 DEF Painted
  <2>2. m \in 0..4 /\ graphColors \in Matrices
    BY <1>3, <1>9 DEF TypeOK
  <2>3. Repainted(graphColors, Painted(graphColors, v, k, m), v, k, m)
    BY <1>5, <2>2, PaintedMatrix
  <2> QED BY <1>9, <2>1, <2>3
<1>12. usedColors' \in Tables /\ Retabled(usedColors, usedColors', v, k, c, a + 2)
  <2>1. PICK x, y \in V : x = v /\ y = k
    BY <1>5
  <2>2. usedColors \in [V -> [Colours -> {0, 1}]] /\ x # y /\ c # a
    BY <1>1, <1>3, <1>8, <1>10, <2>1 DEF TypeOK, Tables
  <2>3. usedColors' = [usedColors EXCEPT ![x] = [@ EXCEPT ![a] = 0, ![c] = 1],
                                         ![y] = [@ EXCEPT ![a] = 0, ![c] = 1]]
    BY <1>1, <1>10, <2>1
  <2>4. \A e \in Colours : e + 2 = a + 2 <=> e = a
    BY DEF Colours
  <2>5. usedColors' \in Tables
    BY <2>2, <2>3 DEF Tables
  <2>6. RowMarked(usedColors, usedColors', x, c, a + 2)
    BY <2>2, <2>3, <2>4 DEF RowMarked
  <2>7. RowMarked(usedColors, usedColors', y, c, a + 2)
    BY <2>2, <2>3, <2>4 DEF RowMarked
  <2>8. \A z \in V \ {x, y}, e \in Colours : usedColors'[z][e] = usedColors[z][e]
    BY <2>2, <2>3
  <2> QED BY <2>1, <2>5, <2>6, <2>7, <2>8 DEF Retabled
<1>13. PassedTo(graphColors, v, k)
  BY <1>3, <1>4 DEF Copies, Scanned, PassedTo
<1>14. OpenOnlyAt(frames, Len(frames), graphColors, k)
  BY <1>2, <1>3 DEF Current, OpenOnlyAt
<1>15. Retabled(usedColors, usedColors', v, k, c, graphColors[v][k])
  BY <1>7, <1>10, <1>12
<1> QED BY <1>1, <1>2, <1>5, <1>6, <1>11, <1>12, <1>13, <1>14, <1>15, CallKeeps

\* A call that returns leaves the copies of the calls above it.
LEMMA PopCopies ==
    ASSUME NEW fs \in Seq(FrameType), NEW L \in Nat, L = Len(fs), NEW t,
           Len(t) = L - 1, \A d \in 1..L - 1 : t[d] = fs[d],
           NEW G, NEW H, Copies(fs, G), H = G \/ (L > 0 /\ H = fs[L].initGraph)
    PROVE  Copies(t, H)
<1>1. ASSUME NEW d \in 1..L - 1
      PROVE  GoodCopy(t, d) /\ Scanned(t[d], H)
  <2>1. /\ d \in 1..L /\ \A e \in 1..d : e \in 1..L - 1
        /\ \A e \in 1..d - 1 : e \in 1..L - 1 /\ e \in 1..d
    BY <1>1
  <2>2. GoodCopy(fs, d) /\ Scanned(fs[d], G)
    BY <2>1 DEF Copies
  <2>3. \A x : Active(fs, d, x) => Active(t, d, x)
    BY <2>1 DEF Active
  <2>4. GoodCopy(t, d)
    BY <2>1, <2>2, <2>3 DEF GoodCopy
  <2>5. CASE H = G
    BY <2>2, <2>4, <2>5
  <2>6. CASE L > 0 /\ H = fs[L].initGraph
    <3>1. L \in 1..L
      BY <2>6
    <3>2. GoodCopy(fs, L)
      BY <3>1 DEF Copies
    <3>3. Scanned(fs[d], fs[L].initGraph)
      BY <3>2 DEF GoodCopy
    <3> QED BY <2>4, <2>6, <3>3
  <2> QED BY <2>5, <2>6
<1> QED BY <1>1 DEF Copies

\* The parts of the second layer that a return does not touch.
LEMMA ReturnKeepsStack ==
    ASSUME IInv, CInv, frames # <<>>, pc \in {"scan", "returned"},
           NEW value \in {0, 1}, Return(value), RootUnchanged
    PROVE  OnStack' /\ Permuted' /\ (frames' # <<>> => frames'[1] = frames[1])
<1>1. frames \in Seq(FrameType)
  BY DEF IInv, TypeOK
<1>2. PICK L \in Nat \ {0} : L = Len(frames)
  BY <1>1, EmptySeq
<1>3. PICK t : t = Front(frames)
  OBVIOUS
<1>4. frames' = t /\ pc' = "returned"
  BY <1>3 DEF Return
<1>5. t \in Seq(FrameType) /\ Len(t) = L - 1 /\ \A d \in 1..L - 1 : t[d] = frames[d]
  BY <1>1, <1>2, <1>3, FrontOf
<1>6. t # <<>> => t[1] = frames[1]
  <2>1. ASSUME t # <<>>
        PROVE  1 \in 1..L - 1
    BY <1>2, <1>5, <2>1, EmptySeq
  <2> QED BY <1>5, <2>1
<1>7. UNCHANGED <<graph, perm, stack1, addedVertexes, j, actColor, found>>
  BY DEF RootUnchanged
<1>8. /\ \A n \in 1..Len(stack1) : stack1[n] \in Neighbours(graph)
      /\ frames[1].vertex = stack1[1]
      /\ j = 0 => \A w \in Neighbours(graph) : Occurs(stack1, w)
  BY DEF CInv, OnStack
<1>9. OnStack'
  BY <1>4, <1>6, <1>7, <1>8 DEF OnStack
<1> QED BY <1>4, <1>6, <1>9 DEF Permuted

\* undoGraph puts back what the call found.
LEMMA GiveUpKeeps ==
    ASSUME IInv, CInv, frames # <<>>, pc \in {"scan", "returned"}, j = 0,
           GiveUp, RootUnchanged
    PROVE  CInv'
<1>1. /\ TypeOK /\ Current /\ Copies(frames, graphColors)
      /\ Nested(frames) /\ Linked(frames) /\ frames \in Seq(FrameType)
  BY DEF IInv, TypeOK, Trail, CInv
<1>2. PICK L \in Nat \ {0} : L = Len(frames)
  BY <1>1, EmptySeq
<1>3. L \in 1..L /\ top = frames[L] /\ top \in FrameType
  BY <1>1, <1>2, LastFrame
<1>4. PICK t : t = Front(frames)
  OBVIOUS
<1>5. /\ graphColors' = frames[L].initGraph /\ usedColors' = frames[L].initUsed
      /\ frames' = t /\ pc' = "returned" /\ ret' = 0
  BY <1>3, <1>4 DEF GiveUp, Return
<1>6. t \in Seq(FrameType) /\ Len(t) = L - 1 /\ \A d \in 1..L - 1 : t[d] = frames[d]
  BY <1>1, <1>2, <1>4, FrontOf
<1>7. GoodCopy(frames, L)
  BY <1>1, <1>2, <1>3 DEF Copies
<1>8. Copies(t, frames[L].initGraph)
  BY <1>1, <1>2, <1>6, PopCopies
<1>9. OnStack' /\ Permuted' /\ (frames' # <<>> => frames'[1] = frames[1])
  <2>1. Return(0)
    BY DEF GiveUp
  <2> QED BY <2>1, ReturnKeepsStack
<1>10. ASSUME t # <<>>
       PROVE  /\ frames[L].initGraph[Last(t).vertex][Last(t).i] = Last(t).act + 2
              /\ \A x \in V : Open(frames[L].initGraph, x) =>
                   Active(t, L - 1, x) \/ x = Last(t).i
  <2>1. L - 1 \in 1..L - 1 /\ L - 1 \in 1..L /\ L - 1 < L /\ L - 1 + 1 = L
        /\ \A e \in 1..L : e \in 1..L - 1 \/ e = L
    BY <1>2, <1>6, <1>10, EmptySeq
  <2>2. Last(t) = frames[L - 1]
    BY <1>6, <2>1 DEF Last
  <2>3. frames[L].initGraph[frames[L - 1].vertex][frames[L - 1].i] = frames[L - 1].act + 2
    BY <1>1, <1>2, <1>3, <2>1 DEF Nested
  <2>4. frames[L].vertex = frames[L - 1].i
    BY <1>1, <1>2, <2>1 DEF Linked
  <2>5. ASSUME NEW x \in V, Open(frames[L].initGraph, x)
        PROVE  Active(t, L - 1, x) \/ x = Last(t).i
    <3>1. PICK e \in 1..L : frames[e].vertex = x
      BY <1>7, <2>5 DEF GoodCopy, Active
    <3> QED BY <1>6, <2>1, <2>2, <2>4, <3>1 DEF Active
  <2> QED BY <2>2, <2>3, <2>5
<1>11. Current'
  <2>1. Sound(frames[L].initGraph, frames[L].initUsed) /\ ~ HasBlank(frames[L].initGraph, root)
    BY <1>7 DEF GoodCopy
  <2>2. top' = Last(t) /\ Len(frames') = L - 1
    BY <1>5, <1>6 DEF top
  <2> QED BY <1>5, <1>10, <2>1, <2>2 DEF Current
<1>12. FirstCall'
  <2>1. RootAlone(graph, frames[1].initGraph) /\ graph' = graph /\ j' = j
    BY DEF CInv, FirstCall, RootUnchanged
  <2>2. ASSUME t = <<>>
        PROVE  L = 1
    <3>1. Len(t) = 0
      BY <2>2, EmptySeq
    <3>2. \A n \in Nat : n - 1 = 0 => n = 1
      OBVIOUS
    <3> QED BY <1>2, <1>6, <3>1, <3>2
  <2> QED BY <1>5, <1>9, <2>1, <2>2 DEF FirstCall
<1>13. LaterCalls'
  BY <1>5 DEF LaterCalls, RootUnchanged, CInv
<1> QED BY <1>5, <1>8, <1>9, <1>11, <1>12, <1>13 DEF CInv

LEMMA NoColourLeftKeeps ==
    ASSUME IInv, CInv, NoColourLeft
    PROVE  CInv'
<1>1. frames # <<>> /\ pc = "scan" /\ EdgesLeft # {} /\ GiveUp /\ RootUnchanged
  BY DEF NoColourLeft, IInv, CallsPhase
<1>2. PICK w \in V : graphColors[top.vertex][w] = 1
  BY <1>1 DEF EdgesLeft
<1>3. j = 0
  BY <1>1, <1>2, LaterScanFindsNothing
<1> QED BY <1>1, <1>3, GiveUpKeeps

LEMMA CallFailedKeeps ==
    ASSUME IInv, CInv, CallFailed
    PROVE  CInv'
<1>1. frames # <<>> /\ pc = "returned" /\ GiveUp /\ RootUnchanged
  BY DEF CallFailed
<1>2. j = 0
  BY <1>1, FirstCallOnly DEF IInv, CInv
<1> QED BY <1>1, <1>2, GiveUpKeeps

\* The scan has passed the whole row.
LEMMA RowIsFull ==
    ASSUME IInv, CInv, ScanDone
    PROVE  ~ HasBlank(graphColors, top.vertex)
<1>1. frames # <<>> /\ EdgesLeft = {} /\ frames \in Seq(FrameType)
  BY DEF ScanDone, IInv, CallsPhase, TypeOK
<1>2. Len(frames) \in 1..Len(frames) /\ top = frames[Len(frames)] /\ top \in FrameType
  BY <1>1, LastFrame
<1>3. Scanned(top, graphColors) /\ top.i \in Nat
  BY <1>2 DEF CInv, Copies, FrameType
<1>4. ASSUME NEW w \in V, graphColors[top.vertex][w] = 1
      PROVE  FALSE
  <2>1. w \in Nat /\ w \notin EdgesLeft
    BY <1>1, VIsNat
  <2>2. w < top.i
    BY <1>3, <1>4, <2>1 DEF EdgesLeft
  <2> QED BY <1>3, <1>4, <2>2 DEF Scanned
<1> QED BY <1>4 DEF HasBlank

LEMMA ScanDoneKeeps ==
    ASSUME IInv, CInv, ScanDone
    PROVE  CInv'
<1>1. /\ TypeOK /\ Current /\ Copies(frames, graphColors) /\ pc = "scan" /\ frames # <<>>
      /\ TrailColoured /\ Linked(frames) /\ frames \in Seq(FrameType)
  BY TrailColouredInv DEF IInv, TypeOK, Trail, CInv, ScanDone, CallsPhase
<1>2. PICK L \in Nat \ {0} : L = Len(frames)
  BY <1>1, EmptySeq
<1>3. L \in 1..L /\ top = frames[L] /\ top \in FrameType
  BY <1>1, <1>2, LastFrame
<1>4. PICK t : t = Front(frames)
  OBVIOUS
<1>5. Return(1) /\ RootUnchanged /\ graphColors' = graphColors /\ usedColors' = usedColors
  <2>1. top.result \in {-1, 1}
    BY <1>1, <1>3 DEF Current, FrameType
  <2> QED BY <2>1 DEF ScanDone
<1>6. frames' = t /\ pc' = "returned" /\ ret' = 1
  BY <1>4, <1>5 DEF Return
<1>7. t \in Seq(FrameType) /\ Len(t) = L - 1 /\ \A d \in 1..L - 1 : t[d] = frames[d]
  BY <1>1, <1>2, <1>4, FrontOf
<1>8. Copies(t, graphColors)
  BY <1>1, <1>2, <1>7, PopCopies
<1>9. OnStack' /\ Permuted' /\ (frames' # <<>> => frames'[1] = frames[1])
  BY <1>1, <1>5, ReturnKeepsStack
<1>10. ASSUME NEW x \in V, Open(graphColors, x)
       PROVE  Active(t, L - 1, x)
  <2>1. PICK e \in 1..L : frames[e].vertex = x
    BY <1>1, <1>2, <1>10 DEF Current, Active
  <2>2. e # L
    BY <1>3, <1>10, <2>1, RowIsFull DEF Open
  <2>3. e \in 1..L - 1
    BY <1>2, <2>1, <2>2
  <2> QED BY <1>7, <2>1, <2>3 DEF Active
<1>11. t # <<>> => graphColors[Last(t).vertex][Last(t).i] = Last(t).act + 2
  <2>1. ASSUME t # <<>>
        PROVE  L - 1 \in 1..L - 1 /\ L - 1 + 1 = L
    BY <1>2, <1>7, <2>1, EmptySeq
  <2>2. ASSUME t # <<>>
        PROVE  graphColors[Last(t).vertex][Last(t).i] = Last(t).act + 2
    <3>1. Last(t) = frames[L - 1]
      BY <1>7, <2>1, <2>2 DEF Last
    <3>2. graphColors[frames[L - 1].vertex][frames[L].vertex] = frames[L - 1].act + 2
      BY <1>1, <1>2, <2>1, <2>2 DEF TrailColoured
    <3>3. frames[L].vertex = frames[L - 1].i
      BY <1>1, <1>2, <2>1, <2>2 DEF Linked
    <3> QED BY <3>1, <3>2, <3>3
  <2> QED BY <2>2
<1>12. Current'
  <2>1. Sound(graphColors, usedColors) /\ ~ HasBlank(graphColors, root)
    BY <1>1 DEF Current
  <2>2. top' = Last(t) /\ Len(frames') = L - 1
    BY <1>6, <1>7 DEF top
  <2> QED BY <1>5, <1>6, <1>10, <1>11, <2>1, <2>2 DEF Current
<1>13. UNCHANGED <<graph, j, stack1, found>>
  BY <1>5 DEF RootUnchanged
<1>14. ASSUME t = <<>>
       PROVE  NoneOpen(graphColors) /\ ~ HasBlank(graphColors, stack1[1])
  <2>1. Len(t) = 0
    BY <1>14, EmptySeq
  <2>2. \A n \in Nat : n - 1 = 0 => n = 1
    OBVIOUS
  <2>3. L = 1
    BY <1>2, <1>7, <2>1, <2>2
  <2>4. top.vertex = stack1[1]
    BY <1>1, <1>3, <2>3 DEF CInv, OnStack
  <2>5. ~ \E e \in 1..L - 1 : TRUE
    BY <2>3
  <2> QED BY <1>10, <2>4, <2>5, RowIsFull DEF NoneOpen, Active
<1>15. FirstCall'
  <2>1. j = 0 => RootAlone(graph, frames[1].initGraph)
    BY <1>1 DEF CInv, FirstCall
  <2> QED BY <1>5, <1>6, <1>9, <1>13, <1>14, <2>1 DEF FirstCall
<1>16. LaterCalls'
  <2>1. ASSUME j > 0
        PROVE  Around(graph, graphColors) /\ NoneOpen(graphColors) /\ t = <<>>
    <3>1. Around(graph, graphColors) /\ NoneOpen(graphColors) /\ L = 1
      BY <1>1, <1>2, <2>1 DEF CInv, LaterCalls
    <3>2. Len(t) = 0
      BY <1>7, <3>1
    <3> QED BY <1>7, <3>1, <3>2, EmptySeq
  <2>2. found # 1
    BY <1>1 DEF CInv, LaterCalls
  <2> QED BY <1>5, <1>6, <1>13, <2>1, <2>2 DEF LaterCalls
<1> QED BY <1>5, <1>6, <1>8, <1>9, <1>12, <1>15, <1>16 DEF CInv

LEMMA CallSucceededKeeps ==
    ASSUME IInv, CInv, CallSucceeded
    PROVE  CInv'
<1>1. /\ TypeOK /\ Current /\ Copies(frames, graphColors)
      /\ pc = "returned" /\ frames # <<>> /\ ret = 1 /\ frames \in Seq(FrameType)
  BY DEF IInv, TypeOK, CInv, CallSucceeded
<1>2. PICK L \in Nat \ {0} : L = Len(frames)
  BY <1>1, EmptySeq
<1>3. L \in 1..L /\ top = frames[L] /\ top \in FrameType
  BY <1>1, <1>2, LastFrame
<1>4. PICK n \in Nat : n = top.i + 1
  BY <1>3 DEF FrameType
<1>5. PICK f : f = [top EXCEPT !.result = 1, !.i = n]
  OBVIOUS
<1>6. /\ f \in FrameType /\ f.vertex = top.vertex /\ f.i = n /\ f.result = 1
      /\ f.initGraph = top.initGraph /\ f.initUsed = top.initUsed
  <2>1. f \in FrameType
    BY <1>3, <1>5 DEF FrameType
  <2>2. /\ f.vertex = top.vertex /\ f.i = n /\ f.result = 1
        /\ f.initGraph = top.initGraph /\ f.initUsed = top.initUsed
    BY <1>3, <1>5 DEF FrameType
  <2> QED BY <2>1, <2>2
<1>7. PICK t : t = [frames EXCEPT ![Len(frames)] = f]
  OBVIOUS
<1>8. /\ frames' = t /\ pc' = "scan" /\ RootUnchanged
      /\ UNCHANGED <<graphColors, usedColors, ret>>
  <2>1. f = [top EXCEPT !.result = 1, !.i = @ + 1]
    BY <1>4, <1>5
  <2> QED BY <1>7, <2>1 DEF CallSucceeded
<1>9. /\ t \in Seq(FrameType) /\ Len(t) = L /\ t[L] = f
      /\ \A d \in 1..L - 1 : t[d] = frames[d]
  BY <1>1, <1>2, <1>6, <1>7, ReplaceTop
<1>10. j = 0
  BY <1>1, FirstCallOnly DEF CInv
<1>11. /\ \A d \in 1..L : d \in 1..L - 1 \/ d = L
       /\ \A d \in 1..L : \A e \in 1..d - 1 : e \in 1..L - 1
       /\ \A d \in 1..L : \A e \in 1..d : e \in 1..L
  BY <1>2
<1>12. \A d \in 1..L : /\ t[d].vertex = frames[d].vertex
                       /\ t[d].initGraph = frames[d].initGraph
                       /\ t[d].initUsed = frames[d].initUsed
  BY <1>3, <1>6, <1>9, <1>11
<1>13. \A d, x : d \in 1..L /\ Active(frames, d, x) => Active(t, d, x)
  BY <1>11, <1>12 DEF Active
<1>14. Scanned(f, graphColors)
  <2>1. ASSUME NEW w \in V, w < n
        PROVE  graphColors[f.vertex][w] # 1
    <3>1. top.i \in Nat /\ w \in Nat /\ top.act \in Colours
      BY <1>3, VIsNat DEF FrameType
    <3>2. CASE w = top.i
      BY <1>1, <1>6, <3>1, <3>2 DEF Current, Colours
    <3>3. CASE w < top.i
      BY <1>1, <1>2, <1>3, <1>6, <3>3 DEF Copies, Scanned
    <3> QED BY <1>4, <2>1, <3>1, <3>2, <3>3
  <2> QED BY <1>6, <2>1 DEF Scanned
<1>15. Copies(t, graphColors)
  <2>1. ASSUME NEW d \in 1..L
        PROVE  GoodCopy(t, d) /\ Scanned(t[d], graphColors)
    <3>1. GoodCopy(frames, d) /\ Scanned(frames[d], graphColors)
      BY <1>1, <1>2 DEF Copies
    <3>2. \A e \in 1..d - 1 : t[e] = frames[e]
      BY <1>9, <1>11
    <3>3. GoodCopy(t, d)
      BY <1>12, <1>13, <3>1, <3>2 DEF GoodCopy
    <3>4. Scanned(t[d], graphColors)
      BY <1>9, <1>11, <1>14, <3>1
    <3> QED BY <3>3, <3>4
  <2> QED BY <1>9, <2>1 DEF Copies
<1>16. Current'
  <2>1. top' = f /\ Len(frames') = L
    BY <1>8, <1>9 DEF top, Last
  <2>2. \A x \in V : Open(graphColors, x) => Active(t, L, x)
    BY <1>1, <1>2, <1>3, <1>13 DEF Current
  <2>3. Sound(graphColors, usedColors) /\ ~ HasBlank(graphColors, root)
    BY <1>1 DEF Current
  <2> QED BY <1>6, <1>8, <2>1, <2>2, <2>3 DEF Current
<1>17. UNCHANGED <<graph, j, stack1, found>>
  BY <1>8 DEF RootUnchanged
<1>18. 1 \in 1..L
  BY <1>2
<1>19. OnStack'
  <2>1. /\ \A m \in 1..Len(stack1) : stack1[m] \in Neighbours(graph)
        /\ frames[1].vertex = stack1[1]
        /\ \A w \in Neighbours(graph) : Occurs(stack1, w)
    BY <1>1, <1>10 DEF CInv, OnStack
  <2> QED BY <1>8, <1>12, <1>17, <1>18, <2>1 DEF OnStack
<1>20. FirstCall'
  <2>1. RootAlone(graph, frames[1].initGraph)
    BY <1>1, <1>10 DEF CInv, FirstCall
  <2> QED BY <1>8, <1>12, <1>17, <1>18, <2>1 DEF FirstCall
<1>21. Permuted' /\ LaterCalls'
  BY <1>1, <1>8, <1>10, <1>17 DEF Permuted, LaterCalls, CInv
<1> QED BY <1>8, <1>15, <1>16, <1>19, <1>20, <1>21 DEF CInv

-----------------------------------------------------------------------------
\* Steps of the root keep the second layer.

\* A permutation begins with the input and no marks.
Fresh ==
    /\ IsGraph(graph) /\ graphColors = graph /\ usedColors = AllUnused
    /\ frames = <<>> /\ stack1 = <<>> /\ j = 0 /\ actColor = 0
    /\ pc \in {"root", "done"} /\ found # 1

LEMMA FreshRoot == Fresh => CInv
<1> SUFFICES ASSUME Fresh PROVE CInv
  OBVIOUS
<1> USE DEF Fresh
<1>1. Len(frames) = 0 /\ Len(stack1) = 0
  BY EmptySeq
<1>2. Copies(frames, graphColors)
  BY <1>1 DEF Copies
<1>3. Current
  BY BlankIsSound DEF Current
<1>4. OnStack
  <2>1. \A w \in Neighbours(graph) : w \in Nat
    BY VIsNat DEF Neighbours
  <2> QED BY <1>1, <2>1 DEF OnStack
<1>5. Permuted
  <2>1. \A w \in V : w \in Nat /\ graphColors[root][w] \in {0, 1}
    BY VIsNat, RootAssumption DEF IsGraph
  <2> QED BY <2>1 DEF Permuted, RootAlone
<1>6. FirstCall /\ LaterCalls
  BY DEF FirstCall, LaterCalls
<1> QED BY <1>2, <1>3, <1>4, <1>5, <1>6 DEF CInv

LEMMA InitKeeps ==
    ASSUME Init
    PROVE  CInv
<1>1. IsGraph(graph)
  BY GraphsAssumption DEF Init
<1> QED BY <1>1, FreshRoot DEF Init, Fresh

LEMMA ColourRootEdgeKeeps ==
    ASSUME IInv, CInv, ColourRootEdge
    PROVE  CInv'
<1>1. PICK k \in V, m \in 2..4, c \in Colours :
        /\ m = Perms[perm][actColor + 1] /\ c + 2 = m /\ actColor + 1 \in 1..3
        /\ k \in Nat /\ k >= j /\ graphColors[root][k] = 1 /\ graph[root][k] = 1
        /\ \A w \in V : w >= j /\ graphColors[root][w] = 1 => k <= w
        /\ Paint(root, k, c)
        /\ Repainted(graphColors, graphColors', root, k, m)
        /\ stack1' = <<k>> \o stack1
        /\ pc = "root" /\ pc' = "root" /\ j' = k + 1 /\ actColor' = actColor + 1
        /\ UNCHANGED <<graph, perm, frames, ret, found>>
  BY ColourRootEdgeDoes
<1>2. TypeOK /\ EdgesKept /\ frames = <<>> /\ Current /\ OnStack /\ Permuted /\ root \in V
  BY <1>1, RootAssumption DEF IInv, CallsPhase, CInv
<1>3. IsGraph(graph) /\ j \in Nat /\ actColor \in Nat /\ perm \in 1..6
      /\ usedColors \in Tables /\ graphColors \in Matrices /\ stack1 \in Seq(V)
  BY <1>2, InputGraph, PermsAre DEF TypeOK
<1>4. root # k
  BY <1>1, <1>2, <1>3 DEF IsGraph
<1>5. PICK H, T : H = graphColors' /\ T = usedColors'
  OBVIOUS
<1>6. Repainted(graphColors, H, root, k, m) /\ m # 1
  BY <1>1, <1>5
<1>7. /\ RootAlone(graph, graphColors)
      /\ \A w \in V : w < j => graphColors[root][w] # 1
      /\ \A w \in V : w >= j => graphColors[root][w] <= 1
      /\ \A w \in V : graphColors[root][w] > 1 =>
           \E n \in 1..actColor : graphColors[root][w] = Perms[perm][n]
  BY <1>1, <1>2 DEF Permuted
<1>8. Absent(graphColors, root, c)
  <2>1. ASSUME NEW w \in V, graphColors[root][w] = m
        PROVE  FALSE
    <3>1. graphColors[root][w] > 1
      BY <2>1
    <3>2. PICK n \in 1..actColor : graphColors[root][w] = Perms[perm][n]
      BY <1>7, <3>1
    <3>3. n \in 1..3 /\ n # actColor + 1
      BY <1>1, <1>3
    <3> QED BY <1>1, <1>3, <2>1, <3>2, <3>3, PermsAre
  <2> QED BY <1>1, <2>1 DEF Absent
<1>9. graphColors[k][root] = 1
  BY <1>1, <1>2 DEF EdgesKept, Colouring
<1>10. Absent(graphColors, k, c)
  <2>1. ASSUME NEW w \in V, graphColors[k][w] = m
        PROVE  FALSE
    <3>1. w # root
      BY <1>9, <2>1
    <3>2. graphColors[k][w] = graph[k][w]
      BY <1>4, <1>7, <3>1 DEF RootAlone
    <3>3. graph[k][w] \in {0, 1}
      BY <1>3 DEF IsGraph
    <3> QED BY <2>1, <3>2, <3>3
  <2> QED BY <1>1, <2>1 DEF Absent
<1>11. Retabled(usedColors, T, root, k, c, 1)
  <2>1. \A e \in Colours : e + 2 # 1
    BY DEF Colours
  <2>2. T = [usedColors EXCEPT ![root][c] = 1, ![k][c] = 1]
    BY <1>1, <1>5 DEF Paint
  <2>3. RowMarked(usedColors, T, root, c, 1)
    BY <1>2, <1>3, <1>4, <2>1, <2>2 DEF Tables, RowMarked
  <2>4. RowMarked(usedColors, T, k, c, 1)
    BY <1>2, <1>3, <1>4, <2>1, <2>2 DEF Tables, RowMarked
  <2>5. \A x \in V \ {root, k}, e \in Colours : T[x][e] = usedColors[x][e]
    BY <1>2, <1>3, <2>2 DEF Tables
  <2> QED BY <2>3, <2>4, <2>5 DEF Retabled
<1>12. Sound(H, T)
  <2>1. Sound(graphColors, usedColors)
    BY <1>2 DEF Current
  <2>2. graphColors[root][k] = graphColors[k][root] /\ graphColors[root][k] = 1
    BY <1>1, <1>9
  <2>3. Repainted(graphColors, H, root, k, c + 2)
    BY <1>1, <1>6
  <2> QED BY <1>2, <1>4, <1>8, <1>10, <1>11, <2>1, <2>2, <2>3, SoundRepainted
<1>13. Current'
  BY <1>1, <1>5, <1>12 DEF Current
<1>14. Copies(frames', graphColors')
  <2>1. Len(frames') = 0
    BY <1>1, <1>2, EmptySeq
  <2> QED BY <2>1 DEF Copies
<1>15. /\ \A w \in V : w # k => H[root][w] = graphColors[root][w]
       /\ H[root][k] = m
       /\ \A u, w \in V \ {root} : H[u][w] = graphColors[u][w]
  BY <1>2, <1>4, <1>6 DEF Repainted
<1>16. Permuted'
  <2>1. RootAlone(graph, H)
    BY <1>7, <1>15 DEF RootAlone
  <2>2. ASSUME NEW w \in V, w < k + 1
        PROVE  H[root][w] # 1
    <3>1. CASE w = k
      BY <1>6, <1>15, <3>1
    <3>2. CASE w # k
      <4>1. w \in Nat /\ w < k
        BY <1>1, <2>2, <3>2, VIsNat
      <4>2. graphColors[root][w] # 1
        BY <1>1, <1>3, <1>7, <4>1
      <4> QED BY <1>15, <3>2, <4>2
    <3> QED BY <3>1, <3>2
  <2>3. ASSUME NEW w \in V, w >= k + 1
        PROVE  H[root][w] <= 1
    <3>1. w # k /\ w >= j
      BY <1>1, <1>3, <2>3, VIsNat
    <3> QED BY <1>7, <1>15, <3>1
  <2>4. ASSUME NEW w \in V, H[root][w] > 1
        PROVE  \E n \in 1..actColor + 1 : H[root][w] = Perms[perm][n]
    <3>1. CASE w = k
      <4>1. actColor + 1 \in 1..actColor + 1
        BY <1>3
      <4> QED BY <1>1, <1>15, <3>1, <4>1
    <3>2. CASE w # k
      <4>1. PICK n \in 1..actColor : graphColors[root][w] = Perms[perm][n]
        BY <1>7, <1>15, <2>4, <3>2
      <4>2. n \in 1..actColor + 1
        BY <1>3
      <4> QED BY <1>15, <3>2, <4>1, <4>2
    <3> QED BY <3>1, <3>2
  <2>5. actColor + 1 # 0
    BY <1>3
  <2> QED BY <1>1, <1>5, <2>1, <2>2, <2>3, <2>4, <2>5 DEF Permuted
<1>17. PICK t : t = <<k>> \o stack1
  OBVIOUS
<1>18. OnStack'
  <2>1. /\ Occurs(t, k) /\ \A x : Occurs(stack1, x) => Occurs(t, x)
        /\ \A n \in 1..Len(t) : t[n] = k \/ \E e \in 1..Len(stack1) : t[n] = stack1[e]
    <3>1. stack1 \in Seq(V) /\ k \in V
      BY <1>3
    <3>2. LET u == <<k>> \o stack1
          IN  /\ u \in Seq(V) /\ Len(u) = Len(stack1) + 1 /\ u[1] = k
              /\ Occurs(u, k) /\ \A x : Occurs(stack1, x) => Occurs(u, x)
              /\ \A n \in 1..Len(u) : u[n] = k \/ \E e \in 1..Len(stack1) : u[n] = stack1[e]
      BY <3>1, PutFirst
    <3> QED BY <1>17, <3>2
  <2>2. /\ \A n \in 1..Len(stack1) : stack1[n] \in Neighbours(graph)
        /\ \A w \in Neighbours(graph) : w < j => Occurs(stack1, w)
    BY <1>1, <1>2 DEF OnStack
  <2>3. k \in Neighbours(graph)
    BY <1>1 DEF Neighbours
  <2>4. \A n \in 1..Len(t) : t[n] \in Neighbours(graph)
    BY <2>1, <2>2, <2>3
  <2>5. ASSUME NEW w \in Neighbours(graph), w < k + 1
        PROVE  Occurs(t, w)
    <3>1. w \in V /\ w \in Nat /\ graph[root][w] = 1
      BY VIsNat DEF Neighbours
    <3>2. CASE w < j
      BY <2>1, <2>2, <3>2
    <3>3. CASE w >= j /\ w # k
      <4>1. w < k
        BY <1>1, <2>5, <3>1, <3>3
      <4>2. graphColors[root][w] # 1
        BY <1>1, <3>1, <3>3, <4>1
      <4>3. graphColors[root][w] <= 1 /\ graphColors[root][w] \in 0..4
        BY <1>2, <1>3, <1>7, <3>1, <3>3 DEF Matrices
      <4>4. graphColors[root][w] # 0
        BY <1>2, <3>1 DEF EdgesKept, Colouring
      <4> QED BY <4>2, <4>3, <4>4
    <3>4. CASE w = k
      BY <2>1, <3>4
    <3> QED BY <1>3, <3>1, <3>2, <3>3, <3>4
  <2> QED BY <1>1, <1>2, <1>17, <2>4, <2>5 DEF OnStack
<1>19. FirstCall' /\ LaterCalls'
  BY <1>1, <1>2 DEF FirstCall, LaterCalls, CInv
<1> QED BY <1>13, <1>14, <1>16, <1>18, <1>19 DEF CInv

LEMMA RootColouredKeeps ==
    ASSUME IInv, CInv, RootColoured
    PROVE  CInv'
<1>1. /\ TypeOK /\ EdgesKept /\ frames = <<>> /\ Current /\ OnStack /\ Permuted
      /\ pc = "root" /\ RootEdgesLeft = {} /\ root \in V
  BY RootAssumption DEF IInv, CallsPhase, CInv, RootColoured
<1>2. /\ j' = 0 /\ pc' = "calls"
      /\ UNCHANGED <<graph, graphColors, usedColors, perm, stack1, addedVertexes,
                     actColor, frames, ret, found>>
  BY DEF RootColoured
<1>3. \A w \in V : w \in Nat /\ (w < j \/ w >= j)
  BY <1>1, VIsNat DEF TypeOK
<1>4. ~ HasBlank(graphColors, root)
  BY <1>1, <1>3 DEF Permuted, RootEdgesLeft, HasBlank
<1>5. ASSUME NEW w \in Neighbours(graph)
      PROVE  Occurs(stack1, w)
  <2>1. w \in V /\ graph[root][w] # 0
    BY DEF Neighbours
  <2>2. graphColors[root][w] # 0 /\ graphColors[root][w] # 1 /\ graphColors[root][w] \in 0..4
    BY <1>1, <1>4, <2>1 DEF EdgesKept, Colouring, HasBlank, TypeOK, Matrices
  <2>3. ~ (graphColors[root][w] <= 1)
    BY <2>2
  <2> QED BY <1>1, <1>3, <2>1, <2>3 DEF Permuted, OnStack
<1>6. Current'
  BY <1>1, <1>2, <1>4 DEF Current
<1>7. OnStack'
  BY <1>1, <1>2, <1>5 DEF OnStack
<1>8. FirstCall'
  BY <1>1, <1>2 DEF FirstCall, Permuted
<1>9. Copies(frames, graphColors)' /\ Permuted' /\ LaterCalls'
  BY <1>1, <1>2 DEF Copies, GoodCopy, Permuted, LaterCalls, CInv
<1> QED BY <1>6, <1>7, <1>8, <1>9 DEF CInv

\* Before the first call nothing is open; later calls find nothing open.
LEMMA NoneOpenBetweenCalls ==
    ASSUME IInv, CInv, pc = "calls"
    PROVE  NoneOpen(graphColors)
<1>1. TypeOK /\ j \in Nat /\ IsGraph(graph)
  BY InputGraph DEF IInv, TypeOK
<1>2. CASE j = 0
  BY <1>1, <1>2, RootAloneOpensNone DEF CInv, FirstCall, Current
<1>3. CASE j > 0
  BY <1>3 DEF CInv, LaterCalls
<1> QED BY <1>1, <1>2, <1>3

LEMMA FoundKeeps ==
    ASSUME IInv, CInv, Found
    PROVE  CInv'
<1>1. /\ TypeOK /\ frames = <<>> /\ Current /\ OnStack /\ pc = "calls"
      /\ j >= addedVertexes /\ Len(stack1) = addedVertexes - j
  BY DEF IInv, CallsPhase, CInv, Found
<1>2. /\ found' = 1 /\ pc' = "done"
      /\ UNCHANGED <<graph, graphColors, usedColors, perm, stack1, j, actColor, frames, ret>>
  BY DEF Found
<1>3. Around(graph, graphColors)
  <2>1. CASE j = 0
    <3>1. addedVertexes \in Nat /\ Len(stack1) \in Nat
      BY <1>1, LenProperties DEF TypeOK
    <3>2. Len(stack1) = 0
      BY <1>1, <2>1, <3>1
    <3>3. \A w \in Neighbours(graph) : FALSE
      BY <1>1, <2>1, <3>2 DEF OnStack, Occurs
    <3> QED BY <3>3 DEF Around
  <2>2. CASE j > 0
    BY <1>1, <2>2 DEF CInv, LaterCalls
  <2> QED BY <1>1, <2>1, <2>2 DEF TypeOK
<1>4. NoneOpen(graphColors) /\ ~ HasBlank(graphColors, root)
  BY <1>1, NoneOpenBetweenCalls DEF Current
<1>5. LaterCalls'
  BY <1>2, <1>3, <1>4 DEF LaterCalls
<1>6. Current' /\ OnStack' /\ Permuted' /\ FirstCall'
  BY <1>1, <1>2 DEF Current, OnStack, Permuted, FirstCall
<1>7. Copies(frames, graphColors)'
  BY <1>2 DEF Copies, GoodCopy, CInv
<1> QED BY <1>5, <1>6, <1>7 DEF CInv

LEMMA RootCallKeeps ==
    ASSUME IInv, CInv, RootCall
    PROVE  CInv'
<1>1. /\ TypeOK /\ Current /\ OnStack /\ LaterCalls /\ FirstCall
      /\ pc = "calls" /\ j < addedVertexes /\ Len(stack1) = addedVertexes - j
      /\ root \in V
  BY RootAssumption DEF IInv, CallsPhase, CInv, RootCall
<1>2. stack1 \in Seq(V) /\ j \in Nat /\ addedVertexes \in Nat
  BY <1>1 DEF TypeOK
<1>3. 1 \in 1..Len(stack1) /\ stack1 # <<>>
  BY <1>1, <1>2, EmptySeq
<1>4. PICK v \in V : v = stack1[1] /\ v = Head(stack1) /\ v # root
  <2>1. stack1[1] \in Neighbours(graph)
    BY <1>1, <1>3 DEF OnStack
  <2>2. stack1[1] = Head(stack1)
    BY <1>2, <1>3, HeadTailProperties
  <2>3. stack1[1] \in V /\ stack1[1] # root
    BY <1>1, <2>1, InputGraph DEF Neighbours, IsGraph
  <2> QED BY <2>2, <2>3
<1>5. PICK f \in FrameType :
        /\ f = Frame(v, graphColors, usedColors)
        /\ f.vertex = v /\ f.initGraph = graphColors /\ f.initUsed = usedColors
        /\ f.i = 0 /\ f.result = -1
  <2>1. Frame(v, graphColors, usedColors).i = 0 /\ Frame(v, graphColors, usedColors).result = -1
    BY DEF Frame
  <2> QED BY <1>1, <2>1, FrameIsTyped DEF TypeOK
<1>6. PICK t : t = <<f>>
  OBVIOUS
<1>7. t \in Seq(FrameType) /\ Len(t) = 1 /\ t[1] = f /\ t # <<>>
  BY <1>6
<1>8. /\ frames' = t /\ pc' = "scan"
      /\ UNCHANGED <<graph, graphColors, usedColors, perm, stack1, addedVertexes, j,
                     actColor, ret, found>>
  BY <1>4, <1>5, <1>6 DEF RootCall
<1>9. NoneOpen(graphColors) /\ ~ HasBlank(graphColors, root) /\ Sound(graphColors, usedColors)
  BY <1>1, NoneOpenBetweenCalls DEF Current
<1>10. Copies(t, graphColors)
  <2>1. GoodCopy(t, 1)
    <3>1. ~ \E e \in 1..1 - 1 : TRUE
      OBVIOUS
    <3> QED BY <1>4, <1>5, <1>7, <1>9, <3>1 DEF GoodCopy, NoneOpen
  <2>2. Scanned(f, graphColors)
    <3>1. \A w \in V : ~ (w < 0)
      BY VIsNat
    <3> QED BY <1>5, <3>1 DEF Scanned
  <2> QED BY <1>7, <2>1, <2>2 DEF Copies
<1>11. Current'
  <2>1. top' = f
    BY <1>7, <1>8 DEF top, Last
  <2> QED BY <1>5, <1>8, <1>9, <2>1 DEF Current, NoneOpen
<1>12. OnStack'
  BY <1>1, <1>4, <1>5, <1>7, <1>8 DEF OnStack
<1>13. FirstCall'
  BY <1>1, <1>5, <1>7, <1>8 DEF FirstCall
<1>14. Permuted' /\ LaterCalls'
  BY <1>1, <1>7, <1>8 DEF Permuted, LaterCalls
<1> QED BY <1>8, <1>10, <1>11, <1>12, <1>13, <1>14 DEF CInv

\* After the first call that returned 1 no neighbour of the root has an
\* uncoloured edge: what has none is closed under the edges beside the root's.
LEMMA AroundTheRoot ==
    ASSUME IInv, RootIsNoCut(graph), NoneOpen(graphColors),
           NEW n \in Neighbours(graph), ~ HasBlank(graphColors, n)
    PROVE  Around(graph, graphColors)
<1>1. TypeOK /\ IsGraph(graph) /\ Colouring(graphColors) /\ root \in V
  BY InputGraph, RootAssumption DEF IInv, EdgesKept
<1> DEFINE S == {x \in V \ {root} : ~ HasBlank(graphColors, x)}
<1>2. n \in V /\ graph[root][n] = 1 /\ n # root
  BY <1>1 DEF Neighbours, IsGraph
<1>3. ASSUME NEW u \in S, NEW w \in V \ {root}, graph[u][w] = 1
      PROVE  ~ HasBlank(graphColors, w)
  <2>1. u \in V \ {root} /\ ~ HasBlank(graphColors, u)
    OBVIOUS
  <2>2. /\ graphColors[u][w] # 0 /\ graphColors[u][w] # 1
        /\ graphColors[u][w] = graphColors[w][u] /\ graphColors[u][w] \in 0..4
    BY <1>1, <1>3, <2>1 DEF Colouring, HasBlank, TypeOK, Matrices
  <2>3. graphColors[w][u] > 1
    BY <2>2
  <2> QED BY <2>1, <2>3 DEF NoneOpen, Open
<1>4. ClosedOff(graph, S, {root})
  BY <1>3 DEF ClosedOff
<1>5. S \in SUBSET (V \ {root}) /\ n \in S
  BY <1>2
<1> HIDE DEF S
<1>6. \A w \in V : graph[root][w] = 1 => w \in S
  BY <1>2, <1>4, <1>5 DEF RootIsNoCut
<1> QED BY <1>6 DEF S, Around, Neighbours

LEMMA RootCallSucceededKeeps ==
    ASSUME IInv, CInv, RootIsNoCut(graph), RootCallSucceeded
    PROVE  CInv'
<1>1. /\ TypeOK /\ Current /\ OnStack /\ LaterCalls /\ FirstCall
      /\ pc = "returned" /\ frames = <<>> /\ ret = 1
      /\ j < addedVertexes /\ Len(stack1) = addedVertexes - j
  BY DEF IInv, CallsPhase, CInv, RootCallSucceeded
<1>2. /\ stack1' = Tail(stack1) /\ j' = j + 1 /\ pc' = "calls"
      /\ UNCHANGED <<graph, graphColors, usedColors, perm, addedVertexes, actColor,
                     frames, ret, found>>
  BY DEF RootCallSucceeded
<1>3. stack1 \in Seq(V) /\ j \in Nat /\ addedVertexes \in Nat
  BY <1>1 DEF TypeOK
<1>4. 1 \in 1..Len(stack1) /\ stack1 # <<>>
  BY <1>1, <1>3, EmptySeq
<1>5. NoneOpen(graphColors) /\ ~ HasBlank(graphColors, stack1[1])
  BY <1>1 DEF FirstCall
<1>6. Around(graph, graphColors)
  <2>1. stack1[1] \in Neighbours(graph)
    BY <1>1, <1>4 DEF OnStack
  <2> QED BY <1>5, <2>1, AroundTheRoot
<1>7. PICK t : t = Tail(stack1)
  OBVIOUS
<1>8. \A n \in 1..Len(t) : t[n] \in Neighbours(graph)
  <2>1. Len(t) = Len(stack1) - 1 /\ Len(stack1) \in Nat
        /\ \A n \in 1..Len(t) : t[n] = stack1[n + 1]
    BY <1>3, <1>4, <1>7, HeadTailProperties, LenProperties
  <2>2. \A n \in 1..Len(t) : n + 1 \in 1..Len(stack1)
    BY <2>1
  <2> QED BY <1>1, <2>1, <2>2 DEF OnStack
<1>9. j' > 0 /\ j' # 0
  BY <1>2, <1>3
<1>10. OnStack'
  BY <1>1, <1>2, <1>7, <1>8, <1>9 DEF OnStack
<1>11. Current'
  BY <1>1, <1>2 DEF Current
<1>12. LaterCalls'
  <2>1. found # 1
    BY <1>1 DEF LaterCalls
  <2> QED BY <1>2, <1>5, <1>6, <2>1 DEF LaterCalls
<1>13. Permuted' /\ FirstCall'
  BY <1>1, <1>2, <1>9 DEF Permuted, FirstCall
<1>14. Copies(frames, graphColors)'
  BY <1>2 DEF Copies, GoodCopy, CInv
<1> QED BY <1>10, <1>11, <1>12, <1>13, <1>14 DEF CInv

LEMMA RootCallFailedKeeps ==
    ASSUME IInv, CInv, RootCallFailed
    PROVE  CInv'
<1>1. /\ TypeOK /\ Colouring(graphColors) /\ Current /\ FirstCall /\ LaterCalls
      /\ pc = "returned" /\ frames = <<>> /\ ret = 0 /\ root \in V
  BY RootAssumption DEF IInv, EdgesKept, CInv, RootCallFailed
<1>2. /\ UndoRow /\ stack1' = <<>> /\ actColor' = 0 /\ j' = 0 /\ pc' \in {"root", "done"}
      /\ UNCHANGED <<graph, frames, ret, found>>
  BY DEF RootCallFailed
<1>3. /\ graphColors \in Matrices /\ usedColors \in Tables /\ IsGraph(graph)
      /\ RootAlone(graph, graphColors) /\ Sound(graphColors, usedColors)
  BY <1>1, InputGraph DEF TypeOK, FirstCall, Current
<1>4. graphColors' = graph
  <2>1. ASSUME NEW u \in V, NEW w \in V
        PROVE  (IF (u = root /\ w \in Changed) \/ (w = root /\ u \in Changed)
                  THEN graph[u][w] ELSE graphColors[u][w]) = graph[u][w]
    <3>1. CASE u = root
      BY <3>1 DEF Changed
    <3>2. CASE w = root
      <4>1. graphColors[u][root] = graphColors[root][u] /\ graph[u][root] = graph[root][u]
        BY <1>1, <1>3 DEF Colouring, IsGraph
      <4> QED BY <3>2, <4>1 DEF Changed
    <3>3. CASE u # root /\ w # root
      BY <1>3, <3>3 DEF RootAlone
    <3> QED BY <3>1, <3>2, <3>3
  <2>2. graphColors' = [u \in V |-> [w \in V |-> graph[u][w]]]
    BY <1>2, <2>1 DEF UndoRow
  <2> QED BY <1>3, <2>2 DEF IsGraph
<1>5. usedColors' = AllUnused
  <2>1. ASSUME NEW u \in V, NEW c \in Colours, usedColors[u][c] # 0
        PROVE  \E k \in Changed : c = graphColors[root][k] - 2 /\ u \in {root, k}
    <3>1. usedColors[u][c] = 1
      BY <1>3, <2>1 DEF Tables
    <3>2. PICK w \in V : graphColors[u][w] = c + 2
      BY <1>3, <3>1 DEF Sound, RowUsed
    <3>3. c + 2 > 1 /\ c = c + 2 - 2 /\ c + 2 \notin {0, 1}
      BY DEF Colours
    <3>4. CASE u = root
      <4>1. graph[root][w] \in {0, 1}
        BY <1>1, <1>3 DEF IsGraph
      <4>2. w \in Changed
        BY <3>2, <3>3, <3>4, <4>1 DEF Changed
      <4>3. c = graphColors[root][w] - 2 /\ u \in {root, w}
        BY <3>2, <3>4 DEF Colours
      <4> QED BY <4>2, <4>3
    <3>5. CASE u # root
      <4>1. w = root
        BY <1>3, <3>2, <3>3, <3>5 DEF RootAlone, IsGraph
      <4>2. graphColors[root][u] = c + 2
        BY <1>1, <3>2, <4>1 DEF Colouring
      <4>3. graph[root][u] \in {0, 1}
        BY <1>1, <1>3 DEF IsGraph
      <4>4. u \in Changed
        BY <3>3, <4>2, <4>3 DEF Changed
      <4>5. c = graphColors[root][u] - 2 /\ u \in {root, u}
        BY <4>2 DEF Colours
      <4> QED BY <4>4, <4>5
    <3> QED BY <3>4, <3>5
  <2>2. ASSUME NEW u \in V, NEW c \in Colours
        PROVE  (IF \E k \in Changed : c = graphColors[root][k] - 2 /\ u \in {root, k}
                  THEN 0 ELSE usedColors[u][c]) = 0
    BY <2>1
  <2>3. usedColors' = [u \in V |-> [c \in Colours |-> 0]]
    BY <1>2, <2>2 DEF UndoRow
  <2> QED BY <2>3 DEF AllUnused
<1>6. found # 1
  BY <1>1 DEF LaterCalls
<1>7. Fresh'
  BY <1>1, <1>2, <1>3, <1>4, <1>5, <1>6 DEF Fresh
<1> QED BY <1>7, FreshRoot, PTL

-----------------------------------------------------------------------------
\* The second layer, for the graphs it is about.
CutInv == RootIsNoCut(graph) => CInv

LEMMA NextCutInv ==
    ASSUME IInv, CutInv, [Next]_vars
    PROVE  CutInv'
<1> SUFFICES ASSUME RootIsNoCut(graph)'
             PROVE  CInv'
  BY DEF CutInv
<1>1. graph' = graph
  BY DEF Next, vars, ColourRootEdge, RootColoured, RootCall, Found, RootCallSucceeded,
         RootCallFailed, FirstAttempt, NoColourLeft, ScanDone, CallSucceeded,
         SecondAttempt, CallFailed, RootUnchanged
<1>2. RootIsNoCut(graph)
  BY <1>1
<1>3. CInv
  BY <1>2 DEF CutInv
<1>4. CASE ColourRootEdge
  BY <1>3, <1>4, ColourRootEdgeKeeps
<1>5. CASE RootColoured
  BY <1>3, <1>5, RootColouredKeeps
<1>6. CASE RootCall
  BY <1>3, <1>6, RootCallKeeps
<1>7. CASE Found
  BY <1>3, <1>7, FoundKeeps
<1>8. CASE RootCallSucceeded
  BY <1>2, <1>3, <1>8, RootCallSucceededKeeps
<1>9. CASE RootCallFailed
  BY <1>3, <1>9, RootCallFailedKeeps
<1>10. CASE FirstAttempt
  BY <1>3, <1>10, FirstAttemptKeeps
<1>11. CASE NoColourLeft
  BY <1>3, <1>11, NoColourLeftKeeps
<1>12. CASE ScanDone
  BY <1>3, <1>12, ScanDoneKeeps
<1>13. CASE CallSucceeded
  BY <1>3, <1>13, CallSucceededKeeps
<1>14. CASE SecondAttempt
  BY <1>3, <1>14, SecondAttemptKeeps
<1>15. CASE CallFailed
  BY <1>3, <1>15, CallFailedKeeps
<1>16. CASE UNCHANGED vars
  <2>1. Copies(frames, graphColors)'
    BY <1>3, <1>16 DEF CInv, vars
  <2>2. Current'
    BY <1>3, <1>16 DEF CInv, Current, top, vars
  <2>3. OnStack' /\ Permuted' /\ FirstCall' /\ LaterCalls'
    BY <1>3, <1>16 DEF CInv, OnStack, Permuted, FirstCall, LaterCalls, vars
  <2> QED BY <2>1, <2>2, <2>3 DEF CInv
<1> QED BY <1>4, <1>5, <1>6, <1>7, <1>8, <1>9, <1>10, <1>11, <1>12, <1>13, <1>14,
           <1>15, <1>16 DEF Next

LEMMA SpecCutInv == Spec => []CutInv
<1>1. Init => CutInv
  BY InitKeeps DEF CutInv
<1>2. IInv /\ CutInv /\ [Next]_vars => CutInv'
  BY NextCutInv
<1> QED BY <1>1, <1>2, SpecInv, PTL DEF Spec

LEMMA SoundIsConsistent ==
    ASSUME Sound(graphColors, usedColors)
    PROVE  Consistent
  BY DEF Sound, RowProper, RowUsed, Consistent, ProperSoFar, UsedMatches

\* When 1 is returned an uncoloured edge would not be joined to the root.
LEMMA NothingBlank ==
    ASSUME IInv, CInv, JoinedToRoot(graph), found = 1,
           NEW u \in V, NEW w \in V
    PROVE  graphColors[u][w] # 1
<1>1. TypeOK /\ IsGraph(graph) /\ Colouring(graphColors) /\ root \in V
  BY InputGraph, RootAssumption DEF IInv, EdgesKept
<1>2. /\ ~ HasBlank(graphColors, root) /\ Around(graph, graphColors)
      /\ NoneOpen(graphColors)
  BY DEF CInv, LaterCalls
<1> DEFINE S == {x \in V : ~ HasBlank(graphColors, x)}
<1>3. ASSUME NEW x \in S, NEW y \in V, graph[x][y] = 1
      PROVE  ~ HasBlank(graphColors, y)
  <2>1. CASE x = root
    BY <1>2, <1>3, <2>1 DEF Around, Neighbours
  <2>2. CASE x # root
    <3>1. x \in V \ {root} /\ ~ HasBlank(graphColors, x)
      BY <2>2
    <3>2. /\ graphColors[x][y] # 0 /\ graphColors[x][y] # 1
          /\ graphColors[x][y] = graphColors[y][x] /\ graphColors[x][y] \in 0..4
      BY <1>1, <1>3, <3>1 DEF Colouring, HasBlank, TypeOK, Matrices
    <3>3. graphColors[y][x] > 1
      BY <3>2
    <3> QED BY <1>2, <3>1, <3>3 DEF NoneOpen, Open
  <2> QED BY <2>1, <2>2
<1>4. S \in SUBSET V /\ root \in S /\ ClosedOff(graph, S, {})
  BY <1>1, <1>2, <1>3 DEF ClosedOff
<1>5. ASSUME graphColors[u][w] = 1
      PROVE  FALSE
  <2>1. u \in V \ S
    BY <1>5 DEF HasBlank
  <2>2. graph[u][w] # 0
    BY <1>1, <1>5 DEF Colouring
  <2> HIDE DEF S
  <2> QED BY <1>4, <2>1, <2>2 DEF JoinedToRoot
<1> QED BY <1>5

(***************************************************************************)
(* If the root is no cut vertex of the graph, no vertex ever has two edges *)
(* of one colour, and usedColors says of every vertex which colours it has.*)
(***************************************************************************)
THEOREM SpecConsistent == Spec => [](RootIsNoCut(graph) => Consistent)
<1>1. CutInv => (RootIsNoCut(graph) => Consistent)
  BY SoundIsConsistent DEF CutInv, CInv, Current
<1> QED BY <1>1, SpecCutInv, PTL

(***************************************************************************)
(* If the root is no cut vertex, each permutation begins with the graph as *)
(* it was given and no colour marked: the undo of the root's row (626) is  *)
(* complete, because the calls have given back all the rest.               *)
(***************************************************************************)
THEOREM SpecUndoneCompletely == Spec => [](RootIsNoCut(graph) => UndoneCompletely)
<1>1. CutInv => (RootIsNoCut(graph) => UndoneCompletely)
  BY DEF CutInv, CInv, Permuted, UndoneCompletely
<1> QED BY <1>1, SpecCutInv, PTL

(***************************************************************************)
(* If the root is no cut vertex and every edge is joined to it, the search *)
(* returns 1 only with a proper colouring in which no edge is left out.    *)
(***************************************************************************)
THEOREM SpecFoundIsColouring ==
    Spec => [](RootIsNoCut(graph) /\ JoinedToRoot(graph) => FoundIsColouring)
<1>1. IInv /\ CutInv => (RootIsNoCut(graph) /\ JoinedToRoot(graph) => FoundIsColouring)
  <2> SUFFICES ASSUME IInv, CInv, JoinedToRoot(graph), found = 1
               PROVE  ProperSoFar /\ \A u, w \in V : graphColors[u][w] # 1
    BY DEF CutInv, FoundIsColouring
  <2>1. ProperSoFar
    BY SoundIsConsistent DEF CInv, Current, Consistent
  <2> QED BY <2>1, NothingBlank
<1> QED BY <1>1, SpecInv, SpecCutInv, PTL

-----------------------------------------------------------------------------
(***************************************************************************)
(* A third layer, for cubic graphs, says that 0 is right.  A call that     *)
(* finds colours which some colouring of the graph has does not return 0:  *)
(* either what it has coloured can still be completed, or it has coloured  *)
(* its own vertex all around, because a call that it made with a colour    *)
(* that leads to no colouring has come back to it (lemma CameBack).  For   *)
(* that, what was touched since a call began and is not finished must      *)
(* belong to a call made since.  So when a permutation has failed, no      *)
(* colouring of the graph has it at the root.                              *)
(***************************************************************************)
Touched(H, G, x) == \E w \in V : H[x][w] = 1 /\ G[x][w] # 1

Since(fs, d, n, x) == \E e \in d..n : fs[e].vertex = x

\* What call d to n have touched and not finished, but for X, is theirs.
Closed(fs, d, n, G, X) ==
    \A x \in V : Touched(fs[d].initGraph, G, x) /\ HasBlank(G, x) => Since(fs, d, n, x) \/ x \in X

ClosedCopies(fs) ==
    \A d, n \in 1..Len(fs) : d < n => Closed(fs, d, n, fs[n].initGraph, {})

ClosedNow(fs, G, X) == \A d \in 1..Len(fs) : Closed(fs, d, Len(fs), G, X)

\* The vertex that a failed call leaves to its caller.
Dropped == IF pc = "returned" /\ ret = 0 THEN {top.i} ELSE {}

\* A call is on a vertex that has a colour.
Started(fs) ==
    \A d \in 1..Len(fs) : \E w \in V : fs[d].initGraph[fs[d].vertex][w] > 1

\* The call f has called with the matrix M: with its second colour if no
\* colouring has the first one.
Awaits(g, f, M) ==
    Completable(g, f.initGraph) =>
        IF f.second THEN Completable(g, M)
                    ELSE \E h : Whole(g, h) /\ CompletesBut(h, M, f.vertex, f.i)

Chained(g, fs) == \A d \in 1..Len(fs) - 1 : Awaits(g, fs[d], fs[d + 1].initGraph)

\* The call f has got as far as G and will not fail.
Hopeful(g, f, G) ==
    Completable(g, f.initGraph) => Completable(g, G) \/ ~ HasBlank(G, f.vertex)

Searched ==
    /\ pc = "scan" \/ (pc = "returned" /\ frames # <<>> /\ ret = 1) => Hopeful(graph, top, graphColors)
    /\ pc = "returned" /\ ret = 0 =>
         /\ ~ Completable(graph, graphColors)
         /\ frames # <<>> => Awaits(graph, top, graphColors)

\* The neighbours of the root have the colours of permutation p.
RootHas(g, p, G) == \A a, b, c \in V : InOrder(g, a, b, c) => Fits(G, p, a, b, c)

\* So far.
RootHasSoFar(g, p, G, n, m) ==
    \A a, b, c \in V : InOrder(g, a, b, c) =>
        /\ n = Passed(m, a, b, c)
        /\ a < m => G[root][a] = Perms[p][1]
        /\ b < m => G[root][b] = Perms[p][2]
        /\ c < m => G[root][c] = Perms[p][3]

Ranked ==
    /\ pc = "root" => RootHasSoFar(graph, perm, graphColors, actColor, j)
    /\ pc = "calls" /\ j = 0 => RootHas(graph, perm, graphColors)
    /\ frames # <<>> /\ j = 0 => RootHas(graph, perm, frames[1].initGraph)
    /\ pc = "returned" /\ frames = <<>> /\ ret = 0 => RootHas(graph, perm, graphColors)

\* No colouring has permutation p at the root.
NoneHas(g, p) == \A h : Whole(g, h) => ~ RootHas(g, p, h)

Tried == \A p \in 1..6 : p < perm \/ (pc = "done" /\ found = 0) => NoneHas(graph, p)

NInv ==
    /\ ClosedCopies(frames) /\ ClosedNow(frames, graphColors, Dropped)
    /\ Started(frames) /\ Chained(graph, frames) /\ Searched
    /\ Ranked /\ Tried

-----------------------------------------------------------------------------
LEMMA PushCloses ==
    ASSUME NEW fs \in Seq(FrameType), fs # <<>>, NEW t, NEW G, NEW H, NEW T,
           NEW L, L = Len(fs), NEW v \in V, v = fs[L].vertex,
           NEW k \in V, NEW m, m # 1, Repainted(G, H, v, k, m),
           ClosedCopies(fs), NEW X \in SUBSET {k}, ClosedNow(fs, G, X),
           Pushed(fs, t, L, k, H, T)
    PROVE  ClosedCopies(t) /\ ClosedNow(t, H, {})
<1>1. L \in Nat \ {0} /\ Len(t) = L + 1
  BY EmptySeq DEF Pushed
<1>2. \A d \in 1..L : t[d].vertex = fs[d].vertex /\ t[d].initGraph = fs[d].initGraph
  <2>1. \A d \in 1..L : d \in 1..L - 1 \/ d = L
    BY <1>1
  <2> QED BY <2>1 DEF Pushed
<1>3. t[L + 1].vertex = k /\ t[L + 1].initGraph = H
  BY DEF Pushed
<1>4. ASSUME NEW d \in 1..L, NEW x \in V, Touched(t[d].initGraph, H, x), HasBlank(H, x)
      PROVE  Since(t, d, L + 1, x)
  <2>1. CASE x = k
    <3>1. L + 1 \in d..L + 1
      BY <1>1
    <3> QED BY <1>3, <2>1, <3>1 DEF Since
  <2>2. CASE x = v
    <3>1. L \in d..L + 1 /\ L \in 1..L
      BY <1>1
    <3> QED BY <1>2, <2>2, <3>1 DEF Since
  <2>3. CASE x # k /\ x # v
    <3>1. \A w \in V : H[x][w] = G[x][w]
      BY <2>3 DEF Repainted
    <3>2. Touched(fs[d].initGraph, G, x) /\ HasBlank(G, x)
      BY <1>2, <1>4, <3>1 DEF Touched, HasBlank
    <3>3. Closed(fs, d, L, G, X)
      BY DEF ClosedNow
    <3>4. x \notin X
      BY <2>3
    <3>5. PICK e \in d..L : fs[e].vertex = x
      BY <3>2, <3>3, <3>4 DEF Closed, Since
    <3>6. e \in 1..L /\ e \in d..L + 1
      BY <1>1
    <3> QED BY <1>2, <3>5, <3>6 DEF Since
  <2> QED BY <2>1, <2>2, <2>3
<1>5. ASSUME NEW d \in 1..L
      PROVE  Closed(t, d, L + 1, H, {})
  BY <1>4 DEF Closed
<1>6. Closed(t, L + 1, L + 1, H, {})
  BY <1>3 DEF Closed, Touched
<1>7. \A d \in 1..L + 1 : d \in 1..L \/ d = L + 1
  BY <1>1
<1>8. ClosedNow(t, H, {})
  BY <1>1, <1>5, <1>6, <1>7 DEF ClosedNow
<1>9. ASSUME NEW d \in 1..L + 1, NEW n \in 1..L + 1, d < n
      PROVE  Closed(t, d, n, t[n].initGraph, {})
  <2>1. CASE n = L + 1
    <3>1. d \in 1..L
      BY <1>1, <1>9, <2>1
    <3> QED BY <1>3, <1>5, <2>1, <3>1
  <2>2. CASE n \in 1..L
    <3>1. d \in 1..L /\ \A e \in d..n : e \in 1..L
      BY <1>1, <1>9, <2>2
    <3>2. Closed(fs, d, n, fs[n].initGraph, {})
      BY <1>9, <2>2, <3>1 DEF ClosedCopies
    <3>3. \A x : Since(fs, d, n, x) => Since(t, d, n, x)
      BY <1>2, <3>1 DEF Since
    <3>4. t[n].initGraph = fs[n].initGraph /\ t[d].initGraph = fs[d].initGraph
      BY <1>2, <2>2, <3>1
    <3> QED BY <3>2, <3>3, <3>4 DEF Closed
  <2> QED BY <1>7, <2>1, <2>2
<1> QED BY <1>1, <1>8, <1>9 DEF ClosedCopies

\* A return: what call L has touched is finished, or it takes everything back.
LEMMA PopCloses ==
    ASSUME NEW fs \in Seq(FrameType), NEW L \in Nat \ {0}, L = Len(fs), NEW t,
           Len(t) = L - 1, \A d \in 1..L - 1 : t[d] = fs[d], ClosedCopies(fs),
           NEW G, NEW X,
           \/ ClosedNow(fs, G, {}) /\ ~ HasBlank(G, fs[L].vertex)
           \/ G = fs[L].initGraph /\ fs[L].vertex \in X
    PROVE  ClosedCopies(t) /\ ClosedNow(t, G, X)
<1>1. ASSUME NEW d \in 1..L - 1
      PROVE  Closed(t, d, L - 1, G, X)
  <2>1. d \in 1..L /\ L \in 1..L /\ d < L /\ \A e \in d..L : e \in d..L - 1 \/ e = L
    BY <1>1
  <2>2. \A e \in d..L - 1 : e \in 1..L - 1
    BY <1>1
  <2> SUFFICES ASSUME NEW x \in V, Touched(fs[d].initGraph, G, x), HasBlank(G, x), x \notin X
               PROVE  Since(t, d, L - 1, x)
    BY <1>1 DEF Closed
  <2>3. Closed(fs, d, L, G, {})
    <3>1. CASE ClosedNow(fs, G, {})
      BY <2>1, <3>1 DEF ClosedNow
    <3>2. CASE G = fs[L].initGraph
      BY <2>1, <3>2 DEF ClosedCopies
    <3> QED BY <3>1, <3>2
  <2>4. PICK e \in d..L : fs[e].vertex = x
    BY <2>3 DEF Closed, Since
  <2>5. e # L
    BY <2>4
  <2> QED BY <2>1, <2>2, <2>4, <2>5 DEF Since
<1>2. ASSUME NEW d \in 1..L - 1, NEW n \in 1..L - 1, d < n
      PROVE  Closed(t, d, n, t[n].initGraph, {})
  <2>1. d \in 1..L /\ n \in 1..L /\ \A e \in d..n : e \in 1..L - 1
    BY <1>2
  <2>2. Closed(fs, d, n, fs[n].initGraph, {})
    BY <1>2, <2>1 DEF ClosedCopies
  <2>3. \A x : Since(fs, d, n, x) => Since(t, d, n, x)
    BY <2>1 DEF Since
  <2> QED BY <2>2, <2>3 DEF Closed
<1> QED BY <1>1, <1>2 DEF ClosedCopies, ClosedNow

\* Frames that are on the same vertices with the same copies.
Alike(fs, t) ==
    /\ Len(t) = Len(fs)
    /\ \A d \in 1..Len(fs) : t[d].vertex = fs[d].vertex /\ t[d].initGraph = fs[d].initGraph

LEMMA AlikeCloses ==
    ASSUME NEW fs, Len(fs) \in Nat, NEW t, Alike(fs, t), ClosedCopies(fs), NEW G, NEW X, ClosedNow(fs, G, X)
    PROVE  ClosedCopies(t) /\ ClosedNow(t, G, X)
<1>1. PICK L \in Nat : L = Len(fs) /\ L = Len(t)
  BY DEF Alike
<1>2. ASSUME NEW d \in 1..L, NEW n \in 1..L, NEW M, NEW Y, Closed(fs, d, n, M, Y)
      PROVE  Closed(t, d, n, M, Y)
  <2>1. \A e \in d..n : e \in 1..L
    OBVIOUS
  <2>2. \A x : Since(fs, d, n, x) => Since(t, d, n, x)
    BY <1>1, <2>1 DEF Since, Alike
  <2>3. t[d].initGraph = fs[d].initGraph
    BY <1>1 DEF Alike
  <2> QED BY <1>2, <2>2, <2>3 DEF Closed
<1>3. ClosedNow(t, G, X)
  <2>1. \A d \in 1..L : d \in 1..L /\ L \in 1..L
    OBVIOUS
  <2> QED BY <1>1, <1>2, <2>1 DEF ClosedNow
<1>4. ASSUME NEW d \in 1..L, NEW n \in 1..L, d < n
      PROVE  Closed(t, d, n, t[n].initGraph, {})
  <2>1. Closed(fs, d, n, fs[n].initGraph, {})
    BY <1>1, <1>4 DEF ClosedCopies
  <2>2. t[n].initGraph = fs[n].initGraph
    BY <1>1 DEF Alike
  <2> QED BY <1>2, <2>1, <2>2
<1> QED BY <1>1, <1>3, <1>4 DEF ClosedCopies

-----------------------------------------------------------------------------
\* What a colouring of all the edges says of the edge between v and k.
LEMMA FreeChoice ==
    ASSUME NEW g, IsGraph(g), NEW G, NEW U \in Tables, Sound(G, U), NEW v \in V, NEW k \in V,
           g[v][k] # 0, G[v][k] = G[k][v],
           NEW h, Whole(g, h), CompletesBut(h, G, v, k), h[v][k] # G[v][k]
    PROVE  \E e \in Colours : h[v][k] = e + 2 /\ U[v][e] = 0 /\ U[k][e] = 0
<1>1. /\ \A u, w \in V : h[u][w] \in 0..4 /\ h[u][w] = h[w][u]
      /\ \A u, w, x \in V : h[u][w] > 1 /\ w # x => h[u][w] # h[u][x]
  BY DEF Whole, Matrices
<1>2. h[v][k] # 1 /\ h[v][k] # 0
  BY DEF Whole
<1>3. PICK e \in Colours : h[v][k] = e + 2
  <2>1. h[v][k] \in 2..4
    BY <1>1, <1>2
  <2>2. h[v][k] - 2 \in Colours /\ h[v][k] = (h[v][k] - 2) + 2
    BY <2>1 DEF Colours
  <2> QED BY <2>2
<1>4. v # k
  BY DEF IsGraph
<1>5. e + 2 > 1
  BY DEF Colours
<1>6. ASSUME NEW w \in V, G[v][w] = e + 2 PROVE FALSE
  <2>1. w # k /\ G[v][w] > 1
    BY <1>3, <1>5, <1>6
  <2>2. h[v][w] = e + 2
    BY <1>4, <1>6, <2>1 DEF CompletesBut
  <2> QED BY <1>1, <1>3, <1>5, <2>1, <2>2
<1>7. ASSUME NEW w \in V, G[k][w] = e + 2 PROVE FALSE
  <2>1. w # v /\ G[k][w] > 1
    BY <1>3, <1>5, <1>7
  <2>2. h[k][w] = e + 2
    BY <1>4, <1>7, <2>1 DEF CompletesBut
  <2>3. h[k][v] = e + 2
    BY <1>1, <1>3
  <2> QED BY <1>1, <1>5, <2>1, <2>2, <2>3
<1>8. U[v][e] # 1 /\ U[k][e] # 1
  BY <1>6, <1>7 DEF Sound, RowUsed
<1>9. U[v][e] \in {0, 1} /\ U[k][e] \in {0, 1}
  BY DEF Tables
<1> QED BY <1>3, <1>8, <1>9

LEMMA CompletesIsBut ==
    ASSUME NEW h, NEW G, NEW v \in V, NEW k \in V
    PROVE  /\ Completes(h, G) => CompletesBut(h, G, v, k)
           /\ CompletesBut(h, G, v, k) /\ h[v][k] = G[v][k] /\ h[k][v] = G[k][v] => Completes(h, G)
  BY DEF Completes, CompletesBut

LEMMA ButRepainted ==
    ASSUME NEW h, NEW G, NEW H, NEW v \in V, NEW k \in V, NEW m,
           CompletesBut(h, G, v, k), Repainted(G, H, v, k, m)
    PROVE  CompletesBut(h, H, v, k)
  BY DEF CompletesBut, Repainted

\* A colouring with the edge's colour, and all the others, has all.
LEMMA ButIsCompletable ==
    ASSUME NEW g, NEW G, NEW h, NEW v \in V, NEW k \in V, Whole(g, h), CompletesBut(h, G, v, k),
           h[v][k] = G[v][k], G[v][k] = G[k][v]
    PROVE  Completable(g, G)
<1>1. h[k][v] = G[k][v]
  BY DEF Whole
<1>2. Completes(h, G)
  BY <1>1, CompletesIsBut
<1> QED BY <1>2 DEF Completable

LEMMA PartialIs ==
    ASSUME NEW g, NEW G \in Matrices, ColouringOf(g, G), NEW U, Sound(G, U)
    PROVE  Partial(g, G)
<1>1. \A x \in V : RowProper(G, x)
  BY DEF Sound
<1>2. \A u, w, x \in V : G[u][w] > 1 /\ w # x => G[u][w] # G[u][x]
  BY <1>1 DEF RowProper
<1> QED BY <1>2 DEF Partial, ColouringOf

\* What is known in the innermost call.
LEMMA InCall ==
    ASSUME IInv, CInv, frames # <<>>
    PROVE  /\ frames \in Seq(FrameType) /\ Len(frames) \in Nat \ {0}
           /\ Len(frames) \in 1..Len(frames) /\ top = frames[Len(frames)]
           /\ top \in FrameType /\ top.vertex \in V
           /\ IsGraph(graph) /\ Sound(graphColors, usedColors)
           /\ graphColors \in Matrices /\ usedColors \in Tables
           /\ ColouringOf(graph, graphColors) /\ Partial(graph, graphColors)
           /\ Below(top.initGraph, graphColors)
<1>1. TypeOK /\ EdgesKept /\ Sound(graphColors, usedColors) /\ Restorable(frames, graphColors)
  BY DEF IInv, CInv, Current, Trail
<1>2. Len(frames) \in Nat \ {0} /\ top = frames[Len(frames)] /\ top \in FrameType
  BY <1>1, LastFrame DEF TypeOK
<1>3. Len(frames) \in 1..Len(frames)
  BY <1>2
<1>4. graphColors \in Matrices /\ usedColors \in Tables /\ frames \in Seq(FrameType)
  BY <1>1 DEF TypeOK
<1>5. ColouringOf(graph, graphColors)
  BY <1>1, EdgesKeptIs
<1>6. Partial(graph, graphColors)
  BY <1>1, <1>4, <1>5, PartialIs
<1>7. top.vertex \in V
  BY <1>2 DEF FrameType
<1>8. Below(top.initGraph, graphColors)
  BY <1>1, <1>2, <1>3 DEF Restorable
<1> QED BY <1>1, <1>2, <1>3, <1>4, <1>5, <1>6, <1>7, <1>8, InputGraph

\* A failed call that should not have failed had another colour to try.
LEMMA OtherColourLeft ==
    ASSUME IInv, CInv, NInv, frames # <<>>, pc = "returned", ret = 0,
           Completable(graph, top.initGraph)
    PROVE  /\ ~ top.second
           /\ \E h : \E e \in Colours :
                /\ Whole(graph, h) /\ CompletesBut(h, graphColors, top.vertex, top.i)
                /\ h[top.vertex][top.i] = e + 2 /\ e \in OtherColours
<1>1. /\ ~ Completable(graph, graphColors) /\ Awaits(graph, top, graphColors)
  BY DEF NInv, Searched
<1>2. ~ top.second
  BY <1>1 DEF Awaits
<1>3. PICK h : Whole(graph, h) /\ CompletesBut(h, graphColors, top.vertex, top.i)
  BY <1>1, <1>2 DEF Awaits
<1>4. /\ top \in FrameType /\ IsGraph(graph) /\ Sound(graphColors, usedColors)
      /\ usedColors \in Tables /\ ColouringOf(graph, graphColors) /\ Len(frames) \in 1..Len(frames)
      /\ top = frames[Len(frames)]
  BY InCall
<1>5. PICK v \in V, k \in V, a \in Colours : v = top.vertex /\ k = top.i /\ a = top.act
  <2>1. top.i \in V
    BY <1>4 DEF IInv, Waiting, Trail, Followed
  <2> QED BY <1>4, <2>1 DEF FrameType
<1>6. graphColors[v][k] = a + 2
  BY <1>5 DEF CInv, Current
<1>7. graph[v][k] # 0 /\ graphColors[v][k] = graphColors[k][v]
  <2>1. a + 2 # 0
    BY DEF Colours
  <2> QED BY <1>4, <1>6, <2>1 DEF ColouringOf
<1>8. h[v][k] # graphColors[v][k]
  BY <1>1, <1>3, <1>5, <1>7, ButIsCompletable
<1>9. PICK e \in Colours : h[v][k] = e + 2 /\ usedColors[v][e] = 0 /\ usedColors[k][e] = 0
  BY <1>3, <1>4, <1>5, <1>7, <1>8, FreeChoice
<1>10. e # a
  BY <1>6, <1>8, <1>9
<1>11. e \in OtherColours
  BY <1>5, <1>9, <1>10 DEF OtherColours, FreeColours
<1> QED BY <1>2, <1>3, <1>5, <1>9, <1>11

-----------------------------------------------------------------------------
\* The steps of the calls keep the third layer.

LEMMA NoFrames ==
    ASSUME NEW fs, fs = <<>>, NEW G, NEW X
    PROVE  ClosedCopies(fs) /\ ClosedNow(fs, G, X) /\ Started(fs) /\ Chained(graph, fs)
<1>1. Len(fs) = 0
  OBVIOUS
<1> QED BY <1>1 DEF ClosedCopies, ClosedNow, Started, Chained

\* The innermost call paints an edge and calls itself.
LEMMA CallHopes ==
    ASSUME IInv, CInv, NInv, frames # <<>>, pc \in {"scan", "returned"},
           NEW k \in V, NEW m \in 2..4, NEW f \in FrameType,
           f.vertex = top.vertex, f.i = k,
           f.initGraph = top.initGraph, f.initUsed = top.initUsed,
           Repainted(graphColors, graphColors', top.vertex, k, m),
           usedColors' \in Tables, Dropped \subseteq {k},
           CallFrom(f, k), RootUnchanged, Awaits(graph, f, graphColors')
    PROVE  NInv'
<1>1. PICK L \in Nat \ {0} : L = Len(frames)
  BY InCall
<1>2. L \in 1..L /\ top = frames[L] /\ top \in FrameType /\ frames \in Seq(FrameType)
  BY <1>1, InCall
<1>3. PICK v \in V : v = top.vertex
  BY InCall
<1>4. PICK H, T : H = graphColors' /\ T = usedColors'
  OBVIOUS
<1>5. PICK t : t = Append([frames EXCEPT ![Len(frames)] = f], Frame(k, H, T))
  OBVIOUS
<1>6. frames' = t /\ pc' = "scan"
  BY <1>4, <1>5 DEF CallFrom
<1>7. H \in Matrices /\ T \in Tables /\ H[k][v] = m /\ Repainted(graphColors, H, v, k, m)
  BY <1>3, <1>4 DEF Repainted
<1>8. PICK n \in FrameType :
        n = Frame(k, H, T) /\ n.vertex = k /\ n.initGraph = H /\ n.initUsed = T /\ n.i = 0
  <2>1. Frame(k, H, T).i = 0
    BY DEF Frame
  <2> QED BY <1>7, <2>1, FrameIsTyped
<1>9. /\ t \in Seq(FrameType) /\ Len(t) = L + 1 /\ t[L] = f /\ t[L + 1] = n
      /\ \A d \in 1..L - 1 : t[d] = frames[d]
  BY <1>1, <1>2, <1>5, <1>8, ReplaceTopAndPush
<1>10. Pushed(frames, t, L, k, H, T)
  BY <1>2, <1>8, <1>9 DEF Pushed
<1>11. /\ ClosedCopies(frames) /\ ClosedNow(frames, graphColors, Dropped)
       /\ Started(frames) /\ Chained(graph, frames)
  BY DEF NInv
<1>12. ClosedCopies(t) /\ ClosedNow(t, H, {})
  <2>1. PICK X \in SUBSET {k} : X = Dropped
    OBVIOUS
  <2>2. ClosedNow(frames, graphColors, X) /\ m # 1 /\ v = frames[L].vertex
    BY <1>2, <1>3, <1>11, <2>1
  <2> QED BY <1>1, <1>2, <1>7, <1>10, <1>11, <2>2, PushCloses
<1>13. Dropped' = {}
  BY <1>6 DEF Dropped
<1>14. /\ \A d \in 1..L + 1 : d \in 1..L \/ d = L + 1
       /\ \A d \in 1..L : d \in 1..L - 1 \/ d = L
       /\ \A d \in 1..L - 1 : d + 1 \in 1..L /\ d \in 1..L
       /\ L + 1 - 1 = L
  BY <1>1
<1>15. \A d \in 1..L : t[d].vertex = frames[d].vertex /\ t[d].initGraph = frames[d].initGraph
  BY <1>2, <1>9, <1>14
<1>16. Started(t)
  <2>1. ASSUME NEW d \in 1..L PROVE \E w \in V : t[d].initGraph[t[d].vertex][w] > 1
    BY <1>1, <1>11, <1>15 DEF Started
  <2>2. \E w \in V : t[L + 1].initGraph[t[L + 1].vertex][w] > 1
    <3>1. t[L + 1].initGraph[t[L + 1].vertex][v] > 1
      BY <1>7, <1>8, <1>9
    <3> QED BY <3>1
  <2> QED BY <1>9, <1>14, <2>1, <2>2 DEF Started
<1>17. Chained(graph, t)
  <2>1. ASSUME NEW d \in 1..L - 1 PROVE Awaits(graph, t[d], t[d + 1].initGraph)
    <3>1. Awaits(graph, frames[d], frames[d + 1].initGraph)
      BY <1>1, <1>11 DEF Chained
    <3>2. t[d] = frames[d] /\ t[d + 1].initGraph = frames[d + 1].initGraph
      BY <1>9, <1>14, <1>15
    <3> QED BY <3>1, <3>2
  <2>2. Awaits(graph, t[L], t[L + 1].initGraph)
    BY <1>4, <1>8, <1>9
  <2>3. \A d \in 1..Len(t) - 1 : d \in 1..L - 1 \/ d = L
    BY <1>9, <1>14
  <2> QED BY <2>1, <2>2, <2>3 DEF Chained
<1>18. UNCHANGED <<graph, perm, stack1, addedVertexes, j, actColor, found>>
  BY DEF RootUnchanged
<1>19. Searched'
  <2>1. top' = n
    BY <1>6, <1>9 DEF top, Last
  <2>2. Hopeful(graph, n, H)
    BY <1>8 DEF Hopeful
  <2>3. Hopeful(graph', top', graphColors')
    BY <1>4, <1>18, <2>1, <2>2
  <2> QED BY <1>6, <2>3 DEF Searched
<1>20. Ranked'
  <2>1. 1 \in 1..L
    BY <1>1
  <2>2. j = 0 => RootHas(graph, perm, frames[1].initGraph)
    BY DEF NInv, Ranked
  <2>3. j' = 0 => RootHas(graph', perm', frames'[1].initGraph)
    BY <1>6, <1>15, <1>18, <2>1, <2>2
  <2> QED BY <1>6, <2>3 DEF Ranked
<1>21. Tried'
  BY <1>6, <1>18 DEF NInv, Tried
<1>22. ClosedCopies(frames') /\ ClosedNow(frames', graphColors', Dropped') /\ Started(frames')
       /\ Chained(graph', frames')
  BY <1>4, <1>6, <1>12, <1>13, <1>16, <1>17, <1>18
<1> QED BY <1>19, <1>20, <1>21, <1>22 DEF NInv

\* A call returns, and what its caller makes of that is known.
LEMMA ReturnHopes ==
    ASSUME IInv, CInv, NInv, frames # <<>>, pc \in {"scan", "returned"},
           NEW value \in {0, 1}, Return(value), RootUnchanged,
           \/ /\ value = 1
              /\ ClosedNow(frames, graphColors', {}) /\ ~ HasBlank(graphColors', top.vertex)
           \/ value = 0 /\ j = 0 /\ graphColors' = top.initGraph,
           value = 0 => ~ Completable(graph, top.initGraph),
           value = 1 /\ Len(frames) > 1 =>
             Hopeful(graph, frames[Len(frames) - 1], graphColors')
    PROVE  NInv'
<1>1. PICK L \in Nat \ {0} : L = Len(frames)
  BY InCall
<1>2. L \in 1..L /\ top = frames[L] /\ top \in FrameType /\ frames \in Seq(FrameType)
  BY <1>1, InCall
<1>3. PICK H, t : H = graphColors' /\ t = Front(frames)
  OBVIOUS
<1>4. frames' = t /\ pc' = "returned" /\ ret' = value
  BY <1>3 DEF Return
<1>5. t \in Seq(FrameType) /\ Len(t) = L - 1 /\ \A d \in 1..L - 1 : t[d] = frames[d]
  BY <1>1, <1>2, <1>3, FrontOf
<1>6. UNCHANGED <<graph, perm, stack1, addedVertexes, j, actColor, found>>
  BY DEF RootUnchanged
<1>7. ClosedCopies(frames) /\ Started(frames) /\ Chained(graph, frames)
  BY DEF NInv
<1>8. ASSUME t # <<>>
      PROVE  /\ L > 1 /\ L - 1 \in 1..L - 1 /\ L - 1 + 1 = L
             /\ top' = frames[L - 1] /\ frames[L].vertex = frames[L - 1].i
  <2>1. L - 1 # 0
    BY <1>5, <1>8, EmptySeq
  <2>2. L > 1 /\ L - 1 \in 1..L - 1 /\ L - 1 + 1 = L
    BY <1>1, <2>1
  <2>3. top' = frames[L - 1]
    BY <1>4, <1>5, <2>2 DEF top, Last
  <2>4. frames[L].vertex = frames[L - 1].i
    BY <1>1, <2>2 DEF IInv, Trail, Linked
  <2> QED BY <2>2, <2>3, <2>4
<1>9. ASSUME t # <<>>
      PROVE  ClosedCopies(t) /\ ClosedNow(t, H, Dropped')
  <2>1. PICK X : X = Dropped'
    OBVIOUS
  <2>2. \/ ClosedNow(frames, H, {}) /\ ~ HasBlank(H, frames[L].vertex)
        \/ H = frames[L].initGraph /\ frames[L].vertex \in X
    <3>1. value = 0 => X = {frames[L - 1].i}
      BY <1>4, <1>8, <1>9, <2>1 DEF Dropped
    <3> QED BY <1>2, <1>3, <1>8, <1>9, <3>1
  <2>3. L \in Nat \ {0} /\ L = Len(frames) /\ Len(t) = L - 1 /\ \A d \in 1..L - 1 : t[d] = frames[d]
    BY <1>1, <1>5
  <2> QED BY <1>2, <1>7, <2>1, <2>2, <2>3, PopCloses
<1>10. Started(t) /\ Chained(graph, t)
  <2>1. /\ \A d \in 1..L - 1 : d \in 1..L
        /\ \A d \in 1..L - 1 - 1 : d \in 1..L - 1 /\ d + 1 \in 1..L - 1
    BY <1>1
  <2>2. Started(t)
    BY <1>1, <1>5, <1>7, <2>1 DEF Started
  <2>3. Chained(graph, t)
    BY <1>1, <1>5, <1>7, <2>1 DEF Chained
  <2> QED BY <2>2, <2>3
<1>11. Searched'
  <2>1. value = 0 => H = top.initGraph /\ ~ Completable(graph, H)
    BY <1>3
  <2>2. value = 1 /\ t # <<>> => Hopeful(graph, frames[L - 1], H)
    BY <1>1, <1>3, <1>8
  <2>3. value = 0 /\ t # <<>> => Awaits(graph, frames[L - 1], H)
    <3>1. t # <<>> => Awaits(graph, frames[L - 1], frames[L].initGraph)
      BY <1>1, <1>7, <1>8 DEF Chained
    <3> QED BY <1>2, <2>1, <3>1
  <2>4. t # <<>> => top' = frames[L - 1]
    BY <1>8
  <2>5. value = 1 /\ t # <<>> => Hopeful(graph', top', graphColors')
    BY <1>3, <1>6, <2>2, <2>4
  <2>6. value = 0 => ~ Completable(graph', graphColors')
    BY <1>3, <1>6, <2>1
  <2>7. value = 0 /\ t # <<>> => Awaits(graph', top', graphColors')
    BY <1>3, <1>6, <2>3, <2>4
  <2> QED BY <1>4, <2>5, <2>6, <2>7 DEF Searched
<1>12. Ranked'
  <2>1. j = 0 => RootHas(graph, perm, frames[1].initGraph)
    BY DEF NInv, Ranked
  <2>2. t # <<>> => t[1] = frames[1]
    <3>1. t # <<>> => 1 \in 1..L - 1
      BY <1>1, <1>8
    <3> QED BY <1>5, <3>1
  <2>3. t # <<>> /\ j' = 0 => RootHas(graph', perm', t[1].initGraph)
    BY <1>6, <2>1, <2>2
  <2>4. t = <<>> /\ value = 0 => RootHas(graph', perm', graphColors')
    <3>1. ASSUME t = <<>> PROVE L = 1
      <4>1. Len(t) = 0
        BY <3>1
      <4>2. \A n \in Nat : n - 1 = 0 => n = 1
        OBVIOUS
      <4>3. L - 1 = 0 /\ L \in Nat
        BY <1>5, <4>1
      <4> QED BY <4>2, <4>3
    <3>2. value = 0 => j = 0 /\ graphColors' = frames[L].initGraph
      BY <1>2
    <3> QED BY <1>6, <2>1, <3>1, <3>2
  <2> QED BY <1>4, <2>3, <2>4 DEF Ranked
<1>13. Tried'
  BY <1>4, <1>6 DEF NInv, Tried
<1>14. ClosedCopies(frames') /\ ClosedNow(frames', graphColors', Dropped') /\ Started(frames')
       /\ Chained(graph', frames')
  <2>1. t = <<>> => ClosedCopies(t) /\ ClosedNow(t, H, Dropped')
    BY NoFrames
  <2> QED BY <1>3, <1>4, <1>6, <1>9, <1>10, <2>1
<1> QED BY <1>11, <1>12, <1>13, <1>14 DEF NInv

LEMMA FirstAttemptHopes ==
    ASSUME IInv, CInv, NInv, FirstAttempt
    PROVE  NInv'
<1>1. PICK k \in V, c \in Colours, f \in FrameType :
        /\ graphColors[top.vertex][k] = 1
        /\ f.vertex = top.vertex /\ f.i = k /\ f.second = FALSE
        /\ f.initGraph = top.initGraph /\ f.initUsed = top.initUsed
        /\ Paint(top.vertex, k, c) /\ CallFrom(f, k)
  BY FirstAttemptDoes
<1>2. frames # <<>> /\ pc = "scan" /\ RootUnchanged
  BY FirstAttemptDoes
<1>3. PICK v \in V : v = top.vertex
  BY <1>2, InCall
<1>4. PICK m \in 2..4 : m = c + 2
  BY DEF Colours
<1>5. Repainted(graphColors, graphColors', v, k, m)
  <2>1. graphColors' = Painted(graphColors, v, k, m)
    BY <1>1, <1>3, <1>4 DEF Paint, Painted
  <2>2. m \in 0..4 /\ graphColors \in Matrices
    BY <1>2, <1>4, InCall
  <2> QED BY <2>1, <2>2, PaintedMatrix
<1>6. usedColors' \in Tables
  <2>1. usedColors \in Tables
    BY <1>2, InCall
  <2> QED BY <1>1, <1>3, <2>1 DEF Paint, Tables
<1>7. Awaits(graph, f, graphColors')
  <2> SUFFICES ASSUME Completable(graph, top.initGraph)
               PROVE  \E h : Whole(graph, h) /\ CompletesBut(h, graphColors', v, k)
    BY <1>1, <1>3 DEF Awaits
  <2>1. Hopeful(graph, top, graphColors) /\ HasBlank(graphColors, top.vertex)
    BY <1>1, <1>2 DEF NInv, Searched, HasBlank
  <2>2. Completable(graph, graphColors)
    BY <2>1 DEF Hopeful
  <2>3. PICK h : Whole(graph, h) /\ Completes(h, graphColors)
    BY <2>2 DEF Completable
  <2>4. CompletesBut(h, graphColors, v, k)
    BY <2>3, CompletesIsBut
  <2>5. CompletesBut(h, graphColors', v, k)
    BY <1>5, <2>4, ButRepainted
  <2> QED BY <2>3, <2>5
<1>8. Dropped \subseteq {k}
  BY <1>2 DEF Dropped
<1> QED BY <1>1, <1>2, <1>3, <1>5, <1>6, <1>7, <1>8, CallHopes

LEMMA SecondAttemptHopes ==
    ASSUME IInv, CInv, NInv, SecondAttempt
    PROVE  NInv'
<1>1. PICK c \in Colours, f \in FrameType :
        /\ usedColors[top.vertex][c] = 0 /\ usedColors[top.i][c] = 0 /\ c # top.act
        /\ f.vertex = top.vertex /\ f.i = top.i /\ f.act = c /\ f.second = TRUE
        /\ f.initGraph = top.initGraph /\ f.initUsed = top.initUsed
        /\ graphColors' = [graphColors EXCEPT ![top.vertex][top.i] = c + 2,
                                              ![top.i][top.vertex] = c + 2]
        /\ usedColors' = [usedColors EXCEPT
                            ![top.vertex] = [@ EXCEPT ![top.act] = 0, ![c] = 1],
                            ![top.i] = [@ EXCEPT ![top.act] = 0, ![c] = 1]]
        /\ CallFrom(f, top.i)
  BY SecondAttemptDoes
<1>2. /\ frames # <<>> /\ pc = "returned" /\ ret = 0 /\ RootUnchanged
      /\ top.i \in V /\ top.initGraph[top.vertex][top.i] = 1
  BY SecondAttemptDoes
<1>3. PICK v \in V, k \in V, a \in Colours : v = top.vertex /\ k = top.i /\ a = top.act
  BY <1>2, InCall DEF FrameType
<1>4. PICK m \in 2..4 : m = c + 2
  BY DEF Colours
<1>5. Repainted(graphColors, graphColors', v, k, m)
  <2>1. graphColors' = Painted(graphColors, v, k, m)
    BY <1>1, <1>3, <1>4 DEF Painted
  <2>2. m \in 0..4 /\ graphColors \in Matrices
    BY <1>2, <1>4, InCall
  <2> QED BY <2>1, <2>2, PaintedMatrix
<1>6. usedColors' \in Tables
  <2>1. usedColors \in [V -> [Colours -> {0, 1}]]
    BY <1>2, InCall DEF Tables
  <2>2. usedColors' = [usedColors EXCEPT ![v] = [@ EXCEPT ![a] = 0, ![c] = 1],
                                         ![k] = [@ EXCEPT ![a] = 0, ![c] = 1]]
    BY <1>1, <1>3
  <2> QED BY <2>1, <2>2 DEF Tables
<1>7. Awaits(graph, f, graphColors')
  <2> SUFFICES ASSUME Completable(graph, top.initGraph)
               PROVE  Completable(graph, graphColors')
    BY <1>1 DEF Awaits
  <2>1. PICK h : \E e \in Colours :
          /\ Whole(graph, h) /\ CompletesBut(h, graphColors, v, k)
          /\ h[v][k] = e + 2 /\ e \in OtherColours
    BY <1>2, <1>3, OtherColourLeft
  <2>2. PICK e \in Colours :
          /\ Whole(graph, h) /\ CompletesBut(h, graphColors, v, k)
          /\ h[v][k] = e + 2 /\ e \in OtherColours
    BY <2>1
  <2>3. usedColors[v][e] = 0 /\ e # a /\ usedColors[v][c] = 0 /\ c # a
    BY <1>1, <1>3, <2>2 DEF OtherColours, FreeColours
  <2>4. Sound(graphColors, usedColors) /\ graphColors[v][k] = a + 2
    BY <1>2, <1>3 DEF CInv, Current
\* Another edge of v has a third colour.
  <2>5. PICK w \in V : w # k /\ graphColors[v][w] > 1
    <3>1. Started(frames) /\ top = frames[Len(frames)] /\ Len(frames) \in 1..Len(frames)
          /\ Below(top.initGraph, graphColors)
      BY <1>2, InCall DEF NInv
    <3>2. PICK w \in V : top.initGraph[v][w] > 1
      BY <1>3, <3>1 DEF Started
    <3>3. w # k /\ graphColors[v][w] > 1
      BY <1>2, <1>3, <3>1, <3>2 DEF Below
    <3> QED BY <3>3
  <2>6. PICK b \in Colours : graphColors[v][w] = b + 2
    <3>1. graphColors[v][w] \in 2..4
      <4>1. graphColors[v][w] \in 0..4
        BY <1>2, InCall DEF Matrices
      <4> QED BY <2>5, <4>1
    <3>2. graphColors[v][w] - 2 \in Colours /\ graphColors[v][w] = (graphColors[v][w] - 2) + 2
      BY <3>1 DEF Colours
    <3> QED BY <3>2
  <2>7. usedColors[v][b] = 1
    BY <2>4, <2>6 DEF Sound, RowUsed
  <2>8. b # a
    BY <2>4, <2>5, <2>6 DEF Sound, RowProper
  <2>9. b # c /\ b # e
    BY <2>3, <2>7
  <2>10. c = e
    BY <2>3, <2>8, <2>9 DEF Colours
  <2>11. CompletesBut(h, graphColors', v, k)
    BY <1>5, <2>2, ButRepainted
  <2>12. h[v][k] = graphColors'[v][k] /\ graphColors'[v][k] = graphColors'[k][v]
    BY <1>4, <1>5, <2>2, <2>10 DEF Repainted
  <2> QED BY <2>2, <2>11, <2>12, ButIsCompletable
<1>8. Dropped \subseteq {k}
  BY <1>3 DEF Dropped
<1>9. /\ f.vertex = top.vertex /\ f.i = k /\ f.initGraph = top.initGraph /\ f.initUsed = top.initUsed
      /\ CallFrom(f, k) /\ Repainted(graphColors, graphColors', top.vertex, k, m)
  BY <1>1, <1>3, <1>5
<1>10. frames # <<>> /\ pc \in {"scan", "returned"} /\ RootUnchanged
  BY <1>2
<1> QED BY <1>6, <1>7, <1>8, <1>9, <1>10, CallHopes

LEMMA NoColourLeftHopes ==
    ASSUME IInv, CInv, NInv, NoColourLeft
    PROVE  NInv'
<1>1. frames # <<>> /\ pc = "scan" /\ EdgesLeft # {} /\ GiveUp /\ RootUnchanged
  BY DEF NoColourLeft, IInv, CallsPhase
<1>2. PICK k \in V : k = Least(EdgesLeft) /\ graphColors[top.vertex][k] = 1
  <2>1. EdgesLeft \in SUBSET Nat
    BY VIsNat DEF EdgesLeft
  <2>2. Least(EdgesLeft) \in EdgesLeft
    BY <1>1, <2>1, LeastIn
  <2> QED BY <2>2 DEF EdgesLeft
<1>3. j = 0
  BY <1>1, <1>2, LaterScanFindsNothing
<1>4. PICK v \in V : v = top.vertex
  BY <1>1, InCall
<1>5. ~ Completable(graph, top.initGraph)
  <2> SUFFICES ASSUME Completable(graph, top.initGraph) PROVE FALSE
    OBVIOUS
  <2>1. Hopeful(graph, top, graphColors) /\ HasBlank(graphColors, top.vertex)
    BY <1>1, <1>2 DEF NInv, Searched, HasBlank
  <2>2. Completable(graph, graphColors)
    BY <2>1 DEF Hopeful
  <2>3. PICK h : Whole(graph, h) /\ Completes(h, graphColors)
    BY <2>2 DEF Completable
  <2>4. CompletesBut(h, graphColors, v, k)
    BY <2>3, CompletesIsBut
  <2>5. h[v][k] # graphColors[v][k]
    BY <1>2, <1>4, <2>3 DEF Whole
  <2>6. graph[v][k] # 0 /\ graphColors[v][k] = graphColors[k][v] /\ IsGraph(graph)
        /\ Sound(graphColors, usedColors) /\ usedColors \in Tables
    BY <1>1, <1>2, <1>4, InCall DEF ColouringOf
  <2>7. PICK e \in Colours : usedColors[v][e] = 0 /\ usedColors[k][e] = 0
    BY <2>3, <2>4, <2>5, <2>6, FreeChoice
  <2>8. e \in FreeColours(top.vertex, Least(EdgesLeft))
    BY <1>2, <1>4, <2>7 DEF FreeColours
  <2> QED BY <2>8 DEF NoColourLeft
<1>6. Return(0) /\ graphColors' = top.initGraph
  BY <1>1 DEF GiveUp
<1> QED BY <1>1, <1>3, <1>5, <1>6, ReturnHopes

LEMMA CallFailedHopes ==
    ASSUME IInv, CInv, NInv, CallFailed
    PROVE  NInv'
<1>1. frames # <<>> /\ pc = "returned" /\ ret = 0 /\ GiveUp /\ RootUnchanged
  BY DEF CallFailed
<1>2. j = 0
  BY <1>1, FirstCallOnly DEF IInv, CInv
<1>3. ~ Completable(graph, top.initGraph)
  BY <1>1, OtherColourLeft DEF CallFailed
<1>4. Return(0) /\ graphColors' = top.initGraph
  BY <1>1 DEF GiveUp
<1> QED BY <1>1, <1>2, <1>3, <1>4, ReturnHopes

\* The innermost call has coloured its vertex all around: its caller hopes.
LEMMA ScanDoneHopes ==
    ASSUME IInv, CInv, NInv, IsCubic(graph), ScanDone
    PROVE  NInv'
<1>1. pc = "scan" /\ frames # <<>>
  BY DEF ScanDone, IInv, CallsPhase
<1>2. top.result \in {-1, 1}
  BY <1>1, InCall DEF CInv, Current, FrameType
<1>3. Return(1) /\ RootUnchanged /\ graphColors' = graphColors
  BY <1>2 DEF ScanDone
<1>4. PICK L \in Nat \ {0} : L = Len(frames)
  BY <1>1, InCall
<1>5. ~ HasBlank(graphColors, top.vertex)
  BY RowIsFull
<1>6. ClosedNow(frames, graphColors, {})
  BY <1>1 DEF NInv, Dropped
<1>7. ASSUME L > 1
      PROVE  Hopeful(graph, frames[L - 1], graphColors)
  <2>1. L - 1 \in 1..L - 1 /\ L - 1 \in 1..L /\ L \in 1..L /\ L - 1 < L /\ L - 1 + 1 = L
    BY <1>7
  <2>2. PICK p, M : p = frames[L - 1] /\ M = frames[L].initGraph
    OBVIOUS
  <2> SUFFICES ASSUME Completable(graph, p.initGraph), HasBlank(graphColors, p.vertex)
               PROVE  Completable(graph, graphColors)
    BY <2>2 DEF Hopeful
  <2>3. top = frames[L] /\ top.initGraph = M /\ Below(M, graphColors)
        /\ Partial(graph, graphColors) /\ IsGraph(graph)
    BY <1>1, <1>4, <2>2, InCall
  <2>4. Partial(graph, M)
    <3>1. M \in Matrices /\ ColouringOf(graph, M)
      BY <1>1, <1>4, <2>1, <2>2, InCall, FrameFields, EdgesKeptIs DEF IInv
    <3>2. Sound(M, frames[L].initUsed)
      BY <1>4, <2>1, <2>2 DEF CInv, Copies, GoodCopy
    <3> QED BY <3>1, <3>2, PartialIs
  <2>5. GrowsTo(M, graphColors)
    <3>1. ASSUME NEW u \in V, NEW w \in V, M[u][w] # 1
          PROVE  graphColors[u][w] = M[u][w]
      <4>1. M[u][w] \in 0..4 /\ (M[u][w] = 0 <=> graph[u][w] = 0)
            /\ (graphColors[u][w] = 0 <=> graph[u][w] = 0)
        BY <2>3, <2>4 DEF Partial, Matrices
      <4>2. CASE M[u][w] = 0
        BY <4>1, <4>2
      <4>3. CASE M[u][w] > 1
        BY <2>3, <4>3 DEF Below
      <4> QED BY <3>1, <4>1, <4>2, <4>3
    <3>2. ASSUME NEW u \in V, NEW w \in V, M[u][w] = 1, graphColors[u][w] # 1
          PROVE  RowFilled(graphColors, u)
      <4>1. Touched(M, graphColors, u)
        BY <3>2 DEF Touched
      <4>2. Closed(frames, L, L, graphColors, {})
        BY <1>4, <1>6, <2>1 DEF ClosedNow
      <4>3. HasBlank(graphColors, u) => Since(frames, L, L, u)
        BY <2>2, <4>1, <4>2 DEF Closed
      <4>4. Since(frames, L, L, u) => u = top.vertex
        <5>1. \A d \in L..L : d = L
          OBVIOUS
        <5> QED BY <2>3, <5>1 DEF Since
      <4>5. ~ HasBlank(graphColors, u)
        BY <1>5, <4>3, <4>4
      <4> QED BY <4>5 DEF HasBlank, RowFilled
    <3> QED BY <3>1, <3>2 DEF GrowsTo
  <2>6. Awaits(graph, p, M)
    BY <1>4, <2>1, <2>2 DEF NInv, Chained
  <2>7. Completable(graph, M) => Completable(graph, graphColors)
    BY <2>3, <2>4, <2>5, GrownIsCompletable
  <2>8. CASE p.second
    BY <2>6, <2>7, <2>8 DEF Awaits
  <2>9. CASE ~ p.second
    <3>1. PICK h : Whole(graph, h) /\ CompletesBut(h, M, p.vertex, p.i)
      BY <2>6, <2>9 DEF Awaits
    <3>2. PICK v \in V, k \in V, d \in 2..4 : v = p.vertex /\ k = p.i /\ d = p.act + 2
      <4>1. p \in FrameType
        BY <1>1, <1>4, <2>1, <2>2, InCall, ElementOfSeq
      <4>2. p.i \in V
        BY <1>1, <1>4, <2>1, <2>2 DEF IInv, Waiting, Trail, Followed
      <4>3. p.act + 2 \in 2..4
        BY <4>1 DEF FrameType, Colours
      <4> QED BY <4>1, <4>2, <4>3 DEF FrameType
    <3>3. M[v][k] = d
      BY <1>4, <2>1, <2>2, <3>2 DEF IInv, Trail, Nested
    <3>4. CASE h[v][k] = d
      <4>1. M[v][k] = M[k][v]
        BY <2>4 DEF Partial
      <4>2. Completable(graph, M)
        BY <3>1, <3>2, <3>3, <3>4, <4>1, ButIsCompletable
      <4> QED BY <2>7, <4>2
    <3>5. CASE h[v][k] # d
      <4>1. k = top.vertex
        BY <1>4, <2>1, <2>2, <2>3, <3>2 DEF IInv, Trail, Linked
      <4>2. RowFilled(graphColors, k)
        BY <1>5, <4>1 DEF HasBlank, RowFilled
      <4>3. RowFilled(graphColors, v)
        BY <2>3, <2>4, <2>5, <3>1, <3>2, <3>3, <3>5, <4>2, CameBack
      <4> QED BY <3>2, <4>3 DEF HasBlank, RowFilled
    <3> QED BY <3>4, <3>5
  <2> QED BY <2>8, <2>9
<1>8. ClosedNow(frames, graphColors', {}) /\ ~ HasBlank(graphColors', top.vertex)
  BY <1>3, <1>5, <1>6
<1>9. Len(frames) > 1 => Hopeful(graph, frames[Len(frames) - 1], graphColors')
  BY <1>3, <1>4, <1>7
<1> QED BY <1>1, <1>3, <1>8, <1>9, ReturnHopes

LEMMA CallSucceededHopes ==
    ASSUME IInv, CInv, NInv, CallSucceeded
    PROVE  NInv'
<1>1. /\ pc = "returned" /\ frames # <<>> /\ ret = 1 /\ pc' = "scan" /\ RootUnchanged
      /\ UNCHANGED <<graphColors, usedColors, ret>>
  BY DEF CallSucceeded
<1>2. PICK L \in Nat \ {0} : L = Len(frames)
  BY <1>1, InCall
<1>3. L \in 1..L /\ top = frames[L] /\ top \in FrameType /\ frames \in Seq(FrameType)
  BY <1>1, <1>2, InCall
<1>4. PICK n \in Nat : n = top.i + 1
  BY <1>3 DEF FrameType
<1>5. PICK f : f = [top EXCEPT !.result = 1, !.i = n]
  OBVIOUS
<1>6. f \in FrameType /\ f.vertex = top.vertex /\ f.initGraph = top.initGraph
  <2>1. f \in FrameType
    BY <1>3, <1>5 DEF FrameType
  <2>2. f.vertex = top.vertex /\ f.initGraph = top.initGraph
    BY <1>3, <1>5 DEF FrameType
  <2> QED BY <2>1, <2>2
<1>7. PICK t : t = [frames EXCEPT ![Len(frames)] = f]
  OBVIOUS
<1>8. frames' = t
  <2>1. f = [top EXCEPT !.result = 1, !.i = @ + 1]
    BY <1>4, <1>5
  <2> QED BY <1>7, <2>1 DEF CallSucceeded
<1>9. /\ t \in Seq(FrameType) /\ Len(t) = L /\ t[L] = f
      /\ \A d \in 1..L - 1 : t[d] = frames[d]
  BY <1>1, <1>2, <1>3, <1>6, <1>7, ReplaceTop
<1>10. \A d \in 1..L : d \in 1..L - 1 \/ d = L
  BY <1>2
<1>11. Alike(frames, t)
  <2>1. \A d \in 1..L : t[d].vertex = frames[d].vertex /\ t[d].initGraph = frames[d].initGraph
    BY <1>3, <1>6, <1>9, <1>10
  <2> QED BY <1>2, <1>9, <2>1 DEF Alike
<1>12. UNCHANGED <<graph, perm, stack1, addedVertexes, j, actColor, found>>
  BY <1>1 DEF RootUnchanged
<1>13. ClosedCopies(t) /\ ClosedNow(t, graphColors, {})
  <2>1. ClosedCopies(frames) /\ ClosedNow(frames, graphColors, {}) /\ Len(frames) \in Nat
    BY <1>1, <1>2 DEF NInv, Dropped
  <2> QED BY <1>11, <2>1, AlikeCloses
<1>14. Started(t)
  BY <1>11 DEF NInv, Started, Alike
<1>15. Chained(graph, t)
  <2>1. ASSUME NEW d \in 1..L - 1 PROVE Awaits(graph, t[d], t[d + 1].initGraph)
    <3>1. Awaits(graph, frames[d], frames[d + 1].initGraph)
      BY <1>2 DEF NInv, Chained
    <3>2. d + 1 \in 1..L
      BY <1>2
    <3>3. t[d] = frames[d] /\ t[d + 1].initGraph = frames[d + 1].initGraph
      BY <1>2, <1>9, <1>11, <3>2 DEF Alike
    <3> QED BY <3>1, <3>3
  <2> QED BY <1>9, <2>1 DEF Chained
<1>16. Searched'
  <2>1. top' = f
    BY <1>8, <1>9 DEF top, Last
  <2>2. Hopeful(graph, top, graphColors)
    BY <1>1 DEF NInv, Searched
  <2>3. Hopeful(graph, f, graphColors)
    BY <1>6, <2>2 DEF Hopeful
  <2>4. Hopeful(graph', top', graphColors')
    BY <1>1, <1>12, <2>1, <2>3
  <2> QED BY <1>1, <2>4 DEF Searched
<1>17. Ranked'
  <2>1. 1 \in 1..L
    BY <1>2
  <2>2. t[1].initGraph = frames[1].initGraph
    BY <1>2, <1>11, <2>1 DEF Alike
  <2>3. j = 0 => RootHas(graph, perm, frames[1].initGraph)
    BY <1>1 DEF NInv, Ranked
  <2>4. j' = 0 => RootHas(graph', perm', frames'[1].initGraph)
    BY <1>8, <1>12, <2>2, <2>3
  <2> QED BY <1>1, <2>4 DEF Ranked
<1>18. Tried'
  BY <1>1, <1>12 DEF NInv, Tried
<1>19. Dropped' = {}
  BY <1>1 DEF Dropped
<1>20. ClosedCopies(frames') /\ ClosedNow(frames', graphColors', Dropped') /\ Started(frames')
       /\ Chained(graph', frames')
  BY <1>1, <1>8, <1>12, <1>13, <1>14, <1>15, <1>19
<1> QED BY <1>16, <1>17, <1>18, <1>20 DEF NInv

-----------------------------------------------------------------------------
\* The steps of the root keep the third layer.

\* Without calls only the last two parts say something.
Between == frames = <<>> /\ pc \in {"root", "calls", "done"} /\ Ranked /\ Tried

LEMMA NoCallsHope == Between => NInv
<1> SUFFICES ASSUME Between PROVE NInv
  OBVIOUS
<1>1. ClosedCopies(frames) /\ ClosedNow(frames, graphColors, Dropped)
      /\ Started(frames) /\ Chained(graph, frames)
  BY NoFrames DEF Between
<1>2. Searched
  BY DEF Searched, Between
<1> QED BY <1>1, <1>2 DEF NInv, Between

\* The loop begins: no neighbour of the root is passed.
LEMMA NothingPassed ==
    ASSUME NEW g, NEW p, NEW G
    PROVE  RootHasSoFar(g, p, G, 0, 0)
<1>1. ASSUME NEW a \in V, NEW b \in V, NEW c \in V
      PROVE  0 = Passed(0, a, b, c) /\ ~ (a < 0) /\ ~ (b < 0) /\ ~ (c < 0)
  <2>1. a \in Nat /\ b \in Nat /\ c \in Nat
    BY VIsNat
  <2> QED BY <2>1 DEF Passed
<1> QED BY <1>1 DEF RootHasSoFar

LEMMA InitHopes ==
    ASSUME Init
    PROVE  NInv
<1>1. Ranked
  BY NothingPassed DEF Init, Ranked
<1>2. Tried
  BY DEF Init, Tried
<1> QED BY <1>1, <1>2, NoCallsHope DEF Init, Between

LEMMA ColourRootEdgeHopes ==
    ASSUME IInv, CInv, NInv, ColourRootEdge
    PROVE  NInv'
<1>1. PICK k \in V, m \in 2..4, c \in Colours :
        /\ m = Perms[perm][actColor + 1]
        /\ k \in Nat /\ k >= j /\ graph[root][k] = 1
        /\ \A w \in V : w >= j /\ graphColors[root][w] = 1 => k <= w
        /\ Repainted(graphColors, graphColors', root, k, m)
        /\ pc = "root" /\ pc' = "root" /\ j' = k + 1 /\ actColor' = actColor + 1
        /\ UNCHANGED <<graph, perm, frames, ret, found>>
  BY ColourRootEdgeDoes
<1>2. /\ TypeOK /\ EdgesKept /\ frames = <<>> /\ root \in V /\ IsGraph(graph)
      /\ RootHasSoFar(graph, perm, graphColors, actColor, j)
  BY <1>1, InputGraph, RootAssumption DEF IInv, CallsPhase, NInv, Ranked
<1>3. j \in Nat /\ actColor \in Nat /\ graphColors \in Matrices
  BY <1>2 DEF TypeOK
\* The loop has not passed over a neighbour.
<1>4. ASSUME NEW x \in V, graph[root][x] = 1, x >= j
      PROVE  k <= x
  <2>1. graphColors[root][x] <= 1
    BY <1>1, <1>4 DEF CInv, Permuted
  <2>2. graphColors[root][x] \in 0..4 /\ graphColors[root][x] # 0
    BY <1>2, <1>3, <1>4 DEF Matrices, EdgesKept, Colouring
  <2>3. graphColors[root][x] = 1
    BY <2>1, <2>2
  <2> QED BY <1>1, <1>4, <2>3
<1>5. PICK H : H = graphColors'
  OBVIOUS
<1>6. H[root][k] = m /\ \A w \in V : w # k => H[root][w] = graphColors[root][w]
  <2>1. k # root
    BY <1>1, <1>2 DEF IsGraph
  <2> QED BY <1>1, <1>2, <1>5, <2>1 DEF Repainted
<1>7. ASSUME NEW a \in V, NEW b \in V, NEW d \in V, InOrder(graph, a, b, d)
      PROVE  /\ actColor + 1 = Passed(k + 1, a, b, d)
             /\ a < k + 1 => H[root][a] = Perms[perm][1]
             /\ b < k + 1 => H[root][b] = Perms[perm][2]
             /\ d < k + 1 => H[root][d] = Perms[perm][3]
  <2>1. a < b /\ b < d /\ a \in Nat /\ b \in Nat /\ d \in Nat /\ k \in Nat
    BY <1>1, <1>7, VIsNat DEF InOrder
  <2>2. graph[root][a] = 1 /\ graph[root][b] = 1 /\ graph[root][d] = 1 /\ k \in {a, b, d}
    BY <1>1, <1>7 DEF InOrder
  <2>3. (a >= j => k <= a) /\ (b >= j => k <= b) /\ (d >= j => k <= d)
    BY <1>4, <2>2
  <2>4. /\ actColor = Passed(j, a, b, d)
        /\ a < j => graphColors[root][a] = Perms[perm][1]
        /\ b < j => graphColors[root][b] = Perms[perm][2]
        /\ d < j => graphColors[root][d] = Perms[perm][3]
    BY <1>2, <1>7 DEF RootHasSoFar
  <2>5. CASE k = a
    <3>1. j <= a
      BY <1>1, <2>5
    <3>2. actColor = 0
      BY <1>3, <2>1, <2>4, <3>1 DEF Passed
    <3>3. Passed(k + 1, a, b, d) = 1 /\ ~ (b < k + 1) /\ ~ (d < k + 1)
      BY <2>1, <2>5 DEF Passed
    <3> QED BY <1>1, <1>6, <2>5, <3>2, <3>3
  <2>6. CASE k = b
    <3>1. a < j /\ j <= b
      BY <1>1, <1>3, <2>1, <2>3, <2>6
    <3>2. actColor = 1
      BY <1>3, <2>1, <2>4, <3>1 DEF Passed
    <3>3. Passed(k + 1, a, b, d) = 2 /\ ~ (d < k + 1) /\ a # k
      BY <2>1, <2>6 DEF Passed
    <3> QED BY <1>1, <1>6, <2>4, <2>6, <3>1, <3>2, <3>3
  <2>7. CASE k = d
    <3>1. a < j /\ b < j /\ j <= d
      BY <1>1, <1>3, <2>1, <2>3, <2>7
    <3>2. actColor = 2
      BY <1>3, <2>1, <2>4, <3>1 DEF Passed
    <3>3. Passed(k + 1, a, b, d) = 3 /\ a # k /\ b # k
      BY <2>1, <2>7 DEF Passed
    <3> QED BY <1>1, <1>6, <2>4, <2>7, <3>1, <3>2, <3>3
  <2> QED BY <2>2, <2>5, <2>6, <2>7
<1>8. RootHasSoFar(graph, perm, H, actColor + 1, k + 1)
  BY <1>7 DEF RootHasSoFar
<1>9. Ranked'
  <2>1. RootHasSoFar(graph', perm', graphColors', actColor', j')
    BY <1>1, <1>5, <1>8
  <2> QED BY <1>1, <1>2, <2>1 DEF Ranked
<1>10. Tried'
  BY <1>1 DEF NInv, Tried
<1>11. Between'
  BY <1>1, <1>2, <1>9, <1>10 DEF Between
<1> QED BY <1>11, NoCallsHope, PTL

LEMMA RootColouredHopes ==
    ASSUME IInv, CInv, NInv, RootColoured
    PROVE  NInv'
<1>1. /\ TypeOK /\ EdgesKept /\ frames = <<>> /\ root \in V /\ pc = "root" /\ RootEdgesLeft = {}
      /\ RootHasSoFar(graph, perm, graphColors, actColor, j)
  BY RootAssumption DEF IInv, CallsPhase, NInv, Ranked, RootColoured
<1>2. /\ j' = 0 /\ pc' = "calls"
      /\ UNCHANGED <<graph, graphColors, usedColors, perm, stack1, addedVertexes,
                     actColor, frames, ret, found>>
  BY DEF RootColoured
<1>3. j \in Nat /\ graphColors \in Matrices
  BY <1>1 DEF TypeOK
<1>4. ASSUME NEW x \in V, graph[root][x] = 1
      PROVE  x < j
  <2>1. graphColors[root][x] \in 0..4 /\ graphColors[root][x] # 0
    BY <1>1, <1>3, <1>4 DEF Matrices, EdgesKept, Colouring
  <2>2. x >= j => graphColors[root][x] <= 1
    BY <1>1 DEF CInv, Permuted
  <2>3. ~ (x >= j)
    BY <1>1, <2>1, <2>2 DEF RootEdgesLeft
  <2> QED BY <1>3, <2>3, VIsNat
<1>5. RootHas(graph, perm, graphColors)
  <2>1. ASSUME NEW a \in V, NEW b \in V, NEW d \in V, InOrder(graph, a, b, d)
        PROVE  Fits(graphColors, perm, a, b, d)
    <3>1. a < j /\ b < j /\ d < j
      BY <1>4, <2>1 DEF InOrder
    <3> QED BY <1>1, <2>1, <3>1 DEF RootHasSoFar, Fits
  <2> QED BY <2>1 DEF RootHas
<1>6. Ranked'
  BY <1>1, <1>2, <1>5 DEF Ranked
<1>7. Tried'
  BY <1>2 DEF NInv, Tried
<1>8. Between'
  BY <1>1, <1>2, <1>6, <1>7 DEF Between
<1> QED BY <1>8, NoCallsHope, PTL

LEMMA RootCallHopes ==
    ASSUME IInv, CInv, NInv, RootCall
    PROVE  NInv'
<1>1. /\ TypeOK /\ EdgesKept /\ OnStack /\ CallsPhase /\ pc = "calls" /\ j < addedVertexes
      /\ ~ HasBlank(graphColors, root) /\ root \in V /\ IsGraph(graph)
  BY RootAssumption, InputGraph DEF IInv, CInv, Current, RootCall
<1>2. stack1 \in Seq(V) /\ j \in Nat /\ addedVertexes \in Nat /\ Len(stack1) = addedVertexes - j
      /\ graphColors \in Matrices /\ usedColors \in Tables
  BY <1>1 DEF TypeOK, CallsPhase
<1>3. 1 \in 1..Len(stack1) /\ stack1 # <<>>
  BY <1>1, <1>2, EmptySeq
<1>4. PICK v \in V : v = Head(stack1) /\ graph[root][v] = 1
  <2>1. stack1[1] \in Neighbours(graph)
    BY <1>1, <1>3 DEF OnStack
  <2>2. stack1[1] = Head(stack1)
    BY <1>2, <1>3, HeadTailProperties
  <2> QED BY <2>1, <2>2 DEF Neighbours
<1>5. PICK f \in FrameType :
        f = Frame(v, graphColors, usedColors) /\ f.vertex = v /\ f.initGraph = graphColors
  BY <1>2, FrameIsTyped
<1>6. PICK t : t = <<f>>
  OBVIOUS
<1>7. t \in Seq(FrameType) /\ Len(t) = 1 /\ t[1] = f /\ t # <<>>
  BY <1>6
<1>8. /\ frames' = t /\ pc' = "scan"
      /\ UNCHANGED <<graph, graphColors, usedColors, perm, stack1, addedVertexes, j,
                     actColor, ret, found>>
  BY <1>4, <1>5, <1>6 DEF RootCall
<1>9. \A d \in 1..1 : d = 1
  OBVIOUS
<1>10. ClosedCopies(t) /\ ClosedNow(t, graphColors, {})
  <2>1. \A d, n \in 1..1 : ~ (d < n)
    OBVIOUS
  <2>2. ClosedCopies(t)
    BY <1>7, <2>1 DEF ClosedCopies
  <2>3. Closed(t, 1, 1, graphColors, {})
    BY <1>5, <1>7 DEF Closed, Touched
  <2> QED BY <1>7, <1>9, <2>2, <2>3 DEF ClosedNow
<1>11. Started(t)
  <2>1. graphColors[v][root] > 1
    <3>1. graphColors[root][v] # 0 /\ graphColors[root][v] # 1
      BY <1>1, <1>4 DEF EdgesKept, Colouring, HasBlank
    <3>2. graphColors[v][root] = graphColors[root][v] /\ graphColors[v][root] \in 0..4
      BY <1>1, <1>2 DEF EdgesKept, Colouring, Matrices
    <3> QED BY <3>1, <3>2
  <2> QED BY <1>1, <1>5, <1>7, <1>9, <2>1 DEF Started
<1>12. Chained(graph, t)
  <2>1. ~ \E d \in 1..1 - 1 : TRUE
    OBVIOUS
  <2> QED BY <1>7, <2>1 DEF Chained
<1>13. Searched'
  <2>1. top' = f
    BY <1>7, <1>8 DEF top, Last
  <2>2. Hopeful(graph, f, graphColors)
    BY <1>5 DEF Hopeful
  <2>3. Hopeful(graph', top', graphColors')
    BY <1>8, <2>1, <2>2
  <2> QED BY <1>8, <2>3 DEF Searched
<1>14. Ranked'
  <2>1. j = 0 => RootHas(graph, perm, graphColors)
    BY <1>1 DEF NInv, Ranked
  <2>2. j' = 0 => RootHas(graph', perm', frames'[1].initGraph)
    BY <1>5, <1>7, <1>8, <2>1
  <2> QED BY <1>8, <2>2 DEF Ranked
<1>15. Tried'
  BY <1>1, <1>8 DEF NInv, Tried
<1>16. ClosedCopies(frames') /\ ClosedNow(frames', graphColors', Dropped') /\ Started(frames')
       /\ Chained(graph', frames')
  <2>1. Dropped' = {}
    BY <1>8 DEF Dropped
  <2> QED BY <1>8, <1>10, <1>11, <1>12, <2>1
<1> QED BY <1>13, <1>14, <1>15, <1>16 DEF NInv

LEMMA FoundHopes ==
    ASSUME IInv, NInv, Found
    PROVE  NInv'
<1>1. frames = <<>> /\ frames' = <<>> /\ pc' = "done"
  BY DEF Found, IInv, CallsPhase
<1>2. Ranked'
  BY <1>1 DEF Ranked
<1>3. Tried'
  BY DEF Found, NInv, Tried
<1>4. Between'
  BY <1>1, <1>2, <1>3 DEF Between
<1> QED BY <1>4, NoCallsHope, PTL

LEMMA RootCallSucceededHopes ==
    ASSUME IInv, NInv, RootCallSucceeded
    PROVE  NInv'
<1>1. /\ frames' = <<>> /\ pc = "returned" /\ pc' = "calls" /\ j' = j + 1
      /\ UNCHANGED <<graph, perm, found>>
  BY DEF RootCallSucceeded
<1>2. j' # 0
  BY <1>1 DEF IInv, TypeOK
<1>3. Ranked'
  BY <1>1, <1>2 DEF Ranked
<1>4. Tried'
  BY <1>1 DEF NInv, Tried
<1>5. Between'
  BY <1>1, <1>3, <1>4 DEF Between
<1> QED BY <1>5, NoCallsHope, PTL

\* A permutation that fails is at the root of no colouring.
LEMMA RootCallFailedHopes ==
    ASSUME IInv, CInv, NInv, IsCubic(graph), RootCallFailed
    PROVE  NInv'
<1>1. /\ TypeOK /\ EdgesKept /\ root \in V /\ IsGraph(graph)
      /\ pc = "returned" /\ frames = <<>> /\ ret = 0
  BY RootAssumption, InputGraph DEF IInv, RootCallFailed
<1>2. j = 0
  BY <1>1, FirstCallOnly DEF CInv
<1>3. /\ RootAlone(graph, graphColors) /\ RootHas(graph, perm, graphColors)
      /\ ~ Completable(graph, graphColors)
  BY <1>1, <1>2 DEF CInv, FirstCall, NInv, Ranked, Searched
<1>4. NoneHas(graph, perm)
  <2> SUFFICES ASSUME NEW h, Whole(graph, h), RootHas(graph, perm, h) PROVE FALSE
    BY DEF NoneHas
  <2>1. PICK a, b, c \in V : InOrder(graph, a, b, c)
    BY NeighboursInOrder
  <2>2. Fits(graphColors, perm, a, b, c) /\ Fits(h, perm, a, b, c)
    BY <1>3, <2>1 DEF RootHas
  <2>3. ASSUME NEW w \in V, graphColors[root][w] > 1
        PROVE  h[root][w] = graphColors[root][w]
    <3>1. graph[root][w] # 0 /\ graph[root][w] \in {0, 1}
      BY <1>1, <2>3 DEF EdgesKept, Colouring, IsGraph
    <3>2. w \in {a, b, c}
      BY <2>1, <3>1 DEF InOrder
    <3> QED BY <2>2, <3>2 DEF Fits
  <2>4. ASSUME NEW u \in V, NEW w \in V, graphColors[u][w] > 1
        PROVE  h[u][w] = graphColors[u][w]
    <3>1. graphColors[u][w] = graphColors[w][u] /\ h[u][w] = h[w][u]
      BY <1>1 DEF EdgesKept, Colouring, Whole
    <3>2. CASE u = root
      BY <2>3, <2>4, <3>2
    <3>3. CASE w = root
      BY <2>3, <2>4, <3>1, <3>3
    <3>4. CASE u # root /\ w # root
      <4>1. graphColors[u][w] = graph[u][w] /\ graph[u][w] \in {0, 1}
        BY <1>1, <1>3, <3>4 DEF RootAlone, IsGraph
      <4> QED BY <2>4, <4>1
    <3> QED BY <3>2, <3>3, <3>4
  <2>5. Completable(graph, graphColors)
    BY <2>4 DEF Completable, Completes
  <2> QED BY <1>3, <2>5
<1>5. /\ actColor' = 0 /\ j' = 0 /\ frames' = <<>> /\ UNCHANGED <<graph, found>>
      /\ \/ perm < 6 /\ perm' = perm + 1 /\ pc' = "root"
         \/ ~ (perm < 6) /\ perm' = perm /\ pc' = "done"
  BY <1>1, PermsAre DEF RootCallFailed
<1>6. Ranked'
  <2>1. RootHasSoFar(graph', perm', graphColors', actColor', j')
    BY <1>5, NothingPassed
  <2> QED BY <1>5, <2>1 DEF Ranked
<1>7. Tried'
  <2>1. ASSUME NEW p \in 1..6, p <= perm PROVE NoneHas(graph, p)
    <3>1. p < perm => NoneHas(graph, p)
      BY DEF NInv, Tried
    <3>2. perm \in 1..6
      BY <1>1, PermsAre DEF TypeOK
    <3> QED BY <1>4, <2>1, <3>1, <3>2
  <2>2. perm \in 1..6
    BY <1>1, PermsAre DEF TypeOK
  <2>3. ASSUME NEW p \in 1..6, p < perm' \/ pc' = "done" PROVE p <= perm
    BY <1>5, <2>2, <2>3
  <2> QED BY <1>5, <2>1, <2>3 DEF Tried
<1>8. Between'
  BY <1>5, <1>6, <1>7 DEF Between
<1> QED BY <1>8, NoCallsHope, PTL

-----------------------------------------------------------------------------
\* The third layer, for the graphs it is about.
CubicInv == IsCubic(graph) /\ RootIsNoCut(graph) => NInv

LEMMA NextCubicInv ==
    ASSUME IInv, CutInv, CubicInv, [Next]_vars
    PROVE  CubicInv'
<1> SUFFICES ASSUME IsCubic(graph)', RootIsNoCut(graph)'
             PROVE  NInv'
  BY DEF CubicInv
<1>1. graph' = graph
  BY DEF Next, vars, ColourRootEdge, RootColoured, RootCall, Found, RootCallSucceeded,
         RootCallFailed, FirstAttempt, NoColourLeft, ScanDone, CallSucceeded,
         SecondAttempt, CallFailed, RootUnchanged
<1>2. IsCubic(graph) /\ RootIsNoCut(graph)
  BY <1>1
<1>3. CInv /\ NInv
  BY <1>2 DEF CutInv, CubicInv
<1>4. CASE ColourRootEdge
  BY <1>3, <1>4, ColourRootEdgeHopes
<1>5. CASE RootColoured
  BY <1>3, <1>5, RootColouredHopes
<1>6. CASE RootCall
  BY <1>3, <1>6, RootCallHopes
<1>7. CASE Found
  BY <1>3, <1>7, FoundHopes
<1>8. CASE RootCallSucceeded
  BY <1>3, <1>8, RootCallSucceededHopes
<1>9. CASE RootCallFailed
  BY <1>2, <1>3, <1>9, RootCallFailedHopes
<1>10. CASE FirstAttempt
  BY <1>3, <1>10, FirstAttemptHopes
<1>11. CASE NoColourLeft
  BY <1>3, <1>11, NoColourLeftHopes
<1>12. CASE ScanDone
  BY <1>2, <1>3, <1>12, ScanDoneHopes
<1>13. CASE CallSucceeded
  BY <1>3, <1>13, CallSucceededHopes
<1>14. CASE SecondAttempt
  BY <1>3, <1>14, SecondAttemptHopes
<1>15. CASE CallFailed
  BY <1>3, <1>15, CallFailedHopes
<1>16. CASE UNCHANGED vars
  <2>1. Dropped' = Dropped /\ top' = top
    BY <1>16 DEF Dropped, top, vars
  <2>2. /\ ClosedCopies(frames') /\ ClosedNow(frames', graphColors', Dropped')
        /\ Started(frames') /\ Chained(graph', frames')
    BY <1>3, <1>16, <2>1 DEF NInv, vars
  <2>3. Searched' /\ Ranked' /\ Tried'
    BY <1>3, <1>16, <2>1 DEF NInv, Searched, Ranked, Tried, vars
  <2> QED BY <2>2, <2>3 DEF NInv
<1> QED BY <1>4, <1>5, <1>6, <1>7, <1>8, <1>9, <1>10, <1>11, <1>12, <1>13, <1>14,
           <1>15, <1>16 DEF Next

LEMMA SpecCubicInv == Spec => []CubicInv
<1>1. Init => CubicInv
  BY InitHopes DEF CubicInv
<1>2. IInv /\ CutInv /\ CubicInv /\ [Next]_vars => CubicInv'
  BY NextCubicInv
<1> QED BY <1>1, <1>2, SpecInv, SpecCutInv, PTL DEF Spec

\* A colouring has some permutation at the root.
LEMMA SomeHas ==
    ASSUME NEW g, IsGraph(g), IsCubic(g), NEW h, Whole(g, h)
    PROVE  \E p \in 1..6 : ~ NoneHas(g, p)
<1>1. PICK a, b, c \in V : InOrder(g, a, b, c)
  BY NeighboursInOrder
<1>2. ASSUME NEW w \in {a, b, c} PROVE h[root][w] \in 2..4
  <2>1. w \in V /\ g[root][w] = 1
    BY <1>1 DEF InOrder
  <2>2. h[root][w] \in 0..4 /\ h[root][w] # 1 /\ h[root][w] # 0
    BY <2>1, RootAssumption DEF Whole, Matrices
  <2> QED BY <2>2
<1>3. PICK x, y, z \in 2..4 : x = h[root][a] /\ y = h[root][b] /\ z = h[root][c]
  BY <1>2
<1>4. a # b /\ a # c /\ b # c
  <2>1. a \in Nat /\ b \in Nat /\ c \in Nat /\ a < b /\ b < c
    BY <1>1, VIsNat DEF InOrder
  <2> QED BY <2>1
<1>5. x # y /\ x # z /\ y # z
  <2>1. \A u, w \in V : h[root][u] > 1 /\ u # w => h[root][u] # h[root][w]
    BY RootAssumption DEF Whole
  <2>2. x > 1 /\ y > 1
    OBVIOUS
  <2> QED BY <1>3, <1>4, <2>1, <2>2
<1>6. PICK p \in 1..6 : Perms[p][1] = x /\ Perms[p][2] = y /\ Perms[p][3] = z
  BY <1>5, PermFor
<1>7. ASSUME NEW d \in V, NEW e \in V, NEW f \in V, InOrder(g, d, e, f)
      PROVE  d = a /\ e = b /\ f = c
  <2>1. {d, e, f} = {a, b, c}
    BY <1>1, <1>7 DEF InOrder
  <2>2. a < b /\ b < c /\ d < e /\ e < f
    BY <1>1, <1>7 DEF InOrder
  <2>3. a \in Nat /\ b \in Nat /\ c \in Nat /\ d \in Nat /\ e \in Nat /\ f \in Nat
    BY VIsNat
  <2> QED BY <2>1, <2>2, <2>3
<1>8. RootHas(g, p, h)
  BY <1>3, <1>6, <1>7 DEF RootHas, Fits
<1> QED BY <1>8 DEF NoneHas

(***************************************************************************)
(* For every cubic graph 0 is returned only if it has no 3-edge-colouring: *)
(* two colours an edge, and six permutations at the root, leave none out.  *)
(***************************************************************************)
THEOREM SpecNotFoundIsRight == Spec => []NotFoundIsRight
<1>1. IInv /\ CubicInv => NotFoundIsRight
  <2> SUFFICES ASSUME IInv, CubicInv, IsCubic(graph), pc = "done", found = 0,
                      Colourable(EdgesOf(graph), Colours)
               PROVE  FALSE
    BY DEF NotFoundIsRight
  <2>1. IsGraph(graph)
    BY InputGraph DEF IInv
  <2>2. PICK h : Whole(graph, h)
    BY <2>1, ColourableHasWhole
  <2>3. RootIsNoCut(graph)
    BY <2>1, <2>2, ColouredRootIsNoCut
  <2>4. \A p \in 1..6 : NoneHas(graph, p)
    BY <2>3 DEF CubicInv, NInv, Tried
  <2> QED BY <2>1, <2>2, <2>4, SomeHas
<1> QED BY <1>1, SpecInv, SpecCubicInv, PTL
=============================================================================
