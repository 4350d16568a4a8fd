------------------------------ MODULE BAReader ------------------------------
(***************************************************************************)
(* GraphBAReader of src/BA_GraphFormat/io_bagraph.cpp, as                  *)
(* graphFrom_BAfile (src/src/GraphFunctions.cpp) uses it: the constructor  *)
(* reads how many graphs there are, read() the first one.  A step is one   *)
(* std::getline of next_line.                                              *)
(*                                                                         *)
(* A line is a sequence of numbers and marks; a mark is a negative number. *)
(***************************************************************************)
EXTENDS SimpleGraph

CONSTANTS
    BAFiles,        \* the contents of the file, as sequences of lines
    GarbageOrders   \* what the uninitialised graphOrder may hold

Open == -1          \* '{'
Close == -2         \* '}'
Hash == -3          \* '#'
Word == -4          \* anything else that is not a number

\* The values of par_level, which is unsigned; fewer than in the code: 2^30.
Levels == 1073741824

ASSUME BAFilesAssumption == \A f \in BAFiles : f \in Seq(Seq(Nat \cup {Open, Close, Hash, Word}))
ASSUME GarbageOrdersAssumption == GarbageOrders \subseteq Int

VARIABLES
    baFile,
    actualLine,         \* m_actual_line
    failed,             \* getline has failed: m_strm is false
    parLevel, blocked,  \* par_level; a word is left unread in parsed
    noOfGraphs, lastRead,
    graphOrder,
    vertices, edges,
    baPc                \* which call of next_line is waited for, or how it ended

baVars == <<baFile, actualLine, failed, parLevel, blocked, noOfGraphs, lastRead,
            graphOrder, vertices, edges, baPc>>

BAInit ==
    /\ baFile \in BAFiles
    /\ actualLine = 0 /\ failed = FALSE
    /\ parLevel = 0 /\ blocked = FALSE
    /\ noOfGraphs = 0 /\ lastRead = 0 /\ graphOrder = 0
    /\ vertices = <<>> /\ edges = <<>>
    /\ baPc = "graphs"

actualVertex == Len(vertices)

\* next_line is to be called or has been.
reading ==
    \/ baPc \in {"graphs", "number", "order"}
    \/ baPc = "vertex" /\ actualVertex < graphOrder

\* Mutant: a closing brace counts like an opening one.
SeenCloseOpens(s, t) ==
    IF s.ended THEN s
    ELSE IF t = Hash THEN [s EXCEPT !.ended = TRUE]
    ELSE IF t \in {Open, Close} THEN [s EXCEPT !.par = (@ + 1) % Levels]
    ELSE IF s.par # 0 \/ s.blocked THEN s
    ELSE IF t = Word THEN [s EXCEPT !.blocked = TRUE]
    ELSE [s EXCEPT !.numbers = Append(@, t)]

\* What is outside of braces and before '#' goes to parsed, and the numbers
\* are taken from it up to the first thing that is none.  That thing stays in
\* parsed, in front of what the next lines add.
Seen(s, t) ==
    IF s.ended THEN s
    ELSE IF t = Hash THEN [s EXCEPT !.ended = TRUE]
    ELSE IF t = Open THEN [s EXCEPT !.par = (@ + 1) % Levels]
    ELSE IF t = Close THEN [s EXCEPT !.par = (@ + Levels - 1) % Levels,
                                     !.blocked = @ \/ s.par = 0]
    ELSE IF s.par # 0 \/ s.blocked THEN s
    ELSE IF t = Word THEN [s EXCEPT !.blocked = TRUE]
    ELSE [s EXCEPT !.numbers = Append(@, t)]

\* One line.
Scan(line) ==
    FoldLeft(Seen, [numbers |-> <<>>, par |-> parLevel, blocked |-> blocked, ended |-> FALSE], line)

Throw == baPc' = "thrown" /\ UNCHANGED <<noOfGraphs, lastRead, graphOrder, vertices, edges>>

\* next_line has returned to the constructor.
GotGraphs(buffer) ==
    /\ baPc = "graphs"
    /\ IF Len(buffer) = 1
         THEN /\ noOfGraphs' = buffer[1] /\ baPc' = "number"
              /\ UNCHANGED <<lastRead, graphOrder, vertices, edges>>
         ELSE Throw

\* A wrong number of numbers is an error as long as the stream is good.
GotNumber(buffer) ==
    /\ baPc = "number"
    /\ IF Len(buffer) # 1 /\ ~ failed'
         THEN Throw
         ELSE /\ lastRead' = IF Len(buffer) = 1 THEN buffer[1] ELSE lastRead
              /\ baPc' = "order"
              /\ UNCHANGED <<noOfGraphs, graphOrder, vertices, edges>>

GotOrder(buffer) ==
    /\ baPc = "order"
    /\ \/ /\ Len(buffer) = 1 /\ buffer[1] > 0
          /\ graphOrder' = buffer[1] /\ baPc' = "vertex"
          /\ UNCHANGED <<noOfGraphs, lastRead, vertices, edges>>
       \/ /\ ~ (Len(buffer) = 1 /\ buffer[1] > 0) /\ ~ failed'
          /\ Throw
       \/ /\ Len(buffer) # 1 /\ failed'
          /\ graphOrder' \in GarbageOrders /\ baPc' = "vertex"
          /\ UNCHANGED <<noOfGraphs, lastRead, vertices, edges>>

\* An edge is put in by the smaller of its ends.
EdgeTo(es, u) == IF u > actualVertex THEN Append(es, MkEdge(actualVertex, u)) ELSE es

GotVertex(buffer) ==
    /\ baPc = "vertex"
    /\ IF buffer = <<>>
         THEN UNCHANGED <<vertices, edges>>
         ELSE /\ vertices' = Append(vertices, [MkVertex(actualVertex) EXCEPT !.neighbors = buffer])
              /\ edges' = FoldLeft(EdgeTo, edges, buffer)
    /\ UNCHANGED <<noOfGraphs, lastRead, graphOrder, baPc>>

Got(buffer) == GotGraphs(buffer) \/ GotNumber(buffer) \/ GotOrder(buffer) \/ GotVertex(buffer)

\* A line without a number: next_line goes on to the next.
SkipLine ==
    /\ reading /\ actualLine < Len(baFile)
    /\ LET s == Scan(baFile[actualLine + 1])
       IN  s.numbers = <<>> /\ parLevel' = s.par /\ blocked' = s.blocked
    /\ actualLine' = actualLine + 1
    /\ UNCHANGED <<baFile, failed, noOfGraphs, lastRead, graphOrder, vertices, edges, baPc>>

\* A line with one: it is returned, and the next call starts afresh.
TakeLine ==
    /\ reading /\ actualLine < Len(baFile)
    /\ failed' = failed
    /\ \E buffer \in {Scan(baFile[actualLine + 1]).numbers} : buffer # <<>> /\ Got(buffer)
    /\ actualLine' = actualLine + 1
    /\ parLevel' = 0 /\ blocked' = FALSE
    /\ UNCHANGED baFile

\* getline fails: next_line returns nothing.
EndOfFile ==
    /\ reading /\ actualLine = Len(baFile)
    /\ failed' = TRUE
    /\ Got(<<>>)
    /\ parLevel' = 0 /\ blocked' = FALSE
    /\ UNCHANGED <<baFile, actualLine>>

VerticesRead ==
    /\ baPc = "vertex" /\ actualVertex >= graphOrder
    /\ baPc' = "done"
    /\ UNCHANGED <<baFile, actualLine, failed, parLevel, blocked, noOfGraphs, lastRead,
                   graphOrder, vertices, edges>>

BANext == SkipLine \/ TakeLine \/ EndOfFile \/ VerticesRead

-----------------------------------------------------------------------------
BATypeOK ==
    /\ baFile \in BAFiles
    /\ actualLine \in 0..Len(baFile) /\ failed \in BOOLEAN
    /\ parLevel \in 0..Levels-1 /\ blocked \in BOOLEAN
    /\ noOfGraphs \in Nat /\ lastRead \in Nat /\ graphOrder \in Int
    /\ edges \in Seq([from : Nat, to : Nat])
    /\ baPc \in {"graphs", "number", "order", "vertex", "done", "thrown"}
=============================================================================
