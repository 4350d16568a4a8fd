--------------------------- MODULE ClausesBuffer ---------------------------
(***************************************************************************)
(* src/GlucoseMiniSat/parallel/ClausesBuffer.cc: the ring of integers in   *)
(* which the threads of glucose-syrup leave clauses for each other.  A     *)
(* clause takes three integers (its size, how many threads have not seen   *)
(* it, where it is from) and one for each literal.  SharedCompanion calls  *)
(* pushClause and getClause under a mutex: each is a step.                 *)
(***************************************************************************)
EXTENDS Integers, Sequences, FiniteSets

CONSTANTS
    nbThreads, maxsize,
    Learnt(_)       \* the clauses a thread learns, as sequences of literals

Threads == 0..nbThreads-1
Index   == 0..maxsize-1

ASSUME ThreadsAssumption == nbThreads \in Nat \ {0} /\ maxsize \in Nat \ {0}
ASSUME LearntAssumption == \A t \in Threads : \A c \in Learnt(t) : c \in Seq(Nat) /\ Len(c) + 3 < maxsize

VARIABLES
    whenFullRemoveOlder,
    elems, first, last, queuesize,
    lastOfThread,   \* where each thread has read up to
    received        \* the last result of getClause for each thread

bufferVars == <<whenFullRemoveOlder, elems, first, last, queuesize, lastOfThread, received>>

headerSize == 3

nextIndex(p)   == IF p + 1 = maxsize THEN 0 ELSE p + 1
addIndex(p, a) == (p + a) % maxsize

\* The fields of the clause behind position p.
sizeAt(e, p)   == e[nextIndex(p)]
nseenAt(p)     == addIndex(p, 2)
originAt(e, p) == e[addIndex(p, 3)]
litsAt(e, p)   == [n \in 1..sizeAt(e, p) |-> e[addIndex(p, headerSize + n)]]
behind(e, p)   == addIndex(p, sizeAt(e, p) + headerSize)

\* setNbThreads
BufferInit ==
    /\ whenFullRemoveOlder \in BOOLEAN
    /\ elems = [p \in Index |-> 0]
    /\ first = 0 /\ last = maxsize - 1 /\ queuesize = 0
    /\ lastOfThread = [t \in Threads |-> maxsize - 1]
    /\ received = [t \in Threads |-> <<>>]

Ring == [last : Index, queuesize : Int, lastOfThread : [Threads -> Index]]

\* The clause at the end goes, and the threads that stood before it with it.
WithoutLast(e, r) ==
    [last |-> behind(e, r.last),
     queuesize |-> r.queuesize - (sizeAt(e, r.last) + headerSize),
     lastOfThread |-> [t \in Threads |-> IF r.lastOfThread[t] = r.last THEN behind(e, r.last)
                                         ELSE r.lastOfThread[t]]]

\* Mutant: one clause is removed at a time.
removeLastClauseOnce(e, r) == WithoutLast(e, r)

\* removeLastClause, with the clauses after it that all have seen.
removeLastClause(e, r) ==
    LET remove[q \in Ring] ==
          LET w == WithoutLast(e, q)
          IN  IF w.queuesize > 0 /\ e[nseenAt(w.last)] = 0 THEN remove[w] ELSE w
    IN  remove[r]

ring == [last |-> last, queuesize |-> queuesize, lastOfThread |-> lastOfThread]

Fits(r, c) == r.queuesize + Len(c) + headerSize < maxsize

\* Old clauses are removed until the new one fits.
MakeRoom(r, c) ==
    LET room[q \in Ring] == IF Fits(q, c) THEN q ELSE room[removeLastClause(elems, q)]
    IN  room[r]

Header(t, c) == <<Len(c), IF nbThreads > 1 THEN nbThreads - 1 ELSE 1, t>>

\* pushClause; a clause that does not fit is refused or takes the place of old
\* ones.
pushClause(t, c) ==
    /\ whenFullRemoveOlder \/ Fits(ring, c)
    /\ LET r == MakeRoom(ring, c)
           s == Header(t, c) \o c
       IN  /\ elems' = [p \in Index |->
                          LET n == (p - first + maxsize) % maxsize
                          IN  IF n < Len(s) THEN s[n + 1] ELSE elems[p]]
           /\ first' = addIndex(first, Len(s))
           /\ queuesize' = r.queuesize + Len(s)
           /\ last' = r.last
           /\ lastOfThread' = r.lastOfThread
    /\ UNCHANGED <<whenFullRemoveOlder, received>>

\* last has overtaken the position p.
Overtaken(p) ==
    \/ p < last /\ last < first
    \/ first < p /\ p < last
    \/ last < first /\ first < p

\* Mutant: own clauses are not skipped behind others.
SkipOwnOnce(t, start) ==
    IF nextIndex(start) # first /\ originAt(elems, start) = t THEN behind(elems, start) ELSE start

\* The next clause of another thread, or the end.
SkipOwn(t, start) ==
    LET skip[p \in Index] ==
          IF nextIndex(p) # first /\ originAt(elems, p) = t THEN skip[behind(elems, p)] ELSE p
    IN  skip[start]

\* Where thread t goes on reading.
readFrom(t) ==
    LET p == lastOfThread[t]
    IN  IF nextIndex(p) = first THEN p ELSE SkipOwn(t, IF Overtaken(p) THEN last ELSE p)

\* getClause without a clause for thread t.
getNothing(t) ==
    /\ nextIndex(readFrom(t)) = first
    /\ lastOfThread' = [lastOfThread EXCEPT ![t] = readFrom(t)]
    /\ UNCHANGED <<whenFullRemoveOlder, elems, first, last, queuesize, received>>

\* getClause: one thread fewer has to see it, and the last of them removes it
\* if it is at the end.
getClause(t) ==
    LET p == readFrom(t)
        e == [elems EXCEPT ![nseenAt(p)] = @ - 1]
        r == removeLastClause(e, ring)
        seen == e[nseenAt(p)] = 0
    IN  /\ nextIndex(p) # first
        /\ received' = [received EXCEPT ![t] = <<[origin |-> originAt(e, p), lits |-> litsAt(e, p)]>>]
        /\ elems' = e
        /\ IF last = p /\ seen
             THEN /\ last' = r.last /\ queuesize' = r.queuesize
                  /\ lastOfThread' = [r.lastOfThread EXCEPT ![t] = r.last]
             ELSE /\ lastOfThread' = [lastOfThread EXCEPT ![t] = behind(e, p)]
                  /\ UNCHANGED <<last, queuesize>>
        /\ UNCHANGED <<whenFullRemoveOlder, first>>

BufferNext ==
    \E t \in Threads : \/ \E c \in Learnt(t) : pushClause(t, c)
                       \/ getNothing(t) \/ getClause(t)

BufferSpec == BufferInit /\ [][BufferNext]_bufferVars

-----------------------------------------------------------------------------
BufferTypeOK ==
    /\ whenFullRemoveOlder \in BOOLEAN
    /\ elems \in [Index -> Nat]
    /\ first \in Index /\ last \in Index
    /\ queuesize \in 0..maxsize-1
    /\ lastOfThread \in [Threads -> Index]

(***************************************************************************)
(* The room of a clause is given back as soon as every thread that has to  *)
(* see it has: the clause at the end of the ring, if there is one, is the  *)
(* next that some thread is going to receive (removeLastClause, 124-147).  *)
(***************************************************************************)
RoomIsReclaimed == queuesize > 0 /\ nbThreads > 1 => \E t \in Threads : readFrom(t) = last

\* How many integers are left behind position p before first; and the position
\* that p integers are left behind.
leftBehind(p) == (first - 1 - p + maxsize) % maxsize

\* What thread t has not received yet: the clauses of others from its position.
pendingOf(t) ==
    LET from[n \in Index] ==
          LET p == leftBehind(n)
              w == sizeAt(elems, p) + headerSize
          IN  IF n < w THEN <<>>
              ELSE (IF originAt(elems, p) = t THEN <<>>
                    ELSE <<[origin |-> originAt(elems, p), lits |-> litsAt(elems, p)]>>)
                   \o from[n - w]
    IN  from[leftBehind(lastOfThread[t])]

Fifo == INSTANCE ClauseFifo WITH
            Clauses <- UNION {Learnt(t) : t \in Threads},
            mayForget <- whenFullRemoveOlder,
            pending <- [t \in Threads |-> pendingOf(t)]

(***************************************************************************)
(* The ring is a queue with a position for each thread: "nbSeen" of the    *)
(* layout (ClausesBuffer.h 60-63) counts down to the removal, and no       *)
(* thread misses a clause, gets one twice or gets its own.                 *)
(***************************************************************************)
ImplementsFifo == Fifo!Spec
=============================================================================
