------------------------------- MODULE Solver -------------------------------
(***************************************************************************)
(* src/GlucoseMiniSat/core/Solver.cc: conflict-driven clause learning.     *)
(* The object is a record whose fields have the names of its members; a    *)
(* method is an operator from record to record, and a turn of the loop in  *)
(* search is an action.  A literal is v or -v.  What only decides an order *)
(* (activities, LBD, the restart and clean-up counters) is left open: any  *)
(* variable may be decided, any learnt clause in no use may be removed,    *)
(* any time may be one for a restart.                                      *)
(***************************************************************************)
EXTENDS Integers, SequencesExt, TLC

CONSTANTS
    N,                  \* bound on the number of variables
    MaxStarts,          \* bound on the number of restarts
    MaxRemoved          \* bound on the number of learnt clauses that are removed

Var == 1..N
Lit == Var \union {-v : v \in Var}

\* Abs(p) is var(p).
Abs(p) == IF p < 0 THEN -p ELSE p

CRef_Undef == 0

VARIABLES
    s,                  \* the solver
    pc,
    status, model,
    asynch_interrupt    \* set from outside, by a signal handler

solverVars == <<s, pc, status, model, asynch_interrupt>>

\* ok, the clauses (ca), and so on; a decision variable is in decision, the
\* saved sign of a variable in polarity.  confl is what propagate returned.
NewSolver ==
    [ok |-> TRUE, nVars |-> 0, ca |-> <<>>,
     watches |-> [p \in Lit |-> <<>>], watchesBin |-> [p \in Lit |-> <<>>],
     unaryWatches |-> [p \in Lit |-> <<>>],
     trail |-> <<>>, trail_lim |-> <<>>, qhead |-> 0,
     reason |-> [v \in Var |-> CRef_Undef],
     polarity |-> [v \in Var |-> TRUE], decision |-> {},
     remove_satisfied |-> FALSE, confl |-> CRef_Undef, starts |-> 0, nbRemovedClauses |-> 0]

\* The next variable: a decision variable that is false at first.
newVar(o) == [o EXCEPT !.nVars = @ + 1, !.decision = @ \union {o.nVars + 1}]

IsTrue(o, p)     == Contains(o.trail, p)
IsFalse(o, p)    == Contains(o.trail, -p)
IsAssigned(o, p) == IsTrue(o, p) \/ IsFalse(o, p)

decisionLevel(o) == Len(o.trail_lim)

level(o, p) ==
    LET n == CHOOSE k \in DOMAIN o.trail : Abs(o.trail[k]) = Abs(p)
    IN  Cardinality({k \in DOMAIN o.trail_lim : o.trail_lim[k] < n})

newDecisionLevel(o) == [o EXCEPT !.trail_lim = Append(@, Len(o.trail))]

uncheckedEnqueue(o, p, from) == [o EXCEPT !.trail = Append(@, p), !.reason[Abs(p)] = from]

-----------------------------------------------------------------------------
\* Clauses and watchers
Watcher(cr, p) == [cref |-> cr, blocker |-> p]

\* A clause of two literals has its own lists.
attachClause(o, cr) ==
    LET c == o.ca[cr].lits
        Watched(w) == [w EXCEPT ![-c[1]] = Append(@, Watcher(cr, c[2])),
                                ![-c[2]] = Append(@, Watcher(cr, c[1]))]
    IN  IF Len(c) = 2 THEN [o EXCEPT !.watchesBin = Watched(@)]
                      ELSE [o EXCEPT !.watches = Watched(@)]

\* A clause of another solver is watched at its first literal only.
attachClausePurgatory(o, cr) ==
    LET c == o.ca[cr].lits
    IN  [o EXCEPT !.unaryWatches[-c[1]] = Append(@, Watcher(cr, c[2]))]

\* The lists are cleaned before they are read (cleanAll), so that a lazily
\* detached clause is as good as gone, also from the purgatory.
detachClause(o, cr) ==
    LET Unwatched(w) == [p \in Lit |-> SelectSeq(w[p], LAMBDA x : x.cref # cr)]
    IN  [o EXCEPT !.watches = Unwatched(@), !.watchesBin = Unwatched(@),
                  !.unaryWatches = Unwatched(@)]

\* A reference that is not in use, and is no reason that was left behind.
freeRef(o) ==
    LET used == DOMAIN o.ca \union {o.reason[v] : v \in Var}
    IN  CHOOSE cr \in 1..(Cardinality(used) + 1) : cr \notin used

newClause(c, isLearnt) ==
    [lits |-> c, learnt |-> isLearnt, imported |-> FALSE, oneWatched |-> FALSE]

addNew(o, cr, c, isLearnt) ==
    attachClause([o EXCEPT !.ca = (cr :> newClause(c, isLearnt)) @@ @], cr)

\* Mutant: nobody looks whether a clause is in use.
lockedNever(o, cr) == FALSE

\* The reason of a literal has it in front; one of two literals need not.
locked(o, cr) ==
    LET c == o.ca[cr].lits
        Implies(n) == IsTrue(o, c[n]) /\ o.reason[Abs(c[n])] = cr
    IN  IF Len(c) > 2 THEN Implies(1) ELSE Implies(1) \/ Implies(2)

\* The reason of the first literal is cleared, whichever the clause implied.
removeClause(o, cr) ==
    LET d == detachClause(o, cr)
        c == o.ca[cr].lits
    IN  [d EXCEPT !.reason[Abs(c[1])] = IF locked(o, cr) THEN CRef_Undef ELSE @,
                  !.ca = [k \in DOMAIN @ \ {cr} |-> @[k]]]

satisfied(o, c) == \E n \in DOMAIN c : IsTrue(o, c[n])

RECURSIVE removeSatisfied(_, _)
removeSatisfied(o, crs) ==
    IF crs = {} THEN o
    ELSE LET cr == CHOOSE x \in crs : TRUE
         IN  removeSatisfied(IF satisfied(o, o.ca[cr].lits) THEN removeClause(o, cr) ELSE o,
                             crs \ {cr})

-----------------------------------------------------------------------------
\* propagate
RECURSIVE propagateBinary(_, _)
propagateBinary(o, ws) ==
    IF ws = <<>> THEN o
    ELSE LET imp == Head(ws).blocker
         IN  CASE IsFalse(o, imp) -> [o EXCEPT !.confl = Head(ws).cref]
               [] IsTrue(o, imp)  -> propagateBinary(o, Tail(ws))
               [] OTHER -> propagateBinary(uncheckedEnqueue(o, imp, Head(ws).cref), Tail(ws))

Swapped(c, i, j) == [c EXCEPT ![i] = c[j], ![j] = c[i]]

\* Mutant: the value of the other literal is not looked at.
otherWatchAny(o, c) == 3..Len(c)

\* Where c can be watched instead of at its second literal.
otherWatch(o, c) == {k \in 3..Len(c) : ~IsFalse(o, c[k])}

\* The watchers of p from the k-th on.
RECURSIVE propagateLong(_, _, _)
propagateLong(o, p, k) ==
    IF k > Len(o.watches[p]) THEN o
    ELSE LET w     == o.watches[p][k]
             d     == o.ca[w.cref].lits
             c     == IF d[1] = -p THEN Swapped(d, 1, 2) ELSE d
             first == c[1]
             K     == otherWatch(o, c)
             n     == CHOOSE x \in K : \A y \in K : x <= y
             here  == [o EXCEPT !.ca[w.cref].lits = c, !.watches[p][k].blocker = first]
         IN  CASE IsTrue(o, w.blocker) -> propagateLong(o, p, k + 1)
               [] ~IsTrue(o, w.blocker) /\ IsTrue(o, first) -> propagateLong(here, p, k + 1)
               [] ~IsTrue(o, w.blocker) /\ ~IsTrue(o, first) /\ K # {} ->
                    propagateLong([o EXCEPT !.ca[w.cref].lits = Swapped(c, 2, n),
                                            !.watches[p] = RemoveAt(@, k),
                                            !.watches[-c[n]] = Append(@, Watcher(w.cref, first))],
                                  p, k)
               [] OTHER ->
                    IF IsFalse(o, first)
                      THEN [here EXCEPT !.confl = w.cref, !.qhead = Len(o.trail)]
                      ELSE propagateLong(uncheckedEnqueue(here, first, w.cref), p, k + 1)

\* A clause of the purgatory that is false as a whole gets two watches: the
\* literal that was watched and one of the highest level among the others.
promoted(o, cr) ==
    LET c == o.ca[cr].lits
        n == CHOOSE k \in 2..Len(c) : /\ \A l \in 2..Len(c) : level(o, c[l]) <= level(o, c[k])
                                      /\ \A l \in 2..k - 1 : level(o, c[l]) < level(o, c[k])
    IN  attachClause([detachClause(o, cr) EXCEPT !.ca[cr].lits = Swapped(c, 2, n),
                                                 !.ca[cr].oneWatched = FALSE], cr)

RECURSIVE propagateUnaryWatches(_, _, _)
propagateUnaryWatches(o, p, k) ==
    IF k > Len(o.unaryWatches[p]) THEN o
    ELSE LET w == o.unaryWatches[p][k]
             c == o.ca[w.cref].lits
             K == {x \in 2..Len(c) : ~IsFalse(o, c[x])}
             n == CHOOSE x \in K : \A y \in K : x <= y
         IN  CASE IsTrue(o, w.blocker) -> propagateUnaryWatches(o, p, k + 1)
               [] ~IsTrue(o, w.blocker) /\ K # {} ->
                    propagateUnaryWatches(
                      [o EXCEPT !.ca[w.cref].lits = Swapped(c, 1, n),
                                !.unaryWatches[p] = RemoveAt(@, k),
                                !.unaryWatches[-c[n]] = Append(@, Watcher(w.cref, -p))], p, k)
               [] OTHER -> [promoted(o, w.cref) EXCEPT !.confl = w.cref, !.qhead = Len(o.trail)]

RECURSIVE propagateQueue(_)
propagateQueue(o) ==
    IF o.confl # CRef_Undef \/ o.qhead = Len(o.trail) THEN o
    ELSE LET p == o.trail[o.qhead + 1]
             b == propagateBinary([o EXCEPT !.qhead = @ + 1], o.watchesBin[p])
             l == propagateLong(b, p, 1)
         IN  IF b.confl # CRef_Undef THEN b
             ELSE propagateQueue(IF l.confl # CRef_Undef THEN l ELSE propagateUnaryWatches(l, p, 1))

propagate(o) == propagateQueue([o EXCEPT !.confl = CRef_Undef])

-----------------------------------------------------------------------------
\* The signs are saved (phase_saving = 2).
cancelUntil(o, lev) == IF decisionLevel(o) <= lev THEN o ELSE
    LET n       == o.trail_lim[lev + 1]
        Kept(v) == \E k \in 1..n : Abs(o.trail[k]) = v
    IN  [o EXCEPT !.trail = SubSeq(@, 1, n), !.trail_lim = SubSeq(@, 1, lev), !.qhead = n,
                  !.polarity = [v \in Var |-> IF Kept(v) \/ ~IsAssigned(o, v) THEN @[v]
                                              ELSE IsTrue(o, -v)],
                  !.reason = [v \in Var |-> IF Kept(v) THEN @[v] ELSE CRef_Undef]]

\* addClause_: ps without false literals and duplicates, unless it is true.
AllLits == [n \in 1..2*N |-> IF n % 2 = 1 THEN (n + 1) \div 2 ELSE -(n \div 2)]

addClause_(o, ps) ==
    LET c == SelectSeq(AllLits, LAMBDA p : Contains(ps, p) /\ ~IsFalse(o, p))
    IN  CASE ~o.ok -> o
          [] o.ok /\ (satisfied(o, ps) \/ \E p \in ToSet(ps) : -p \in ToSet(ps)) -> o
          [] OTHER ->
               CASE c = <<>> -> [o EXCEPT !.ok = FALSE]
                 [] Len(c) = 1 ->
                      LET u == propagate(uncheckedEnqueue(o, c[1], CRef_Undef))
                      IN  [u EXCEPT !.ok = (u.confl = CRef_Undef)]
                 [] Len(c) > 1 -> addNew(o, freeRef(o), c, FALSE)

\* simplify, at level 0; whether it cleans up depends on counters.
simplify(o, clean) ==
    LET u     == propagate(o)
        Kind(isLearnt) == {cr \in DOMAIN u.ca : u.ca[cr].learnt = isLearnt}
    IN  CASE ~o.ok -> o
          [] o.ok /\ u.confl # CRef_Undef -> [u EXCEPT !.ok = FALSE]
          [] OTHER -> IF clean
                        THEN removeSatisfied(u, Kind(TRUE) \union
                                                (IF u.remove_satisfied THEN Kind(FALSE) ELSE {}))
                        ELSE u

-----------------------------------------------------------------------------
\* Garbage collection: relocAll and moveTo give the clauses new references, in
\* the order in which it comes to them.
RECURSIVE appendNew(_, _)
appendNew(q, new) ==
    IF new = <<>> THEN q
    ELSE appendNew(IF Contains(q, Head(new)) THEN q ELSE Append(q, Head(new)), Tail(new))

watchersOf(o, p) == o.watches[p] \o o.watchesBin[p] \o o.unaryWatches[p]

referencesOf(o) ==
    FlattenSeq([n \in DOMAIN AllLits |->
        [k \in DOMAIN watchersOf(o, AllLits[n]) |-> watchersOf(o, AllLits[n])[k].cref]])

\* A clause that is removed and still the reason of a literal of level 0 is
\* moved, too, to where no clause is.
reloc(refs, cr) ==
    CASE cr = CRef_Undef -> CRef_Undef
      [] cr # CRef_Undef /\ Contains(refs, cr) -> CHOOSE n \in DOMAIN refs : refs[n] = cr
      [] OTHER -> Len(refs) + 1

relocAll(o, refs) ==
    LET Moved(w) == [p \in Lit |-> [n \in DOMAIN w[p] |-> [w[p][n] EXCEPT !.cref = reloc(refs, @)]]]
    IN  [o EXCEPT !.ca = [n \in DOMAIN refs |-> o.ca[refs[n]]],
                  !.watches = Moved(@), !.watchesBin = Moved(@), !.unaryWatches = Moved(@),
                  !.reason = [v \in Var |-> reloc(refs, @[v])]]

garbageCollect(o) == relocAll(o, appendNew(<<>>, referencesOf(o)))

\* checkGarbage, after clauses were removed from o and it became u: whether it is
\* time depends on the memory they had.
checkGarbage(o, u) == IF DOMAIN u.ca = DOMAIN o.ca THEN {u} ELSE {u, garbageCollect(u)}

-----------------------------------------------------------------------------
\* analyze.  seen marks variables, pathC counts those of them at the current
\* level that are still to be resolved; p is the literal whose reason is cr.

\* The rest of a reason; a clause of two literals may have it in front.
reasonTail(o, c) == IF Len(c) = 2 /\ IsFalse(o, c[1]) THEN <<c[1]>> ELSE Tail(c)

reasonOf(o, p) == reasonTail(o, o.ca[o.reason[Abs(p)]].lits)

RECURSIVE resolve(_, _, _, _, _, _)
resolve(o, c, index, seen, learnt, pathC) ==
    LET new   == SelectSeq(c, LAMBDA q : Abs(q) \notin seen /\ level(o, q) > 0)
        Now(q) == level(o, q) = decisionLevel(o)
        marked == seen \union {Abs(q) : q \in ToSet(new)}
        n     == CHOOSE k \in 1..index : /\ Abs(o.trail[k]) \in marked
                                         /\ \A l \in k + 1..index : Abs(o.trail[l]) \notin marked
        p     == o.trail[n]
        older == learnt \o SelectSeq(new, LAMBDA q : ~Now(q))
        paths == pathC + Len(SelectSeq(new, Now)) - 1
    IN  IF paths = 0 THEN [lits |-> <<-p>> \o older, seen |-> marked \ {Abs(p)}]
        ELSE resolve(o, reasonOf(o, p), n - 1, marked \ {Abs(p)}, older, paths)

\* litRedundant: p follows from other literals that are seen.  levels are the
\* 32 bits of the abstraction.
RECURSIVE litRedundant(_, _, _, _)
litRedundant(o, p, seen, levels) ==
    \A q \in ToSet(reasonOf(o, p)) :
      \/ Abs(q) \in seen \/ level(o, q) = 0
      \/ /\ o.reason[Abs(q)] # CRef_Undef
         /\ level(o, q) % 32 \in levels
         /\ litRedundant(o, q, seen, levels)

\* Mutant: every implied literal goes.
minimisedImplied(o, r) ==
    <<r.lits[1]>> \o SelectSeq(Tail(r.lits), LAMBDA q : o.reason[Abs(q)] = CRef_Undef)

minimised(o, r) ==
    LET levels == {level(o, q) % 32 : q \in ToSet(Tail(r.lits))}
    IN  <<r.lits[1]>> \o
          SelectSeq(Tail(r.lits), LAMBDA q : \/ o.reason[Abs(q)] = CRef_Undef
                                             \/ ~litRedundant(o, q, r.seen, levels))

minimisationWithBinaryResolution(o, c) ==
    LET implied == {w.blocker : w \in ToSet(o.watchesBin[-c[1]])}
    IN  <<c[1]>> \o SelectSeq(Tail(c), LAMBDA q : ~(-q \in implied /\ IsTrue(o, -q)))

\* The literal of the highest level among the rest comes second.
withHighestSecond(o, c) ==
    IF Len(c) < 3 THEN c
    ELSE Swapped(c, 2, CHOOSE k \in 2..Len(c) :
                         /\ \A l \in 2..Len(c) : level(o, c[l]) <= level(o, c[k])
                         /\ \A l \in 2..k - 1 : level(o, c[l]) < level(o, c[k]))

analyze(o) ==
    withHighestSecond(o, minimisationWithBinaryResolution(o,
        minimised(o, resolve(o, o.ca[o.confl].lits, Len(o.trail), {}, <<>>, 0))))

\* The clause is true of its first literal after the jump back.
addLearnt(o, c) ==
    LET b == cancelUntil(o, IF Len(c) = 1 THEN 0 ELSE level(o, c[2]))
    IN  IF Len(c) = 1 THEN uncheckedEnqueue(b, c[1], CRef_Undef)
        ELSE uncheckedEnqueue(addNew(b, freeRef(b), c, TRUE), c[1], freeRef(b))

-----------------------------------------------------------------------------
\* search and the loop around it in solve_
Propagate ==
    /\ pc = "propagate"
    /\ s' = propagate(s)
    /\ pc' = IF s'.confl # CRef_Undef THEN "conflict" ELSE "choose"
    /\ UNCHANGED <<status, model, asynch_interrupt>>

Conflict ==
    /\ pc = "conflict" /\ decisionLevel(s) > 0
    /\ s' = addLearnt(s, analyze(s))
    /\ pc' = "propagate"
    /\ UNCHANGED <<status, model, asynch_interrupt>>

\* A conflict at level 0: the answer; the object is of no further use.
ConflictAtRoot ==
    /\ pc = "conflict" /\ decisionLevel(s) = 0
    /\ s' = [s EXCEPT !.ok = FALSE]
    /\ status' = "l_False" /\ pc' = "solved"
    /\ UNCHANGED <<model, asynch_interrupt>>

\* search returns without an answer; solve_ calls it again, unless it has been
\* interrupted.
Restart ==
    /\ pc = "choose" /\ decisionLevel(s) > 0 /\ s.starts < MaxStarts
    /\ s' = [cancelUntil(s, 0) EXCEPT !.starts = @ + 1]
    /\ pc' = IF asynch_interrupt THEN "solved" ELSE "propagate"
    /\ UNCHANGED <<status, model, asynch_interrupt>>

\* propagate has just found no conflict, so that simplify cannot fail here.
Simplify ==
    /\ pc = "choose" /\ decisionLevel(s) = 0
    /\ s' \in checkGarbage(s, simplify(s, TRUE))
    /\ UNCHANGED <<pc, status, model, asynch_interrupt>>

ReduceDB ==
    /\ pc = "choose" /\ s.nbRemovedClauses < MaxRemoved
    /\ \E cr \in DOMAIN s.ca :
         /\ s.ca[cr].learnt /\ ~s.ca[cr].imported
         /\ Len(s.ca[cr].lits) > 2 /\ ~locked(s, cr)
         /\ s' \in checkGarbage(s, [removeClause(s, cr) EXCEPT !.nbRemovedClauses = @ + 1])
    /\ UNCHANGED <<pc, status, model, asynch_interrupt>>

Undecided == {v \in s.decision : ~IsAssigned(s, v)}

Decide ==
    /\ pc = "choose"
    /\ \E v \in Undecided :
         s' = uncheckedEnqueue(newDecisionLevel(s), IF s.polarity[v] THEN -v ELSE v, CRef_Undef)
    /\ pc' = "propagate"
    /\ UNCHANGED <<status, model, asynch_interrupt>>

\* No variable is left: the values are copied.
ModelFound ==
    /\ pc = "choose" /\ Undecided = {}
    /\ model' = [v \in 1..s.nVars |-> CASE IsTrue(s, v) -> "l_True" [] IsFalse(s, v) -> "l_False"
                                 [] OTHER -> "l_Undef"]
    /\ s' = cancelUntil(s, 0)
    /\ status' = "l_True" /\ pc' = "solved"
    /\ UNCHANGED asynch_interrupt

\* The flag is set at any time, and has no effect before it is read.
Interrupt ==
    /\ ~asynch_interrupt
    /\ \/ pc \in {"gather", "eliminate"}
       \/ pc = "choose" /\ decisionLevel(s) > 0 /\ s.starts < MaxStarts
    /\ asynch_interrupt' = TRUE
    /\ UNCHANGED <<s, pc, status, model>>

SearchNext ==
    \/ Propagate \/ Conflict \/ ConflictAtRoot \/ Restart \/ Simplify \/ ReduceDB \/ Decide
    \/ ModelFound \/ Interrupt
=============================================================================
