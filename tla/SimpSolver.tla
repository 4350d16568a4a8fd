----------------------------- MODULE SimpSolver -----------------------------
(***************************************************************************)
(* src/GlucoseMiniSat/simp/SimpSolver.cc: the solver that simplifies the   *)
(* formula by subsumption and by eliminating variables before it searches, *)
(* and gives the eliminated ones their values afterwards.  The variable    *)
(* that is cheapest to eliminate comes first in the code; here any may.    *)
(***************************************************************************)
EXTENDS Solver

CONSTANTS
    Formulas,           \* as sequences of clauses
    grow, clause_lim    \* limits of an elimination

VARIABLES
    formula,
    todo,               \* the clauses that are still to be added
    pre                 \* the option for preprocessing

vars == <<solverVars, formula, todo, pre>>

NewSimpSolver(simp) ==
    [occurs |-> [v \in Var |-> <<>>], touched |-> {}, elim_heap |-> {},
     subsumption_queue |-> <<>>, bwdsub_assigns |-> 0,
     eliminated |-> {}, elimclauses |-> <<>>, use_simplification |-> simp] @@ NewSolver

InputInit ==
    /\ formula \in Formulas /\ todo = formula /\ pre \in BOOLEAN
    /\ pc = "add" /\ status = "l_Undef" /\ model = <<>>
    /\ asynch_interrupt = FALSE

Init == InputInit /\ s = NewSimpSolver(pre)

varsOf(c) == {Abs(p) : p \in ToSet(c)}

-----------------------------------------------------------------------------
simpNewVar(o) ==
    LET n == newVar(o)
    IN  IF o.use_simplification THEN [n EXCEPT !.elim_heap = @ \union {n.nVars}] ELSE n

\* The variables that a clause of the input needs.
RECURSIVE withVars(_, _)
withVars(o, c) == IF \E p \in ToSet(c) : Abs(p) > o.nVars THEN withVars(simpNewVar(o), c) ELSE o

\* A new clause is queued and listed with its variables.
simpAddClause_(o, ps) ==
    LET a  == addClause_(o, ps)
        cr == freeRef(o)
    IN  IF ~o.use_simplification \/ DOMAIN a.ca = DOMAIN o.ca THEN a
        ELSE LET V == varsOf(a.ca[cr].lits)
             IN  [a EXCEPT !.subsumption_queue = Append(@, cr), !.touched = @ \union V,
                           !.occurs = [v \in Var |-> IF v \in V THEN Append(@[v], cr) ELSE @[v]]]

updateElimHeap(o, V) ==
    [o EXCEPT !.elim_heap = @ \union {v \in V : v \notin o.eliminated /\ ~IsAssigned(o, v)}]

Without(seq, x) == SelectSeq(seq, LAMBDA y : y # x)

simpRemoveClause(o, cr) ==
    LET u == updateElimHeap(o, varsOf(o.ca[cr].lits))
        r == removeClause(u, cr)
    IN  [r EXCEPT !.subsumption_queue = Without(@, cr),
                  !.occurs = [v \in Var |-> Without(@[v], cr)]]

\* enqueue and propagate, as far as the literal is not assigned.
enqueueAndPropagate(o, p) ==
    LET u == propagate(uncheckedEnqueue(o, p, CRef_Undef))
    IN  CASE IsTrue(o, p)  -> propagate(o)
          [] IsFalse(o, p) -> [o EXCEPT !.ok = FALSE]
          [] OTHER -> [u EXCEPT !.ok = (u.confl = CRef_Undef)]

\* Literal p goes out of the clause.
strengthenClause(o, cr, p) ==
    LET c == Without(o.ca[cr].lits, p)
    IN  IF Len(c) = 1 THEN enqueueAndPropagate(simpRemoveClause(o, cr), c[1])
        ELSE LET d == detachClause([o EXCEPT !.subsumption_queue =
                                      IF Contains(@, cr) THEN @ ELSE Append(@, cr)], cr)
             IN  updateElimHeap(attachClause([d EXCEPT !.ca[cr].lits = c,
                                                       !.occurs[Abs(p)] = Without(@, cr)], cr),
                                {Abs(p)})

gatherTouchedClauses(o) ==
    [o EXCEPT !.subsumption_queue =
                 appendNew(@, FlattenSeq([v \in Var |-> IF v \in o.touched THEN o.occurs[v]
                                                        ELSE <<>>])),
              !.touched = {}]

\* Clause::subsumes: the literals of c that are turned round in d, if the
\* others are in d.
turnedIn(c, d) == {p \in ToSet(c) : -p \in ToSet(d)}
covers(c, d)   == Len(c) <= Len(d) /\ \A p \in ToSet(c) : p \in ToSet(d) \/ -p \in ToSet(d)

RECURSIVE subsumptionBy(_, _, _, _)
subsumptionBy(o, cr, c, cs) ==
    IF cs = <<>> \/ ~o.ok THEN o
    ELSE LET x      == Head(cs)
             d      == o.ca[x].lits
             turned == turnedIn(c, d)
             after  == CASE x = cr \/ x \notin DOMAIN o.ca -> o
                         [] OTHER ->
                              CASE ~covers(c, d) \/ Cardinality(turned) > 1 -> o
                                [] covers(c, d) /\ turned = {} -> simpRemoveClause(o, x)
                                [] covers(c, d) /\ Cardinality(turned) = 1 ->
                                     strengthenClause(o, x, -(CHOOSE p \in turned : TRUE))
         IN  subsumptionBy(after, cr, c, Tail(cs))

leastOccurring(o, c) ==
    LET n == CHOOSE k \in DOMAIN c : \A l \in DOMAIN c :
               Len(o.occurs[Abs(c[k])]) <= Len(o.occurs[Abs(c[l])])
    IN  Abs(c[n])

\* The clauses in the queue, then the literals of level 0 as clauses.
RECURSIVE backwardSubsumptionCheck(_)
backwardSubsumptionCheck(o) ==
    IF ~o.ok \/ (o.subsumption_queue = <<>> /\ o.bwdsub_assigns = Len(o.trail)) THEN o
    ELSE LET unit == o.subsumption_queue = <<>>
             cr   == IF unit THEN CRef_Undef ELSE Head(o.subsumption_queue)
             c    == IF unit THEN <<o.trail[o.bwdsub_assigns + 1]>> ELSE o.ca[cr].lits
             next == IF unit THEN [o EXCEPT !.bwdsub_assigns = @ + 1]
                             ELSE [o EXCEPT !.subsumption_queue = Tail(@)]
         IN  backwardSubsumptionCheck(
               subsumptionBy(next, cr, c, o.occurs[leastOccurring(o, c)]))

-----------------------------------------------------------------------------
\* merge: what follows from c and d without v; none if that is always true.
mergeFails(c, d, v) == \E p \in ToSet(c) : Abs(p) # v /\ -p \in ToSet(d)
merge(c, d, v)      == SelectSeq(AllLits, LAMBDA p : Abs(p) # v /\ (Contains(c, p) \/ Contains(d, p)))

\* mkElimClause: the literal of v in front.
mkElimClause(c, v) ==
    Swapped(c, 1, CHOOSE n \in DOMAIN c : Abs(c[n]) = v)

\* Mutant: the clauses are stored, and the value for the other case is not.
elimClausesOnly(v, P, Q) == [n \in DOMAIN P |-> mkElimClause(P[n], v)]

\* The clauses with one sign of v are kept, and its value if they are true
\* without it.
elimClausesOf(v, P, Q) ==
    IF Len(P) > Len(Q) THEN Append([n \in DOMAIN Q |-> mkElimClause(Q[n], v)], <<v>>)
                       ELSE Append([n \in DOMAIN P |-> mkElimClause(P[n], v)], <<-v>>)

RECURSIVE addAll(_, _)
addAll(o, cs) ==
    IF cs = <<>> \/ ~o.ok THEN o ELSE addAll(simpAddClause_(o, Head(cs)), Tail(cs))

RECURSIVE removeAll(_, _)
removeAll(o, crs) ==
    IF crs = <<>> THEN o ELSE removeAll(simpRemoveClause(o, Head(crs)), Tail(crs))

eliminateVar(o, v) ==
    LET cls  == o.occurs[v]
        Lits(crs) == [n \in DOMAIN crs |-> o.ca[crs[n]].lits]
        P    == Lits(SelectSeq(cls, LAMBDA cr : Contains(o.ca[cr].lits, v)))
        Q    == Lits(SelectSeq(cls, LAMBDA cr : ~Contains(o.ca[cr].lits, v)))
        pairs == [n \in 1..Len(P) * Len(Q) |-> <<P[(n - 1) \div Len(Q) + 1], Q[((n - 1) % Len(Q)) + 1]>>]
        good == SelectSeq(pairs, LAMBDA x : ~mergeFails(x[1], x[2], v))
        new  == [n \in DOMAIN good |-> merge(good[n][1], good[n][2], v)]
        e    == [o EXCEPT !.eliminated = @ \union {v}, !.decision = @ \ {v},
                          !.elimclauses = @ \o elimClausesOf(v, P, Q)]
        a    == addAll(e, new)
    IN  CASE Len(new) > Len(cls) + grow \/ \E n \in DOMAIN new : Len(new[n]) > clause_lim -> o
          [] OTHER -> IF a.ok THEN backwardSubsumptionCheck(removeAll(a, cls)) ELSE a

-----------------------------------------------------------------------------
\* As long as there are occurrence lists, they are moved first; then the queue.
simpGarbageCollect(o) ==
    LET refs == appendNew(appendNew(appendNew(<<>>, FlattenSeq(o.occurs)), o.subsumption_queue),
                          referencesOf(o))
        Moved(q) == [n \in DOMAIN q |-> reloc(refs, q[n])]
    IN  [relocAll(o, refs) EXCEPT !.occurs = [v \in Var |-> Moved(@[v])],
                                  !.subsumption_queue = Moved(@)]

simpCheckGarbage(o, u) == IF DOMAIN u.ca = DOMAIN o.ca THEN {u} ELSE {u, simpGarbageCollect(u)}

-----------------------------------------------------------------------------
AddClause ==
    /\ pc = "add" /\ todo # <<>>
    /\ s' = simpAddClause_(withVars(s, Head(todo)), Head(todo))
    /\ todo' = Tail(todo)
    /\ UNCHANGED <<pc, status, model, asynch_interrupt, formula, pre>>

\* eliminate begins, if the option for it is set, with simplify.
Preprocess ==
    /\ pc = "add" /\ todo = <<>>
    /\ s' = IF pre THEN simplify(s, TRUE) ELSE s
    /\ pc' = IF s'.ok /\ pre THEN "gather" ELSE "solve"
    /\ UNCHANGED <<status, model, asynch_interrupt, formula, todo, pre>>

\* An interrupted elimination empties its queues.
emptied(o) ==
    [o EXCEPT !.subsumption_queue = <<>>, !.bwdsub_assigns = Len(o.trail), !.elim_heap = {}]

\* A turn of the main loop of eliminate ...
Gather ==
    /\ pc = "gather" /\ s.ok
    /\ s.touched # {} \/ s.bwdsub_assigns < Len(s.trail) \/ s.elim_heap # {}
    /\ LET g == gatherTouchedClauses(s)
       IN  s' = IF asynch_interrupt THEN emptied(g) ELSE backwardSubsumptionCheck(g)
    /\ pc' = IF asynch_interrupt THEN "gather" ELSE "eliminate"
    /\ UNCHANGED <<status, model, asynch_interrupt, formula, todo, pre>>

\* ... and of the inner one.
EliminateVar ==
    /\ pc = "eliminate" /\ s.ok
    /\ \E v \in s.elim_heap :
         LET o == [s EXCEPT !.elim_heap = @ \ {v}]
         IN  s' \in IF asynch_interrupt \/ v \in s.eliminated \/ IsAssigned(s, v) THEN {o}
                    ELSE simpCheckGarbage(o, eliminateVar(o, v))
    /\ pc' = IF asynch_interrupt THEN "gather" ELSE pc
    /\ UNCHANGED <<status, model, asynch_interrupt, formula, todo, pre>>

HeapEmpty ==
    /\ pc = "eliminate" /\ s.ok /\ s.elim_heap = {}
    /\ pc' = "gather"
    /\ UNCHANGED <<s, status, model, asynch_interrupt, formula, todo, pre>>

\* The clean-up with turn_off_elim: what was for the elimination is freed.
TurnOff ==
    /\ pc \in {"gather", "eliminate"}
    /\ ~s.ok \/ (pc = "gather" /\ s.touched = {} /\ s.bwdsub_assigns = Len(s.trail) /\ s.elim_heap = {})
    /\ s' = garbageCollect([s EXCEPT !.touched = {}, !.occurs = [v \in Var |-> <<>>],
                                     !.elim_heap = {}, !.subsumption_queue = <<>>,
                                     !.use_simplification = FALSE, !.remove_satisfied = TRUE])
    /\ pc' = "solve"
    /\ UNCHANGED <<status, model, asynch_interrupt, formula, todo, pre>>

Solve ==
    /\ pc = "solve"
    /\ IF s.ok THEN pc' = "propagate" /\ UNCHANGED status
               ELSE pc' = "solved" /\ status' = "l_False"
    /\ UNCHANGED <<s, model, asynch_interrupt, formula, todo, pre>>

Search == SearchNext /\ UNCHANGED <<formula, todo, pre>>

\* extendModel, from the last stored clause to the first.
RECURSIVE extended(_, _)
extended(m, cs) ==
    IF cs = <<>> THEN m
    ELSE LET c == Last(cs)
             p == c[1]
             IsLFalse(q) == m[Abs(q)] = IF q > 0 THEN "l_False" ELSE "l_True"
         IN  extended(IF \A n \in 2..Len(c) : IsLFalse(c[n])
                        THEN [m EXCEPT ![Abs(p)] = IF p > 0 THEN "l_True" ELSE "l_False"] ELSE m,
                      Front(cs))

ExtendModel ==
    /\ pc = "solved"
    /\ model' = IF status = "l_True" THEN extended(model, s.elimclauses) ELSE model
    /\ pc' = "answered"
    /\ UNCHANGED <<s, status, asynch_interrupt, formula, todo, pre>>

Next ==
    \/ AddClause \/ Preprocess \/ Gather \/ EliminateVar \/ HeapEmpty \/ TurnOff \/ Solve
    \/ Search \/ ExtendModel
    \/ pc = "answered" /\ UNCHANGED vars
=============================================================================
