--------------------------- MODULE ParallelSolver ---------------------------
(***************************************************************************)
(* src/GlucoseMiniSat/parallel: a solver among others.  MultiSolvers gives *)
(* the formula to its first solver, which becomes a thread like its clones *)
(* and takes clauses from the others into its search (ParallelSolver.cc).  *)
(* How these come and when the threads end is in modules ClausesBuffer and *)
(* Syrup.                                                                  *)
(***************************************************************************)
EXTENDS SimpSolver

CONSTANT Imports(_)     \* what the others learn from a formula, if there are others

VARIABLE inbox

parallelVars == <<vars, inbox>>

\* A formula for which nothing is sent is solved alone, by a SimpSolver.
threaded == Imports(formula) # {}

\* The option for preprocessing is looked at only when the formula is there.
ParallelInit ==
    /\ InputInit
    /\ s = NewSimpSolver(pre \/ threaded)
    /\ inbox = Imports(formula)

-----------------------------------------------------------------------------
\* MultiSolvers::addClause_, before there are clones; ok of MultiSolvers and ok
\* of its solver are one here (okay).
multiAddClause_(o, ps) ==
    LET c == SelectSeq(AllLits, LAMBDA p : Contains(ps, p) /\ ~IsFalse(o, p))
    IN  CASE ~o.ok \/ satisfied(o, ps) \/ (\E p \in ToSet(ps) : -p \in ToSet(ps)) -> o
          [] OTHER -> IF Len(c) < 2 THEN addClause_(o, c) ELSE simpAddClause_(o, c)

MultiAddClause ==
    /\ pc = "add" /\ threaded /\ todo # <<>>
    /\ s' = multiAddClause_(withVars(s, Head(todo)), Head(todo))
    /\ todo' = Tail(todo)
    /\ UNCHANGED <<pc, status, model, asynch_interrupt, formula, pre, inbox>>

\* MultiSolvers::simplify, then MultiSolvers::eliminate up to its loop.
MultiPreprocess ==
    /\ pc = "add" /\ threaded /\ todo = <<>>
    /\ s' = [simplify(s, TRUE) EXCEPT !.use_simplification = pre]
    /\ pc' = IF s'.ok /\ pre THEN "gather" ELSE "solve"
    /\ UNCHANGED <<status, model, asynch_interrupt, formula, todo, pre, inbox>>

\* A clause of two literals is attached as it is, whatever their values, a
\* longer one in the purgatory; a literal is believed if it is not assigned.
imported(o, c) ==
    LET cr == freeRef(o)
        a  == [o EXCEPT !.ca = (cr :> [newClause(c, TRUE) EXCEPT !.imported = TRUE,
                                                                 !.oneWatched = Len(c) > 2]) @@ @]
    IN  CASE Len(c) = 1 -> IF IsAssigned(o, c[1]) THEN o ELSE uncheckedEnqueue(o, c[1], CRef_Undef)
          [] Len(c) = 2 -> attachClause(a, cr)
          [] Len(c) > 2 -> attachClausePurgatory(a, cr)

\* At level 0, before propagate.  The others have the same eliminated
\* variables (clone) and do not learn anything about them.
ImportClause ==
    /\ pc = "propagate" /\ decisionLevel(s) = 0
    /\ \E c \in inbox :
         /\ varsOf(c) \subseteq s.decision
         /\ s' = imported(s, c)
         /\ inbox' = inbox \ {c}
    /\ UNCHANGED <<pc, status, model, asynch_interrupt, formula, todo, pre>>

\* ParallelSolver::reduceDB also removes clauses of others, from the purgatory
\* or from where they were promoted to.
ReduceImported ==
    /\ pc = "choose" /\ s.nbRemovedClauses < MaxRemoved
    /\ \E cr \in DOMAIN s.ca :
         /\ s.ca[cr].imported /\ Len(s.ca[cr].lits) > 2 /\ ~locked(s, cr)
         /\ s' \in checkGarbage(s, [removeClause(s, cr) EXCEPT !.nbRemovedClauses = @ + 1])
    /\ UNCHANGED <<pc, status, model, asynch_interrupt, formula, todo, pre, inbox>>

-----------------------------------------------------------------------------
\* Nobody interrupts the threads.
SolverStep ==
    /\ threaded => pc # "add"
    /\ Next
    /\ threaded => ~asynch_interrupt'
    /\ UNCHANGED inbox

ParallelNext == MultiAddClause \/ MultiPreprocess \/ SolverStep \/ ImportClause \/ ReduceImported

\* A thread waits for nothing in here: as there is always a step to take
\* (deadlock is checked), it takes one until it has answered.  This is
\* WF_parallelVars(ParallelNext), without the ENABLED that is costly to evaluate.
ParallelProgress == []<><<TRUE>>_parallelVars \/ <>(pc = "answered")

ParallelSpec == ParallelInit /\ [][ParallelNext]_parallelVars /\ ParallelProgress
=============================================================================
