---------------------------- MODULE SolverInput ----------------------------
(***************************************************************************)
(* What a solver has been given before it is asked: newVar and addClause   *)
(* of src/GlucoseMiniSat/simp/SimpSolver.h, as the reduction and the       *)
(* DIMACS parser of src/src use them.  A literal of the solver's variable  *)
(* number v (from 0) is v + 1 or -(v + 1); a clause is a set of literals.  *)
(***************************************************************************)
EXTENDS Integers, FiniteSets, FiniteSetsExt

VARIABLES nVars, clauses

solverInput == <<nVars, clauses>>

\* mkLit(var) and ~mkLit(var)
Pos(var) == var + 1
Neg(var) == -(var + 1)

VarIndex(l) == IF l > 0 THEN l - 1 ELSE -l - 1

NewSolver == nVars = 0 /\ clauses = {}

\* Mutant: the loop ends one variable too early.
AddClausesTooFew(C, highest) ==
    /\ nVars' = Max({nVars, highest})
    /\ clauses' = clauses \cup C

\* while (var >= nVars()) newVar(); addClause(...)
AddClauses(C, highest) ==
    /\ nVars' = Max({nVars, highest + 1})
    /\ clauses' = clauses \cup C

SolverInputOK ==
    /\ nVars \in Nat
    /\ \A c \in clauses : \A l \in c : l # 0 /\ VarIndex(l) < nVars
=============================================================================
