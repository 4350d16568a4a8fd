---------------------------- MODULE MCSimpSolver ----------------------------
(***************************************************************************)
(* Small formulas for the solver, and what its answer is measured by.      *)
(***************************************************************************)
EXTENDS ParallelSolver, FiniteSets

\* All clauses over three variables.
Cubes == [n \in 1..8 |-> <<IF n > 4 THEN 1 ELSE -1,
                           IF n % 4 \in {0, 3} THEN 2 ELSE -2,
                           IF n % 2 = 0 THEN 3 ELSE -3>>]

AllBut(M) == SelectSeq(Cubes, LAMBDA c : c \notin M)

SmallFormulas ==
    {AllBut({}), AllBut({<<1, 2, 3>>}), AllBut({<<1, -2, 3>>, <<-1, 2, -3>>}),
     <<<<1, 2>>, <<-2, 3>>, <<-3, -1>>, <<3, 1, 4>>, <<-4, 2, 1>>>>,
     <<<<1, 2, 3>>, <<-1, -2, 4>>, <<-3, -4, 1>>, <<-4, 3, 2>>, <<4, -2, -1>>, <<-1, 2>>>>,
     <<<<4>>, <<-4, 1, 2>>, <<-1, -4, 3>>, <<1, -1>>, <<2, 2, 3>>, <<-3, -2>>>>,
     <<<<1, 2>>, <<-1, 2>>, <<1, -2>>, <<-1, -2>>>>,
     <<<<1>>, <<2, 3>>, <<-1>>>>}

\* Among them: learnt clauses of three literals, literals that litRedundant and
\* the binary clauses leave out, variables that are eliminated before a search.
\* They have four, nine and five models.
LargerFormulas ==
    {<<<<3, -5, 4, -2>>, <<2, 3, 1>>, <<-5, -2, 3>>, <<1, 5>>,
       <<-3, -2, -5, -4>>, <<-2, 1, -4, 3>>, <<-1, -5, 2>>, <<-1, 2, 4>>,
       <<2, 4, 5>>, <<3, 5>>, <<-1, 4, 5, 2>>, <<5, 3>>, <<-3, 1, -5>>,
       <<-4, -1, 3>>>>,
     <<<<-4, 1, -3>>, <<1, 3, 5>>, <<5, 4, -3>>, <<-1, 5, 3>>, <<4, 5, 1>>,
       <<4, -3, -5, 2>>, <<3, -5, -4>>, <<3, 2, -1, 5>>, <<3, 2, -1>>>>,
     <<<<2, 5>>, <<5, -3, 4>>, <<2, -5, 4>>, <<1, 2, -5, 3>>,
       <<-3, 2, 1, -4>>, <<4, -3, -1>>, <<-4, 2, 5, -1>>, <<-2, -5, -3>>,
       <<-4, -2>>, <<2, -3, 4>>, <<-3, -1>>, <<-3, -2, -4>>>>}

\* A clause that comes from outside may be false as a whole: it is promoted.
SharedFormulas ==
    {<<<<-1, -2, 3>>, <<-3, 2, 4>>, <<3, 2, -1>>, <<-2, 4, -1>>, <<-2, -3, 4>>,
       <<-3, 2, 1>>, <<2, -4, -3>>, <<3, 1, 2>>>>,
     <<<<-4, 2, -1>>, <<-4, 1, 2>>, <<4, -3, -2>>, <<4, -3, -1>>, <<4, 3, -1>>,
       <<-4, -2, -3>>, <<4, 3, 1>>, <<2, -1, 3>>>>}

AllFormulas == SmallFormulas \union LargerFormulas \union SharedFormulas

\* Clauses that follow from the formula and that another solver may send.
ImportsOf(f) ==
    CASE f \in SharedFormulas /\ <<3, 1, 2>> \in ToSet(f)  -> {<<2, 3, 4>>, <<1, 2>>}
      [] f \in SharedFormulas /\ <<2, -1, 3>> \in ToSet(f) -> {<<1, 2, 3>>, <<-1, 2>>}
      [] f \in LargerFormulas /\ Len(f) = 14 -> {<<-2, 5, 1>>}
      [] f \in LargerFormulas /\ Len(f) = 9  -> {<<4, 5, 2>>}
      [] f \in LargerFormulas /\ Len(f) = 12 -> {<<-3>>, <<2, 4, -1>>}
      [] OTHER -> {}

Makes(m, p)  == m[Abs(p)] = IF p > 0 THEN "l_True" ELSE "l_False"
MakesAll(m, f) == \A n \in DOMAIN f : \E k \in DOMAIN f[n] : Makes(m, f[n][k])

Assignments == UNION {[1..n -> {"l_True", "l_False"}] : n \in 1..N}

\* There are no gaps in them.
varsIn(f) == UNION {{Abs(f[n][k]) : k \in DOMAIN f[n]} : n \in DOMAIN f}

\* As a set, which TLC evaluates once.
ModelsOf ==
    {[of |-> f, models |-> {m \in [varsIn(f) -> {"l_True", "l_False"}] : MakesAll(m, f)}] :
        f \in Formulas}

models == (CHOOSE x \in ModelsOf : x.of = formula).models

-----------------------------------------------------------------------------
StructureOK ==
    /\ \A cr \in DOMAIN s.ca : Len(s.ca[cr].lits) > 1 /\ IsInjective(s.ca[cr].lits)
    /\ \A v \in Var :
         (IsAssigned(s, v) /\ level(s, v) > 0 /\ s.reason[v] # CRef_Undef) =>
           /\ s.reason[v] \in DOMAIN s.ca
           /\ \E n \in 1..2 : Abs(s.ca[s.reason[v]].lits[n]) = v
    /\ s.qhead \in 0..Len(s.trail)
    /\ \A n, k \in DOMAIN s.trail : Abs(s.trail[n]) = Abs(s.trail[k]) => n = k
    /\ status \in {"l_Undef", "l_True", "l_False"}

(***************************************************************************)
(* Nothing is lost or invented: every clause of the solver, and every      *)
(* literal of level 0, holds in all models of the formula (analyze,        *)
(* litRedundant, minimisationWithBinaryResolution, strengthenClause,       *)
(* merge).                                                                 *)
(***************************************************************************)
ClausesAreImplied ==
    \A m \in models :
      /\ \A cr \in DOMAIN s.ca : \E p \in ToSet(s.ca[cr].lits) : Makes(m, p)
      /\ \A n \in DOMAIN s.trail : level(s, s.trail[n]) = 0 => Makes(m, s.trail[n])

(***************************************************************************)
(* The two watched literals find all there is: when propagate returns      *)
(* without a conflict, every clause is true or has two open literals       *)
(* (propagate, attachClause, cancelUntil), also one of another solver that *)
(* was promoted; the others of these are watched at one literal, or as     *)
(* they came.                                                              *)
(***************************************************************************)
PropagationComplete ==
    pc = "choose" =>
      \A cr \in DOMAIN s.ca :
        LET c == s.ca[cr].lits
        IN  \/ s.ca[cr].imported /\ (s.ca[cr].oneWatched \/ Len(c) = 2)
            \/ satisfied(s, c)
            \/ Cardinality({p \in ToSet(c) : ~IsFalse(s, p)}) > 1

Answered == pc = "answered"

Contract == INSTANCE Satisfiability WITH
                NoModel <- <<>>,
                interrupted <- asynch_interrupt,
                answer <- IF Answered THEN status ELSE "none",
                model <- IF Answered THEN model ELSE <<>>

(***************************************************************************)
(* The answer comes and is right, and the model is one of the formula as   *)
(* it was given, with the values of the eliminated variables (solve_,      *)
(* eliminateVar, extendModel).                                             *)
(***************************************************************************)
ImplementsSatisfiability == Contract!Spec
=============================================================================
