---------------------------- MODULE SatReference ----------------------------
(***************************************************************************)
(* Satisfaction of formulas in conjunctive normal form, against which the  *)
(* reduction and the solver are compared.  A clause is a set of literals,  *)
(* a literal v or -v.                                                      *)
(***************************************************************************)
EXTENDS Integers, FiniteSets

VarOf(l) == IF l < 0 THEN -l ELSE l

VarsOf(F) == {VarOf(l) : l \in UNION F}

\* What is left of F when literal l is true.
Under(F, l) == {c \ {-l} : c \in {c \in F : l \notin c}}

\* A literal of X that a clause forces, or else a variable both ways.
Branches(F, X) ==
    LET unit == {c \in F : Cardinality(c) = 1 /\ VarsOf({c}) \subseteq X}
        x    == CHOOSE x \in X : \A y \in X : x <= y
    IN  IF unit # {} THEN CHOOSE c \in unit : TRUE ELSE {x, -x}

\* The sets of literals, one for each variable of the set X, that satisfy F.
ModelsOver(F, X) ==
    LET over[Y \in SUBSET X] == [G \in SUBSET SUBSET UNION F |->
          IF {} \in G THEN {}
          ELSE IF Y = {} THEN {{}}
          ELSE UNION {{{l} \cup m : m \in over[Y \ {VarOf(l)}][Under(G, l)]} : l \in Branches(G, Y)}]
    IN  over[X][F]

Models(F) == ModelsOver(F, VarsOf(F))

Satisfiable(F) == Models(F) # {}

\* The sets of literals, one for each variable of the set X.
Valuations(X) == {{IF x \in T THEN x ELSE -x : x \in X} : T \in SUBSET X}

\* Those that make a literal of each clause true.
Satisfying(F) == {m \in Valuations(VarsOf(F)) : \A c \in F : m \cap c # {}}

\* The branching above finds them.
ModelsAreRight(F) == Models(F) = Satisfying(F)

\* Every model of F makes one of the literals of c true.
Implies(F, c) == \A m \in ModelsOver(F, VarsOf(F) \cup {VarOf(l) : l \in c}) : m \cap c # {}
=============================================================================
