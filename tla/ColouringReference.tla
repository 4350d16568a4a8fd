------------------------- MODULE ColouringReference -------------------------
(***************************************************************************)
(* The reference the searches are compared with: every proper colouring of *)
(* a set of edges, built one edge at a time.  An edge is a set of two ends.*)
(***************************************************************************)
EXTENDS FiniteSets, FiniteSetsExt

\* The ways to give e one of the colours C on top of a colouring p.
Extensions(p, e, C) ==
    {[d \in DOMAIN p \cup {e} |-> IF d = e THEN c ELSE p[d]] :
        c \in {c \in C : \A f \in DOMAIN p : f \cap e # {} => p[f] # c}}

ProperColourings(E, C) ==
    FoldSet(LAMBDA e, S : UNION {Extensions(p, e, C) : p \in S}, {<<>>}, E)

Colourable(E, C) == ProperColourings(E, C) # {}
=============================================================================
