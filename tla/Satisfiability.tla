--------------------------- MODULE Satisfiability ---------------------------
(***************************************************************************)
(* What a solver promises: it answers, once, whether the formula has a     *)
(* model, and gives one if it has; only if it was interrupted may it give  *)
(* up.                                                                     *)
(***************************************************************************)
CONSTANTS Assignments, NoModel

VARIABLES
    models,             \* of the formula, among Assignments
    interrupted,
    answer, model

vars == <<models, interrupted, answer, model>>

Init ==
    /\ models \subseteq Assignments /\ interrupted = FALSE
    /\ answer = "none" /\ model = NoModel

Interrupt ==
    /\ answer = "none"
    /\ interrupted' = TRUE
    /\ UNCHANGED <<models, answer, model>>

Answer ==
    /\ answer = "none"
    /\ IF models = {} THEN answer' = "l_False" /\ model' = NoModel
                      ELSE answer' = "l_True" /\ model' \in models
    /\ UNCHANGED <<models, interrupted>>

GiveUp ==
    /\ answer = "none" /\ interrupted
    /\ answer' = "l_Undef"
    /\ UNCHANGED <<models, interrupted, model>>

Next == Interrupt \/ Answer \/ GiveUp

Spec == Init /\ [][Next]_vars /\ <>(answer # "none")
=============================================================================
