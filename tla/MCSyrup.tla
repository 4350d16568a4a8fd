------------------------------ MODULE MCSyrup ------------------------------
(***************************************************************************)
(* An instance of the parallel solver: either the threads exchange clauses *)
(* through the ring, or they solve a formula; the other part stays idle.   *)
(***************************************************************************)
EXTENDS ClausesBuffer, Syrup

\* Clauses of different lengths that do not fit into the ring more than twice.
LearntBy(t) == {IF t = 0 THEN <<1, 0, 1>> ELSE <<0, 1>>}

BufferIdle == BufferInit /\ ~whenFullRemoveOlder

JobIdle ==
    /\ models = {} /\ unitLit = <<>> /\ isUnary = [v \in Var |-> FALSE]
    /\ nextUnit = [t \in Thread |-> 0]
    /\ bjobFinished = FALSE /\ jobFinishedBy = None /\ jobStatus = "l_Undef"
    /\ trail = [t \in Thread |-> {}] /\ status = [t \in Thread |-> "l_Undef"]
    /\ threadModel = [t \in Thread |-> None] /\ pc = [t \in Thread |-> "created"]
    /\ signalled = FALSE /\ mainPc = "idle" /\ result = "l_Undef" /\ model = None

Init == (BufferInit /\ JobIdle) \/ (BufferIdle /\ SyrupInit)

Next ==
    \/ mainPc = "idle" /\ BufferNext /\ UNCHANGED jobVars
    \/ mainPc # "idle" /\ SyrupNext /\ UNCHANGED bufferVars

Spec == Init /\ [][Next]_<<bufferVars, jobVars>> /\ SyrupFairness

TypesOK == BufferTypeOK /\ SyrupTypeOK
=============================================================================
