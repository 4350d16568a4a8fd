---------------------------- MODULE SatPipeline ----------------------------
(***************************************************************************)
(* The two ways to the SAT solver.  functionsExamples of src/main.cpp      *)
(* reads a graph (BAReader), makes its line graph (SatReduction) and has   *)
(* do3COL_withSAT colour it (SatDriver); glucoseSimpFromFile is given a    *)
(* file with a formula (DimacsParser).                                     *)
(***************************************************************************)
EXTENDS BAReader, SatDriver

vars == <<baVars, reduction, solverInput, dimacs, driver>>

\* The component that is not used stays as it is at the beginning.
Init ==
    /\ BAInit /\ ReductionInit /\ NewSolver /\ DimacsInit /\ DriverInit
    /\ entry = "graph" => dimacsFile = (CHOOSE f \in DimacsFiles : TRUE) /\ opened
    /\ entry = "file" => baFile = (CHOOSE f \in BAFiles : TRUE)

\* GraphFunctions::graphFrom_BAfile; what read() throws ends the process.
GraphFromBAFile ==
    /\ entry = "graph" /\ alive
    /\ BANext
    /\ UNCHANGED <<reduction, solverInput, dimacs, driver>>

LineGraphOfIt ==
    /\ alive /\ baPc = "done" /\ entry = "graph"
    /\ CallReduceEdge3Col(edges) \/ ReduceEdge3Col
    /\ UNCHANGED <<baVars, dimacs, driver>>

\* The driver is started, and is followed up to the place where it fills S.
CallSolver ==
    /\ entry = "graph" => redPc # "idle" /\ redPc # "line"
    /\ Drive
    /\ UNCHANGED <<baVars, reduction, solverInput, dimacs>>

FillFromGraph ==
    /\ pc = "fill" /\ entry = "graph"
    /\ CallReduceVert3Col \/ ReduceVert3Col
    /\ UNCHANGED <<baVars, dimacs, driver>>

FillFromFile ==
    /\ pc = "fill" /\ entry = "file"
    /\ CallParseDimacs \/ ParseDimacs
    /\ UNCHANGED <<baVars, reduction, driver>>

Interrupt == Signal /\ UNCHANGED <<baVars, reduction, solverInput, dimacs>>

Step ==
    \/ GraphFromBAFile \/ LineGraphOfIt \/ CallSolver \/ FillFromGraph \/ FillFromFile

Next == Step \/ Interrupt

Spec == Init /\ [][Next]_vars

\* The process runs on as long as it can; a signal need never come.
FairSpec == Spec /\ WF_vars(Step)

-----------------------------------------------------------------------------
TypeOK == BATypeOK /\ ReductionTypeOK /\ SolverInputOK /\ DimacsTypeOK /\ DriverTypeOK

ColoursOf(m) ==
    [n \in 1..Len(outVertices) |-> {c \in 0..2 : Pos(Var(n - 1, c)) \in m}]

\* The colourings of the edges in which edges that touch differ.
ProperColourings ==
    {f \in [1..Len(inputEdges) -> {{0}, {1}, {2}}] :
        \A n, m \in 1..Len(inputEdges) :
            n < m /\ Ends(inputEdges[n]) \cap Ends(inputEdges[m]) # {} => f[n] # f[m]}

(***************************************************************************)
(* The models of the formula are the proper colourings of the edges of the *)
(* graph with three colours, no more and no fewer, and it has as many      *)
(* variables and clauses as it is said to have (GraphFunctions.cpp         *)
(* 326-466).                                                               *)
(***************************************************************************)
ReductionIsRight ==
    redPc = "filled" =>
        /\ {ColoursOf(m) : m \in Models(clauses)} = ProperColourings
        /\ HeaderMatches
=============================================================================
