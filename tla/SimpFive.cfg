CONSTANTS
    N = 5
    MaxStarts = 1
    MaxRemoved = 1
    Formulas <- AllFormulas
    Imports <- ImportsOf
    grow = 0
    clause_lim = 20
SPECIFICATION ParallelSpec
INVARIANTS StructureOK ClausesAreImplied PropagationComplete
PROPERTY ImplementsSatisfiability
