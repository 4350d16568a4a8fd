# GraphColor in TLA+

GraphColor looks for 3-edge-colourings of cubic graphs: a bridgeless cubic graph without one
is a snark. It has three ways to look: a breadth-first search (`src/GraphFunctions.cpp`, the one
`main` runs), a depth-first search (`src/depthFirst.c`, sequential and with OpenMP), and a
reduction to SAT that the Glucose solver in `GlucoseMiniSat/` answers, alone or with several
threads (glucose-syrup). This directory models all of them and what brings graphs and formulas to
them, checks the models with TLC and proves invariants with TLAPS. Paths below
are relative to the root of the repository.

## The system

| component | state it keeps | operations |
|---|---|---|
| breadth-first colouriser, `src/GraphFunctions.cpp` 479-862 | the member `list` shared by all nested calls; per call copies of the maps of edges (colour) and vertices (`availableColors`), the list it was given | `edge3COLBFS`, `edge3COLBFSrecursive`, `colourEdge`, `listContains` |
| depth-first colouriser, `src/depthFirst.c`, `src/mystack.c` | matrices `graphColors` and `usedColors`, the stack of the root's neighbours, per call copies of both matrices | `depthFirstSearch`, `findColoringSequential`, `findColoringRecursive`, `undo`, `undoGraph` |
| the same with OpenMP, `findColoring` 137-325 | a matrix and a table per thread; shared `flag`, `found`, `finderId`, `graphColors` | permutations shared out statically |
| `OldGraph`, `src/OldGraph.cpp` | adjacency matrix, `graphSize`, `maxDegree`, `edge3Colorable`, `isSnark`, `coloredGraph` | readers (matrix file, graph6), `removeVertex`, pairs, `testCriticality`, `DepthFirstSearchColoring` |
| `Graph`, `Vertex`, `Undirected_edge` | vectors of vertices and edges, neighbour lists | construction, lookup |
| graph6, line graph and SAT encoding, `src/GraphFunctions.cpp` 37-466 | the matrix, the output graph, the solver's clauses | `readGraphFromG6String`, `reduceEdge3Col_Vert3Col`, `reduceVert3Col_SAT` |
| SAT driver, `src/SATSolver.cpp` | the static pointer `solver`, signal dispositions, the result file | `doSATSolve3COL`, `glucoseSimpFromFile`, `parseDimacs`, handlers |
| BA format, `BA_GraphFormat/` | stream position, nesting of braces, buffers | `next_line`, the constructor, `read` |
| Glucose, `GlucoseMiniSat/core`, `simp` | clauses, watches, trail, levels, reasons; occurrence lists, queues, saved clauses | `addClause_`, `propagate`, `analyze`, `search`, `reduceDB`, `simplify`, `eliminate`, `extendModel`, garbage collection |
| glucose-syrup, `GlucoseMiniSat/parallel` | the ring of clauses, shared units, who finished the job | `pushClause`, `getClause`, `IFinished`, `MultiSolvers::solve` |
| `BreadthFirst`, `Filter`, `Colouriser`, `BFS_colouring`, `GraphNew` | none that matters | stubs |

How they interact: `main` decodes a graph6 line into a `Graph` and calls `edge3COLBFS`.
`OldGraph::DepthFirstSearchColoring` hands its matrix to `depthFirstSearch`; `testCriticality`
does so for the graph without every pair of adjacent vertices. `functionsExamples` reads a BA
file, makes the line graph, and has `doSATSolve3COL` fill a `SimpSolver` with the clauses
for a vertex colouring of it, eliminate variables and solve. The threads of
syrup are clones of a `SimpSolver` that meet in `SharedCompanion`.

What is hard here:

- *Backtracking over shared state.* The list of the breadth-first search is one object for all
  nested calls and is restored by copies at three places. The depth-first search restores whole
  matrices on failure and one edge by hand before its second attempt.
- *The same fact kept twice.* The colour of an edge and the table of free or used colours; a
  clause and its two watchers, its occurrences, the reason it is.
- *Completeness.* Both searches try fewer options than there are, relying on the six
  permutations at the root; the solver drops clauses, variables and literals all the time.
- *Concurrency.* The OpenMP team shares four variables without a lock; the threads of syrup share
  a ring, units and the end of the job, and one status is stored outside of the lock.
- *Signals* at any point of a solve, and *exits* that must leave the right result file.
- *Input* that is cut off, or followed by more than there should be.
- *Termination* of recursions and loops that have no bound of their own.

`PROJECT.json` lists the hazards with the line where each bites and the properties about it.

## Modules

| module | what it is |
|---|---|
| `CubicGraph` | cubic graphs as neighbour lists; edges, proper colourings, tables of free colours |
| `BFSColouriser` | the breadth-first search |
| `RootedGraph` | what both depth-first searches work on: matrices, tables, permutations, and the properties of a graph that decide what they can do |
| `DepthFirst` | the sequential depth-first search |
| `ParallelDepthFirst` | `findColoring`: the OpenMP team |
| `SimpleGraph` | the value classes of graphs |
| `Graph6`, `MatrixReader` | the graph6 readers with the graph built from the matrix; the reader of matrix files |
| `Criticality` | the verdict fields of an `OldGraph` and `testCriticality` |
| `BAReader`, `DimacsParser` | the readers of BA graphs and of formulas |
| `SatReduction` | the line graph and the formula |
| `SolverInput` | what a solver has been given |
| `SatDriver` | the driver, its file, its exits and its signal handlers |
| `SatPipeline` | composition of `BAReader`, `SatReduction`, `DimacsParser` and `SatDriver` |
| `Solver` | a CDCL solver: `Solver.cc` |
| `SimpSolver` | extends it with variable elimination: `SimpSolver.cc` |
| `ParallelSolver` | extends that with clauses and units from other threads |
| `Satisfiability` | abstract: what a solver answers |
| `ClausesBuffer` | the ring of clauses between threads |
| `ClauseFifo` | abstract: a queue with a position for each reader |
| `Syrup` | threads, shared units, the end of the job, main's wait |
| `ColouringReference`, `SatReference`, `Graph6Format`, `GraphInstances` | references and inputs: all colourings, all models, the format as it is written, graphs |
| `MC...` | instances for TLC, and properties that compare with a reference |
| `..._proofs` | theorems |
| `ColouringLemmas`, `SequenceLemmas` | lemmas about proper colourings; about sequences, least elements and folds |

### BFSColouriser

The C++ call stack is the sequence `frames`; a frame holds what a call keeps while a nested
call runs: its vertex, `availableColors` as the ordered vector `options`, the loop index `i`,
`localList`, and the maps it was given by reference (`inColour`, `inAvail`), which are the local
maps of its caller. `colour` and `avail` are the local maps of the innermost call; `list` is the
shared member; `pc` says where the innermost call stands.

| action | code |
|---|---|
| `RootEdge` | one edge of the first vertex, 556-567 |
| `WhileLoop` | `while (!list.empty())`, 572-574 |
| `NothingFree` | the vertex has no free colour, 651-662 |
| `BeginOption`, `OptionsExhausted` | head of the loop over options 664-672, and its end 753-754 |
| `SkipEdge`, `ColourEdge`, `EdgeRefused` | walk over the edges, 679-704, with `colourEdge` 806-855 |
| `Backtrack`, `Advance` | 706-714 and 716-734 |
| `AfterCall` | what follows the nested call, 735-747, and the return of 661 |
| `AfterSearch` | back in `edge3COLBFS`, 574-609 |

An edge is the set of its two ends, because `Undirected_edge` orders its ends and compares them
without direction. `coloured` is `"unset"` after 672, and a test of an unset value may go either
way. The stack of the process is finite: `MaxDepth` is how many nested calls fit, and a call
more ends in `"overflow"`, the crash. The input graphs are cubic (`GraphsAssumption`): the
permutations have three entries.

### DepthFirst and ParallelDepthFirst

`frames` holds the calls of `findColoringRecursive`: its vertex, the loop variable `i`, the two
copies `initGraph` and `initUsed`, `result`, the colour `act` of the edge being tried, and whether
it is the `second` attempt. `graphColors` has 0 for no edge, 1 for an edge without colour and 2..4
for colours; `stack1` is the linked list of `mystack.c`, front first. The actions are the phases of
`findColoringSequential` (571-629) and of a call (374-494), with `undo` and `undoGraph`. The
inputs are symmetric matrices without loops and at most three edges a vertex.

In `ParallelDepthFirst` a search touches private memory only and is one step, given by the
recursive function `Search` (all results a call may return 1 with; none if it returns 0).
The shared accesses are steps of their own, in program order: the copy in and the copy out cell by
cell, `found`, `flag`, `finderId`, the test of `flag`. There is no barrier before the first
write of a fast thread; there is one at the end of the loop.

### The input of graphs

A `Graph6` line is the sequence of its characters less 63; `StoreBit` is one turn of the loop
over `graphInLine`, `StoreOutside` one whose cell is behind the end of the matrix (the bit goes to some other memory; the
program goes on, or is `"killed"`), `BuildCell` one cell of the loops that make vertices and edges. The variable
`reader` tells the reader of `GraphFunctions` from the two of `OldGraph`, which store into the
object; one made from a string leaves `graphSize` and `maxDegree` unset, which
`Garbage` stands for. `MatrixReader` reads a character a step, the first line twice. In `Criticality`
a field no constructor sets is `"garbage"`, and a read of it may give either value; what the
search answers is left open.

### The SAT side

`BAReader` takes a `getline` a step; `parLevel` wraps as the unsigned number it is, at a
smaller width (`Levels`). `SatReduction` compares two edges a step and adds the clauses of a vertex,
or of an edge and a colour, a step. `SatDriver` follows the two functions from one change of
shared state to the next; `Signal` may come between any two of them, and does
what the handler installed at that point does with the pointer as it is at that point. What the
solver answers is external there; it is what `SimpSolver` is shown to promise.

`Solver` keeps the solver's object in one record `s`: `ca` maps references to clauses, `trail`,
`levels`, `reason`, `watches` and so on are as in the code, and an action replaces `s` by what the
code makes of it. `propagate` is one step and goes through the lists in order, binary clauses first,
swaps and replaces watches and promotes clauses of the purgatory. `analyze` with its two
minimisations, the learnt clause, the jump back and `reduceDB`, `simplify`, restarts and decisions
follow. What only speeds the search up is mostly a free choice: any unassigned decision variable may be
chosen, with the polarity that is saved for it, as `pickBranchLit` does (714; the random and forced polarities of 697-712 are left
out), a restart may come any time, any learnt clause that is not locked may be removed, and garbage
collection may come wherever `checkGarbage` is called. Collection gives all clauses new
references, in the order of the code, through watchers, reasons and lists.

`SimpSolver` adds occurrence lists, the subsumption queue, `strengthenClause`, `eliminateVar` with
both forms of the clauses it saves, the clean-up and `extendModel`. `ParallelSolver` adds what a
thread takes from others, at the places where the code imports.

`Syrup` takes a formula as the set of its models, so that "learns a literal" is "it holds in every
model that is left". A thread's loop, its import, `IFinished`, the store of `jobStatus` after the lock is
given back, the copy of the model and the signal are steps; so are main's wait, its time-out, a
spurious wake-up, the joins and the result. `ClausesBuffer` has the ring as an array of
integers with `first`, `last` and `lastOfThread`; a call under the mutex is a step.

### Refinements

- `ClausesBuffer` implements `ClauseFifo` (`ImplementsFifo`): what thread `t` has not received is
  the sequence of others' clauses from `lastOfThread[t]` on, through the ring.
- `ParallelSolver`, and with it `SimpSolver` and `Solver`, implements `Satisfiability`
  (`ImplementsSatisfiability`): however clauses are learnt, removed, strengthened, eliminated,
  imported or moved, the answer is the formula's and the model one of it. The abstract
  specification has the fairness that an answer comes, so this is a liveness property, too.

## Runs

| run | module and cfg | what it checks | instance and bounds |
|---|---|---|---|
| `bfs` | `MCBFSColouriser`, `BFSTen` | types, `MapsConsistent`, `NeverSucceeds`, `PopsCurrentVertex`, `FrontierListed`, `NotColourableIsRight`, `Halts` | Petersen graph, a graph with a bridge, a prism; `MaxDepth` 12 |
| `dfs` | `MCDepthFirst`, `DFSTen` | types, `Consistent`, `FoundIsColouring`, `TrailColoured`, `UndoneCompletely`, `NotFoundIsRight` (of the cubic ones), `Halts` | the same graphs, every labelled cubic graph of 6 vertices, the Petersen graph without a vertex or an adjacent pair |
| `pdf` | `MCParallelDepthFirst`, `PDFTwo` | types, `SettledOnReturn`, `SoleFinderPublishes`, `EverySearchIsClean`, `NotFoundIsRight`, `Returns` | two threads; K4 and a graph of five vertices without a colouring |
| `input` | `MCInput`, `Input` | types, `StoreInside`, `ReadAsWritten`, `GraphIsMatrix`, `EveryPairRemoved` | every file of up to 4 characters, a 3x3 matrix cut off, extended and changed; every graph6 line of up to 5 vertices, some with a character behind them (0, 1, 2 and 4 vertices), and the headers of ten sizes at the borders; two objects of 4 vertices |
| `sat` | `MCSatPipeline`, `SatTwo` | types, `InputIsRead`, `LineGraphIsRight`, `ReductionIsRight`, `AnswerIsWritten`, `Returns` | BA files of every graph of 4 vertices without a lone one and one of 5, five formulas as DIMACS files, with remarks, cut off and broken; a signal anywhere |
| `syrup` | `MCSyrup`, `Syrup` | types, `RoomIsReclaimed`, `AnswerIsRight`, `ImplementsFifo`, `ThreadsEnd` | three threads at a ring of 12 integers; two threads and every formula of two variables |
| `simp` | `MCSimpSolver`, `SimpFive` | types (`StructureOK`), `ClausesAreImplied`, `PropagationComplete`, `ImplementsSatisfiability` | formulas of up to five variables, alone and with clauses from others; one restart (`MaxStarts`), one removal (`MaxRemoved`) |
| `dfs_found` | `MCDepthFirst`, `DFSFound` | finds `FoundIsColouring` violated | graphs of 7 vertices whose root is a cut vertex |
| `pdf_race` | `MCParallelDepthFirst`, `PDFRace` | finds `ReturnsColouring` violated | two threads on K4 |
| `crit_answer` | `MCInput`, `CritAnswer` | finds `CriticalityIsAnswered` violated | two objects |
| `sat_interrupt` | `MCSatPipeline`, `SatInterrupt` | finds `InterruptTerminatesVoluntarily` violated | as `sat` |
| `syrup_heard` | `MCSyrup`, `SyrupHeard` | finds `FinishIsHeard` violated | two threads, one variable |

Every run but `simp` has `CHECK_DEADLOCK FALSE`: its programs end and really stop; getting stuck
elsewhere would violate `Halts`, `Returns` or `ThreadsEnd`. `simp` is checked for deadlock; its
answered states go on stuttering by an action of their own. `SyrupHeard` has a ring that is never used.

Why the bounds are enough. The two searches are deterministic once the graph is chosen, so the
graphs are what matters: ten vertices is the smallest size with a cubic graph without a colouring,
one with a bridge and one without; every permutation and every option is tried and undone at
several levels of nesting. `MaxDepth` is above the number of vertices, the deepest the search gets
before it repeats a vertex for ever. Two threads give two finders, a late one and an early one, and each
gets three permutations, so that undone searches are followed by others. A triangle of five vertices has ten bits, which is two
characters with padding; the headers are checked apart from their graphs, at 62, 63, 258047 and
258048. Four vertices give six edges that touch in every way. The ring holds two clauses and a part, of two
lengths, so that it wraps at every position and must remove. Five variables are what it takes for
a learnt clause with a literal that minimisation can drop, beside variables that are
eliminated; one removal and one restart put a collection, a promotion or a lost
watch between any two other steps.

Fairness. The searches run in one thread that blocks nowhere: `WF_vars(Next)`, and `WF` for each OpenMP thread,
which the system schedules. In `SatPipeline` the process runs on as long as it can (`WF_vars(Step)`); a signal need not come. In
`ParallelSolver` the thread never waits, so it takes steps until it has answered. In `Syrup` each
thread is scheduled and a search ends (`SF` of `Answer`: it does not restart and learn for ever, which
the growing restart intervals of the code are for); a spurious wake-up has no fairness.

### What the runs show

- The breadth-first search keeps its maps and its list right through all backtracking, and says
  "not colourable" only of graphs that are not. It never says "colourable": a vertex with nothing
  left to colour stays on the list and calls the search on itself (661), until the stack overflows.
  The source has "TODO - not working" at 479.
- The depth-first search is right on the connected cubic graphs. When the root is a cut vertex,
  a part that was coloured before another part failed keeps its colours, because `undo` (628)
  resets the root's edges only; the next permutation is painted over what is left (`dfs_found`).
- Where a vertex has fewer than three edges, three colours may be free for an edge, and the search gives up after two
  (459). It then may return 0 for a graph that can be coloured, although the comment at 458 says "it has no sense to continue":
  `GivingUpAssumption` of `MCDepthFirst`, which TLC evaluates in `dfs_found`, has such a graph, `OpenEnds`. So `NotFoundIsRight` of the
  sequential search is about cubic graphs; the graphs that `testCriticality` makes are not cubic, and nothing is said of a 0 for them.
- Two OpenMP threads that both pass the test of `flag` copy their colourings into `graphColors`
  at the same time; it gets cells of both (`pdf_race`). With one finder it is right, also when a late thread has
  copied in a part of the result: `SoleFinderPublishes` asks of the others only that they have found nothing (`HasFound`).
- `testCriticality` reads fields that `result.result = 0` never lets be set (`crit_answer`).
- The reader of matrix files stays inside its array, and so does that of graph6 lines for two vertices or more.
  Of a line for no vertex or one it stores every bit behind the header outside (91 and 93, `OldGraph.cpp` 527 and 529): the test that
  ends the loop (96) never holds, and a carriage return is enough. `StoreInside` says both, and the run `input` has such lines.
- The readers yield the graph that is in the file; rows missing at the end of a matrix file are accepted, and their cells stay
  unset.
- The models of the formula are exactly the proper colourings, the file holds the right answer
  after every exit that has one, and a signal while `doSATSolve3COL` solves follows a null
  pointer (`sat_interrupt`), where the comment announces a voluntary end.
- A DIMACS line without a 0 ends in `"outOfMemory"`; a file that cannot be opened, or a BA file that ends
  too early, is read for ever: `Returns` is about complete files, and no property is about these loops.
- The ring loses, doubles and reorders nothing, and gives room back at once. The answer of the
  threads is right whatever they tell each other; but when all have signalled before main
  waits, main waits for ever (`syrup_heard`), until a spurious wake-up.
- The solver's clauses are implied, its propagation overlooks nothing at any point where it is
  said to be complete, and its answers and models are right through elimination, garbage
  collection, imports and interrupts.

## Proofs

`tlapm` checks every proof. The assumptions are the named ones of the modules, which TLC evaluates on
the instances; a theorem that needs more says so in its statement, as a condition on the input.

| module | theorems | for all |
|---|---|---|
| `BFSColouriser_proofs` | `SpecTypeOK`, `SpecMapsConsistent`, `SpecPopsCurrentVertex`, `SpecNeverSucceeds`, `SpecColouredAssigned`, `SpecFrontierListed`, `SpecNotColourableIsRight` | cubic graphs, roots and stack sizes |
| `DepthFirst_proofs` | `SpecTypeOK`, `SpecTrailColoured`, `SpecEdgesKept`, `SpecFrontHasValue` | graphs with at most three edges a vertex, roots |
| | `SpecConsistent`, `SpecUndoneCompletely` | of these, those with `RootIsNoCut` |
| | `SpecFoundIsColouring` | of these, those with `JoinedToRoot` |
| | `SpecNotFoundIsRight` | the first of these lines, where the property is about cubic graphs |
| `ParallelDepthFirst_proofs` | `SpecNobodyWrites` | graphs and numbers of threads |
| | `SpecTypeOK`, `SpecEverySearchIsClean`, `SpecSettledOnReturn`, `SpecSoleFinderPublishes` | of these, graphs that are `Searchable` |
| | `SpecNoneSkipped` (`NotFoundIsRight`) | of these, graphs with `FailureIsRight` |
| | `SpecNotFoundIsRight` | cubic graphs with `JoinedToRoot`, numbers of threads |
| | `SearchesAreRight`: `SearchIsRight` | graphs that are `Searchable` |
| | `FailuresAreRight`: `FailureIsRight` | cubic graphs |
| `Input_proofs` | `SpecStoreInside`, `SpecTypesOK`, `SpecGraphIsMatrix`, `SpecEveryPairRemoved`, `SpecReadAsWritten` | files, lines that begin with the header of a size (`LinesAssumption`, `SizesAssumption`) and have anything behind it, sizes that an int holds, objects that hold a graph (`ObjectsAssumption`) |
| `SatPipeline_proofs` | `SpecAnswerIsWritten`, `SpecTypeOK` | files, with signals anywhere |
| | `SpecLineGraphIsRight`, `SpecFormulaIsRight`, `SpecReductionIsRight` | graphs with `SimpleEdges` |
| | `ModelsAreSatisfying` | finite formulas |
| `Syrup_proofs` | `RingIsFifo` (`ImplementsFifo`), `RoomIsAlwaysReclaimed`, `BufferTypesAreRight` | numbers of threads, sizes of the ring, clauses that fit in it |
| | `SpecAnswerIsRight` | formulas and numbers of threads |
| | `SpecTypesOK` | all of these together |

`Searchable(g)`: a graph with at most three edges a vertex, `RootIsNoCut` and `JoinedToRoot`, which
are explained below.

*Breadth first.* Painting an edge with a colour free at both ends keeps a colouring proper and the
table in step (`PaintConsistent`), so `MapsConsistent` is inductive with `TypeOK`: a call puts the
current maps into a frame, an option copies them back, and only `PaintEdge` changes them. The
next three rest on an invariant of the work list: the list a call was given has its vertex at
the back and no vertex twice; the walk adds at its front only; and a vertex whose call has
free colours has an uncoloured edge (`FreeHasUncoloured`). So the walk assigns `coloured`, the list is
not empty at 717, and no call returns true.

`FrontierListed` speaks of the innermost maps only, which `Backtrack` and `AfterCall` replace by older
ones. `WInv` says it of the maps and the list of every active call, with the converse that a vertex on
the list has a coloured edge: without that, the vertex a call is made for could have three
colours free, of which the loop tries only some.

*"Not colourable" is right.* `NotColourableIsRight` says that there is no colouring, so the proof takes any full proper
colouring `F` and follows it through the search (`VInv`). One of the six permutations that are still to come or
being tried is what `F` has at the root (`RootFits`). Of a call that was given a part of `F` (`Ext`), an
option that has not been given up agrees with `F` at the call's vertex (`Untried`): a vertex with a coloured edge
has two free colours at most, and the loop tries them in both orders. While the option tried agrees
with `F` (`OnPath`), the maps below are a part of `F`, too; the walk then never finds a colour refused,
and the nested call cannot return false. So `pc = "done"` is out of reach when an `F` exists. Nothing here
needs a bound on the graph, and the induction is over steps, not over the recursion.

*Depth first.* `TrailColoured` is not inductive: when a call gives up it puts back its copy of the
matrix, and nothing in `TrailColoured` says what is in that copy. The invariant `IInv` therefore
speaks of the copies (`Trail`): what an outer copy has coloured every inner copy and the matrix
have in the same colour, and every inner copy has the edge of each outer call coloured.
`TrailPush`, `TrailPop` and `TrailTop` carry this through a call, a return and the next step of a
scan. `RootPhase` bounds `actColor` by the edges of the root that were passed, and `CallsPhase`
counts the stack against the calls that are left.

`Consistent`, `UndoneCompletely` and `FoundIsColouring` are false for some inputs: `dfs_found` has a root that is a cut vertex.
The theorems say for which they are true. `RootIsNoCut(g)`: a set of vertices without the root that is closed under
edges and has one neighbour of the root has all of them. It holds of every
bridgeless cubic graph. `JoinedToRoot(g)`: every edge
is reached from the root. `RootAssumptions` of `MCDepthFirst` has TLC evaluate both on the graphs of the runs. The reason is in `CInv`: the first of the three calls at the root colours everything, or
leaves the matrix as it was given. When it succeeds, no coloured edge ends at a vertex that has an uncoloured one
(`NoneOpen`), so by `RootIsNoCut` nothing is left for the other two, and they succeed at once; no second call
can fail after a first succeeded, which is the case where `undo` leaves colours behind. `Copies` carries the
soundness of matrix and table through the copies.

`NotFoundIsRight` follows a proper colouring `F` of all edges through the search, as above, but a call tries
two colours only, and a call whose first edge succeeded and whose second fails does not go back to the first.
What makes this right is a third layer on top of the two (`CubicInv`). A call is `Hopeful` if, whenever some colouring completes the matrix
it was given, either one completes what it has got to, or its own vertex has no uncoloured edge left; so it does not return 0. `Awaits` says what it hands on to the call it
waits for: on the second attempt a matrix that can be completed, on the first one that a colouring completes but perhaps for the edge being tried. On a cubic graph a vertex that is reached over a coloured edge has
two edges and two colours left, so the second attempt is the only other way to colour its first edge.
That a first edge which succeeded need not be tried again rests on parity. What has been touched since a call began and is not
finished belongs to a call made since (`Closed`); so when the nested call returns 1, either it has come back to the
vertex by another edge, and everything there is coloured, or the part it coloured is closed but for the one edge that leads into it. The second is
impossible if the colour of that edge leads to no colouring (`CameBack`): the vertices of the part could not be paired off both by the edges of that colour
now and by those of a colouring that has another colour there.
For the root the same count says that
a colourable cubic graph has no cut vertex there (`ColouredRootIsNoCut`), so that the second layer
applies. Each colouring has one of the six permutations at the root, and a permutation
that has failed is at the root of no colouring.

*OpenMP.* The stores of a finder come in the order `found`, `flag`, `finderId`: as long as `found`
is 0 nobody is between them (`NothingFound`), and when it is 1 a finder is named or about to be
(`FinderComes`). At the barrier nobody is, which is what `NobodyWrites` rests on.

The other five follow from `TeamInv`. A late thread may copy a half-written matrix in (`Copying`), and what makes that harmless is
order: `flag` is up before the first cell of a result is written (`FlagUp`), and a thread tests `flag` after its
copy. So a thread that begins a search has read all its cells before any was written (`Searching`). With one finder the
cells written are those of one colouring (`Copied`, `Published`), and with `flag` down every permutation a thread has
passed was searched and failed (`Tried`); the shares of the threads cover all six (`SpecNoneSkipped`).

What one search computes alone is `SearchesAreRight`. `Search` is a recursive function, and that a recursive
definition has a solution at all is the first thing to prove: each call has fewer edges without a colour than the one that
made it, so a function that is right for all smaller numbers of such edges extends to the next, and the
least number for which there were none is out of reach (`LeastOf`). The same induction carries
what a search promises: matrix and table stay sound, a call that returns 1 has completed both ends of whatever got a
colour, and one that returns 0 gives back what it was given. From there the argument is the one of the sequential search: the first of the three calls
colours everything or nothing, so `undo` of the root's row is enough. `FailuresAreRight` is the parity argument
again, over outcomes in place of steps. It is for cubic graphs; of others TLC evaluates `FailureIsRight`, for every
graph of the runs (`SearchAssumption`, which has it evaluate `Searchable` and `SearchIsRight`, too).

*Readers.* `j <= graphSize` and, unless the matrix has no rows, `i < graphSize`; in the
triangle `i <= border = j - 1` and, if `size > 1`, `j < size`, because the last cell ends the loop. A `size` of 0 or 1 has no last
cell, and `j`, which begins at 1, is outside from the start: `StoreInside` says of graph6 that the cell is inside exactly when `size > 1`. `GraphIsMatrix` ties the bit
that is read next to the cell that is written next, `bitsRead = j(j-1)/2 + i`, column by column; then each edge is made once, in the order of the rows, and has its ends as each other's
neighbours. `EveryPairRemoved` counts pairs passed against the vector. `TypesOK` needs both.

*Read as written.* The place of a character of a matrix file is the number of line ends before it and, of the digits before it in its line,
the number. `TextRead` says that `i` and `j` are these two for the next character (`AtPlace`; behind the
last digit of a row that is wanted, the place is past the matrix) and that the digits passed are in their cells;
two digits never have the same place (`PlacesDiffer`), so a cell that was read is not overwritten. The rows whose end is skipped and the characters behind the last
row have no cell. The header of a graph6 line is a number to base 64: three or six digits, folded from the left, give back the number they were divided out of
(`MiddleDigits`, `LargeDigits`), the first of three digits is below 63 so that the reader tells
the two forms, and the length that is erased, which goes by the size, is that of the header.

*Driver.* The answer is not in the file when it is known: `AnswerFits` ties it to the formula,
`BufferFits` the buffer to it, and `NothingYet` says that nothing is in the file or returned
before the end, so that a signal at any point can only change what is returned.

*Line graph.* `LineInv` says what the nested loop has made of the pairs of edges compared so far: an edge is in the
output exactly if it comes from such a pair that meets, and a vertex has the neighbours it met. Each pair comes
twice, and the second is not added, as `MkEdge` orders its ends. `SimpleEdges` is what the reader
yields of a graph whose file has no edge twice (checked as part of `InputIsRead`); of an edge that is there twice
the code makes two vertices that it does not join.

*Formula.* `FormulaInv` says which clauses the solver has: those of the vertices before `at`, then those of the edges and
colours before `(at, colour)`. It counts them, too, for which the number of a vertex and a colour must tell both
(`NumbersDiffer`) and no clause be that of two vertices or of two edges (`ClausesDiffer`,
`EdgeClauses`). A valuation of exactly these variables then satisfies the five clauses of a vertex if it gives it one
colour (`OneColour`) and the three of an edge if its ends differ (`NotBoth`); with `LineGraphIsRight` these are
the proper colourings of the edges. `Satisfying` is the definition of satisfaction; the runs use the recursive
`Models`, which branches on one variable after the other, clauses of one literal first. `ModelsAreSatisfying` says that it finds the same
valuations: it has a solution because a branch has fewer variables, and its value is right for a formula if it is for
the two that a literal leaves. `ModelsAssumption` of `MCSatPipeline` only has TLC evaluate that for some formulas.

*Types of the SAT pipeline.* `TypeOK` says that an edge which is looked up is found, and that a literal is of a variable made before. The words of a line
are folded into what the scanner knows (`ScanIs`), so every number the reader gets is one of the file; edges come in with the smaller end first and
their places ascend (`Ascending`), so `getEdgePosition` finds each one and numbers stay below the number of variables
(`Numbering`, `Within`).

*Ring.* A position in the array says nothing of how often `first` or `last` has gone round. The proof numbers the
integers from the end that is written to, as `addIndex` takes them modulo `maxsize`. `RingInv`: between `first` and `last` clauses lie without a gap,
each with its size, its thread and the number of threads that have not seen it; each thread stands at the beginning of one of
them or at the end; that number is the number of threads, but for the sender, that still stand at or before the clause; and the clause at the end that is
given back next has not been seen by all. From the last follows `RoomIsReclaimed`. `pendingOf(t)` is then the clauses of others from where
`t` stands, so that `pushClause` appends to all queues but one and a removal takes the oldest from those that have not
seen it: the steps of `ClauseFifo`.

*Syrup.* What is shared, and what a thread that has not answered holds, is true in every model
(`UnitsImplied`, `TrailImplied`), so no model is ruled out by opposite literals and a
thread's answer is that of the formula. The first to finish owns `jobStatus` (`FirstOwnsJob`); it stores
it after the lock, but before its end (`JobComplete`), and main reads it only after the joins. `SpecTypesOK` adds that the list of
shared units has no variable twice, each thread's position in it is within it, and no thread holds a literal and its opposite.

`EdgesKept`, `ColouredAssigned`, `FrontHasValue`, `NobodyWrites` and `FinderIsNamed` are proved
and not properties of a run by themselves (the last two are parts of `SettledOnReturn`).

Only model-checked:

- Liveness (`Halts`, `Returns`, `ThreadsEnd`, the fairness in `Satisfiability`), which this prover does not do.
- `InputIsRead`: it compares the edges with the graph that each concrete BA file of the run was made from, for files
  with remarks, nested braces and line breaks anywhere.
- The run `simp`: `Solver` and the modules that extend it use RECURSIVE operators, about which no theorem can be
  stated, so `ClausesAreImplied`, `PropagationComplete`, `ImplementsSatisfiability` and their types stay with TLC.
- `FailureIsRight` on graphs that are not cubic, where TLC evaluates it for those of the run `pdf`. On others it is false
  (`GivingUpAssumption`), and the sequential search's verdict with it.

Recursive functions are no obstacle as such: the library's induction theorems cannot be used, because they take an operator as a
parameter, but an induction can be done by the least element of the set of failures (`LeastOf` in `SequenceLemmas`), and folds over sequences have lemmas of
their own there (`FoldHasValues`, `FoldStays`).

## Not modelled

- Of `Solver.cc`: activities, the order heap, LBD, `luby` and the restart queues, `adaptSolver` and the other
  heuristics (free choices, as above); assumptions and `analyzeFinal`, the proof output, statistics, budgets. Lists
  are cleaned at once where the code cleans them before their next use.
- Of `SimpSolver.cc`: `use_asymm` and `use_rcheck` (off by default), frozen variables of assumptions, and an
  interrupt in the middle of one `backwardSubsumptionCheck`; it is looked at between eliminations.
- Of `parallel/`: the choice of the number of threads and of their parameters, the memory panic,
  which learnt clauses are worth sending (any may be), the printing. `extendModel`, which runs twice for a model
  of syrup, changes nothing the second time and is applied once. Threads and clauses are
  put together in two abstractions (`Syrup`, `ClausesBuffer`) and one solver that receives (`ParallelSolver`), not in one state space.
- `utils/`, `mtl/` and the stand-alone programs of Glucose, which this program does not call.
- `OldGraph::writeGraphToFile`, `showColoredGraph`'s layout and all printing; `write()` of the BA format,
  whose body is commented out; the mutators of `Graph` nobody calls.
- `BreadthFirst`, `Filter`, `Colouriser`, `BFS_colouring`, `GraphNew`: stubs.
- `count`, `countOfFree` and `countOfMalloc`, which all OpenMP threads increase without a lock and which
  are only printed; `malloc` and `free`.
- What a store behind the end of a matrix overwrites, and what comes of it later: `StoreOutside` lets the program go on unharmed or
  die at once.
- A DIMACS line without a 0 while it is read: the step `NeverEnds` ends when there is no memory left.
- Optimised builds: the OpenMP accesses are taken in program order, as the build (no
  optimisation level) on its processors does.
