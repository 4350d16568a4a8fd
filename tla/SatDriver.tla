----------------------------- MODULE SatDriver -----------------------------
(***************************************************************************)
(* doSATSolve3COL and glucoseSimpFromFile of src/src/SATSolver.cpp: a      *)
(* solver is made, filled, asked and its answer written to a file, while a *)
(* signal may come between any two steps.                                  *)
(*                                                                         *)
(* What the solver answers is not modelled here: it is right, and only a   *)
(* solver that was interrupted may have no answer.                         *)
(***************************************************************************)
EXTENDS SatReduction, DimacsParser, SatReference

VARIABLES
    entry,          \* which of the two functions
    dimacsOption,   \* stop after preprocessing
    solver,         \* the static pointer: "null", "S", or "gone" after its end
    handler,        \* of SIGINT and SIGXCPU: "default", "exit", "interrupt"
    interrupted,    \* asynch_interrupt of S
    res,            \* "none", "open", "closed": the result file
    buffer, disk,   \* what was printed to it, and what of that has arrived
    models,         \* of the formula, once S is filled
    answer,         \* of the solver: "none", "sat", "unsat", "undef"
    exitCode,       \* what was returned, or the status of a dead process
    pc

driver == <<entry, dimacsOption, solver, handler, interrupted, res, buffer, disk, models,
            answer, exitCode, pc>>

Nothing == <<"nothing">>
Unsat   == <<"UNSAT">>

DriverInit ==
    /\ entry \in {"graph", "file"} /\ dimacsOption \in BOOLEAN
    /\ solver = "null" /\ handler = "default" /\ interrupted = FALSE
    /\ res = "none" /\ buffer = Nothing /\ disk = Nothing
    /\ models = {} /\ answer = "none" /\ exitCode = -1
    /\ pc = "idle"

Goto(label) == pc' = label

\* The options are read and S is made; glucoseSimpFromFile publishes it.
MakeSolver ==
    /\ pc = "idle" /\ Goto("made")
    /\ solver' = IF entry = "file" THEN "S" ELSE solver
    /\ UNCHANGED <<entry, dimacsOption, handler, interrupted, res, buffer, disk,
                   models, answer, exitCode>>

SetExitHandlers ==
    /\ pc = "made" /\ Goto("exits")
    /\ handler' = "exit"
    /\ UNCHANGED <<entry, dimacsOption, solver, interrupted, res, buffer, disk,
                   models, answer, exitCode>>

\* fopen(..., "wb"), which may fail.
OpenResult ==
    /\ pc = "exits" /\ Goto("fill")
    /\ res' \in {"none", "open"}
    /\ UNCHANGED <<entry, dimacsOption, solver, handler, interrupted, buffer, disk,
                   models, answer, exitCode>>

\* The reduction or the parser has filled the solver.
Filled ==
    /\ pc = "fill" /\ Goto("filled")
    /\ redPc = "filled" \/ dimacsPc = "parsed"
    /\ models' = Models(clauses)
    /\ UNCHANGED <<entry, dimacsOption, solver, handler, interrupted, res, buffer,
                   disk, answer, exitCode>>

SetInterruptHandlers ==
    /\ pc = "filled" /\ Goto("eliminate")
    /\ handler' = "interrupt"
    /\ UNCHANGED <<entry, dimacsOption, solver, interrupted, res, buffer, disk,
                   models, answer, exitCode>>

\* Print(s) and fclose, if there is a file.
PrintAndClose(s) ==
    IF res = "open" THEN res' = "closed" /\ buffer' = s /\ disk' = s
                    ELSE UNCHANGED <<res, buffer, disk>>

\* After S the pointer of glucoseSimpFromFile points to nothing.
Return(code) ==
    /\ exitCode' = code /\ Goto("returned")
    /\ solver' = IF solver = "S" THEN "gone" ELSE solver

\* Solved by simplification.
EliminatedToUnsat ==
    /\ pc = "eliminate" /\ models = {}
    /\ answer' = "unsat"
    /\ PrintAndClose(Unsat)
    /\ Return(20)
    /\ UNCHANGED <<entry, dimacsOption, handler, interrupted, models>>

\* The formula is written to another file; res stays open.
EliminatedToDimacs ==
    /\ pc = "eliminate" /\ dimacsOption
    /\ Return(0)
    /\ UNCHANGED <<entry, dimacsOption, handler, interrupted, res, buffer, disk,
                   models, answer>>

Eliminated ==
    /\ pc = "eliminate" /\ ~ dimacsOption /\ Goto("solve")
    /\ UNCHANGED <<entry, dimacsOption, solver, handler, interrupted, res, buffer,
                   disk, models, answer, exitCode>>

\* solveLimited
Solve ==
    /\ pc = "solve" /\ Goto("write")
    /\ answer' \in (IF models # {} THEN {"sat"} ELSE {"unsat"})
                     \cup (IF interrupted THEN {"undef"} ELSE {})
    /\ UNCHANGED <<entry, dimacsOption, solver, handler, interrupted, res, buffer,
                   disk, models, exitCode>>

\* Mutant: what is not satisfiable is written as unsatisfiable.
TextForElseUnsat(ans, m) == IF ans = "sat" THEN <<"model", m>> ELSE Unsat

\* What is printed: the literals of the model, UNSAT, or nothing.
TextFor(ans, m) ==
    CASE ans = "sat" -> <<"model", m>> [] ans = "unsat" -> Unsat [] OTHER -> Nothing

\* Any model may have been found; the text is printed, in the buffer until the
\* file is closed.
Write ==
    /\ pc = "write" /\ Goto("close")
    /\ \E m \in IF answer = "sat" THEN models ELSE {{}} :
         buffer' = IF res = "open" THEN TextFor(answer, m) ELSE buffer
    /\ UNCHANGED <<entry, dimacsOption, solver, handler, interrupted, res, disk,
                   models, answer, exitCode>>

CloseResult ==
    /\ pc = "close"
    /\ IF res = "open" THEN res' = "closed" /\ disk' = buffer ELSE UNCHANGED <<res,
                                                                               disk>>
    /\ Return(CASE answer = "sat" -> 10 [] answer = "unsat" -> 20 [] OTHER -> 0)
    /\ UNCHANGED <<entry, dimacsOption, handler, interrupted, buffer, models,
                   answer>>

\* OutOfMemoryException is caught where S has gone; res stays open.
OutOfMemory ==
    /\ pc = "fill" /\ dimacsPc = "outOfMemory"
    /\ Return(0)
    /\ UNCHANGED <<entry, dimacsOption, handler, interrupted, res, buffer, disk,
                   models, answer>>

\* exit(3) of the parser closes all files.
ParserExits ==
    /\ pc = "fill" /\ dimacsPc = "exit3"
    /\ exitCode' = 3 /\ Goto("dead")
    /\ UNCHANGED <<entry, dimacsOption, solver, handler, interrupted, res, buffer,
                   disk, models, answer>>

alive == pc # "dead"

Dies(status) == exitCode' = status /\ Goto("dead") /\ UNCHANGED interrupted

Segfault == 139

\* SIGINT or SIGXCPU: by default it kills; SIGINT_exit prints statistics of
\* *solver and leaves without closing files; SIGINT_interrupt tells *solver to
\* stop.  Both follow the pointer as it is.
Signal ==
    /\ alive
    /\ \/ handler = "default" /\ Dies(130)
       \/ handler = "exit" /\ solver = "S" /\ Dies(1)
       \/ /\ handler = "interrupt" /\ solver = "S"
          /\ interrupted' = TRUE /\ UNCHANGED <<exitCode, pc>>
       \/ handler # "default" /\ solver \in {"null", "gone"} /\ Dies(Segfault)
       \/ handler # "default" /\ solver = "gone" /\ UNCHANGED <<interrupted, exitCode, pc>>
    /\ UNCHANGED <<entry, dimacsOption, solver, handler, res, buffer, disk, models,
                   answer>>

Drive ==
    \/ MakeSolver \/ SetExitHandlers \/ OpenResult \/ Filled \/ SetInterruptHandlers
    \/ EliminatedToUnsat \/ EliminatedToDimacs \/ Eliminated \/ Solve \/ Write \/ CloseResult
    \/ OutOfMemory \/ ParserExits

-----------------------------------------------------------------------------
DriverTypeOK ==
    /\ entry \in {"graph", "file"} /\ dimacsOption \in BOOLEAN
    /\ solver \in {"null", "S", "gone"} /\ handler \in {"default", "exit", "interrupt"}
    /\ interrupted \in BOOLEAN
    /\ res \in {"none", "open", "closed"}
    /\ answer \in {"none", "sat", "unsat", "undef"}
    /\ exitCode \in {-1, 0, 1, 3, 10, 20, 130, Segfault}
    /\ pc \in {"idle", "made", "exits", "fill", "filled", "eliminate", "solve", "write",
               "close", "returned", "dead"}

(***************************************************************************)
(* A return value of 10 or 20 is right, and what has arrived in the result *)
(* file, if it could be opened, is the answer it stands for; without an    *)
(* answer the file is empty, whatever signal came when (233-274).          *)
(***************************************************************************)
AnswerIsWritten ==
    /\ exitCode = 20 => models = {} /\ (res = "none" \/ disk = Unsat)
    /\ exitCode = 10 => /\ models # {}
                        /\ res = "none" \/ \E m \in models : disk = <<"model", m>>
    /\ answer \notin {"sat", "unsat"} => disk = Nothing

(***************************************************************************)
(* "signal-handlers that will only notify the solver and allow it to       *)
(* terminate voluntarily" (218-219 and 432-433): a signal during           *)
(* the search does not end the process.                                    *)
(***************************************************************************)
InterruptTerminatesVoluntarily ==
    [][handler = "interrupt" /\ pc = "solve" => exitCode' # Segfault]_driver
=============================================================================
