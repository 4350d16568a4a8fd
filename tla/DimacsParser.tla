---------------------------- MODULE DimacsParser ----------------------------
(***************************************************************************)
(* parseDimacs, readClause and parseInt of src/src/SATSolver.cpp: a text   *)
(* file with a formula goes to the solver, one line a step.  A line is a   *)
(* sequence of words; a word is a number or one of the marks below.        *)
(***************************************************************************)
EXTENDS SolverInput, Sequences, SequencesExt

CONSTANT DimacsFiles

P == 1001           \* 'p'
Cnf == 1002         \* 'cnf'
C == 1003           \* 'c'
NoNumber == 1004    \* any other word that is not a number

Marks == {P, Cnf, C, NoNumber}

ASSUME DimacsFilesAssumption == \A f \in DimacsFiles : f \in Seq(Seq(Int))

VARIABLES
    dimacsFile,
    opened,         \* the stream could be opened
    lineNumber,
    header,         \* vars and clauses
    clauseCount,    \* cnt
    dimacsPc

dimacs == <<dimacsFile, opened, lineNumber, header, clauseCount, dimacsPc>>

DimacsInit ==
    /\ dimacsFile \in DimacsFiles /\ opened \in BOOLEAN
    /\ lineNumber = 0 /\ header = <<0, 0>> /\ clauseCount = 0
    /\ dimacsPc = "idle"

CallParseDimacs ==
    /\ dimacsPc = "idle"
    /\ dimacsPc' = "parse"
    /\ UNCHANGED <<dimacsFile, opened, lineNumber, header, clauseCount, solverInput>>

dimacsLine == dimacsFile[lineNumber + 1]

\* An empty line is left like a comment.
firstWord == IF dimacsLine = <<>> THEN C ELSE dimacsLine[1]

parsing == dimacsPc = "parse" /\ opened /\ lineNumber < Len(dimacsFile)

SkipDimacsLine ==
    /\ parsing /\ firstWord = C
    /\ lineNumber' = lineNumber + 1
    /\ UNCHANGED <<dimacsFile, opened, header, clauseCount, dimacsPc, solverInput>>

\* A number that cannot be read is 0.
Header ==
    /\ parsing /\ firstWord = P
    /\ IF Len(dimacsLine) > 1 /\ dimacsLine[2] = Cnf
         THEN /\ header' = [n \in 1..2 |-> IF Len(dimacsLine) > n + 1 /\ dimacsLine[n + 2] \notin Marks
                                             THEN dimacsLine[n + 2] ELSE 0]
              /\ lineNumber' = lineNumber + 1
              /\ UNCHANGED dimacsPc
         ELSE dimacsPc' = "exit3" /\ UNCHANGED <<header, lineNumber>>
    /\ UNCHANGED <<dimacsFile, opened, clauseCount, solverInput>>

\* What readClause looks at: the words up to the first 0 or the first that is
\* no number.
UpToEnd(words) ==
    LET n == SelectInSeq(words, LAMBDA w : w = 0 \/ w \in Marks)
    IN  IF n = 0 THEN words ELSE SubSeq(words, 1, n)

\* Mutant: the words behind the 0 go into the clause too.
LiteralsOfAll(words) == {w \in Range(words) : w # 0}

LiteralsOf(words) == {w \in Range(UpToEnd(words)) : w # 0}

\* A line with a clause, which a 0 ends.
ReadClause ==
    /\ parsing /\ firstWord \notin {P, C}
    /\ Last(UpToEnd(dimacsLine)) = 0
    /\ LET lits == LiteralsOf(dimacsLine)
       IN  AddClauses({lits}, IF lits = {} THEN -1 ELSE Max({VarIndex(l) : l \in lits}))
    /\ clauseCount' = clauseCount + 1
    /\ lineNumber' = lineNumber + 1
    /\ UNCHANGED <<dimacsFile, opened, header, dimacsPc>>

\* A word that is no number ends the process.
ReadWord ==
    /\ parsing /\ firstWord \notin {P, C}
    /\ Last(UpToEnd(dimacsLine)) \in Marks
    /\ dimacsPc' = "exit3"
    /\ UNCHANGED <<dimacsFile, opened, lineNumber, header, clauseCount, solverInput>>

\* Without a 0 the last word is pushed for ever: reading fails and leaves it as
\* it is.  It ends when there is no memory for another one.
NeverEnds ==
    /\ parsing /\ firstWord \notin {P, C}
    /\ Last(UpToEnd(dimacsLine)) \notin Marks \cup {0}
    /\ dimacsPc' = "outOfMemory"
    /\ UNCHANGED <<dimacsFile, opened, lineNumber, header, clauseCount, solverInput>>

\* eof; the numbers of the header are compared with what was read.
DimacsDone ==
    /\ dimacsPc = "parse" /\ opened /\ lineNumber = Len(dimacsFile)
    /\ dimacsPc' = "parsed"
    /\ UNCHANGED <<dimacsFile, opened, lineNumber, header, clauseCount, solverInput>>

\* A stream that could not be opened has failed but is not at its end.
ReadNothing ==
    /\ dimacsPc = "parse" /\ ~ opened
    /\ UNCHANGED <<dimacs, solverInput>>

ParseDimacs ==
    \/ SkipDimacsLine \/ Header \/ ReadClause \/ ReadWord \/ NeverEnds
    \/ DimacsDone \/ ReadNothing

-----------------------------------------------------------------------------
DimacsTypeOK ==
    /\ dimacsFile \in DimacsFiles /\ opened \in BOOLEAN
    /\ lineNumber \in 0..Len(dimacsFile)
    /\ header \in Seq(Int) /\ Len(header) = 2
    /\ clauseCount \in 0..lineNumber
    /\ dimacsPc \in {"idle", "parse", "parsed", "exit3", "outOfMemory"}
=============================================================================
