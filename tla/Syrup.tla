------------------------------- MODULE Syrup -------------------------------
(***************************************************************************)
(* src/GlucoseMiniSat/parallel: MultiSolvers::solve, the threads it starts *)
(* (ParallelSolver::solve_) and what they share in SharedCompanion apart   *)
(* from the clauses (ClausesBuffer): the literals some thread has found to *)
(* hold, and whose answer is taken.  A formula is the set of its models;   *)
(* the search of one thread is external: it learns what follows and        *)
(* answers for the formula and the literals it holds.                      *)
(***************************************************************************)
EXTENDS Integers, Sequences, FiniteSets

CONSTANTS nbsolvers, Var, None

Thread     == 0..nbsolvers-1
Assignment == [Var -> BOOLEAN]
Lit        == [var : Var, sign : BOOLEAN]

ASSUME SolversAssumption == nbsolvers \in Nat \ {0}
ASSUME NoneAssumption    == None \notin Thread \cup Assignment
ASSUME VarAssumption     == IsFiniteSet(Var)

VARIABLES
    models,         \* the models of the formula
    unitLit, isUnary, nextUnit, bjobFinished, jobFinishedBy, jobStatus,
    trail,          \* the literals each thread holds at level 0
    status,         \* the answer of each thread
    threadModel,    \* the model each thread has copied
    pc,             \* where each thread is
    signalled,      \* cfinished was signalled while main waited for it
    mainPc, result, model

shared   == <<unitLit, isUnary, nextUnit>>
job      == <<bjobFinished, jobFinishedBy, jobStatus>>
own      == <<trail, status, threadModel>>
main     == <<mainPc, result, model>>
jobVars  == <<models, shared, job, own, pc, signalled, main>>

Holds(m, l) == m[l.var] # l.sign

SyrupInit ==
    /\ models \in SUBSET Assignment
    /\ unitLit = <<>>
    /\ isUnary = [v \in Var |-> FALSE]
    /\ nextUnit = [t \in Thread |-> 0]
    /\ bjobFinished = FALSE /\ jobFinishedBy = None /\ jobStatus = "l_Undef"
    /\ trail = [t \in Thread |-> {}]
    /\ status = [t \in Thread |-> "l_Undef"]
    /\ threadModel = [t \in Thread |-> None]
    /\ pc = [t \in Thread |-> "created"]
    /\ signalled = FALSE
    /\ mainPc = "launch" /\ result = "l_Undef" /\ model = None

Assigned(t, v) == \E l \in trail[t] : l.var = v

-----------------------------------------------------------------------------
\* The loop of solve_ around search: it ends when a thread has answered.
Begin(t) ==
    /\ pc[t] = "loop"
    /\ pc' = [pc EXCEPT ![t] = IF bjobFinished THEN "signal" ELSE "units"]
    /\ UNCHANGED <<models, shared, job, own, signalled, main>>

\* Mutant: the literal of a variable that is assigned goes on the trail, too.
EnqueuedAlways(t, l) == trail[t] \union {l}

Enqueued(t, l) == IF Assigned(t, l.var) THEN trail[t] ELSE trail[t] \union {l}

\* Mutant: the position in the list is not moved.
NextKept(t) == nextUnit[t]

NextTaken(t) == nextUnit[t] + 1

\* SharedCompanion::getUnary and the loop of parallelImportUnaryClauses.
ImportUnit(t) ==
    /\ pc[t] = "units"
    /\ IF nextUnit[t] < Len(unitLit)
         THEN /\ nextUnit' = [nextUnit EXCEPT ![t] = NextTaken(t)]
              /\ trail' = [trail EXCEPT ![t] = Enqueued(t, unitLit[nextUnit[t] + 1])]
              /\ UNCHANGED pc
         ELSE /\ pc' = [pc EXCEPT ![t] = "search"]
              /\ UNCHANGED <<nextUnit, trail>>
    /\ UNCHANGED <<models, unitLit, isUnary, job, status, threadModel, signalled, main>>

\* Only the first thread that fixes a variable is heard.
Listed(l) == IF isUnary[l.var] THEN unitLit ELSE Append(unitLit, l)

Consistent(t) == {m \in models : \A l \in trail[t] : Holds(m, l)}

\* search learns a clause of one literal: it goes on the trail and to the
\* others (SharedCompanion::addLearnt).
LearnUnit(t) ==
    /\ pc[t] = "search"
    /\ \E l \in Lit :
         /\ ~Assigned(t, l.var)
         /\ \A m \in Consistent(t) : Holds(m, l)
         /\ trail' = [trail EXCEPT ![t] = @ \union {l}]
         /\ unitLit' = Listed(l)
         /\ isUnary' = [isUnary EXCEPT ![l.var] = TRUE]
    /\ pc' = [pc EXCEPT ![t] = "units"]
    /\ UNCHANGED <<models, nextUnit, job, status, threadModel, signalled, main>>

\* search returns: at a restart, at a conflict after somebody has answered, or
\* with the answer.
Restart(t) ==
    /\ pc[t] = "search"
    /\ pc' = [pc EXCEPT ![t] = "loop"]
    /\ UNCHANGED <<models, shared, job, own, signalled, main>>

Answer(t) ==
    /\ pc[t] = "search"
    /\ IF Consistent(t) = {}
         THEN /\ status' = [status EXCEPT ![t] = "l_False"]
              /\ UNCHANGED trail
         ELSE \E m \in Consistent(t) :
                /\ trail' = [trail EXCEPT ![t] = {[var |-> v, sign |-> ~m[v]] : v \in Var}]
                /\ status' = [status EXCEPT ![t] = "l_True"]
    /\ pc' = [pc EXCEPT ![t] = "finish"]
    /\ UNCHANGED <<models, shared, job, threadModel, signalled, main>>

\* SharedCompanion::IFinished
IFinished(t) ==
    /\ pc[t] = "finish"
    /\ IF bjobFinished
         THEN pc' = [pc EXCEPT ![t] = "signal"] /\ UNCHANGED job
         ELSE /\ pc' = [pc EXCEPT ![t] = "first"]
              /\ bjobFinished' = TRUE /\ jobFinishedBy' = t
              /\ UNCHANGED jobStatus
    /\ UNCHANGED <<models, shared, own, signalled, main>>

\* The status is stored after the mutex is given back, then the model copied.
SetStatus(t) ==
    /\ pc[t] = "first"
    /\ jobStatus' = status[t]
    /\ pc' = [pc EXCEPT ![t] = IF status[t] = "l_True" THEN "copy" ELSE "signal"]
    /\ UNCHANGED <<models, shared, bjobFinished, jobFinishedBy, own, signalled, main>>

CopyModel(t) ==
    /\ pc[t] = "copy"
    /\ threadModel' = [threadModel EXCEPT ![t] =
                         [v \in Var |-> \E l \in trail[t] : l.var = v /\ ~l.sign]]
    /\ pc' = [pc EXCEPT ![t] = "signal"]
    /\ UNCHANGED <<models, shared, job, trail, status, signalled, main>>

\* pthread_cond_signal without a mutex: lost unless main waits right now.
SignalFinished(t) ==
    /\ pc[t] = "signal"
    /\ pc' = [pc EXCEPT ![t] = "ended"]
    /\ signalled' = (signalled \/ mainPc = "waiting")
    /\ UNCHANGED <<models, shared, job, own, main>>

ThreadNext(t) ==
    \/ Begin(t) \/ ImportUnit(t) \/ LearnUnit(t) \/ Restart(t) \/ Answer(t)
    \/ IFinished(t) \/ SetStatus(t) \/ CopyModel(t) \/ SignalFinished(t)

-----------------------------------------------------------------------------
Launch ==
    /\ mainPc = "launch"
    /\ \E t \in Thread :
         /\ pc[t] = "created" /\ \A u \in Thread : u < t => pc[u] # "created"
         /\ pc' = [pc EXCEPT ![t] = "loop"]
         /\ mainPc' = IF t = nbsolvers - 1 THEN "wait" ELSE "launch"
    /\ UNCHANGED <<models, shared, job, own, signalled, result, model>>

\* pthread_cond_timedwait
Wait ==
    /\ mainPc = "wait"
    /\ mainPc' = "waiting" /\ signalled' = FALSE
    /\ UNCHANGED <<models, shared, job, own, pc, result, model>>

\* Five seconds have passed: main prints its statistics and waits again.
TimeOut ==
    /\ mainPc = "waiting" /\ ~signalled
    /\ mainPc' = "wait"
    /\ UNCHANGED <<models, shared, job, own, pc, signalled, result, model>>

\* The wait ends by a signal, or for no reason, as POSIX allows.
WakeUp ==
    /\ mainPc = "waiting"
    /\ mainPc' = "join"
    /\ UNCHANGED <<models, shared, job, own, pc, signalled, result, model>>

\* Mutant: main does not join the threads.
AllJoinedAtOnce == TRUE

AllJoined == \A t \in Thread : pc[t] = "ended"

Result ==
    /\ mainPc = "join" /\ AllJoined
    /\ result' = jobStatus
    /\ model' = IF jobStatus = "l_True" THEN threadModel[jobFinishedBy] ELSE None
    /\ mainPc' = "returned"
    /\ UNCHANGED <<models, shared, job, own, pc, signalled>>

MainNext == Launch \/ Wait \/ TimeOut \/ WakeUp \/ Result

SyrupNext == MainNext \/ \E t \in Thread : ThreadNext(t)

SyrupSpec == SyrupInit /\ [][SyrupNext]_jobVars

Signalled == WakeUp /\ signalled

\* A search ends: a thread does not restart and learn for ever.
SyrupFairness ==
    /\ \A t \in Thread : WF_jobVars(ThreadNext(t)) /\ SF_jobVars(Answer(t))
    /\ WF_jobVars(Launch) /\ WF_jobVars(Wait) /\ WF_jobVars(TimeOut)
    /\ WF_jobVars(Signalled) /\ WF_jobVars(Result)

-----------------------------------------------------------------------------
Statuses == {"l_Undef", "l_True", "l_False"}

SyrupTypeOK ==
    /\ models \subseteq Assignment
    /\ unitLit \in Seq(Lit) /\ Len(unitLit) <= Cardinality(Var)
    /\ isUnary = [v \in Var |-> \E n \in DOMAIN unitLit : unitLit[n].var = v]
    /\ \A t \in Thread : nextUnit[t] \in 0..Len(unitLit)
    /\ jobFinishedBy \in Thread \union {None} /\ (jobFinishedBy = None) = ~bjobFinished
    /\ jobStatus \in Statuses /\ result \in Statuses
    /\ \A t \in Thread : /\ trail[t] \subseteq Lit
                         /\ \A l1, l2 \in trail[t] : l1.var = l2.var => l1 = l2
                         /\ status[t] \in Statuses
                         /\ threadModel[t] \in Assignment \union {None}
    /\ model \in Assignment \union {None}

(***************************************************************************)
(* Whatever the threads tell each other, also when they find opposite      *)
(* literals ("there can be a contradiction here", ParallelSolver.cc 393),  *)
(* and whenever main wakes up: its result is the right one and its model   *)
(* is one (MultiSolvers.cc 675-689).                                       *)
(***************************************************************************)
AnswerIsRight ==
    mainPc = "returned" => IF models = {} THEN result = "l_False"
                           ELSE result = "l_True" /\ model \in models

(***************************************************************************)
(* Every thread comes to an end, so that main's joins do (675-677).        *)
(***************************************************************************)
ThreadsEnd == mainPc # "idle" => \A t \in Thread : <>(pc[t] = "ended")

(***************************************************************************)
(* main hears of the end: cfinished "says that a thread has finished"      *)
(* (MultiSolvers.h 164).                                                   *)
(***************************************************************************)
FinishIsHeard == bjobFinished ~> (mainPc = "returned")
=============================================================================
