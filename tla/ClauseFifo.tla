----------------------------- MODULE ClauseFifo -----------------------------
(***************************************************************************)
(* What the buffer between the threads of glucose-syrup promises: a clause *)
(* that is taken in arrives once at every other thread, in the order of    *)
(* pushing.  Only a buffer that may drop old clauses loses some, and then  *)
(* the oldest.                                                             *)
(***************************************************************************)
EXTENDS Integers, Sequences

CONSTANTS
    Threads,
    Clauses         \* as sequences of literals

VARIABLES
    mayForget,
    pending,        \* for each thread, what it has not received yet
    received        \* and what it has received last

vars == <<mayForget, pending, received>>

Init ==
    /\ mayForget \in BOOLEAN
    /\ pending = [t \in Threads |-> <<>>]
    /\ received = [t \in Threads |-> <<>>]

\* A buffer that may forget drops as many of the oldest as it likes.
Keeps(old, new, allowed) ==
    \E n \in 0..Len(old) : (allowed \/ n = 0) /\ new = SubSeq(old, n + 1, Len(old))

Push(t, c) ==
    /\ LET now   == pending
           after == pending'
       IN  \A u \in Threads :
             IF u = t THEN Keeps(now[u], after[u], mayForget)
             ELSE Keeps(Append(now[u], [origin |-> t, lits |-> c]), after[u], mayForget)
    /\ UNCHANGED <<mayForget, received>>

Get(t) ==
    /\ pending[t] # <<>>
    /\ received' = [received EXCEPT ![t] = <<Head(pending[t])>>]
    /\ pending' = [pending EXCEPT ![t] = Tail(@)]
    /\ UNCHANGED mayForget

Next == \E t \in Threads : Get(t) \/ \E c \in Clauses : Push(t, c)

Spec == Init /\ [][Next]_vars
=============================================================================
