--------------------------- MODULE MCRunningProgram ---------------------------
(* Small instances of RunningProgram for TLC. *)
EXTENDS RunningProgramDB, TLC

CONSTANTS a, b

\* One primary key for all values.
OneKey == {1}
SameKey == [v \in Value |-> 1]

\* A primary key of its own for each of two values.
TwoKeys == {1, 2}
OwnKey == [v \in Value |-> IF v = a THEN 1 ELSE 2]

\* A mutator that changes a to b and fails on b.
AtoB == {[v \in Value |-> IF v = a THEN b ELSE None]}

\* No mutators, and one that fails on every value.
NoMutator == {}
Failing == {[v \in Value |-> None]}

\* The keys are spread over the workers.
MCOwner == [k \in Key |-> (k - 1) % N]
=============================================================================
