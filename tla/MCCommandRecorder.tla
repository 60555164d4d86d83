-------------------------- MODULE MCCommandRecorder --------------------------
(* Small instances of CommandRecorder for TLC: two values with one primary key. *)
EXTENDS CommandRecorder

CONSTANTS a, b

OneKey == {1}
SameKey == [v \in Value |-> 1]

\* A mutator that changes a to b and fails on b.
AtoB == {[v \in Value |-> IF v = a THEN b ELSE None]}
=============================================================================
