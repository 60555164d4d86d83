--------------------------- MODULE TransactionalDB ---------------------------
(***************************************************************************)
(* What a running DDlog program promises its client: transactions that are *)
(* committed or rolled back as a whole, one at a time, and queries that    *)
(* see committed data only.                                                *)
(***************************************************************************)
EXTENDS Integers

CONSTANTS
    RelId,          \* relations
    Value,          \* values
    Key,            \* their keys
    KeyOf,          \* the key of a value
    None            \* no key: a query for all values

VARIABLES
    phase,          \* "idle", "active", "committing" or "rolling"
    committed,      \* contents of the relations at the last commit
    working,        \* contents of the relations as the transaction sees them
    answer          \* values of the query that is returning, or None

vars == <<phase, committed, working, answer>>

Collection == [RelId -> [Value -> Int]]

Init ==
    /\ phase = "idle"
    /\ committed = [r \in RelId |-> [v \in Value |-> 0]]
    /\ working = committed
    /\ answer = None

Begin ==
    /\ phase = "idle"
    /\ phase' = "active"
    /\ UNCHANGED <<committed, working, answer>>

Write ==
    /\ phase = "active"
    /\ working' \in Collection
    /\ UNCHANGED <<phase, committed, answer>>

AskCommit ==
    /\ phase = "active"
    /\ phase' = "committing"
    /\ UNCHANGED <<committed, working, answer>>

Commit ==
    /\ phase = "committing"
    /\ phase' = "idle"
    /\ committed' = working
    /\ UNCHANGED <<working, answer>>

AskRollback ==
    /\ phase = "active"
    /\ phase' = "rolling"
    /\ working' = committed
    /\ UNCHANGED <<committed, answer>>

Rollback ==
    /\ phase = "rolling"
    /\ phase' = "idle"
    /\ UNCHANGED <<committed, working, answer>>

Query(r, k) ==
    /\ phase \in {"idle", "active"}
    /\ answer' = {v \in Value : k \in {None, KeyOf[v]} /\ committed[r][v] # 0}
    /\ UNCHANGED <<phase, committed, working>>

Answered ==
    /\ answer' = None
    /\ UNCHANGED <<phase, committed, working>>

Next ==
    \/ Begin \/ Write \/ AskCommit \/ Commit \/ AskRollback \/ Rollback
    \/ \E r \in RelId, k \in Key \cup {None} : Query(r, k)
    \/ Answered

Spec == Init /\ [][Next]_vars
=============================================================================
