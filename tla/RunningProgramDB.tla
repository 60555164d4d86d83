--------------------------- MODULE RunningProgramDB ---------------------------
(***************************************************************************)
(* RunningProgram implements TransactionalDB: the refinement mapping.  It  *)
(* is the promise to clients that send one update per call of apply_updates*)
(* (MaxBatch = 1): a batch of one update fails without a change, whereas a *)
(* longer batch may be aborted after some of its changes (see lost).       *)
(***************************************************************************)
EXTENDS RunningProgram

\* What the program has committed to relation r.  It does not store a stream.
Committed(r) ==
    CASE transaction_in_progress -> IF kind[r] = "Stream" THEN base[r] ELSE snapshot[r]
      [] OTHER -> IF kind[r] = "Stream" THEN trace[r] ELSE AllContents[r]

\* The contents of relation r as the client has left them.
Current(r) ==
    IF kind[r] = "Stream"
    THEN [v \in Value |-> Committed(r)[v] + delta[r][v]]
    ELSE AllContents[r]

RollingBack == call \in {"rollback", "undo", "undo_flush", "undone"}

\* The phase of the transaction, as its client sees it.
Phase ==
    CASE call = "commit" -> "committing"
      [] RollingBack -> "rolling"
      [] OTHER -> IF transaction_in_progress THEN "active" ELSE "idle"

AllCommitted == [r \in RelId |-> Committed(r)]

\* A rollback gives up what the transaction has done when it is called.
Working == [r \in RelId |-> IF RollingBack THEN Committed(r) ELSE Current(r)]

\* The answer of a query, once every worker has sent its part.
QueryResult == IF Flushed("query") /\ ~query.unknown THEN query.res ELSE None

DB == INSTANCE TransactionalDB WITH
        phase <- Phase, committed <- AllCommitted, working <- Working, answer <- QueryResult

\* The program implements the abstract database: commit and rollback are atomic, a rollback
\* ends with the contents the transaction started from, and a query answers with
\* committed values only (transaction_commit, transaction_rollback, _query_arrangement).
ImplementsDB == DB!Spec
=============================================================================
