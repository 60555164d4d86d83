--------------------------- MODULE CommandRecorder ---------------------------
(***************************************************************************)
(* Recording the calls of a client in a command file (HDDlog::record_      *)
(* command and dump_input_snapshot in api/mod.rs, CommandRecorder in       *)
(* replay.rs), and replaying the file through the CLI (handle_cmd in       *)
(* src/main.rs).                                                           *)
(*                                                                         *)
(* The calls that take dynamically typed arguments (the ones of the C API) *)
(* are built on the typed ones, and both record.                           *)
(*                                                                         *)
(* A program is reduced to its client side with one relation, and there is *)
(* one client.  A rollback does what RunningProgramProofs proves of it: it *)
(* restores the relation.  The text of a command is abstracted to its      *)
(* meaning.                                                                *)
(***************************************************************************)
EXTENDS InputRelation, SequencesExt

CONSTANTS
    Dynamic,        \* the client uses apply_updates_dynamic and its like
    MaxCalls,       \* bound: calls of the client
    MaxBatch        \* bound: updates in one call

ASSUME RecorderAssumption ==
    /\ Dynamic \in BOOLEAN
    /\ MaxCalls \in Nat
    /\ MaxBatch \in Nat \ {0}

VARIABLES
    live,           \* the program that is recorded
    calls,          \* calls made
    file,           \* commands recorded and not replayed yet
    copy,           \* the program of the CLI
    upds,           \* updates the CLI has read and not applied yet
    cli,            \* the CLI goes on, or has ended with an error
    stopped         \* history: the program after the first recorded call that failed, if any

vars == <<live, calls, file, copy, upds, cli, stopped>>

-----------------------------------------------------------------------------
(* A program *)

\* The kind of its relation, elements, delta, transaction_in_progress, and the elements when
\* the transaction in progress started.
NewProgram(kd) ==
    [kind |-> kd, s |-> NoElements(kd), ds |-> EmptyZSet, tip |-> FALSE, saved |-> NoElements(kd)]

\* What a call leaves of a program, and whether it succeeds.
Done(p) == [p |-> p, ok |-> TRUE]
Fail(p) == [p |-> p, ok |-> FALSE]

transaction_start(p) ==
    IF p.tip THEN Fail(p) ELSE Done([p EXCEPT !.tip = TRUE, !.saved = p.s])

\* The transaction ends with the elements s.
Ended(p, s) == [p EXCEPT !.tip = FALSE, !.ds = EmptyZSet, !.s = s, !.saved = NoElements(p.kind)]

transaction_commit(p) == IF p.tip THEN Done(Ended(p, p.s)) ELSE Fail(p)

transaction_rollback(p) == IF p.tip THEN Done(Ended(p, p.saved)) ELSE Fail(p)

\* One update of several: nothing is applied after one that fails.
apply_next(acc, u) ==
    LET res == apply_update(acc.p.kind, acc.p.s, acc.p.ds, u)
    IN  IF acc.ok
        THEN [p |-> [acc.p EXCEPT !.s = res.s, !.ds = res.ds], ok |-> res.ok]
        ELSE acc

apply_updates(p, us) ==
    LET after[i \in 0 .. Len(us)] ==
            IF i = 0 THEN Done(p) ELSE apply_next(after[i - 1], us[i])
    IN  IF p.tip THEN after[Len(us)] ELSE Fail(p)

\* Every element is deleted, and the delta changes by as much.
clear_relation(p) ==
    IF p.tip /\ p.kind # "Stream"
    THEN Done([p EXCEPT !.s = NoElements(p.kind),
                        !.ds = [v \in Value |-> @[v] - Contents(p.kind, p.s)[v]]])
    ELSE Fail(p)

-----------------------------------------------------------------------------
(* Calls and the commands they record *)

Calls ==
    [op : {"start", "commit", "commit dump_changes", "rollback", "clear"}]
        \cup [op : {"apply_updates"}, us : UNION {[1 .. n -> Update] : n \in 1 .. MaxBatch}]

Execute(p, c) ==
    CASE c.op = "start" -> transaction_start(p)
      [] c.op \in {"commit", "commit dump_changes"} -> transaction_commit(p)
      [] c.op = "rollback" -> transaction_rollback(p)
      [] c.op = "clear" -> clear_relation(p)
      [] c.op = "apply_updates" -> apply_updates(p, c.us)

\* Mutant of do_record_updates: no batch ends.
record_without_end(us) == [i \in DOMAIN us |-> [op |-> "update", u |-> us[i], last |-> FALSE]]

\* A comma follows an update, and a semicolon the last one of a batch.
do_record_updates(us) ==
    [i \in DOMAIN us |-> [op |-> "update", u |-> us[i], last |-> i = Len(us)]]

Recorded(c) == IF c.op = "apply_updates" THEN do_record_updates(c.us) ELSE <<c>>

\* The commands a call records: a dynamic call records, and so does the typed one it calls.
record_command(c) ==
    IF Dynamic /\ c.op \in {"apply_updates", "commit dump_changes"}
    THEN Recorded(c) \o Recorded(c)
    ELSE Recorded(c)

\* What a snapshot of the Z-set w writes: the copies of a value, as many as its weight, numbered.
Copies(w) == UNION {{v} \X (1 .. IF w[v] >= 0 THEN w[v] ELSE -w[v]) : v \in Value}

\* The orders they are written in: any order of the values, all copies of a value together.
Orders(w) ==
    {order \in SetToSeqs(Copies(w)) :
        \A i \in DOMAIN order : order[i][2] > 1 =>
            i > 1 /\ order[i - 1] = <<order[i][1], order[i][2] - 1>>}

\* Mutant of Snapshot: every value is written once, whatever its weight.
SnapshotOnce(w, order) ==
    LET once == SelectSeq(order, LAMBDA x : x[2] = 1)
    IN  [i \in DOMAIN once |-> [op |-> "update", u |-> Insert(once[i][1]), last |-> FALSE]]

\* The lines of dump_input_snapshot: insertions of the values of a positive weight and deletions
\* of the ones of a negative weight, all of them followed by a comma.
Snapshot(w, order) ==
    [i \in DOMAIN order |->
        LET v == order[i][1]
        IN  [op |-> "update", u |-> IF w[v] >= 0 THEN Insert(v) ELSE DeleteValue(v), last |-> FALSE]]

-----------------------------------------------------------------------------

Init ==
    /\ \E kd \in Kind : live = NewProgram(kd)
    /\ calls = 0
    /\ file = <<>>
    /\ copy = live
    /\ upds = <<>>
    /\ cli = "running"
    /\ stopped = {}

\* The state of the CLI depends on the commands alone, not on when they are replayed: it is
\* enough that it reads them as they are recorded, and it reads nothing after an error.
MayCall ==
    /\ calls < MaxCalls
    /\ file = <<>>

\* A call of the client: it records its commands, then executes.
invoke(c) ==
    /\ MayCall
    /\ calls' = calls + 1
    /\ file' = IF cli = "failed" THEN <<>> ELSE record_command(c)
    /\ LET res == Execute(live, c)
       IN  /\ live' = res.p
           /\ stopped' = IF stopped = {} /\ ~res.ok THEN {res.p} ELSE stopped
    /\ UNCHANGED <<copy, upds, cli>>

\* Between two transactions, the client goes on to a new file, which begins with a snapshot of
\* the inputs that the client wraps in a transaction (ddlog.h:305-339).  The new file is
\* replayed from the beginning.
dump_input_snapshot ==
    /\ MayCall
    /\ calls' = calls + 1
    /\ live.kind # "Stream"
    /\ ~live.tip
    /\ LET w == Contents(live.kind, live.s)
       IN  \E order \in Orders(w) :
              file' = <<[op |-> "start"]>> \o Snapshot(w, order) \o <<[op |-> "commit"]>>
    /\ copy' = NewProgram(live.kind)
    /\ upds' = <<>>
    /\ cli' = "running"
    /\ stopped' = {}
    /\ UNCHANGED live

\* The CLI reads a command.  Updates are collected until the last of a batch.  Any other
\* command first applies the updates collected, then executes whether or not they have
\* succeeded.  An error ends the CLI, which is not interactive.
handle_cmd ==
    /\ cli = "running"
    /\ file # <<>>
    /\ LET cmd == Head(file)
           us == IF cmd.op = "update" THEN Append(upds, cmd.u) ELSE upds
           apply == us # <<>> /\ (cmd.op = "update" => cmd.last)
           first == IF apply THEN apply_updates(copy, us) ELSE Done(copy)
           second == IF cmd.op = "update" THEN Done(first.p) ELSE Execute(first.p, cmd)
           ok == first.ok /\ second.ok
       IN  /\ copy' = second.p
           /\ upds' = IF apply THEN <<>> ELSE us
           /\ cli' = IF ok THEN "running" ELSE "failed"
           /\ file' = IF ok THEN Tail(file) ELSE <<>>
    /\ UNCHANGED <<live, calls, stopped>>

Next == (\E c \in Calls : invoke(c)) \/ dump_input_snapshot \/ handle_cmd

Spec == Init /\ [][Next]_vars

-----------------------------------------------------------------------------
(* Properties *)

Same(p, q) == p.s = q.s /\ p.ds = q.ds /\ p.tip = q.tip

\* Replaying a file through the CLI brings a new program to the state of the recorded one: "all
\* commands sent to the program are recorded in the specified `.dat` file so that they can be
\* replayed later" (api/mod.rs:48-49), also when the file begins with a snapshot.
ReplayMatches ==
    file = <<>> /\ stopped = {} =>
        /\ cli = "running"
        /\ upds = <<>>
        /\ Same(copy, live)

\* The CLI ends at the first call that failed when it was recorded, and in the same state.
ReplayStops == cli = "failed" => \E p \in stopped : Same(copy, p)
=============================================================================
