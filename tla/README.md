# A TLA+ model of the DDlog runtime

DDlog compiles a Datalog program to a Rust crate that runs it incrementally. This directory
models the runtime that every compiled program shares (`rust/template`): input relations and
their transactions, the protocol between the client object and the timely workers, the dataflow
that computes the rules, the API object that client threads share with its update handler, the
recording and replay of commands, the conversion of records to typed values, the C interface and
the OVSDB adapter. It holds TLA+ modules, TLC configurations that check them on small instances,
and TLAPS proofs that hold for every number of workers, relations and values.

Paths below are relative to the repository root; `mod.rs` without a directory is
`rust/template/differential_datalog/src/program/mod.rs`.

## The system

| Component | State | Operations | Hard because |
|---|---|---|---|
| Input relations (`mod.rs`, `program/update.rs`) | `elements` and `delta` of each relation, in four kinds: stream, multiset, flat set, set indexed by a primary key | insert, insert-or-update, delete by value or key, modify, undo, clear | the delta must stay exact through cancelling updates; undo is by value and comes out of a hash map; updates fail |
| Running program (`RunningProgram` in `mod.rs`) | `transaction_in_progress`, `need_to_flush`, `timestamp`, `worker_round_robbin`, the channels to the workers | transactions, batches, clear, queries, stop | a batch may fail halfway; rollback is flush, undo, flush; replies carry no identifier |
| Timely workers (`program/worker.rs`) | input sessions at an epoch, traces, the last flushed timestamp | initial data, update, flush, query, stop | every worker gets to a request in its own time, and an epoch ends only when all have left it |
| Dataflow (`program/worker.rs`, the rules of `mod.rs`, `program/arrange.rs`, `variable.rs`, `dataflow/`, `render/`) | collections, arrangements, the variables of nested scopes, the Enabled relation | render relations, components, transformers and delayed relations; joins, antijoins, distinct | recursion with deletions, streams that live for one epoch, delayed relations that feed themselves, rendering order |
| HDDlog (`api/mod.rs`) | mutex of the program, `db`, `deltadb`, `command_recorder` | the public API, thread-safe by contract | calls take several locks one after the other, and talk to the handler thread outside them |
| Update handlers (`api/update_handler.rs`, `valmap.rs`) | a channel, a thread, guards of `db` and `deltadb` kept from `before_commit` to `after_commit` | record the changes of a commit, ignore those of a rollback | an asynchronous thread, a barrier, a loop that drains the channel |
| Recorder and CLI (`replay.rs`, `src/main.rs`, `cmd_parser`) | the command file, the updates read and not applied yet | record, snapshot, replay | dynamic calls are built on typed ones; the CLI goes on after failed updates |
| Records and values (`record/`, `ddlog_derive`, conversions of `lib/ddlog_std.rs`, `cmd_parser/parse.rs`) | none; a table and the one of its replay | from and into records, mutate, print, parse | ranges at their ends; text that does not tell kinds apart; mutators of collections that are differences |
| C API (`api/c_api.rs`, second half of `record/mod.rs`, `valmap.rs`) | objects behind raw pointers, their owner, deltas | build records and commands, transactions, deltas, stop | ownership moves in and out of calls, also when they fail |
| OVSDB adapter (`ovsdb/lib.rs`, `src/ovsdb_api.rs`, the rules of `OVSDB/Compile.hs`) | none; a mirror of a server's table | messages to commands, deltas to operations | two message formats, a feedback loop through the server |
| Profiler, libraries, compiler, bindings | — | — | not modelled, see below |

A client calls HDDlog, which locks the program and calls a method of `RunningProgram`. The
method changes relations on the client side, sends the changes in chunks to the workers
(`Msg::Update`), and, to commit or roll back, a `Msg::Flush` to all of them; each worker
advances its sessions, steps the dataflow until its probe has passed the epoch, and answers
`FlushAck`. While the dataflow runs, output changes are reported by callback to the channel of
`ThreadUpdateHandler`, whose thread records them in `db` and `deltadb` if a commit is under way.

What makes each part correct, and what could go wrong in it that a test would hardly reach, is
listed line by line under `hazards` in `PROJECT.json`.

## Modules

| Module | What it is |
|---|---|
| `InputRelation` | one input relation: operators for every update of `mod.rs`, and what a relation means |
| `RunningProgram` | the client object, `N` workers, their channels and the dataflow: the core |
| `TransactionalDB` | what a program promises: atomic transactions, queries of committed data |
| `RunningProgramDB` | the refinement mapping from `RunningProgram` to `TransactionalDB` |
| `HDDlog` | client threads, the API object, callbacks, the handler thread |
| `CommandRecorder` | one recorded session and its replay |
| `ZSets` | collections as functions from records to weights, and the operators on them |
| `Dataflow` | a program's nodes, rules and arrangements evaluated epoch by epoch, for one worker |
| `TestPrograms` | the programs of `differential_datalog_test/lib.rs` as values |
| `Records` | types, values and records; `from_record`, `into_record`, `mutate` |
| `CommandText` | printing and parsing of records and commands, on trees of tokens |
| `RecordStore` | a relation updated with records, its log, and the program that replays it |
| `Ovsdb` | JSON of OVSDB to commands, records to OVSDB operations |
| `OvsdbSync` | the relation of `RecordStore` as the mirror of a table, the server and the control loop |
| `CApi` | the objects of the C interface and their owners, the program and its deltas behind it |
| `MCRunningProgram`, `MCCommandRecorder`, `MCDataflow`, `MCRecordStore`, `MCCApi` | values of the constants for TLC; `MCDataflow` and `MCRecordStore` also reference meanings and samples |
| `InputRelationProofs` | lemmas about updates of one relation |
| `RunningProgramProofs` | proofs about relations, deltas and rollbacks, of the types, and about the channels, epochs and replies of the workers |
| `RunningProgramExact` | proofs that the weight of every value is accounted for, and of the refinement |
| `HDDlogProofs` | proofs about the handler thread and the maps it keeps |
| `CommandRecorderProofs` | proofs about recorded sessions, snapshots and their replay |
| `ZSetsProofs` | folds and sums over finite sets; what the operators of `ZSets` do to weights |
| `DataflowProofs` | proofs about the rendering of programs, the traces of their collections and the operators of rules |
| `CApiProofs` | proofs about the ownership of the objects of the C interface and the changes in them |

Definitions keep the names of the code; `map` in `PROJECT.json` gives the lines of each one.
Definitions marked "Mutant" are used by no specification: each is a plausible bug of the
definition below it, and shows that the property it is listed with can fail.

### InputRelation

A `DeltaSet`, a `ValMSet` and a `ValSet` are total functions from values to counts, with 0 for
an absent value: the code removes an entry when its count reaches 0. An `IndexedValSet` maps
each key to a value or `None`. An update is a function of elements and delta that yields both,
the changes for the workers, and whether it succeeded. `Modify` applies a mutator, a function
that may fail; as in the code, the key of the new value is not computed again.
`delta_undo_updates` is the set of updates that may come next when a delta is undone: hash map
order is free, but all deletions of a relation come before its insertions.

### RunningProgram

`call` is the method that is running. A method that waits for the workers, or that loops over
updates, takes several steps: `apply_updates` one per update, then `apply_updates_send`, which
chunks and deals as the code does with 5000 replaced by `ChunkMin`; a flush one step per
acknowledgement. The methods `insert`, `delete_value` and so on are batches of one update. Calls
that return an error at once (no transaction, unknown relation) change nothing and are left out.
A rollback may take the relations in any order and interleave them, a superset of the orders of
the code. Every reply is checked for its type and an unexpected one ends the method with an
error, as in the code; the property `RepliesMatch` shows that it never happens.

A worker handles one request per step. `handle_flush` advances its sessions, and `flush_ack` is
enabled when the probe has reached its epoch. The dataflow is one action, `step`, marked
external: when every worker has left the open epoch, what was fed in it becomes part of `trace`.
A query reads the worker's own part of `trace`. An index is an arrangement of an input relation;
the rules of a program are in `Dataflow`.

The history variables `snapshot` and `base` keep the contents of the relations and the trace at
the start of the transaction; `lost` sums the changes that failed batches made to relations and
did not send. No guard but those of the bounds reads them. `InFlight` counts the places in the queues
where a change waits.

### HDDlog

The mutexes of the program, `db` and `deltadb` are explicit, and so is every point where a call
of `transaction_commit` or `transaction_commit_dump_changes` holds or does not hold them: the
fresh `deltadb`, `before_commit` outside the program's mutex, the commit, `after_commit` with
its barrier inside it (the temporary guard lives through the `match`), and the `take`. The
program is reduced to the output rows a transaction changes, reported in any order. A rollback
reports its changes and then their reversal. The handler thread is a loop of `recv`, the two
`before_commit`s, the draining loop and `after_commit`; a failed assertion ends it (`"dead"`).
`after_commit` does not wait for a thread that is gone, while any other sender panics: its call does
not go on, and what its panic does to the mutexes it holds is not modelled.
With `Serialised`, clients do not overlap calls that flush; without it, they may.

### CommandRecorder

One client, one relation of any kind. A program is a record of the kind, the contents, the delta
and whether a transaction is open; `live` is the recorded one and `copy` that of the CLI. A call
records what the code records, then executes. The CLI collects updates up to the end of a batch;
any other command first applies what is collected, and is executed even if that failed; an error
ends the CLI. `stopped` has the program that the first failing call left. `dump_input_snapshot`
rotates the log as `ddlog.h` describes: a new file that starts with the snapshot in a transaction,
replayed by a new program. The values of a snapshot are in any order, all copies of a value
together (`Orders`). The CLI's state depends only on the commands it reads, so the model lets it
read them as they are written.

### Dataflow

A collection is its trace: the Z-set it accumulates to in every epoch so far. That is what
differential dataflow promises of its operators, and the one thing taken as external; how the
operators are put together is the code's. `session_dataflow` chooses a program and renders it,
and fails where the code panics on an arrangement or a relation that is not there yet
(`Renders`). A transaction sets the input sessions of an epoch, and each node is then an action:
`render_relation`, `apply_transformer`, and for a component `enter_scc`, any number of
`iterate_scc`, each a step of all variables of the nested scope, and `leave_scc`. A relation is
its input, its delayed sources and its rules, summed up, consolidated or made distinct as
`distinct_output` says; a rule is a chain of transformations of collections and arrangements,
each one an operator of the name it has in `XFormCollection` or `XFormArrangement`. Streams and
`Differentiate` are functions of traces. A `flat_map` gives a set of results for each record: an
iterator that repeats a result, and so multiplies its weight, is not modelled. `WellFormed` and `WellKinded` say what the compiler
guarantees of the programs it declares (`ProgramsAssumption`); what a transformer makes has a node of its own too, as `get_relation`
needs. A delayed relation reads a trace as it was some epochs
ago, joined with `Enabled`, which is the record that `stop` deletes; `drain` is an epoch after
that. `report_changes` passes to the client what changed in output relations.

`TestPrograms` declares nine of the programs of the tests. `MCDataflow` adds three: negation
over a component, two relations that recur through each other and are arranged for use outside,
and a delayed relation that counts modulo 3. `Expected` states what the outputs of each program
mean, without operators of `ZSets`: reachability by paths of bounded length, set differences,
sums over epochs for streams.

### Records, CommandText and RecordStore

A record is one of the kinds of `Record`, a value what its type says: a number, a string (a
sequence of character classes), a sequence, a set, a function, a constructor with arguments.
`from_record`, `into_record` and `mutate` have a case for each impl of the traits and for what
the derive macros generate; integers have their widths, floats are quarters with `NaN` and
`Infinity`. A text is a tree of tokens that keeps what `Display` writes and nothing else. So
`CopyFollows` is about what printing really loses. `RecordStore` has a relation of one struct
type with a primary key; a command is converted, recorded, applied and replayed.

The structs and enums are those that the compiler generates (`Compile.hs:1150-1227`): a struct has
named fields in braces, even when it has none, and a variant has named fields or is a unit variant.
The derive macros also take tuple structs and unit structs, which reject some records that these
accept (`mutator.rs:80-92`, `144-149`); no compiled program has them. Names are those in records,
after `#[ddlog(rename)]`.

### Ovsdb and OvsdbSync

`Ovsdb` translates `cmd_from_row_update` and what it calls, and in the other direction
`record_into_field`, `record_into_row` and the operations. `OvsdbSync` closes the loop. The
server reports its changes as `update` (old and new columns of whole rows) or `update2`
(differences) and the adapter makes commands of them; the rules want any table, the rules that
`ovsdb2ddlog` writes subtract the mirror from it, `dump_delta` makes operations of the
difference, and the server executes them and reports again. Server, rules and client are
external. The client starts over when the server sends what the adapter does not handle
(`FitsUpdate`): integers that are negative, a modified option, or a deleted map entry in
`update2`. The delta that the client passes to `dump_delta` is the latest contents of the three
relations, as `ddlog.h:725` asks; the code asserts that every weight is 1, which the changes of a
single transaction would not satisfy. A name that begins with two underscores is written without
them (`field_name`), although columns with reserved names have lost them before, by `rename`; a
table with such a column is among the instances and excepted where the program writes. `NumberBits` and `UuidBits` scale 64 and 128 down to 8 and 16.

### CApi

`heap` is what the code has allocated, `owned` what the client may use by the comments of
`ddlog.h`. A call frees, takes over and allocates as the code does on success and on each
failure. The program is a set of committed values and one of the open transaction, and its output
changes are Z-sets. The assertions on weights in the OVSDB dumps are guards: a client that violates
them ends the process. A client holds one of three roles, so that the states of the roles are added
and not multiplied: objects of one role never meet those of another in a call.

## Runs

| Run | Instance | Result |
|---|---|---|
| `transactions` | 2 workers, 1 relation of each kind, 2 values under one key, a mutator, batches of 2, 2 transactions, `ChunkMin` 1 | pass: `TypeOK`, `DeltaExact`, `DataflowExact`, `UndoSucceeds`, `RelationsRestored`, `DataflowRestored`, `CommitComplete`, `OneOpenEpoch`, `RepliesMatch`, `EnabledWhileRunning` |
| `queries` | 2 workers that own one key each, batches of 1 | pass: `QueryIsolation`, and the refinement `ImplementsDB` |
| `relations` | 2 relations of all pairs of kinds, 1 value, 1 transaction with a failing mutator, fairness | pass: `DataflowExact`, `RelationsRestored`, `OutputsOnlyInFlush`, `Returns` |
| `abort_rollback` | 1 worker, batches of 2 | `RollbackRestoresDataflow` violated |
| `modify_key` | a mutator that changes the key | `UndoSucceeds` violated |
| `handler` | 2 threads, 2 output rows, 2 transactions, `Serialised`, fairness | pass: `TypeOK`, `DumpCommitted`, `ChangesExact`, `HandlerAlternates`, `CallsReturn` |
| `concurrent_commit` | the same, not serialised | `CallsReturn` violated |
| `replay` | 5 calls, batches of 2, 2 values under one key, typed API | pass: `ReplayMatches`, `ReplayStops` |
| `replay_dynamic` | the same, dynamic API | `ReplayMatches` violated |
| `dataflow` | 12 programs, 2 updates per transaction, 2 or 3 transactions, 4 epochs after stop, fairness | pass: `TypeOK`, `OutputsExact`, `NoNegativeWeight`, `RendersWellOrdered`, `ConvergesInTime`, `DrainsInTime`, `StreamsForget`, `EvaluationEnds` |
| `records` | a field of 16 types, with records that fit and records that do not; 8 OVSDB tables, 2 uuids | pass: `TypeOK`, `CopyFollows`, `DifferencesApply`, `ServersAgree` |
| `capi` | 3 roles, 3 objects at once, 1 value shown in 2 tables, 1 file | pass: `TypeOK`, `NothingDangles`, `ChangesConserved`, `SuccessLeaksNothing` |

Run one with `tlc -config transactions.cfg MCRunningProgram` (module names are in
`PROJECT.json`).

**Bounds.** `MaxEpoch` limits the timestamp at which a transaction may start: 2 lets a committed
transaction be followed by another that changes, cancels or rolls back its values.  `MaxBatch` 2
is the least with which a batch fails after a success, with which two values of one key swap in
a transaction, and, with `ChunkMin` 1 and two changes per replacement, with which a batch makes
more chunks than there are workers. `MaxWeight` 1 gives multisets counts -1, 0 and 1, so that
the undo goes through both signs; deltas go to 2. `MaxQueue` limits the requests that pile up
before a new batch, not those that a batch adds. `MaxAborted` allows one failed batch per
behaviour to drop changes, which keeps `lost` finite. In `HDDlog`, two transactions are enough
for the recorded changes of one to be confused with those of another, and two threads for every
overlap of two calls. Five recorded calls hold a transaction with updates, a snapshot and a
further transaction.

In `dataflow`, two updates per transaction are enough for an edge to replace another in one epoch
and for a cycle to lose its support, and a third transaction, in the programs with few records,
for a record to be inserted, deleted and inserted again past a delay. `DrainBound` 4 is twice
the longest delay. The graph has three vertices with a cycle and a chord, and `ConvergesInTime`
bounds the iterations by the number of facts; the width of the iteration counter, 16 bits by
default, is not modelled.

In `records`, the samples of a type are the ends of its range, the neighbours outside, and
one record of each wrong kind that the code treats differently; the table has two keys and one
key out of range. The uuids 7 and 400 are one that fits a JSON number of 8 bits and one that does
not, as are the references 5 and 300. In `capi`, three handles hold two deltas and the one split
from them, or an array with two changes; `MaxWeight` 1 lets weights cancel.

**Fairness.** `RunningProgram!Fairness` is weak fairness of the steps a method takes once called,
of every worker and of the dataflow: operating-system threads are scheduled, and timely makes
progress when all inputs advance. Nothing forces a client to make a call or to go on with a
batch's iterator, so `Returns` also covers a caller that ends its batch: leaving the loop is one
of the steps of `Continue`. `HDDlog!FairSpec` is weak fairness of clients inside a call, of the
handler thread and of the callbacks. Mutexes are only ever contended in `handler` by calls that
hold them for one step, so weak fairness is enough. `Dataflow!Fairness` is weak fairness of the
evaluation and of what follows stop (workers step as long as there is work), written out with
the condition under which these are enabled. Nothing makes a client commit or stop.

**Deadlock** is checked in all passing runs except `replay`, where a client simply stops calling,
and `capi`, where a client may end with the program stopped and a command it can only leak;
a stopped program stutters (`Stopped`, `Finished`).

## What the violated runs show

1. `abort_rollback`. `apply_updates` returns at the first failing update and drops the changes it
   has collected, but the relations and deltas already contain them. A rollback then sends the
   workers the reversal of changes they never had, and the dataflow keeps negative weights.
   `ddlog.h` recommends the rollback for exactly this case. The other properties account for
   this through `lost`, and hold.
2. `modify_key`. A `Modify` whose mutator changes a field of the primary key leaves the value
   under its old key; rolling back deletes by the new key and fails, with the transaction still
   open. The theorems assume mutators that keep the key (`KeyPreserving`).
3. `concurrent_commit`. Two threads that commit at once both send `BeforeCommit` before either
   has the program's mutex. The handler thread locks `deltadb` twice and hangs, and so do both.
4. `replay_dynamic`. `apply_updates_dynamic` and `transaction_commit_dump_changes_dynamic` record
   and call typed methods that record again: the replay applies updates twice or fails.

The same cause as in 3 lets a commit that waits for another thread's rollback record the changes
of the rollback in `db`; the run `handler` is therefore about serialised clients.

Other disagreements are visible in the code, and the models have them as the code does:

- `HDDlog::new` sets `db` to `Some` whatever `do_store` is, so `dump_table` returns an empty table
  where `ddlog.h` says that it fails without `do_store`.
- `ddlog_apply_updates` frees commands as an iterator over its array is pulled. Unless commands are
  recorded, it is never pulled without an open transaction, and after a failing update not any
  further (`Pulled`); the rest of the commands are leaked, where `ddlog.h:467-469` says that all are
  consumed whether the call succeeds or fails, and a comment at `api/mod.rs:392` that the iteration
  goes to the end for that reason. `SuccessLeaksNothing` is therefore about calls that succeed.
- When the changes of a committed transaction do not convert to a flat buffer, the call returns an
  error and the changes are gone. `ChangesConserved` counts them as missed.
- A query reports the values of negative weight that an aborted batch leaves behind as present
  (`worker.rs:391`), and `QueryIsolation` asks it for every value whose weight is not zero.
- `ddlog_record_commands` returns -1 and closes the new descriptor when another reference to the
  program exists. Only Rust code in the same process could hold one; the model has the error and
  not the descriptor.
- `Record::Serialized` is printed with `#` and parsed with `@`, and control characters are
  printed as escapes that the parser does not know: such a command is recorded and cannot be
  replayed. `CopyFollows` is about logs without them (`clean`).
- `ddlog.h` declares `ddlog_into_ovsdb_delete_str`, and the code exports
  `ddlog_into_osvdb_delete_str`.
- In `update2`, a changed optional column always fails to convert, and the deletion of a map entry
  carries the old value, so that the mutator keeps the entry. Negative integers are rejected when
  they are read and when they are written. A reference whose uuid fits 64 bits is written as a
  number, and a column without the two underscores that its name begins with. `ServersAgree` excepts
  these, and each exception is needed.

## Proofs

Checked by TLAPS for every value of the constants, bounds included. The named assumptions of the
modules say what the constants must satisfy: `ValueAssumption` and `ProgramAssumption` (at least
one worker and one relation, chunks of at least one update, an owner for every key),
`HDDlogAssumption` (`None` is no thread and no map of rows), `HandlesAssumption` and
`TablesAssumption` (a bound on the objects of each role, finitely many tables),
`ProgramsAssumption` (every relation has a node of its own or is in one recursive component, and
operators are given the kind of arrangement they take). Three hypotheses are stated in the theorems, because without them they are
false: `KeyPreserving`, mutators keep the primary key (`modify_key`), `Serialised`, clients do not
overlap calls that flush (`concurrent_commit`), and `~Dynamic`, sessions are recorded through the
typed interface (`replay_dynamic`).

| Module | Theorem | Statement |
|---|---|---|
| `RunningProgramProofs` | `DeltaIsExact` | `Spec => []DeltaExact`: a delta is the difference from the start of the transaction |
| | `UndoAlwaysSucceeds` | `Spec => []UndoSucceeds`: no update of a rollback or a clear fails |
| | `RollbackRestoresRelations` | `Spec => []RelationsRestored`: a completed rollback has restored the relations |
| | `TypeCorrectness` | `Spec => []TypeOK` |
| | `EpochsAgree` | `Spec => []OneOpenEpoch`: every queued message fits the open epoch |
| | `RepliesInOrder` | `Spec => []RepliesMatch`: a method reads replies to its own request only |
| | `EnabledOnce` | `Spec => []EnabledWhileRunning`: the leader inserts and deletes the record once |
| | `OutputsStable` | `Spec => OutputsOnlyInFlush`: outputs change only in a flush |
| | `QueriesIsolated` | `Spec => []QueryIsolation`: a query sees the committed state of all workers |
| `RunningProgramExact` | `NothingLost` | `Spec => []DataflowExact`: chunking and dealing lose and duplicate nothing |
| | `CommitIsComplete` | `Spec => []CommitComplete`: a commit returns when all is processed |
| | `RollbackIsComplete` | `Spec => []DataflowRestored`: a rollback restores the dataflow too |
| | `Refinement` | `Spec /\ []NothingDropped => ImplementsDB` |
| | `SingleUpdates` | `MaxBatch = 1` gives `Spec => ImplementsDB` |
| `HDDlogProofs` | `TypesHold` | `Spec => []TypeOK`, also for clients that are not serialised |
| | `GuardsAlternate` | `Spec => []HandlerAlternates`: the handler thread never waits for itself |
| | `DumpsAreCommitted` | `Spec => []DumpCommitted`: a dump is the state of a commit |
| | `ChangesAreExact` | `Spec => []ChangesExact`: the changes returned are those of the commit |
| `CApiProofs` | `NoDanglingPointer` | `Spec => []NothingDangles` |
| | `NoLeakOnSuccess` | `Spec => SuccessLeaksNothing` |
| | `TypeCorrect` | `Spec => []TypeOK`: no object reports a change of weight zero |
| | `NothingLost` | `Spec => []ChangesConserved`: the changes given out add up to the output tables |
| `CommandRecorderProofs` | `ReplayFaithful` | `Spec => []ReplayMatches`: a replayed file gives the recorded program |
| | `ReplayStopsAtFailure` | `Spec => []ReplayStops`: the CLI ends only where a recorded call failed |
| `DataflowProofs` | `RenderingIsComplete` | `Spec => []RendersWellOrdered`: rendering panics exactly on programs out of order |
| | `TracesComplete` | `Spec => []TypeOK`: a collection has a value for every epoch |
| | `ArrangementsAgree` | an arrangement is the same in a nested scope and at the top level |
| | `StreamJoinForgets` | an epoch without streamed changes leaves the result of a stream join alone |
| `ZSetsProofs` | `DistinctExact` | `diff_distinct(z) = Threshold(z)` for every Z-set |
| | `NegationExact` | `antijoin_arranged` leaves exactly the entries without a match |

`Invariance`, `ProtocolInvariance`, `ExactInvariance`, `QuietBetween`, `ControlInvariance`,
`MapsInvariance`, `OwnershipInvariance` and `AccountInvariance` state the inductive invariants
below.

**Relations (`IInv`).** That an undo never fails depends on where the transaction started: to
insert a value again under its key, the key must be free, which holds because the values that now
have positive counts have been deleted first, and because the contents at the start held at most
one value per key. So `IInv` says, together: every relation is sound, which for an indexed one
means that each value is under its own key (`RelationsSound`); relations change only in a
transaction (`InTransaction`); the snapshot is the contents of a sound relation
(`SnapshotSound`); contents are snapshot plus delta (`DeltaMatches`); and a rollback has still to
undo exactly what is left in the delta (`UndoMatches`). `InputRelationProofs` proves the facts
about one relation: every update of every kind keeps it sound and changes contents and delta by
the same amount (`ApplyUpdate`), and an update of `delta_undo_updates` succeeds and moves its
count towards 0 (`UndoUpdate`). `RunningProgramProofs` lifts them to the program, action by
action. The second part of the module adds the types of messages, chunks and the dataflow; the work
there is that chunking takes no slice out of range and dealing no chunk beyond the last.

**Protocol (`PInv`).** A reply carries no identifier and a worker checks no epoch, so that
everything depends on what the channels may hold while a method runs. While a method waits for a
flush, each worker is before it (chunks of the old epoch, then the `Flush`), in it, or after it
(one `FlushAck`, and the dataflow has closed the epoch), and the workers whose answer has been
read are idle (`FlushPhase`); a query and the joining of stopped workers have phases of the same
kind (`QueryPhase`, `StopPhase`). When the client waits for nobody, queues hold chunks of the
current epoch only (`QuietPhase`), and none once `need_to_flush` is down (`OpenPhase`).
`EnabledPhase` and `BasePhase` follow the record of Enabled and the trace through these phases.
`PInv` needs `IInv` in one place: a rollback whose undo could fail would leave its phases.

**Weights (`EInv`).** The contents of a relation are the sum of its weights in the trace, the open
epoch, the queues, the call in progress and `lost`. The weight in the queues is a difference of
two cardinalities, of the places (worker, message, position) where an insertion or a deletion of
the value is queued, so that no fold is needed. That sending keeps the sum is a bijection
between positions of the collected updates and places in chunks (`ChunkedOnce`), and one between
chunks and messages dealt round robin (`DealtOnce`); taking a message from a queue removes the
places of its first message and shifts the others (`TakenPlaces`).

**Refinement.** Unless changes were dropped, the mapping of `RunningProgramDB`, which is stated in
terms of what the client stores, can be stated in terms of the dataflow alone (`MappingAgrees`):
what is committed is `base` in a transaction and `trace` outside one, and what the client works
on is that plus the delta. This rests on `EInv`, and on the fact that outside transactions
nothing is on its way to the dataflow (`Started`). Each action is then a step of
`TransactionalDB` or changes none of its variables (`Simulation`). The hypothesis
`NothingDropped` is what `abort_rollback` violates; with one update per call it always holds.
The abstract query takes any key, also one that no value has, as a client's query may.

**Handler (`CInv`, `VInv`).** `CInv` is about control: at most one client is inside a call that
flushes, it holds the program's mutex where the code does, callbacks are sent only in its flush,
and from the messages left in the channel and the place of the handler thread one can tell which
guards the thread holds (`ChannelForm`, `HandlerForm`). `VInv` is about values: while a commit is
under way the change of each output row is still with the workers, or in exactly one message of
the channel, or applied to `db` and to `deltadb`, and messages of a rollback reach no map.

**C interface (`DInv`).** Every handle that the client owns is allocated; the records of an array of
changes are allocated, belong to this array only, are not owned one by one and hold nothing
themselves. Each call is shown to keep this and to leave nothing that is unreachable unless it
reports an error (`Safe`), by way of what it frees: whole arrays or nothing of them (`Whole`).

**Changes given out (`CInv` of `CApiProofs`).** Every delta, flat buffer and array of updates is a
finite Z-set; and for every row, the weight that the client missed or threw away plus the weights
in the objects that count is the weight that the committed tables show (`Balance`). A call that
splits, merges, copies or clears a delta moves weight between two handles and `missed`, and the
sum over all handles changes by what these change by (`SumChange`); a commit adds the difference
of the tables before and after it. `ChangesConserved` says the same with `Concatenate` over the
objects, which `ConcatenateWeights` takes apart record by record.

**Replay (`IInv` of `CommandRecorderProofs`).** When the CLI has read all there is, its program is
`live`. In between, the rest of the file is the end of what one call recorded, or the end of a
snapshot (`Replaying`): the CLI has collected a prefix of the batch, and applying it from where
`copy` is has the result that the call had. For a snapshot, the collected insertions and deletions
rebuild the contents: each order of the copies leads an empty relation of any kind through
contents that are the number of copies read so far, none of the updates fails because the contents
are those of a sound relation, and the commit leaves an empty delta.

**Dataflow.** `RendersExactly` goes through what a rule can refer to. An arrangement of an earlier
node is global when a later node uses it, also one of a recursive component (`BuiltEarlier`), and
what is global comes from an earlier node (`BuiltBy`); an arrangement of the rule's own component
is built inside. So lookups fail exactly for references out of order. `LInv` says how many epochs
each collection covers while the nodes of an epoch are evaluated one after the other: all of them
if its node, or a transformer that makes it, has been evaluated, and one less before that.

**Folds and recursive functions.** The library's induction theorems have operators as parameters,
which the provers cannot instantiate. Induction is replaced by the least counterexample
(`LeastNat`, `SmallestSubset`): there is a function that satisfies the equation of the recursion
(`FoldExists`, `ProgressExists`, `AccumulatesExists`), and every one has the property in question,
because the smallest argument at which it had not would follow from the one before. A sum over a
set does not depend on the order in which the fold takes the elements (`SumTakes`).

`IInv`, `PInv`, `EInv`, `CInv`, `VInv`, `DInv` and `LInv` were each checked by TLC, on the instances of
the runs, before they were proved.

**Only model-checked**, and why:

- `Returns`, `CallsReturn`, `EvaluationEnds`: liveness under fairness is out of the prover's
  reach. So is `ENABLED`, and with it the absence of deadlock.
- `RecordStore`, `OvsdbSync` and what they use: conversions, printing and parsing are `RECURSIVE`
  operators on trees, with which the provers cannot work.
- `OutputsExact`, `NoNegativeWeight`, `ConvergesInTime`, `DrainsInTime` and `StreamsForget` compare
  chains of operators with the meaning of twelve given programs. The theorems of `ZSetsProofs` and
  `DataflowProofs` are about single operators of any program; a fixpoint of a chain is not among
  them.

## Not modelled

- A worker thread that panics: what it leaves behind depends on how timely unwinds.
- Several threads that record at once; overflow of weights (2^31 copies of a value).
- Several workers in `Dataflow`: records are exchanged between workers by timely, and the
  operators do not depend on where a record is. The protocol of several workers is in
  `RunningProgram`.
- The memory layout of `DDValue`, the profiler, name tables, configuration and logging.
- The functions of the libraries (collections, allocation, interning), the compiler, and the
  language bindings.

The reasons are with the components in `PROJECT.json`.

## Plan

Done: the core (`InputRelation`, `RunningProgram`), its abstract specification and refinement,
`HDDlog`, `CommandRecorder`, the dataflow and its rules, records and their text, the C interface,
the OVSDB adapter with its control loop; the proofs of the safety properties of the running
program, of its refinement, of the handler for serialised clients, of ownership and conservation
in the C interface, of recording and replay, of rendering and of single operators. Next, in order
of importance:

1. Proofs: that a collection computed anew in each epoch agrees with itself on earlier epochs, for
   every chain of operators, and from that that the reported changes add up to the collections.
2. Worker failure and the stop protocol: workers that die, the shared reply senders of
   `Program::run`, errors of `send` and `recv`, `stop` after an error.
3. Several threads that record, and the order of the file against the order of execution.
4. The allocation library against its specification; the interning tables and their reference
   counts; checked weights with a small width.
