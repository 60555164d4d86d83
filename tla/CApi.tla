-------------------------------- MODULE CApi --------------------------------
(***************************************************************************)
(* The C interface: the objects that it hands to C programs as raw           *)
(* pointers, who owns them, and what its calls do to the program behind it   *)
(* (api/c_api.rs and the second half of record/mod.rs).                      *)
(*                                                                         *)
(* A handle is a pointer.  heap says what the code has allocated there, and  *)
(* owned which handles the client may use, and must give back, by the        *)
(* comments of ddlog.h.  The client respects them.  It is one thread that    *)
(* makes one call at a time, and holds one role: it builds records, updates  *)
(* the program with commands, or collects changes.                          *)
(*                                                                         *)
(* The program has one input relation with a primary key, whose values are   *)
(* their own keys, and output tables that show some of its values.           *)
(***************************************************************************)
EXTENDS ZSets

CONSTANTS
  Roles,         \* roles of the client: a subset of {"records", "updates", "deltas"}
  MaxHandles,    \* how many objects can be allocated at once, for each role
  MaxWeight,     \* bound on the weights of changes that the client adds up
  Vals,          \* values of the input relation
  NotAValue,     \* what a record stands for that does not convert to a value
  Tables,        \* output tables
  Shows(_),      \* the tables that show a value
  Fds,           \* file descriptors that the client has open
  NoFd           \* -1

VARIABLES
  role,      \* the role of the client
  heap,      \* for each allocated handle, the object there
  owned,     \* the handles that belong to the client
  prog,      \* the program: the handle of the client is valid while it is not stopped
  missed,    \* the changes that the client was not given or has thrown away
  ret        \* 0, or -1 when the last call reported an error or returned NULL

vars == <<role, heap, owned, prog, missed, ret>>

ASSUME RolesAssumption == Roles \subseteq {"records", "updates", "deltas"}
ASSUME ValsAssumption == NotAValue \notin Vals /\ NoFd \notin Fds
ASSUME HandlesAssumption == MaxHandles \in [Roles -> Nat]
ASSUME TablesAssumption == IsFiniteSet(Tables)

----------------------------------------------------------------------------
(* Objects and handles. *)

Rec(kind, val) == [is |-> "record", kind |-> kind, val |-> val]
Cmd(op, val, fits) == [is |-> "cmd", op |-> op, val |-> val, fits |-> fits]
Str == [is |-> "string"]
\* A DeltaMap.  counts says whether its changes are the only account of them.
Delta(z, counts) == [is |-> "delta", z |-> z, counts |-> counts]
Flatbuf(z, counts) == [is |-> "flatbuf", z |-> z, counts |-> counts]
\* An array of changes and the records that it points to.
Updates(z, recs) == [is |-> "updates", z |-> z, counts |-> TRUE, recs |-> recs]

Handles == 1 .. MaxHandles[role]
Allocated == DOMAIN heap
FreeHandles == Handles \ Allocated
NewHandle == Min(FreeHandles)

Owned(is) == {h \in owned : heap[h].is = is}
Records == Owned("record")

\* Box::from_raw of some handles, then Box::into_raw of at most one new object.
Release(S) == [h \in Allocated \ S |-> heap[h]]
With(f, h, obj) == [g \in DOMAIN f \cup {h} |-> IF g = h THEN obj ELSE f[g]]
HandleFor(f) == Min(Handles \ DOMAIN f)

\* A call that frees some objects, takes others from the client and returns a new one.
Returns(freed, taken, obj) ==
  /\ Handles \ DOMAIN Release(freed) # {}
  /\ heap' = With(Release(freed), HandleFor(Release(freed)), obj)
  /\ owned' = (owned \ taken) \cup {HandleFor(Release(freed))}
  /\ ret' = 0

\* A call that returns no object.
Done(freed, taken, code) ==
  /\ heap' = Release(freed)
  /\ owned' = owned \ taken
  /\ ret' = code

OnlyHeap == UNCHANGED <<role, prog, missed>>

----------------------------------------------------------------------------
(* Records. *)

\* ddlog_bool, ddlog_u64 and the like, which cannot fail.
ddlog_scalar(val) == Returns({}, {}, Rec("scalar", val)) /\ OnlyHeap

\* A record of a string, or NULL unless it is valid UTF8.  No record of text is a value.
TextRecord(valid) ==
  /\ IF valid THEN Returns({}, {}, Rec("scalar", NotAValue)) ELSE Done({}, {}, -1)
  /\ OnlyHeap

ddlog_string(valid) == TextRecord(valid)
\* An empty string is valid even as a NULL pointer.
ddlog_string_with_length(empty, valid) == TextRecord(empty \/ valid)
\* The name of the format is looked at first.
ddlog_serialized(format, valid) == TextRecord(format /\ valid)
ddlog_serialized_with_length(format, empty, valid) == TextRecord(format /\ (empty \/ valid))

\* ffi_record_vec moves the fields out of their boxes, and into the new record.
Moves(kind, fields) == Returns(fields, fields, Rec(kind, NotAValue)) /\ OnlyHeap

ddlog_tuple(fields) == Moves("tuple", fields)
ddlog_vector(fields) == Moves("vector", fields)
ddlog_set(fields) == Moves("set", fields)
ddlog_map(fields) == Moves("map", fields)

\* Mutant: the second component is copied and not freed.
pair_copying_second(v1, v2) == Returns({v1}, {v1, v2}, Rec("tuple", NotAValue)) /\ OnlyHeap

ddlog_pair(v1, v2) == Returns({v1, v2}, {v1, v2}, Rec("tuple", NotAValue)) /\ OnlyHeap

\* The pushed records are consumed even when the other one is no collection of that kind.
Consumes(coll, recs) == coll \in Records \ recs /\ Done(recs, recs, 0) /\ OnlyHeap

ddlog_tuple_push(tup, rec) == Consumes(tup, {rec})
ddlog_vector_push(vec, rec) == Consumes(vec, {rec})
ddlog_set_push(set, rec) == Consumes(set, {rec})
ddlog_map_push(map, key, val) == key # val /\ Consumes(map, {key, val})

\* Takes its fields before it looks at the name.
ddlog_struct(fields, valid) ==
  /\ IF valid THEN Returns(fields, fields, Rec("struct", NotAValue)) ELSE Done(fields, fields, -1)
  /\ OnlyHeap

\* Does not touch the fields when the name is NULL.  By ddlog.h it takes them in any case.
ddlog_struct_with_length(fields, name) ==
  /\ CASE name = "valid" -> Returns(fields, fields, Rec("struct", NotAValue))
       [] name = "invalid" -> Done(fields, fields, -1)
       [] name = "null" -> Done({}, fields, -1)
  /\ OnlyHeap

\* The same with a name that is not copied.
ddlog_struct_static_cons(fields, valid) == ddlog_struct(fields, valid)
ddlog_struct_static_cons_with_length(fields, name) == ddlog_struct_with_length(fields, name)

\* Takes the fields one by one, and stops at the first name that is invalid.
ddlog_named_struct(fields, takes, valid) ==
  /\ IF valid THEN takes = fields /\ Returns(fields, fields, Rec("struct", NotAValue))
     ELSE (takes # fields \/ fields = {}) /\ Done(takes, fields, -1)
  /\ OnlyHeap

ddlog_clone(h) == Returns({}, {}, heap[h]) /\ OnlyHeap

ddlog_free(h) == Done({h}, {h}, 0) /\ OnlyHeap

\* A string, or NULL when the call fails.
TextOrNull(ok) ==
  /\ IF ok THEN Returns({}, {}, Str) ELSE Done({}, {}, -1)
  /\ OnlyHeap

\* NULL when the text of the record has a NUL character inside.
ddlog_dump_record(h, nul) == TextOrNull(~nul)

ddlog_string_free(h) == Done({h}, {h}, 0) /\ OnlyHeap

\* The JSON of a change, from a copy of the record, or an error when it does not convert.
ddlog_into_ovsdb_insert_str(h, ok) == TextOrNull(ok)
ddlog_into_osvdb_delete_str(h, ok) == TextOrNull(ok)
ddlog_into_ovsdb_update_str(h, ok) == TextOrNull(ok)

ddlog_free_json(h) == Done({h}, {h}, 0) /\ OnlyHeap

build_collections ==
  \/ \E fields \in SUBSET Records :
       \/ ddlog_tuple(fields) \/ ddlog_vector(fields) \/ ddlog_set(fields) \/ ddlog_map(fields)
       \/ \E valid \in BOOLEAN : ddlog_struct(fields, valid) \/ ddlog_struct_static_cons(fields, valid)
       \/ \E name \in {"valid", "invalid", "null"} :
            \/ ddlog_struct_with_length(fields, name)
            \/ ddlog_struct_static_cons_with_length(fields, name)
       \/ \E takes \in SUBSET fields, valid \in BOOLEAN : ddlog_named_struct(fields, takes, valid)
  \/ \E coll, rec \in Records :
       \/ ddlog_tuple_push(coll, rec) \/ ddlog_vector_push(coll, rec) \/ ddlog_set_push(coll, rec)
       \/ \E val \in Records : ddlog_map_push(coll, rec, val)
  \/ \E v1 \in Records : \E v2 \in Records \ {v1} : ddlog_pair(v1, v2)

build_records ==
  \/ ddlog_scalar(NotAValue)
  \/ \E valid, empty, format \in BOOLEAN :
       \/ ddlog_string(valid) \/ ddlog_string_with_length(empty, valid)
       \/ ddlog_serialized(format, valid) \/ ddlog_serialized_with_length(format, empty, valid)
  \/ build_collections
  \/ \E h \in Records :
       \/ ddlog_clone(h) \/ ddlog_free(h)
       \/ \E ok \in BOOLEAN : \/ ddlog_dump_record(h, ~ok)
                              \/ ddlog_into_ovsdb_insert_str(h, ok)
                              \/ ddlog_into_osvdb_delete_str(h, ok)
                              \/ ddlog_into_ovsdb_update_str(h, ok)
  \/ \E h \in Owned("string") : ddlog_string_free(h) \/ ddlog_free_json(h)

----------------------------------------------------------------------------
(* The program. *)

\* May be called: the client has not stopped the program, and leaves a program alone in
\* which a batch failed halfway, except to stop it (see abort_rollback).
Usable == prog.running /\ ~prog.broken

\* What the output tables show.
Outputs(rel) == {x \in Tables \X Vals : x[2] \in rel /\ x[1] \in Shows(x[2])}
AsZSet(S) == [x \in S |-> 1]
Committed == IF prog.txn THEN prog.start ELSE prog.rel
TxnChanges == Minus(AsZSet(Outputs(prog.rel)), AsZSet(Outputs(prog.start)))

OnlyProgram(code) == ret' = code /\ UNCHANGED <<role, heap, owned, missed>>

ddlog_transaction_start ==
  /\ Usable
  /\ IF prog.txn THEN UNCHANGED prog /\ OnlyProgram(-1)
     ELSE prog' = [prog EXCEPT !.txn = TRUE, !.start = prog.rel] /\ OnlyProgram(0)

ddlog_transaction_rollback ==
  /\ Usable
  /\ IF prog.txn THEN prog' = [prog EXCEPT !.txn = FALSE, !.rel = prog.start] /\ OnlyProgram(0)
     ELSE UNCHANGED prog /\ OnlyProgram(-1)

ddlog_clear_relation ==
  /\ Usable
  /\ IF prog.txn THEN prog' = [prog EXCEPT !.rel = {}] /\ OnlyProgram(0)
     ELSE UNCHANGED prog /\ OnlyProgram(-1)

Failed == {"failed"}     \* no set of values

\* One update of the relation, or Failed.
Updated(rel, c) ==
  CASE c.op = "insert" -> IF c.val \in rel THEN Failed ELSE rel \cup {c.val}
    [] c.op = "insert_or_update" -> rel \cup {c.val}
    [] c.op \in {"delete", "delete_key"} -> IF c.val \in rel THEN rel \ {c.val} ELSE Failed
    [] c.op = "modify" -> IF c.val \in rel /\ c.fits THEN rel ELSE Failed

\* The relation before each of the updates cs and after the last, up to the first failure.
Progress(cs) ==
  LET f[i \in 0..Len(cs)] ==
        IF i = 0 THEN prog.rel
        ELSE IF f[i - 1] = Failed THEN Failed ELSE Updated(f[i - 1], cs[i])
  IN f

Converts(c) == c.val # NotAValue
\* The commands before the first that does not convert are fed to the program.
Fed(cs) == SubSeq(cs, 1, Min({i - 1 : i \in {j \in DOMAIN cs : ~Converts(cs[j])}} \cup {Len(cs)}))
\* The index of the first update that fails, or a larger one.
FirstFailure(cs) ==
  LET f == Progress(cs) IN Min({i \in DOMAIN cs : f[i] = Failed} \cup {Len(cs) + 1})

\* What a batch does to the program.  A failing update leaves the relation changed by
\* the ones before it, and the dataflow without them.
AfterBatch(cs) ==
  LET n == FirstFailure(Fed(cs))
      rel == Progress(Fed(cs))[n - 1]
  IN [prog EXCEPT !.rel = rel, !.broken = n <= Len(Fed(cs)) /\ rel # prog.rel]

BatchOk(cs) == Fed(cs) = cs /\ FirstFailure(cs) > Len(cs)

\* The iterator that frees the commands is pulled to its end, unless there is no
\* transaction, when it is not pulled at all, or an update fails, which stops it there.
\* With a recorder, all the commands are collected first.
Pulled(cs) ==
  IF prog.recorder # NoFd THEN Len(cs)
  ELSE IF ~prog.txn THEN 0
  ELSE IF FirstFailure(Fed(cs)) <= Len(Fed(cs)) THEN FirstFailure(Fed(cs))
  ELSE Len(cs)

Consumed(hs) == {hs[i] : i \in 1 .. Pulled([j \in DOMAIN hs |-> heap[hs[j]]])}

\* Takes all commands of the array, by ddlog.h, whether it succeeds or fails.
ddlog_apply_updates(hs) ==
  LET cs == [i \in DOMAIN hs |-> heap[hs[i]]]
      all == {hs[i] : i \in DOMAIN hs}
  IN /\ Usable
     /\ Done(Consumed(hs), all, IF prog.txn /\ BatchOk(cs) THEN 0 ELSE -1)
     /\ prog' = IF prog.txn THEN AfterBatch(cs) ELSE prog
     /\ UNCHANGED <<role, missed>>

\* ddlog_insert_cmd, ddlog_insert_or_update_cmd, ddlog_delete_val_cmd, ddlog_delete_key_cmd.
ddlog_cmd(op, h) == Returns({h}, {h}, Cmd(op, heap[h].val, TRUE)) /\ OnlyHeap

ddlog_modify_cmd(key, values) ==
  /\ Returns({key, values}, {key, values}, Cmd("modify", heap[key].val, heap[values].val # NotAValue))
  /\ OnlyHeap

\* Mutant: the key is freed with the query.
query_index_taking_key(key) ==
  /\ Usable
  /\ Done({key}, {}, IF heap[key].val = NotAValue THEN -1 ELSE 0)
  /\ OnlyHeap

\* The caller keeps the key.
ddlog_query_index(key) ==
  /\ Usable
  /\ Done({}, {}, IF heap[key].val = NotAValue THEN -1 ELSE 0)
  /\ OnlyHeap

\* Calls that read the program, report to a callback and return nothing to free; and calls
\* that switch the profiler on or off.  They fail on an unknown table or index.
Reads(ok) == Usable /\ Done({}, {}, IF ok THEN 0 ELSE -1) /\ OnlyHeap

ddlog_dump_index(ok) == Reads(ok)
ddlog_dump_table(ok) == Reads(ok)
ddlog_enable_cpu_profiling(ok) == Reads(ok)
ddlog_enable_change_profiling(ok) == Reads(ok)
ddlog_enable_timely_profiling(ok) == Reads(ok)

\* Takes effect only when no other reference to the program exists: sole.  No call of this
\* interface makes a second one, but Rust code in the same process may hold one.  The new
\* descriptor is closed then, which no call of the interface can observe.
record_to(fd, sole) == IF sole THEN [prog EXCEPT !.recorder = fd] ELSE prog

ddlog_record_commands(fd, sole) ==
  /\ Usable
  /\ prog' = record_to(fd, sole)
  /\ OnlyProgram(IF sole THEN 0 ELSE -1)

ddlog_dump_input_snapshot(fd, written) ==
  /\ Usable
  /\ UNCHANGED prog
  /\ OnlyProgram(IF fd # NoFd /\ written THEN 0 ELSE -1)

\* Detaches the recorder first, whatever comes of it.  The handle is gone even when the
\* workers do not stop as they should.
ddlog_stop(sole, ok) ==
  /\ prog.running
  /\ prog' = [record_to(NoFd, sole) EXCEPT !.running = FALSE]
  /\ OnlyProgram(IF ok THEN 0 ELSE -1)

\* At most two commands at a time.
Batches == {<<a>> : a \in Owned("cmd")}
             \cup {ab \in Owned("cmd") \X Owned("cmd") : ab[1] # ab[2]}

send_updates ==
  \/ \E val \in Vals \cup {NotAValue} : ddlog_scalar(val)
  \/ \E h \in Records : ddlog_free(h) \/ ddlog_query_index(h)
  \/ \E ok \in BOOLEAN :
       \/ ddlog_dump_index(ok) \/ ddlog_dump_table(ok)
       \/ ddlog_enable_cpu_profiling(ok) \/ ddlog_enable_change_profiling(ok)
       \/ ddlog_enable_timely_profiling(ok)
  \/ \E op \in {"insert", "insert_or_update", "delete", "delete_key"}, h \in Records : ddlog_cmd(op, h)
  \/ \E key \in Records : \E values \in Records \ {key} : ddlog_modify_cmd(key, values)
  \/ \E hs \in Batches : ddlog_apply_updates(hs)
  \/ ddlog_clear_relation
  \/ \E fd \in Fds \cup {NoFd}, ok \in BOOLEAN :
       ddlog_record_commands(fd, ok) \/ ddlog_dump_input_snapshot(fd, ok)

----------------------------------------------------------------------------
(* Changes. *)

Bounded(z) == \A x \in DOMAIN z : z[x] \in -MaxWeight .. MaxWeight
Miss(z) == missed' = Concat(missed, z) /\ Bounded(missed')

EndTxn == prog' = [prog EXCEPT !.txn = FALSE]
CommitFails == /\ Usable /\ ~prog.txn
               /\ ret' = -1
               /\ UNCHANGED <<role, heap, owned, prog, missed>>

\* ddlog_transaction_commit: the changes go to the tables of the program only.
ddlog_transaction_commit ==
  /\ Usable /\ prog.txn
  /\ EndTxn
  /\ Miss(TxnChanges)
  /\ ret' = 0
  /\ UNCHANGED <<role, heap, owned>>

ddlog_transaction_commit_dump_changes ==
  /\ Usable /\ prog.txn
  /\ EndTxn
  /\ Returns({}, {}, Delta(TxnChanges, TRUE))
  /\ UNCHANGED <<role, missed>>

\* One record for every change, and the array that points to them.
ddlog_transaction_commit_dump_changes_as_array ==
  LET n == Cardinality(DOMAIN TxnChanges)
  IN /\ Usable /\ prog.txn
     /\ EndTxn
     /\ \E recs \in kSubset(n, FreeHandles), h \in FreeHandles :
          /\ h \notin recs /\ \A g \in FreeHandles \ recs : h <= g
          /\ heap' = [g \in Allocated \cup recs \cup {h} |->
                       IF g = h THEN Updates(TxnChanges, recs)
                       ELSE IF g \in recs THEN Rec("scalar", NotAValue) ELSE heap[g]]
          /\ owned' = owned \cup {h}
     /\ ret' = 0
     /\ UNCHANGED <<role, missed>>

\* The transaction is committed even when its changes cannot be converted.
ddlog_transaction_commit_dump_changes_to_flatbuf(converts) ==
  /\ Usable /\ prog.txn
  /\ EndTxn
  /\ IF converts THEN Returns({}, {}, Flatbuf(TxnChanges, TRUE)) /\ UNCHANGED missed
     ELSE Done({}, {}, -1) /\ Miss(TxnChanges)
  /\ UNCHANGED role

\* The contents of an index in a new buffer.
IndexValues(converts) ==
  /\ Usable
  /\ IF converts THEN Returns({}, {}, Flatbuf(Empty, FALSE)) ELSE Done({}, {}, -1)
  /\ OnlyHeap

ddlog_dump_index_to_flatbuf(converts) == IndexValues(converts)
\* The caller keeps the buffer with the key.
ddlog_query_index_from_flatbuf(converts) == IndexValues(converts)

Discard(obj) == IF obj.counts THEN Miss(obj.z) ELSE UNCHANGED missed

ddlog_free_record_updates(h) ==
  /\ Done({h} \cup heap[h].recs, {h}, 0)
  /\ Discard(heap[h])
  /\ UNCHANGED <<role, prog>>

\* The client lets go of the changes in an object.
FreeChanges(h) ==
  /\ Done({h}, {h}, 0)
  /\ Discard(heap[h])
  /\ UNCHANGED <<role, prog>>

ddlog_free_delta(h) == FreeChanges(h)
ddlog_flatbuf_free(h) == FreeChanges(h)

\* All updates are converted before the first is applied.
apply_converted(cs) ==
  /\ Usable
  /\ prog' = IF prog.txn /\ Fed(cs) = cs THEN AfterBatch(cs) ELSE prog
  /\ OnlyProgram(IF prog.txn /\ BatchOk(cs) THEN 0 ELSE -1)

\* The updates in a buffer, which belongs to the caller, and those in a JSON text.
ddlog_apply_updates_from_flatbuf(cs) == apply_converted(cs)
ddlog_apply_ovsdb_updates(cs) == apply_converted(cs)

ddlog_new_delta == Returns({}, {}, Delta(Empty, TRUE)) /\ OnlyHeap

OfTable(z, t) == [x \in {y \in DOMAIN z : y[1] = t} |-> z[x]]
WithoutTable(z, t) == [x \in {y \in DOMAIN z : y[1] # t} |-> z[x]]

\* A copy of the changes of one table.
ddlog_delta_get_table(h, t) == Returns({}, {}, Delta(OfTable(heap[h].z, t), FALSE)) /\ OnlyHeap

\* ddlog_delta_clear_table, and ddlog_delta_clear for all tables.
ddlog_delta_clear(h, ts) ==
  LET kept == [x \in {y \in DOMAIN heap[h].z : y[1] \notin ts} |-> heap[h].z[x]]
  IN /\ heap' = [heap EXCEPT ![h] = Delta(kept, heap[h].counts)]
     /\ Discard(Delta(Minus(heap[h].z, kept), heap[h].counts))
     /\ ret' = 0
     /\ UNCHANGED <<role, owned, prog>>

\* Mutant: the changes are returned and stay in the delta.
delta_remove_copy(h, t) ==
  /\ Returns({}, {}, Delta(OfTable(heap[h].z, t), heap[h].counts))
  /\ OnlyHeap

\* Moves the changes of a table to a new delta.
ddlog_delta_remove_table(h, t) ==
  LET d == heap[h]
  IN /\ FreeHandles # {}
     /\ heap' = With([heap EXCEPT ![h] = Delta(WithoutTable(d.z, t), d.counts)], NewHandle,
                      Delta(OfTable(d.z, t), d.counts))
     /\ owned' = owned \cup {NewHandle}
     /\ ret' = 0
     /\ OnlyHeap

\* Mutant: a weight that cancels stays in the map as a zero.
update_keeping_zeros(z, x, diff) == With(z, x, Weight(z, x) + diff)

\* Adds a change to a map: one that cancels is removed.
update(z, x, diff) ==
  IF x \in DOMAIN z /\ z[x] = -diff THEN [y \in DOMAIN z \ {x} |-> z[y]]
  ELSE With(z, x, Weight(z, x) + diff)

\* Adds the changes of a delta to another, one by one.
UnionOf(z, new) == FoldSet(LAMBDA x, acc : update(acc, x, new[x]), z, DOMAIN new)

\* The client counts the changes of new with delta from now on.  If they were already
\* counted elsewhere, it has to give up counting those of delta.
ddlog_delta_union(h, new) ==
  LET d == heap[h]
      n == heap[new]
      sum == UnionOf(d.z, n.z)
      both == d.counts /\ n.counts
  IN /\ Bounded(sum)
     /\ heap' = [heap EXCEPT ![h] = Delta(sum, both),
                             ![new] = Delta(n.z, n.counts /\ ~d.counts)]
     /\ IF d.counts /\ ~n.counts THEN Miss(d.z) ELSE UNCHANGED missed
     /\ ret' = 0
     /\ UNCHANGED <<role, owned, prog>>

\* A string, or NULL when the program reports an error.
Profile(ok) == Usable /\ TextOrNull(ok)

ddlog_dump_profile(ok) == Profile(ok)
ddlog_arrangement_size_profile(ok) == Profile(ok)
ddlog_peak_arrangement_size_profile(ok) == Profile(ok)
ddlog_change_profile(ok) == Profile(ok)
ddlog_cpu_profile(ok) == Profile(ok)

\* The weights of the changes of a table that the code asserts: any other ends the process.
Asserts(z, t, weights) == \A x \in DOMAIN z : x[1] = t => z[x] \in weights

\* The changes of a table as JSON commands; the delta stays as it is.
ddlog_dump_ovsdb_delta_tables(h, t, ok) == Usable /\ Asserts(heap[h].z, t, {1}) /\ TextOrNull(ok)
ddlog_dump_ovsdb_output_table(h, t, ok) == Usable /\ Asserts(heap[h].z, t, {1, -1}) /\ TextOrNull(ok)

collect_texts ==
  \/ \E ok \in BOOLEAN :
       \/ ddlog_dump_profile(ok) \/ ddlog_arrangement_size_profile(ok)
       \/ ddlog_peak_arrangement_size_profile(ok) \/ ddlog_change_profile(ok)
       \/ ddlog_cpu_profile(ok)
       \/ \E h \in Owned("delta"), t \in Tables :
            ddlog_dump_ovsdb_delta_tables(h, t, ok) \/ ddlog_dump_ovsdb_output_table(h, t, ok)
  \/ \E h \in Owned("string") : ddlog_string_free(h) \/ ddlog_free_json(h)

collect_changes ==
  \/ \E op \in {"insert", "delete"}, v \in Vals :
       \E rest \in {<<>>, <<Cmd("insert", NotAValue, TRUE)>>, <<Cmd("delete", v, TRUE)>>} :
         \/ ddlog_apply_updates_from_flatbuf(<<Cmd(op, v, TRUE)>> \o rest)
         \/ ddlog_apply_ovsdb_updates(<<Cmd(op, v, TRUE)>> \o rest)
  \/ ddlog_transaction_commit_dump_changes
  \/ ddlog_transaction_commit_dump_changes_as_array
  \/ \E converts \in BOOLEAN :
       \/ ddlog_transaction_commit_dump_changes_to_flatbuf(converts)
       \/ ddlog_dump_index_to_flatbuf(converts)
       \/ ddlog_query_index_from_flatbuf(converts)
  \/ collect_texts
  \/ \E h \in Owned("updates") : ddlog_free_record_updates(h)
  \/ \E h \in Owned("flatbuf") : ddlog_flatbuf_free(h)
  \/ ddlog_new_delta
  \/ \E h \in Owned("delta") :
       \/ \E t \in Tables : \/ ddlog_delta_get_table(h, t)
                            \/ ddlog_delta_remove_table(h, t)
                            \/ ddlog_delta_clear(h, {t})
       \/ ddlog_delta_clear(h, Tables)
       \/ \E new \in Owned("delta") \ {h} : ddlog_delta_union(h, new)
       \/ ddlog_free_delta(h)

----------------------------------------------------------------------------
Init ==
  /\ role \in Roles
  /\ heap = <<>>
  /\ owned = {}
  /\ prog = [running |-> TRUE, txn |-> FALSE, broken |-> FALSE, rel |-> {}, start |-> {},
             recorder |-> NoFd]
  /\ missed = Empty
  /\ ret = 0

run_transactions ==
  \/ ddlog_transaction_start \/ ddlog_transaction_rollback
  \/ ddlog_transaction_commit \/ CommitFails
  \/ \E sole, ok \in BOOLEAN : ddlog_stop(sole, ok)

Next ==
  \/ role = "records" /\ build_records
  \/ role = "updates" /\ (send_updates \/ run_transactions)
  \/ role = "deltas" /\ (collect_changes \/ run_transactions)

Spec == Init /\ [][Next]_vars

----------------------------------------------------------------------------
(* Properties. *)

HeldBy(h) == IF heap[h].is = "updates" THEN heap[h].recs ELSE {}
Held == UNION {HeldBy(h) : h \in Allocated}
Reachable == owned \cup UNION {HeldBy(h) : h \in owned \cap Allocated}

\* Handles are numbers of objects, and no delta or array of changes reports a change of
\* weight zero, whatever deltas were added to it.
TypeOK ==
  /\ Allocated \subseteq Handles /\ owned \subseteq Handles
  /\ \A h \in Allocated : heap[h].is \in {"delta", "flatbuf", "updates"} =>
       \A x \in DOMAIN heap[h].z : heap[h].z[x] # 0
  /\ prog.rel \subseteq Vals /\ prog.start \subseteq Vals
  /\ ret \in {0, -1}

\* A client that keeps to the ownership rules of ddlog.h never holds a pointer to freed
\* memory: every handle that it owns is allocated, and so are the records of an array of
\* changes that it owns, which it does not own one by one.
NothingDangles ==
  /\ owned \subseteq Allocated
  /\ Held \subseteq Allocated
  /\ Held \cap owned = {}

\* Only a call that reports an error leaves memory behind that nobody can reach: one that
\* succeeds has freed all that it took from the client and did not give back.
SuccessLeaksNothing ==
  [][(Allocated \ Reachable)' \subseteq Allocated \ Reachable \/ ret' = -1]_vars

\* The changes that the client was given and those that it missed or threw away add up to
\* what the tables show, however it merges, splits, copies and clears them.
ChangesConserved ==
  LET counted == {h \in Allocated : heap[h].is \in {"delta", "flatbuf", "updates"} /\ heap[h].counts}
  IN Concat(missed, Concatenate([h \in counted |-> heap[h].z])) = AsZSet(Outputs(Committed))
=============================================================================
