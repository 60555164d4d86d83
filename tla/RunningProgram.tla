---------------------------- MODULE RunningProgram ----------------------------
(***************************************************************************)
(* A running DDlog program: the client object RunningProgram of            *)
(* program/mod.rs, which owns the input relations and the transaction, and *)
(* the timely worker threads of program/worker.rs, which it drives through *)
(* one request and one reply channel per worker.                           *)
(*                                                                         *)
(* The client's methods are serialised by the mutex of HDDlog; a method    *)
(* that waits for the workers, or that loops over updates, is several      *)
(* steps, and `call` says which method is running and where.  The workers  *)
(* run concurrently with it.                                               *)
(*                                                                         *)
(* The dataflow itself (timely and differential dataflow) is external: the *)
(* weights the workers feed at the open epoch become part of `trace` once  *)
(* every worker has advanced beyond that epoch.                            *)
(***************************************************************************)
EXTENDS InputRelation

CONSTANTS
    RelId,      \* input relations
    N,          \* config.num_timely_workers
    ChunkMin,   \* least size of a chunk of updates (5000 in the code)
    Owner,      \* the worker that the hash of an arrangement key selects
    MaxEpoch,   \* bound: a transaction starts only up to this timestamp
    MaxBatch,   \* bound: updates in one call of apply_updates
    MaxQueue,   \* bound: requests queued at a worker when a batch starts
    MaxWeight,  \* bound: counts in streams and multisets
    MaxAborted  \* bound: changes dropped by aborted batches

Worker == 0 .. N - 1
Leader == 0

\* A worker waits for its flush only if the program has an input relation.
ASSUME ProgramAssumption ==
    /\ RelId # {}
    /\ N \in Nat \ {0}
    /\ ChunkMin \in Nat \ {0}
    /\ Owner \in [Key -> Worker]
    /\ {MaxEpoch, MaxBatch, MaxQueue, MaxWeight, MaxAborted} \subseteq Nat

VARIABLES
    \* RunningProgram
    kind,                       \* caching mode and key_func of each relation, fixed by the Program
    elements, delta,            \* relations
    transaction_in_progress,
    need_to_flush,
    timestamp,
    worker_round_robbin,        \* the worker the next chunk goes to
    running,                    \* worker_guards.is_some()
    \* the method in progress
    call,                       \* which method, and where in it
    filtered_updates,           \* changes collected by apply_updates
    batch,                      \* updates consumed by apply_updates so far
    todo,                       \* updates a rollback or a clear has still to apply
    awaiting,                   \* the worker whose reply is received next
    query,                      \* arguments and result of _query_arrangement
    \* channels
    requests, replies,
    \* workers
    pc,                         \* where the worker's run() is
    time,                       \* epoch of the worker's input sessions
    last,                       \* the worker's `timestamp`: epoch of the last Flush it saw
    \* dataflow
    open, trace,                \* weights at the open epoch, and at all closed ones
    enabled,                    \* the same for the sole record of the Enabled relation
    frontier,                   \* the open epoch
    \* history, read by no action's guard but the bounds
    snapshot,                   \* contents of the relations when the transaction started
    base,                       \* trace when the transaction started
    lost                        \* changes of aborted batches, made to relations and never sent

relvars == <<kind, elements, delta>>
txnvars == <<transaction_in_progress, need_to_flush, timestamp>>
loopvars == <<filtered_updates, batch, todo>>
clientvars == <<relvars, txnvars, worker_round_robbin, running, call, loopvars, awaiting, query>>
workvars == <<pc, time, last>>
flowvars == <<open, trace, enabled, frontier>>
sysvars == <<workvars, flowvars>>
histvars == <<snapshot, base, lost>>

vars == <<clientvars, requests, replies, sysvars, histvars>>

-----------------------------------------------------------------------------
(* Types *)

Collection == [RelId -> ZSet]
EmptyCollection == [r \in RelId |-> EmptyZSet]

\* A change of a weight of one relation: Update::Insert or Update::DeleteValue.
RelChange == [relid : RelId, v : Value, w : {1, -1}]

\* An index that the program does not have.
NoIndex == "NoIndex"

Msg ==
    [type : {"Update"}, updates : Seq(RelChange), timestamp : Nat]
        \cup [type : {"Flush"}, advance_to : Nat]
        \cup [type : {"Query"}, arrid : RelId \cup {NoIndex}, key : Key \cup {None}]
        \cup [type : {"Stop"}]

Reply ==
    [type : {"FlushAck"}] \cup [type : {"QueryRes"}, known : BOOLEAN, vals : SUBSET Value]

FlushAck == [type |-> "FlushAck"]

NoQuery == [arrid |-> NoIndex, key |-> None, res |-> {}, unknown |-> FALSE]

\* Methods that wait for FlushAck: the constructor, a commit, a rollback before
\* and after it undoes the delta, and stop.
Flushing == {"run", "commit", "rollback", "undone", "stop"}

\* Loops of apply_updates: over the caller's updates, over the reversed delta, and
\* over the updates of clear_relation.
Updating == {"updates", "undo", "clear"}

Call == {"idle", "query", "undo_flush", "join"} \cup Flushing \cup Updating

RelationsTypeOK ==
    /\ kind \in [RelId -> Kind]
    /\ elements = [r \in RelId |-> elements[r]]
    /\ \A r \in RelId : elements[r] \in Elements(kind[r])
    /\ delta \in Collection

ClientTypeOK ==
    /\ RelationsTypeOK
    /\ transaction_in_progress \in BOOLEAN
    /\ need_to_flush \in BOOLEAN
    /\ timestamp \in Nat
    /\ worker_round_robbin \in Worker
    /\ running \in BOOLEAN
    /\ call \in Call
    /\ filtered_updates \in Seq(RelChange)
    /\ batch \in Nat
    /\ todo \in Collection
    /\ awaiting \in 0 .. N
    /\ query \in [arrid : RelId \cup {NoIndex}, key : Key \cup {None},
                  res : SUBSET Value, unknown : BOOLEAN]

TypeOK ==
    /\ ClientTypeOK
    /\ requests \in [Worker -> Seq(Msg)]
    /\ replies \in [Worker -> Seq(Reply)]
    /\ pc \in [Worker -> {"start", "loop", "flushing", "exiting", "stopped"}]
    /\ time \in [Worker -> Nat]
    /\ last \in [Worker -> Nat]
    /\ open \in Collection
    /\ trace \in Collection
    /\ enabled \in [open : Int, trace : Int]
    /\ frontier \in Nat
    /\ snapshot \in Collection
    /\ base \in Collection
    /\ lost \in Collection

-----------------------------------------------------------------------------
(* Helpers *)

\* The net weight of v of relation r in a sequence of changes.
Net(changes, r, v) ==
    Cardinality({i \in DOMAIN changes : changes[i] = [relid |-> r, v |-> v, w |-> 1]})
        - Cardinality({i \in DOMAIN changes : changes[i] = [relid |-> r, v |-> v, w |-> -1]})

\* A collection with a sequence of changes added to it.
Add(coll, changes) ==
    [r \in RelId |-> [v \in Value |-> coll[r][v] + Net(changes, r, v)]]

Combine(c, d) == [r \in RelId |-> [v \in Value |-> c[r][v] + d[r][v]]]

Tagged(r, out) ==
    [i \in DOMAIN out |-> [relid |-> r, v |-> out[i].v, w |-> out[i].w]]

AllContents == [r \in RelId |-> Contents(kind[r], elements[r])]

broadcast(msg) == requests' = [w \in Worker |-> Append(requests[w], msg)]

\* The chunks of a sequence of changes, in order.
Chunks(changes) ==
    LET q == Len(changes) \div N
        size == IF q > ChunkMin THEN q ELSE ChunkMin
        count == (Len(changes) + size - 1) \div size
        upto(n) == IF n < Len(changes) THEN n ELSE Len(changes)
    IN  [i \in 1 .. count |-> SubSeq(changes, (i - 1) * size + 1, upto(i * size))]

\* Mutant of Deal: one round only, so that a worker gets one chunk at most.
DealOneRound(chunks) ==
    [w \in Worker |->
        LET first == ((w - worker_round_robbin + N) % N) + 1
        IN  IF first > Len(chunks)
            THEN <<>>
            ELSE <<[type |-> "Update", updates |-> chunks[first], timestamp |-> timestamp]>>]

\* The chunks dealt to the workers in turn, the first one to worker_round_robbin.
Deal(chunks) ==
    [w \in Worker |->
        LET first == ((w - worker_round_robbin + N) % N) + 1
            count == IF first > Len(chunks) THEN 0 ELSE ((Len(chunks) - first) \div N) + 1
        IN  [j \in 1 .. count |->
                [type |-> "Update", updates |-> chunks[first + (j - 1) * N],
                 timestamp |-> timestamp]]]

-----------------------------------------------------------------------------
(* The client *)

\* The constructor Program::run is waiting for the workers to ingest the
\* initial data; every collection is empty.
Init ==
    /\ kind \in [RelId -> Kind]
    /\ elements = [r \in RelId |-> NoElements(kind[r])]
    /\ delta = EmptyCollection
    /\ transaction_in_progress = FALSE
    /\ need_to_flush = FALSE
    /\ timestamp = 1
    /\ worker_round_robbin = 0
    /\ running = TRUE
    /\ call = "run"
    /\ filtered_updates = <<>>
    /\ batch = 0
    /\ todo = EmptyCollection
    /\ awaiting = 0
    /\ query = NoQuery
    /\ requests = [w \in Worker |-> <<>>]
    /\ replies = [w \in Worker |-> <<>>]
    /\ pc = [w \in Worker |-> "start"]
    /\ time = [w \in Worker |-> 0]
    /\ last = [w \in Worker |-> 0]
    /\ open = EmptyCollection
    /\ trace = EmptyCollection
    /\ enabled = [open |-> 0, trace |-> 0]
    /\ frontier = 0
    /\ snapshot = EmptyCollection
    /\ base = EmptyCollection
    /\ lost = EmptyCollection

\* A method may be called: none is running, and the program has not been stopped,
\* which invalidates its handle.
Ready == call = "idle" /\ running

transaction_start ==
    /\ Ready
    /\ ~transaction_in_progress
    /\ timestamp <= MaxEpoch
    /\ transaction_in_progress' = TRUE
    /\ snapshot' = AllContents
    /\ base' = trace
    /\ UNCHANGED <<relvars, need_to_flush, timestamp, worker_round_robbin, running, call, loopvars,
                   awaiting, query, requests, replies, sysvars, lost>>

\* Mutants of flush: the client's timestamp stays behind, and nobody waits for FlushAck.
flush_same_timestamp(c) ==
    /\ call' = c
    /\ UNCHANGED timestamp
    /\ IF need_to_flush
       THEN /\ broadcast([type |-> "Flush", advance_to |-> timestamp + 1])
            /\ need_to_flush' = FALSE
            /\ awaiting' = 0
       ELSE /\ awaiting' = N
            /\ UNCHANGED <<requests, need_to_flush>>

flush_no_wait(c) ==
    /\ call' = c
    /\ awaiting' = N
    /\ IF need_to_flush
       THEN /\ broadcast([type |-> "Flush", advance_to |-> timestamp + 1])
            /\ timestamp' = timestamp + 1
            /\ need_to_flush' = FALSE
       ELSE UNCHANGED <<requests, timestamp, need_to_flush>>

\* Start a flush and go on to c: nothing to wait for, or a Flush to every worker,
\* whose acknowledgements await_flush_ack then receives one by one.
flush(c) ==
    /\ call' = c
    /\ IF need_to_flush
       THEN /\ broadcast([type |-> "Flush", advance_to |-> timestamp + 1])
            /\ timestamp' = timestamp + 1
            /\ need_to_flush' = FALSE
            /\ awaiting' = 0
       ELSE /\ awaiting' = N
            /\ UNCHANGED <<requests, timestamp, need_to_flush>>

\* Mutant of await_flush_ack: the first acknowledgement is enough.
await_one_flush_ack ==
    /\ call \in Flushing
    /\ awaiting < N
    /\ replies[awaiting] # <<>>
    /\ replies' = [replies EXCEPT ![awaiting] = Tail(@)]
    /\ awaiting' = N
    /\ UNCHANGED <<relvars, txnvars, worker_round_robbin, running, call, loopvars, query, requests,
                   sysvars, histvars>>

await_flush_ack ==
    /\ call \in Flushing
    /\ awaiting < N
    /\ replies[awaiting] # <<>>
    /\ replies' = [replies EXCEPT ![awaiting] = Tail(@)]
    /\ IF Head(replies[awaiting]).type = "FlushAck"
       THEN awaiting' = awaiting + 1 /\ UNCHANGED call
       ELSE call' = "idle" /\ UNCHANGED awaiting
    /\ UNCHANGED <<relvars, txnvars, worker_round_robbin, running, loopvars, query, requests,
                   sysvars, histvars>>

\* Every worker has acknowledged the flush of method c.
Flushed(c) == call = c /\ awaiting = N

run_return ==
    /\ Flushed("run")
    /\ call' = "idle"
    /\ UNCHANGED <<relvars, txnvars, worker_round_robbin, running, loopvars, awaiting, query,
                   requests, replies, sysvars, histvars>>

transaction_commit ==
    /\ Ready
    /\ transaction_in_progress
    /\ flush("commit")
    /\ UNCHANGED <<relvars, transaction_in_progress, worker_round_robbin, running, loopvars, query,
                   replies, sysvars, histvars>>

\* The history of a transaction ends with it.
Forget ==
    /\ snapshot' = EmptyCollection
    /\ base' = EmptyCollection
    /\ UNCHANGED lost

\* delta_cleanup
transaction_commit_return ==
    /\ Flushed("commit")
    /\ delta' = EmptyCollection
    /\ transaction_in_progress' = FALSE
    /\ call' = "idle"
    /\ Forget
    /\ UNCHANGED <<kind, elements, need_to_flush, timestamp, worker_round_robbin, running, loopvars,
                   awaiting, query, requests, replies, sysvars>>

transaction_rollback ==
    /\ Ready
    /\ transaction_in_progress
    /\ flush("rollback")
    /\ UNCHANGED <<relvars, transaction_in_progress, worker_round_robbin, running, loopvars, query,
                   replies, sysvars, histvars>>

\* Mutant of delta_undo: one relation is undone, the others are not.
delta_undo_one_relation ==
    /\ Flushed("rollback")
    /\ call' = "undo"
    /\ \E r \in RelId : todo' = [EmptyCollection EXCEPT ![r] = delta[r]]
    /\ UNCHANGED <<relvars, txnvars, worker_round_robbin, running, filtered_updates, batch, awaiting,
                   query, requests, replies, sysvars, histvars>>

\* Mutant of delta_undo: what the transaction has deleted is not inserted again.
delta_undo_insertions ==
    /\ Flushed("rollback")
    /\ call' = "undo"
    /\ todo' = [r \in RelId |-> [v \in Value |-> IF delta[r][v] > 0 THEN delta[r][v] ELSE 0]]
    /\ UNCHANGED <<relvars, txnvars, worker_round_robbin, running, filtered_updates, batch, awaiting,
                   query, requests, replies, sysvars, histvars>>

\* delta_undo collects the updates that reverse the delta and calls apply_updates.
delta_undo ==
    /\ Flushed("rollback")
    /\ call' = "undo"
    /\ todo' = delta
    /\ UNCHANGED <<relvars, txnvars, worker_round_robbin, running, filtered_updates, batch, awaiting,
                   query, requests, replies, sysvars, histvars>>

\* The flush that ends delta_undo has completed.
transaction_rollback_return ==
    /\ Flushed("undone")
    /\ transaction_in_progress' = FALSE
    /\ call' = "idle"
    /\ Forget
    /\ UNCHANGED <<relvars, need_to_flush, timestamp, worker_round_robbin, running, loopvars,
                   awaiting, query, requests, replies, sysvars>>

\* apply_updates with an iterator over the caller's updates.
apply_updates ==
    /\ Ready
    /\ transaction_in_progress
    /\ \A w \in Worker : Len(requests[w]) < MaxQueue
    /\ call' = "updates"
    /\ UNCHANGED <<relvars, txnvars, worker_round_robbin, running, loopvars, awaiting, query,
                   requests, replies, sysvars, histvars>>

\* Mutant of Abort: what the failed call collected stays for the next one.
AbortKeepingUpdates ==
    /\ call' = "idle"
    /\ lost' = Add(lost, filtered_updates)
    /\ batch' = 0
    /\ UNCHANGED filtered_updates

\* apply_updates returns an error in the middle of its batch: what it has
\* collected is dropped, what it has done to the relations stays.
Abort ==
    /\ call' = "idle"
    /\ lost' = Add(lost, filtered_updates)
    /\ filtered_updates' = <<>>
    /\ batch' = 0

\* One iteration of the loop of apply_updates.
Apply(r, u) ==
    LET res == apply_update(kind[r], elements[r], delta[r], u)
    IN  /\ elements' = [elements EXCEPT ![r] = res.s]
        /\ delta' = [delta EXCEPT ![r] = res.ds]
        /\ IF res.ok
           THEN /\ filtered_updates' = filtered_updates \o Tagged(r, res.out)
                /\ batch' = IF call = "updates" THEN batch + 1 ELSE batch
                /\ UNCHANGED <<call, lost>>
           ELSE Abort

\* Bounds: the counts an update leaves, and the changes an aborted batch may drop
\* (one batch of at most MaxAborted changes in a behaviour).
InBounds(r, u) ==
    LET res == apply_update(kind[r], elements[r], delta[r], u)
    IN  /\ kind[r] = "Multiset" => res.s \in [Value -> -MaxWeight .. MaxWeight]
        /\ res.ds \in [Value -> -2 * MaxWeight .. 2 * MaxWeight]

MayAbort ==
    \/ filtered_updates = <<>>
    \/ lost = EmptyCollection /\ Len(filtered_updates) <= MaxAborted

apply_updates_step ==
    /\ call = "updates"
    /\ batch < MaxBatch
    /\ \E r \in RelId, u \in Update :
          /\ InBounds(r, u)
          /\ Apply(r, u)
    /\ call' = "idle" => MayAbort
    /\ UNCHANGED <<kind, txnvars, worker_round_robbin, running, todo, awaiting, query,
                   requests, replies, sysvars, snapshot, base>>

\* The caller's `inspect` rejects the next update.
apply_updates_rejected ==
    /\ call = "updates"
    /\ batch < MaxBatch
    /\ MayAbort
    /\ Abort
    /\ UNCHANGED <<relvars, txnvars, worker_round_robbin, running, todo, awaiting, query,
                   requests, replies, sysvars, snapshot, base>>

\* The end of apply_updates: deal the collected changes, if there are any.
apply_updates_send ==
    /\ \/ call = "updates"
       \/ call \in {"clear", "undo"} /\ todo = EmptyCollection
    /\ IF filtered_updates = <<>>
       THEN UNCHANGED <<requests, worker_round_robbin, need_to_flush>>
       ELSE LET chunks == Chunks(filtered_updates)
                messages == Deal(chunks)
            IN  /\ requests' = [w \in Worker |-> requests[w] \o messages[w]]
                /\ worker_round_robbin' = (worker_round_robbin + Len(chunks)) % N
                /\ need_to_flush' = TRUE
    /\ call' = IF call = "undo" THEN "undo_flush" ELSE "idle"
    /\ filtered_updates' = <<>>
    /\ batch' = 0
    /\ UNCHANGED <<relvars, transaction_in_progress, timestamp, running, todo, awaiting,
                   query, replies, sysvars, histvars>>

\* One update of a rollback.
delta_undo_step ==
    /\ call = "undo"
    /\ \E r \in RelId : \E u \in delta_undo_updates(todo[r]) :
          /\ Apply(r, u)
          /\ todo' = [todo EXCEPT ![r][u.v] = IF @ > 0 THEN @ - 1 ELSE @ + 1]
    /\ UNCHANGED <<kind, txnvars, worker_round_robbin, running, awaiting, query,
                   requests, replies, sysvars, snapshot, base>>

\* Mutant of delta_undo_flush: there is no flush.
delta_undo_unflushed ==
    /\ call = "undo_flush"
    /\ call' = "undone"
    /\ awaiting' = N
    /\ UNCHANGED <<relvars, txnvars, worker_round_robbin, running, loopvars, query,
                   requests, replies, sysvars, histvars>>

\* delta_undo then flushes what apply_updates has sent.
delta_undo_flush ==
    /\ call = "undo_flush"
    /\ flush("undone")
    /\ UNCHANGED <<relvars, transaction_in_progress, worker_round_robbin, running, loopvars, query,
                   replies, sysvars, histvars>>

\* clear_relation collects a deletion for every element and calls apply_updates.
clear_relation(r) ==
    /\ Ready
    /\ transaction_in_progress
    /\ kind[r] # "Stream"
    /\ \A w \in Worker : Len(requests[w]) < MaxQueue
    /\ call' = "clear"
    /\ todo' = [EmptyCollection EXCEPT ![r] = Contents(kind[r], elements[r])]
    /\ UNCHANGED <<relvars, txnvars, worker_round_robbin, running, filtered_updates, batch, awaiting,
                   query, requests, replies, sysvars, histvars>>

\* The updates of clear_relation: by key in an indexed relation, whose count in
\* todo is the number of keys that hold the value.
clear_updates(r) ==
    IF kind[r] = "Indexed"
    THEN {DeleteKey(k) : k \in {x \in Key : elements[r][x] # None}}
    ELSE delta_undo_updates(todo[r])

clear_relation_step ==
    /\ call = "clear"
    /\ \E r \in RelId : \E u \in clear_updates(r) :
          LET v == IF u.op = "DeleteKey" THEN elements[r][u.k] ELSE u.v
          IN  /\ todo[r][v] # 0
              /\ Apply(r, u)
              /\ todo' = [todo EXCEPT ![r][v] = IF @ > 0 THEN @ - 1 ELSE @ + 1]
    /\ UNCHANGED <<kind, txnvars, worker_round_robbin, running, awaiting, query,
                   requests, replies, sysvars, snapshot, base>>

\* query_arrangement (with a key) and dump_arrangement (without).
query_arrangement(arrid, k) ==
    /\ Ready
    /\ \A w \in Worker : Len(requests[w]) < MaxQueue
    /\ broadcast([type |-> "Query", arrid |-> arrid, key |-> k])
    /\ call' = "query"
    /\ awaiting' = 0
    /\ query' = [arrid |-> arrid, key |-> k, res |-> {}, unknown |-> FALSE]
    /\ UNCHANGED <<relvars, txnvars, worker_round_robbin, running, loopvars, replies,
                   sysvars, histvars>>

\* Mutant of query_receive: the answer of a worker replaces the ones before it.
query_receive_last ==
    /\ call = "query"
    /\ awaiting < N
    /\ replies[awaiting] # <<>>
    /\ replies' = [replies EXCEPT ![awaiting] = Tail(@)]
    /\ LET reply == Head(replies[awaiting])
       IN  query' = [query EXCEPT !.res = reply.vals, !.unknown = @ \/ ~reply.known]
    /\ awaiting' = awaiting + 1
    /\ UNCHANGED <<relvars, txnvars, worker_round_robbin, running, call, loopvars, requests,
                   sysvars, histvars>>

query_receive ==
    /\ call = "query"
    /\ awaiting < N
    /\ replies[awaiting] # <<>>
    /\ replies' = [replies EXCEPT ![awaiting] = Tail(@)]
    /\ LET reply == Head(replies[awaiting])
       IN  IF reply.type = "QueryRes"
           THEN /\ query' = [query EXCEPT !.res = @ \cup reply.vals,
                                          !.unknown = @ \/ ~reply.known]
                /\ awaiting' = awaiting + 1
                /\ UNCHANGED call
           ELSE call' = "idle" /\ UNCHANGED <<query, awaiting>>
    /\ UNCHANGED <<relvars, txnvars, worker_round_robbin, running, loopvars, requests,
                   sysvars, histvars>>

query_return ==
    /\ Flushed("query")
    /\ call' = "idle"
    /\ query' = NoQuery
    /\ UNCHANGED <<relvars, txnvars, worker_round_robbin, running, loopvars, awaiting,
                   requests, replies, sysvars, histvars>>

\* stop, also called by Drop: flush, then Stop to every worker, then join them.
stop ==
    /\ Ready
    /\ flush("stop")
    /\ UNCHANGED <<relvars, transaction_in_progress, worker_round_robbin, running, loopvars, query,
                   replies, sysvars, histvars>>

stop_broadcast ==
    /\ Flushed("stop")
    /\ broadcast([type |-> "Stop"])
    /\ call' = "join"
    /\ UNCHANGED <<relvars, txnvars, worker_round_robbin, running, loopvars, awaiting, query,
                   replies, sysvars, histvars>>

stop_return ==
    /\ call = "join"
    /\ \A w \in Worker : pc[w] = "stopped"
    /\ running' = FALSE
    /\ call' = "idle"
    /\ UNCHANGED <<relvars, txnvars, worker_round_robbin, loopvars, awaiting, query,
                   requests, replies, sysvars, histvars>>

-----------------------------------------------------------------------------
(* The workers *)

\* The loop of run() looks at the next request.
Request(w, type) == pc[w] = "loop" /\ requests[w] # <<>> /\ Head(requests[w]).type = type

Consume(w) == requests' = [requests EXCEPT ![w] = Tail(@)]

\* advance: every input session moves to epoch t.
advance(w, t) == time' = [time EXCEPT ![w] = t]

\* Mutant of UpdateEnabled: every worker does what the leader should do.
UpdateEnabledByAll(w, d) == enabled' = [enabled EXCEPT !.open = @ + d]

\* The leader changes the weight of the sole record of Enabled.
UpdateEnabled(w, d) ==
    enabled' = IF w = Leader THEN [enabled EXCEPT !.open = @ + d] ELSE enabled

\* ingest_initial_data: the initial data is of no input relation, but the leader
\* also inserts the record of Enabled; then every worker flushes epoch 0.
ingest_initial_data(w) ==
    /\ pc[w] = "start"
    /\ UpdateEnabled(w, 1)
    /\ advance(w, 1)
    /\ last' = [last EXCEPT ![w] = 1]
    /\ pc' = [pc EXCEPT ![w] = "flushing"]
    /\ UNCHANGED <<clientvars, requests, replies, open, trace, frontier, histvars>>

\* batch_update feeds a chunk to the input sessions at the chunk's epoch.
batch_update(w) ==
    /\ Request(w, "Update")
    /\ Consume(w)
    /\ open' = Add(open, Head(requests[w]).updates)
    /\ UNCHANGED <<clientvars, replies, workvars, trace, enabled, frontier, histvars>>

handle_flush(w) ==
    /\ Request(w, "Flush")
    /\ Consume(w)
    /\ advance(w, Head(requests[w]).advance_to)
    /\ last' = [last EXCEPT ![w] = Head(requests[w]).advance_to]
    /\ pc' = [pc EXCEPT ![w] = "flushing"]
    /\ UNCHANGED <<clientvars, replies, flowvars, histvars>>

\* Mutant of Probed: the loop ends one epoch too early.
ProbedEarly(w) == frontier + 1 >= time[w]

\* The probe has reached the worker's epoch: the loop of flush() ends.
Probed(w) == frontier >= time[w]

\* Mutant of flush_ack: only the leader acknowledges.
flush_ack_by_leader(w) ==
    /\ pc[w] = "flushing"
    /\ Probed(w)
    /\ replies' = IF w = Leader THEN [replies EXCEPT ![w] = Append(@, FlushAck)] ELSE replies
    /\ pc' = [pc EXCEPT ![w] = "loop"]
    /\ UNCHANGED <<clientvars, requests, time, last, flowvars, histvars>>

flush_ack(w) ==
    /\ pc[w] = "flushing"
    /\ Probed(w)
    /\ replies' = [replies EXCEPT ![w] = Append(@, FlushAck)]
    /\ pc' = [pc EXCEPT ![w] = "loop"]
    /\ UNCHANGED <<clientvars, requests, time, last, flowvars, histvars>>

\* A worker's part of an arrangement: the keys it owns, every value of which is
\* reported whose weight is not zero.
Arrangement(w, r, k) ==
    {v \in Value : /\ Owner[KeyOf[v]] = w
                   /\ k \in {None, KeyOf[v]}
                   /\ trace[r][v] # 0}

handle_query(w) ==
    /\ Request(w, "Query")
    /\ Consume(w)
    /\ LET msg == Head(requests[w])
           known == msg.arrid # NoIndex
           vals == IF known THEN Arrangement(w, msg.arrid, msg.key) ELSE {}
       IN  replies' = [replies EXCEPT
                          ![w] = Append(@, [type |-> "QueryRes", known |-> known, vals |-> vals])]
    /\ UNCHANGED <<clientvars, sysvars, histvars>>

\* disable: the leader deletes the record of Enabled; then every worker flushes.
disable(w) ==
    /\ Request(w, "Stop")
    /\ Consume(w)
    /\ UpdateEnabled(w, -1)
    /\ advance(w, last[w] + 1)
    /\ pc' = [pc EXCEPT ![w] = "exiting"]
    /\ UNCHANGED <<clientvars, replies, last, open, trace, frontier, histvars>>

worker_exit(w) ==
    /\ pc[w] = "exiting"
    /\ Probed(w)
    /\ pc' = [pc EXCEPT ![w] = "stopped"]
    /\ UNCHANGED <<clientvars, requests, replies, time, last, flowvars, histvars>>

\* Timely dataflow (external): once every worker has left the open epoch, the
\* dataflow processes it, and the probe moves to the next one.
step ==
    /\ \A w \in Worker : time[w] > frontier
    /\ frontier' = frontier + 1
    /\ trace' = Combine(trace, open)
    /\ open' = EmptyCollection
    /\ enabled' = [open |-> 0, trace |-> enabled.trace + enabled.open]
    /\ UNCHANGED <<clientvars, requests, replies, workvars, histvars>>

-----------------------------------------------------------------------------

WorkerNext(w) ==
    \/ ingest_initial_data(w) \/ batch_update(w) \/ handle_flush(w) \/ flush_ack(w)
    \/ handle_query(w) \/ disable(w) \/ worker_exit(w)

\* Steps a method takes by itself, once it has been called.
Continue ==
    \/ await_flush_ack \/ run_return
    \/ transaction_commit_return
    \/ delta_undo \/ delta_undo_step \/ delta_undo_flush \/ transaction_rollback_return
    \/ apply_updates_send \/ clear_relation_step
    \/ query_receive \/ query_return
    \/ stop_broadcast \/ stop_return

\* Calls, and the updates and rejections the caller chooses.
Call_ ==
    \/ transaction_start \/ transaction_commit \/ transaction_rollback
    \/ apply_updates \/ apply_updates_step \/ apply_updates_rejected
    \/ \E r \in RelId : clear_relation(r)
    \/ \E arrid \in RelId \cup {NoIndex}, k \in Key \cup {None} : query_arrangement(arrid, k)
    \/ stop

\* A stopped program does nothing.
Stopped == ~running /\ UNCHANGED vars

Next == Call_ \/ Continue \/ (\E w \in Worker : WorkerNext(w)) \/ step \/ Stopped

Spec == Init /\ [][Next]_vars

\* Worker threads keep running and timely makes progress; a method that has been
\* called goes on whenever it can.
Fairness ==
    /\ WF_vars(Continue)
    /\ \A w \in Worker : WF_vars(WorkerNext(w))
    /\ WF_vars(step)

FairSpec == Spec /\ Fairness

-----------------------------------------------------------------------------
(* Properties *)

\* Where change c is queued: the worker, the place of the chunk in the worker's queue, and the
\* place of the change in the chunk.
QueuedAt(reqs, w, c) ==
    LET places(i) == {j \in DOMAIN reqs[w][i].updates : reqs[w][i].updates[j] = c}
    IN  UNION {{<<w, i, j>> : j \in places(i)} :
                  i \in {n \in DOMAIN reqs[w] : reqs[w][n].type = "Update"}}

Queued(reqs, c) == UNION {QueuedAt(reqs, w, c) : w \in Worker}

\* The net weight of v in the requests the workers have not handled yet.
InFlight(r, v) ==
    Cardinality(Queued(requests, [relid |-> r, v |-> v, w |-> 1]))
        - Cardinality(Queued(requests, [relid |-> r, v |-> v, w |-> -1]))

\* The weight of v that the updates applied so far amount to: in the dataflow, on its way
\* there, still being collected, or dropped by an aborted batch.
Issued(r, v) ==
    trace[r][v] + open[r][v] + InFlight(r, v) + Net(filtered_updates, r, v) + lost[r][v]

\* While a transaction is in progress, the delta of a relation is exactly the
\* difference between its contents and the contents when the transaction started
\* (delta_inc, delta_dec and their callers); between transactions it is empty.
DeltaExact ==
    IF transaction_in_progress
    THEN \A r \in RelId : kind[r] # "Stream" =>
            \A v \in Value : AllContents[r][v] = snapshot[r][v] + delta[r][v]
    ELSE delta = EmptyCollection

\* No change is lost or duplicated between a relation and the dataflow, except the
\* ones that an aborted apply_updates drops: filtered_updates, the chunks dealt to
\* the workers and the sessions together always account for the contents, and for
\* the delta, of every relation.
DataflowExact ==
    \A r \in RelId, v \in Value :
        /\ kind[r] # "Stream" => AllContents[r][v] = Issued(r, v)
        /\ transaction_in_progress /\ lost = EmptyCollection =>
              delta[r][v] = Issued(r, v) - base[r][v]

\* Neither rollback nor clear_relation ever meets an update that fails: reversing a delta
\* in the order of delta_undo_updates raises no duplicate or missing key.
UndoSucceeds ==
    \A r \in RelId :
        /\ call = "undo" => \A u \in delta_undo_updates(todo[r]) :
                               apply_update(kind[r], elements[r], delta[r], u).ok
        /\ call = "clear" /\ todo[r] # EmptyZSet => \A u \in clear_updates(r) :
                               apply_update(kind[r], elements[r], delta[r], u).ok

\* A rollback that reaches its end has undone all changes (transaction_rollback): the
\* relations are what they were when the transaction started, and the deltas are empty (the
\* debug_assert of delta_undo).
RelationsRestored ==
    Flushed("undone") =>
        /\ \A r \in RelId : kind[r] # "Stream" => AllContents[r] = snapshot[r]
        /\ delta = EmptyCollection

\* Then the dataflow is back where it was too, unless a batch was aborted: the second flush of
\* a rollback has processed the reversal of every change.
DataflowRestored ==
    Flushed("undone") /\ lost = EmptyCollection => trace = base

\* When a commit returns, the dataflow has processed every update of the transaction:
\* await_flush_ack "guarantees that all outputs have been produced".
CommitComplete ==
    Flushed("commit") =>
        /\ open = EmptyCollection
        /\ lost = EmptyCollection =>
              \A r \in RelId : kind[r] # "Stream" => trace[r] = AllContents[r]

\* A query returns the values of the last committed state, from all workers, whatever the
\* transaction in progress has done.
QueryIsolation ==
    Flushed("query") =>
        IF query.arrid = NoIndex
        THEN query.unknown
        ELSE LET committed == IF transaction_in_progress THEN base ELSE trace
             IN  /\ ~query.unknown
                 /\ query.res = {v \in Value : /\ query.key \in {None, KeyOf[v]}
                                               /\ committed[query.arrid][v] # 0}

\* A chunk reaches a worker at the epoch of the worker's sessions, which is the open epoch
\* of the dataflow: update_at never meets a time that its session has left, and no two
\* epochs are ever fed at once.  The same holds of the last update of Enabled.
OneOpenEpoch ==
    \A w \in Worker : \A i \in DOMAIN requests[w] :
        /\ requests[w][i].type = "Update" =>
              requests[w][i].timestamp = frontier /\ time[w] = frontier
        /\ requests[w][i].type = "Flush" => requests[w][i].advance_to = frontier + 1
        /\ requests[w][i].type = "Stop" => last[w] = frontier /\ time[w] = frontier

\* Replies are those of the request in progress, one per worker: a flush never reads the
\* answer of a query nor a query a FlushAck, and none is left over when a method returns.
RepliesMatch ==
    \A w \in Worker :
        /\ Len(replies[w]) <= 1
        /\ replies[w] # <<>> =>
              /\ awaiting <= w
              /\ call \in Flushing \cup {"query"}
              /\ (Head(replies[w]).type = "FlushAck") = (call \in Flushing)

\* The Enabled relation holds its record from the constructor's return until every worker
\* has seen Stop, and has lost it when the workers have been joined: the record is inserted
\* and deleted once, by the leader, whatever the order in which the workers get there.
EnabledWhileRunning ==
    /\ call \notin {"run", "join"} => enabled.trace = IF running THEN 1 ELSE 0
    /\ \A w \in Worker : pc[w] = "loop" => enabled.trace = 1
    /\ \A w \in Worker : pc[w] = "stopped" => enabled.trace = 0

\* A rollback brings "the database back to [...] the state where it was before the start of
\* the transaction" (rust/template/ddlog.h:475-477), the dataflow included.
RollbackRestoresDataflow == Flushed("undone") => trace = base

\* What the dataflow shows changes only while a commit, a rollback or stop waits for
\* its flush: never during updates, queries, or between calls.
OutputsOnlyInFlush == [][trace' # trace => call \in Flushing]_vars

\* Every method that is called returns: no flush, query, rollback or stop waits for ever.
Returns == call # "idle" ~> call = "idle"
=============================================================================
