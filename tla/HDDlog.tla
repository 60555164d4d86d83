-------------------------------- MODULE HDDlog --------------------------------
(***************************************************************************)
(* The API object HDDlog (rust/template/differential_datalog/src/api/      *)
(* mod.rs) shared by client threads, and the update handler that records   *)
(* output changes for it (api/update_handler.rs).                          *)
(*                                                                         *)
(* The running program is behind the mutex `prog`.  Timely workers report  *)
(* the changes of output relations through mt_update_cb, which sends them  *)
(* over an unbounded channel to the thread of ThreadUpdateHandler.  That   *)
(* thread runs a ChainedUpdateHandler: a DeltaUpdateHandler, which records *)
(* in deltadb the changes of one transaction, and, with do_store, a        *)
(* ValMapUpdateHandler, which keeps in db the contents of the outputs.     *)
(* Both hold their mutex from before_commit to after_commit.               *)
(*                                                                         *)
(* RunningProgram is a module of its own; here it is reduced to the rows   *)
(* of the output relations, the changes a transaction makes to them and    *)
(* the changes a flush reports.                                            *)
(***************************************************************************)
EXTENDS Integers, Sequences, FiniteSets

CONSTANTS
    Thread,         \* client threads
    Row,            \* rows of output relations
    None,           \* no thread, no map
    DoStore,        \* the do_store argument of HDDlog::new
    Serialised,     \* clients do not overlap commits, rollbacks and stop
    MaxTxns         \* bound: transactions started

ASSUME HDDlogAssumption ==
    /\ None \notin Thread \cup {"handler"} \cup [Row -> Int]
    /\ DoStore \in BOOLEAN
    /\ Serialised \in BOOLEAN
    /\ MaxTxns \in Nat

VARIABLES
    \* RunningProgram
    prog,           \* [tip, out, delta, running]: transaction_in_progress, the outputs of the last
                    \* flushed state, changes not flushed yet, worker_guards.is_some()
    prog_lock,      \* holder of the mutex of prog
    \* client threads
    cpc,            \* where each client is
    dump,           \* the client's commit is transaction_commit_dump_changes
    success,        \* result of the client's commit
    emit,           \* changes the workers have still to report before the client goes on
    undo,           \* changes the client's rollback has still to reverse
    \* ThreadUpdateHandler
    channel,        \* msg_channel
    hpc,            \* where the handler thread is
    db, deltadb,    \* contents of the two maps; deltadb may be None
    db_lock, delta_lock, \* holders of their mutexes: a client, the handler thread or None
    \* history
    txns,           \* transactions started
    committed,      \* outputs as of the last commit
    previous        \* outputs as of the commit before it

vars == <<prog, prog_lock, cpc, dump, success, emit, undo, channel, hpc, db, deltadb,
          db_lock, delta_lock, txns, committed, previous>>

clientvars == <<cpc, dump, success, emit, undo>>
handlervars == <<hpc, db, deltadb, db_lock, delta_lock>>
histvars == <<txns, committed, previous>>

-----------------------------------------------------------------------------
(* Types *)

ZSet == [Row -> Int]
Zero == [x \in Row |-> 0]
Plus(f, g) == [x \in Row |-> f[x] + g[x]]
Neg(f) == [x \in Row |-> -f[x]]

Handler == "handler"

Msg ==
    [type : {"BeforeCommit", "AfterCommit", "Stop"}]
        \cup [type : {"Update"}, row : Row, w : Int]

TypeOK ==
    /\ prog \in [tip : BOOLEAN, out : ZSet, delta : ZSet, running : BOOLEAN]
    /\ prog_lock \in Thread \cup {None}
    /\ cpc \in [Thread -> {"idle", "reset", "before", "lock", "commit", "after", "barrier",
                           "take", "rollback", "undo", "stop", "drop"}]
    /\ dump \in [Thread -> BOOLEAN]
    /\ success \in [Thread -> BOOLEAN]
    /\ emit \in ZSet
    /\ undo \in ZSet
    /\ channel \in Seq(Msg)
    /\ hpc \in {"recv", "lock_delta", "lock_db", "drain", "release", "barrier", "dead", "done"}
    /\ db \in ZSet
    /\ deltadb = None \/ deltadb \in ZSet
    /\ {db_lock, delta_lock} \subseteq {Handler, None}
    /\ txns \in Nat
    /\ committed \in ZSet
    /\ previous \in ZSet

-----------------------------------------------------------------------------
(* The state after HDDlog::new, whose initial transaction has been recorded and taken. *)

Init ==
    /\ prog = [tip |-> FALSE, out |-> Zero, delta |-> Zero, running |-> TRUE]
    /\ prog_lock = None
    /\ cpc = [t \in Thread |-> "idle"]
    /\ dump = [t \in Thread |-> FALSE]
    /\ success = [t \in Thread |-> FALSE]
    /\ emit = Zero
    /\ undo = Zero
    /\ channel = <<>>
    /\ hpc = "recv"
    /\ db = Zero
    /\ deltadb = None
    /\ db_lock = None
    /\ delta_lock = None
    /\ txns = 0
    /\ committed = Zero
    /\ previous = Zero

Goto(t, l) == cpc' = [cpc EXCEPT ![t] = l]

\* The handler thread, and with it the receiving end of the channel, is there.
Connected == hpc \notin {"dead", "done"}

\* A sender panics when the receiver is gone, and its call does not go on.
Send(msg) == Connected /\ channel' = Append(channel, msg)

\* A call may begin.  Handles are not used after stop.
Ready(t) == cpc[t] = "idle" /\ prog.running

\* With Serialised, clients do not overlap the calls that flush.
Alone(t) == Serialised => \A u \in Thread : cpc[u] = "idle"

-----------------------------------------------------------------------------
(* Calls that only use the program, and hold its mutex for their whole duration *)

transaction_start(t) ==
    /\ Ready(t)
    /\ prog_lock = None
    /\ ~prog.tip
    /\ txns < MaxTxns
    /\ prog' = [prog EXCEPT !.tip = TRUE]
    /\ txns' = txns + 1
    /\ UNCHANGED <<prog_lock, clientvars, channel, handlervars, committed, previous>>

\* apply_updates and clear_relation: the transaction inserts or deletes an output row.
apply_updates(t, x) ==
    /\ Ready(t)
    /\ prog_lock = None
    /\ prog.tip
    /\ prog' = [prog EXCEPT !.delta[x] = IF prog.out[x] + @ = 0 THEN @ + 1 ELSE @ - 1]
    /\ UNCHANGED <<prog_lock, clientvars, channel, handlervars, histvars>>

-----------------------------------------------------------------------------
(* transaction_commit and transaction_commit_dump_changes *)

transaction_commit(t) ==
    /\ Ready(t)
    /\ Alone(t)
    /\ dump' = [dump EXCEPT ![t] = FALSE]
    /\ Goto(t, "before")
    /\ UNCHANGED <<prog, prog_lock, success, emit, undo, channel, handlervars, histvars>>

\* Mutant of transaction_commit_dump_changes: no fresh map to record into.
commit_dump_without_reset(t) ==
    /\ Ready(t)
    /\ Alone(t)
    /\ dump' = [dump EXCEPT ![t] = TRUE]
    /\ Goto(t, "before")
    /\ UNCHANGED <<prog, prog_lock, success, emit, undo, channel, handlervars, histvars>>

transaction_commit_dump_changes(t) ==
    /\ Ready(t)
    /\ Alone(t)
    /\ dump' = [dump EXCEPT ![t] = TRUE]
    /\ Goto(t, "reset")
    /\ UNCHANGED <<prog, prog_lock, success, emit, undo, channel, handlervars, histvars>>

\* Mutant of reset_deltadb: the guard outlives the statement.
reset_deltadb_and_hold(t) ==
    /\ cpc[t] = "reset"
    /\ delta_lock = None
    /\ delta_lock' = t
    /\ deltadb' = Zero
    /\ Goto(t, "before")
    /\ UNCHANGED <<prog, prog_lock, dump, success, emit, undo, channel, hpc, db, db_lock, histvars>>

\* *self.deltadb.lock() = Some(DeltaMap::new())
reset_deltadb(t) ==
    /\ cpc[t] = "reset"
    /\ delta_lock = None
    /\ deltadb' = Zero
    /\ Goto(t, "before")
    /\ UNCHANGED <<prog, prog_lock, dump, success, emit, undo, channel, hpc, db, db_lock,
                   delta_lock, histvars>>

\* before_commit only sends a message, and holds no lock.
before_commit(t) ==
    /\ cpc[t] = "before"
    /\ Send([type |-> "BeforeCommit"])
    /\ Goto(t, "lock")
    /\ UNCHANGED <<prog, prog_lock, dump, success, emit, undo, handlervars, histvars>>

\* The mutex is taken and RunningProgram::transaction_commit starts: it fails without a
\* transaction, and flushes otherwise.
commit_lock(t) ==
    /\ cpc[t] = "lock"
    /\ prog_lock = None
    /\ prog_lock' = t
    /\ success' = [success EXCEPT ![t] = prog.tip]
    /\ IF prog.tip
       THEN /\ emit' = prog.delta
            /\ Goto(t, "commit")
       ELSE /\ Goto(t, "after")
            /\ UNCHANGED emit
    /\ UNCHANGED <<prog, dump, undo, channel, handlervars, histvars>>

\* A worker reports one row of the changes of a flush, in any order.
mt_update_cb ==
    /\ \E x \in Row :
          /\ emit[x] # 0
          /\ Send([type |-> "Update", row |-> x, w |-> emit[x]])
          /\ emit' = [emit EXCEPT ![x] = 0]
    /\ UNCHANGED <<prog, prog_lock, cpc, dump, success, undo, handlervars, histvars>>

\* The flush has completed and the transaction ends.
commit_flushed(t) ==
    /\ cpc[t] = "commit"
    /\ emit = Zero
    /\ prog' = [prog EXCEPT !.tip = FALSE, !.out = Plus(@, prog.delta), !.delta = Zero]
    /\ committed' = Plus(prog.out, prog.delta)
    /\ previous' = committed
    /\ Goto(t, "after")
    /\ UNCHANGED <<prog_lock, dump, success, emit, undo, channel, handlervars, txns>>

\* A commit with dump takes the changes; another one is over, and releases the program.
AfterHandler(t) ==
    IF dump[t] /\ success[t]
    THEN Goto(t, "take") /\ UNCHANGED prog_lock
    ELSE Goto(t, "idle") /\ prog_lock' = None

\* after_commit, still under the mutex of the program: the guard of the match lives on.  It
\* does not wait for a handler thread that is gone.
after_commit(t) ==
    /\ cpc[t] = "after"
    /\ IF Connected
       THEN Send([type |-> "AfterCommit"]) /\ Goto(t, "barrier") /\ UNCHANGED prog_lock
       ELSE AfterHandler(t) /\ UNCHANGED channel
    /\ UNCHANGED <<prog, dump, success, emit, undo, handlervars, histvars>>

\* The barrier of two lets the client and the handler thread go on together.
commit_barrier(t) ==
    /\ cpc[t] = "barrier"
    /\ hpc = "barrier"
    /\ hpc' = "recv"
    /\ AfterHandler(t)
    /\ UNCHANGED <<prog, dump, success, emit, undo, channel, db, deltadb, db_lock, delta_lock,
                   histvars>>

\* Mutant of take_deltadb: the mutex of the program is never released.
take_deltadb_and_hold(t) ==
    /\ cpc[t] = "take"
    /\ delta_lock = None
    /\ deltadb' = None
    /\ Goto(t, "idle")
    /\ UNCHANGED <<prog, prog_lock, dump, success, emit, undo, channel, hpc, db, db_lock,
                   delta_lock, histvars>>

\* delta.take() returns the recorded changes and disables recording.
take_deltadb(t) ==
    /\ cpc[t] = "take"
    /\ delta_lock = None
    /\ deltadb' = None
    /\ prog_lock' = None
    /\ Goto(t, "idle")
    /\ UNCHANGED <<prog, dump, success, emit, undo, channel, hpc, db, db_lock, delta_lock,
                   histvars>>

-----------------------------------------------------------------------------
(* transaction_rollback and stop *)

transaction_rollback(t) ==
    /\ Ready(t)
    /\ Alone(t)
    /\ prog_lock = None
    /\ prog.tip
    /\ prog_lock' = t
    /\ emit' = prog.delta
    /\ undo' = prog.delta
    /\ Goto(t, "rollback")
    /\ UNCHANGED <<prog, dump, success, channel, handlervars, histvars>>

\* The updates have been flushed; now their reversal is.
delta_undo(t) ==
    /\ cpc[t] = "rollback"
    /\ emit = Zero
    /\ emit' = Neg(undo)
    /\ undo' = Zero
    /\ Goto(t, "undo")
    /\ UNCHANGED <<prog, prog_lock, dump, success, channel, handlervars, histvars>>

rollback_return(t) ==
    /\ cpc[t] = "undo"
    /\ emit = Zero
    /\ prog' = [prog EXCEPT !.tip = FALSE, !.delta = Zero]
    /\ prog_lock' = None
    /\ Goto(t, "idle")
    /\ UNCHANGED <<dump, success, emit, undo, channel, handlervars, histvars>>

\* ddlog_stop: all concurrent calls must have completed.  The program flushes what an
\* unfinished transaction has left; then the HDDlog object, and with it the handler, is dropped.
stop(t) ==
    /\ Ready(t)
    /\ \A u \in Thread : cpc[u] = "idle"
    /\ emit' = prog.delta
    /\ prog' = [prog EXCEPT !.running = FALSE]
    /\ Goto(t, "stop")
    /\ UNCHANGED <<prog_lock, dump, success, undo, channel, handlervars, histvars>>

drop_handler(t) ==
    /\ cpc[t] = "stop"
    /\ emit = Zero
    /\ Send([type |-> "Stop"])
    /\ Goto(t, "idle")
    /\ UNCHANGED <<prog, prog_lock, dump, success, emit, undo, handlervars, histvars>>

-----------------------------------------------------------------------------
(* The handler thread *)

\* The thread holds the guards of both maps between before_commit and after_commit.
Locked == delta_lock = Handler

\* DeltaMap::update: an entry whose count reaches 0 is removed.
update(map, msg) == [map EXCEPT ![msg.row] = @ + msg.w]

\* Mutant of update_cb: changes are recorded outside a commit too.
update_cb_always(msg) ==
    /\ deltadb' = IF deltadb # None THEN update(deltadb, msg) ELSE deltadb
    /\ db' = IF DoStore THEN update(db, msg) ELSE db

\* update_cb of the chained handlers: ignored outside a commit.
update_cb(msg) ==
    /\ deltadb' = IF Locked /\ deltadb # None THEN update(deltadb, msg) ELSE deltadb
    /\ db' = IF Locked /\ DoStore THEN update(db, msg) ELSE db

\* A thread that ends drops its handlers, and they drop the guards they hold.
DropGuards ==
    IF hpc' = "done"
    THEN delta_lock' = None /\ db_lock' = None
    ELSE UNCHANGED <<delta_lock, db_lock>>

\* One message of the main loop of the thread.
recv ==
    /\ hpc = "recv"
    /\ channel # <<>>
    /\ channel' = Tail(channel)
    /\ LET msg == Head(channel)
       IN  \/ /\ msg.type = "Update"
              /\ update_cb(msg)
              /\ UNCHANGED hpc
           \/ /\ msg.type # "Update"
              /\ hpc' = CASE msg.type = "BeforeCommit" -> "lock_delta"
                          [] msg.type = "AfterCommit" -> "drain"
                          [] msg.type = "Stop" -> "done"
              /\ UNCHANGED <<db, deltadb>>
    /\ DropGuards
    /\ UNCHANGED <<prog, prog_lock, clientvars, histvars>>

\* before_commit of the DeltaUpdateHandler, then of the ValMapUpdateHandler.  A mutex
\* that the thread already holds is never free for it.
lock_delta ==
    /\ hpc = "lock_delta"
    /\ delta_lock = None
    /\ delta_lock' = Handler
    /\ hpc' = IF DoStore THEN "lock_db" ELSE "recv"
    /\ UNCHANGED <<prog, prog_lock, clientvars, channel, db, deltadb, db_lock, histvars>>

lock_db ==
    /\ hpc = "lock_db"
    /\ db_lock = None
    /\ db_lock' = Handler
    /\ hpc' = "recv"
    /\ UNCHANGED <<prog, prog_lock, clientvars, channel, db, deltadb, delta_lock, histvars>>

\* The loop of try_recv after AfterCommit: any message but Update and Stop is taken from
\* the channel and dropped.
drain ==
    /\ hpc = "drain"
    /\ IF channel = <<>>
       THEN hpc' = "release" /\ UNCHANGED <<channel, db, deltadb>>
       ELSE /\ channel' = Tail(channel)
            /\ IF Head(channel).type = "Update"
               THEN update_cb(Head(channel)) /\ UNCHANGED hpc
               ELSE /\ hpc' = IF Head(channel).type = "Stop" THEN "done" ELSE "release"
                    /\ UNCHANGED <<db, deltadb>>
    /\ DropGuards
    /\ UNCHANGED <<prog, prog_lock, clientvars, histvars>>

\* Mutant of release: the DeltaUpdateHandler keeps its guard.
release_db_only ==
    /\ hpc = "release"
    /\ hpc' = IF Locked THEN "barrier" ELSE "dead"
    /\ db_lock' = None
    /\ UNCHANGED <<prog, prog_lock, clientvars, channel, db, deltadb, delta_lock, histvars>>

\* after_commit of both handlers asserts that the guards are held, and drops them.
release ==
    /\ hpc = "release"
    /\ hpc' = IF Locked THEN "barrier" ELSE "dead"
    /\ delta_lock' = None
    /\ db_lock' = None
    /\ UNCHANGED <<prog, prog_lock, clientvars, channel, db, deltadb, histvars>>

-----------------------------------------------------------------------------

Continue(t) ==
    \/ reset_deltadb(t) \/ before_commit(t) \/ commit_lock(t) \/ commit_flushed(t)
    \/ after_commit(t) \/ commit_barrier(t) \/ take_deltadb(t)
    \/ delta_undo(t) \/ rollback_return(t) \/ drop_handler(t)

HandlerNext == recv \/ lock_delta \/ lock_db \/ drain \/ release

ClientCall(t) ==
    \/ transaction_start(t) \/ (\E x \in Row : apply_updates(t, x))
    \/ transaction_commit(t) \/ transaction_commit_dump_changes(t)
    \/ transaction_rollback(t) \/ stop(t)

\* The handler thread has ended after stop.
Finished == hpc = "done" /\ UNCHANGED vars

Next ==
    \/ \E t \in Thread : ClientCall(t) \/ Continue(t)
    \/ HandlerNext
    \/ mt_update_cb
    \/ Finished

Spec == Init /\ [][Next]_vars

\* Threads are scheduled, and the dataflow reports its changes.
FairSpec ==
    /\ Spec
    /\ \A t \in Thread : WF_vars(Continue(t))
    /\ WF_vars(HandlerNext)
    /\ WF_vars(mt_update_cb)

-----------------------------------------------------------------------------
(* Properties *)

\* Whenever the mutex of db is free, dump_table would read a committed state, never one with
\* part of a transaction in it, nor with the changes of a rollback or of stop; and the state of
\* the last commit once the commit has returned: "the content of the table returned by this
\* function represents database state after the last committed transaction" (ddlog.h:613-614).
DumpCommitted ==
    DoStore /\ db_lock = None =>
        /\ db \in {committed, previous}
        /\ (\A t \in Thread : cpc[t] = "idle") => db = committed

\* transaction_commit_dump_changes returns exactly the changes its transaction made to the
\* outputs: delta.take() finds a map, with no change missing, left over or counted twice.
ChangesExact ==
    \A t \in Thread : cpc[t] = "take" => deltadb = Plus(committed, Neg(previous))

\* before_commit and after_commit of the handler thread come in pairs: the thread never waits
\* for a mutex it holds, and the assertions of before_commit and after_commit never fail.
HandlerAlternates ==
    /\ hpc = "lock_delta" => delta_lock # Handler
    /\ hpc = "lock_db" => db_lock # Handler
    /\ hpc # "dead"
    /\ DoStore /\ hpc # "lock_db" => db_lock = delta_lock

\* Every call of a client returns.
CallsReturn == \A t \in Thread : cpc[t] # "idle" ~> cpc[t] = "idle"
=============================================================================
