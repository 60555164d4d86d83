------------------------ MODULE RunningProgramProofs ------------------------
(***************************************************************************)
(* Theorems about RunningProgram for any number of workers, relations and  *)
(* values: deltas are exact, a rollback never fails and restores every     *)
(* relation.  They hold for programs whose mutators keep the primary key   *)
(* (KeyPreserving); for others a rollback does fail.  Then its types: the  *)
(* channels only carry well-formed messages, the chunks dealt to the       *)
(* workers included, and all weights are integers.                         *)
(*                                                                         *)
(* Last the protocol between the client and the workers: which requests    *)
(* and replies a channel may hold while a method runs, and at which epoch  *)
(* each worker is.                                                         *)
(***************************************************************************)
EXTENDS RunningProgram, InputRelationProofs, SequenceTheorems

-----------------------------------------------------------------------------
(* The inductive invariant *)

\* Every relation is sound.
RelationsSound ==
    /\ kind \in [RelId -> Kind]
    /\ elements = [r \in RelId |-> elements[r]]
    /\ \A r \in RelId : Sound(kind[r], elements[r])
    /\ delta \in Collection

\* Methods that change relations, commit or roll back run inside a transaction.
InTransaction ==
    call \in {"updates", "undo", "clear", "commit", "rollback", "undo_flush", "undone"} =>
        transaction_in_progress

\* The transaction started from contents that relations can have.
SnapshotSound ==
    transaction_in_progress => \A r \in RelId : SoundContents(kind[r], snapshot[r])

\* The contents differ from the snapshot by the delta.
DeltaMatches ==
    IF transaction_in_progress
    THEN \A r \in RelId : kind[r] # "Stream" =>
            \A v \in Value : Contents(kind[r], elements[r])[v] = snapshot[r][v] + delta[r][v]
    ELSE delta = EmptyCollection

\* A rollback has still to reverse what is left in the delta, and in the end nothing is.
UndoMatches ==
    /\ todo \in Collection
    /\ call = "undo" => todo = delta
    /\ call \in {"undo_flush", "undone"} => delta = EmptyCollection

IInv == RelationsSound /\ InTransaction /\ SnapshotSound /\ DeltaMatches /\ UndoMatches

-----------------------------------------------------------------------------
(* Lemmas *)

\* The empty collection is a collection.
LEMMA EmptyCollectionType == EmptyZSet \in ZSet /\ EmptyCollection \in Collection
  BY DEF EmptyZSet, ZSet, EmptyCollection, Collection

\* The contents of sound relations are Z-sets.
LEMMA AllContentsType ==
    ASSUME RelationsSound
    PROVE  /\ AllContents \in Collection
           /\ \A r \in RelId : SoundContents(kind[r], AllContents[r])
  <1>1. ASSUME NEW r \in RelId
        PROVE  /\ AllContents[r] = Contents(kind[r], elements[r])
               /\ Contents(kind[r], elements[r]) \in ZSet
               /\ SoundContents(kind[r], Contents(kind[r], elements[r]))
    <2>1. kind[r] \in Kind /\ Sound(kind[r], elements[r])
      BY DEF RelationsSound
    <2> QED  BY <2>1, ContentsType, ContentsSound DEF AllContents
  <1> QED  BY <1>1 DEF AllContents, Collection

\* A step that leaves the relations, the transaction, the snapshot and the updates still to be
\* undone alone.
LEMMA Quiet ==
    ASSUME IInv,
           UNCHANGED <<kind, elements, delta, transaction_in_progress, todo, snapshot>>,
           \/ call' \in {call, "idle", "query", "stop", "join"}
           \/ call' \in {"updates", "commit", "rollback"} /\ transaction_in_progress
           \/ call = "undo_flush" /\ call' = "undone"
    PROVE  IInv'
  BY DEF IInv, RelationsSound, InTransaction, SnapshotSound, DeltaMatches, UndoMatches

\* One iteration of apply_updates.
LEMMA ApplyKeeps ==
    ASSUME KeyPreserving, IInv, transaction_in_progress, NEW r \in RelId, NEW u \in Update,
           Apply(r, u), UNCHANGED <<kind, transaction_in_progress, snapshot>>
    PROVE  /\ RelationsSound' /\ SnapshotSound' /\ DeltaMatches'
           /\ call' \in {call, "idle"}
  <1> DEFINE res == apply_update(kind[r], elements[r], delta[r], u)
  <1>1. kind[r] \in Kind /\ Sound(kind[r], elements[r]) /\ delta[r] \in ZSet
    BY DEF IInv, RelationsSound, Collection
  <1>2. UpdateKeeps(kind[r], elements[r], delta[r], res)
    BY <1>1, ApplyUpdate
  <1>3. /\ elements' = [elements EXCEPT ![r] = res.s]
        /\ delta' = [delta EXCEPT ![r] = res.ds]
        /\ call' \in {call, "idle"}
    BY DEF Apply, Abort
  <1> HIDE DEF res
  <1>4. /\ elements'[r] = res.s /\ delta'[r] = res.ds
        /\ \A q \in RelId \ {r} : elements'[q] = elements[q] /\ delta'[q] = delta[q]
    BY <1>3 DEF IInv, RelationsSound, Collection
  <1>5. RelationsSound'
    <2>1. elements' = [q \in RelId |-> elements'[q]]
      BY <1>3 DEF IInv, RelationsSound
    <2>2. delta' \in Collection
      BY <1>2, <1>3 DEF IInv, RelationsSound, Collection, UpdateKeeps
    <2>3. \A q \in RelId : Sound(kind[q], elements'[q])
      BY <1>2, <1>4 DEF IInv, RelationsSound, UpdateKeeps
    <2> QED  BY <2>1, <2>2, <2>3 DEF IInv, RelationsSound
  <1>6. DeltaMatches'
    <2> SUFFICES ASSUME NEW q \in RelId, kind[q] # "Stream", NEW v \in Value
                 PROVE  Contents(kind[q], elements'[q])[v] = snapshot[q][v] + delta'[q][v]
      BY DEF DeltaMatches
    <2>1. Contents(kind[q], elements[q])[v] = snapshot[q][v] + delta[q][v]
      BY DEF IInv, DeltaMatches
    <2>2. CASE q # r
      BY <1>4, <2>1, <2>2
    <2>3. CASE q = r
      <3>1. Contents(kind[r], res.s)[v] - res.ds[v] = Contents(kind[r], elements[r])[v] - delta[r][v]
        BY <1>2, <2>3 DEF UpdateKeeps
      <3>2. snapshot[r][v] \in Int /\ delta[r][v] \in Int /\ res.ds[v] \in Int
        BY <1>1, <1>2 DEF IInv, SnapshotSound, SoundContents, ZSet, UpdateKeeps
      <3>3. Contents(kind[r], res.s)[v] \in Int
        BY <1>1, <1>2, ContentsType DEF UpdateKeeps, ZSet
      <3> QED  BY <1>4, <2>1, <2>3, <3>1, <3>2, <3>3
    <2> QED  BY <2>2, <2>3
  <1>7. SnapshotSound'
    BY DEF IInv, SnapshotSound
  <1> QED  BY <1>3, <1>5, <1>6, <1>7

\* The inductive invariant holds initially.
LEMMA InitIInv == Init => IInv
  <1> SUFFICES ASSUME Init
               PROVE  IInv
    OBVIOUS
  <1>1. \A r \in RelId : kind[r] \in Kind /\ elements[r] = NoElements(kind[r])
    BY DEF Init
  <1>2. \A r \in RelId : Sound(kind[r], elements[r])
    BY <1>1, NoElementsSound
  <1>3. RelationsSound
    BY <1>2, EmptyCollectionType DEF Init, RelationsSound
  <1> QED
    BY <1>3, EmptyCollectionType
       DEF Init, IInv, InTransaction, SnapshotSound, DeltaMatches, UndoMatches

-----------------------------------------------------------------------------
(* The steps that change what the invariant speaks of *)

\* transaction_start: the snapshot is the contents, and the delta is empty.
LEMMA StartKeeps == IInv /\ transaction_start => IInv'
  <1> SUFFICES ASSUME IInv, transaction_start
               PROVE  IInv'
    OBVIOUS
  <1>1. /\ UNCHANGED <<kind, elements, delta, call, todo>>
        /\ snapshot' = AllContents /\ transaction_in_progress' /\ delta = EmptyCollection
    BY DEF transaction_start, IInv, DeltaMatches, relvars, loopvars
  <1>2. \A r \in RelId : SoundContents(kind[r], AllContents[r])
    BY AllContentsType DEF IInv
  <1>3. \A r \in RelId, v \in Value :
           Contents(kind[r], elements[r])[v] = AllContents[r][v] + EmptyCollection[r][v]
    BY <1>2 DEF AllContents, SoundContents, ZSet, EmptyCollection, EmptyZSet
  <1>4. SnapshotSound'
    BY <1>1, <1>2 DEF SnapshotSound
  <1>5. DeltaMatches'
    BY <1>1, <1>3 DEF DeltaMatches
  <1> QED
    BY <1>1, <1>4, <1>5 DEF IInv, RelationsSound, InTransaction, UndoMatches

\* The return of transaction_commit empties the delta (delta_cleanup).
LEMMA CommitKeeps == IInv /\ transaction_commit_return => IInv'
  BY EmptyCollectionType
     DEF transaction_commit_return, loopvars, IInv, RelationsSound, InTransaction, SnapshotSound,
         DeltaMatches, UndoMatches

\* The return of transaction_rollback finds the delta empty.
LEMMA RollbackKeeps == IInv /\ transaction_rollback_return => IInv'
  BY DEF transaction_rollback_return, Flushed, relvars, loopvars, IInv, RelationsSound,
         InTransaction, SnapshotSound, DeltaMatches, UndoMatches

\* delta_undo sets out to reverse the whole delta.
LEMMA UndoKeeps == IInv /\ delta_undo => IInv'
  BY DEF delta_undo, Flushed, relvars, txnvars, histvars, IInv, RelationsSound, InTransaction,
         SnapshotSound, DeltaMatches, UndoMatches

\* A rollback sends what it has applied when nothing is left to undo.
LEMMA SendKeeps == IInv /\ apply_updates_send => IInv'
  BY DEF apply_updates_send, relvars, histvars, IInv, RelationsSound, InTransaction, SnapshotSound,
         DeltaMatches, UndoMatches

\* An update of the caller, which may fail.
LEMMA StepKeeps == KeyPreserving /\ IInv /\ apply_updates_step => IInv'
  <1> SUFFICES ASSUME KeyPreserving, IInv, apply_updates_step
               PROVE  IInv'
    OBVIOUS
  <1>1. PICK r \in RelId, u \in Update : Apply(r, u)
    BY DEF apply_updates_step
  <1>2. call = "updates" /\ UNCHANGED <<kind, transaction_in_progress, todo, snapshot>>
    BY DEF apply_updates_step, txnvars
  <1>3. transaction_in_progress
    BY <1>2 DEF IInv, InTransaction
  <1>4. RelationsSound' /\ SnapshotSound' /\ DeltaMatches' /\ call' \in {"updates", "idle"}
    BY <1>1, <1>2, <1>3, ApplyKeeps
  <1> QED  BY <1>2, <1>3, <1>4 DEF IInv, InTransaction, UndoMatches

\* clear_relation sets out to delete the contents of a relation.
LEMMA ClearKeeps == IInv /\ (\E r \in RelId : clear_relation(r)) => IInv'
  <1> SUFFICES ASSUME IInv, NEW r \in RelId, clear_relation(r)
               PROVE  IInv'
    OBVIOUS
  <1>1. Contents(kind[r], elements[r]) \in ZSet
    BY ContentsType DEF IInv, RelationsSound
  <1>2. todo' \in Collection
    BY <1>1, EmptyCollectionType DEF clear_relation, Collection
  <1> QED
    BY <1>2 DEF clear_relation, Ready, relvars, txnvars, histvars, IInv, RelationsSound,
                InTransaction, SnapshotSound, DeltaMatches, UndoMatches

\* A collection with one count moved towards 0 is a collection.
LEMMA CountDown ==
    ASSUME NEW c \in Collection, NEW r \in RelId, NEW v \in Value
    PROVE  [c EXCEPT ![r][v] = IF @ > 0 THEN @ - 1 ELSE @ + 1] \in Collection
  BY DEF Collection, ZSet

\* One deletion of clear_relation.
LEMMA ClearStepKeeps == KeyPreserving /\ IInv /\ clear_relation_step => IInv'
  <1> SUFFICES ASSUME KeyPreserving, IInv, clear_relation_step
               PROVE  IInv'
    OBVIOUS
  <1>1. PICK r \in RelId : \E u \in clear_updates(r) :
           LET v == IF u.op = "DeleteKey" THEN elements[r][u.k] ELSE u.v
           IN  /\ todo[r][v] # 0
               /\ Apply(r, u)
               /\ todo' = [todo EXCEPT ![r][v] = IF @ > 0 THEN @ - 1 ELSE @ + 1]
    BY DEF clear_relation_step
  <1>2. PICK u \in clear_updates(r) :
           LET v == IF u.op = "DeleteKey" THEN elements[r][u.k] ELSE u.v
           IN  /\ todo[r][v] # 0
               /\ Apply(r, u)
               /\ todo' = [todo EXCEPT ![r][v] = IF @ > 0 THEN @ - 1 ELSE @ + 1]
    BY <1>1
  <1>3. call = "clear" /\ UNCHANGED <<kind, transaction_in_progress, snapshot>>
    BY DEF clear_relation_step, txnvars
  <1>4. transaction_in_progress
    BY <1>3 DEF IInv, InTransaction
  <1> DEFINE v == IF u.op = "DeleteKey" THEN elements[r][u.k] ELSE u.v
  <1>5. u \in Update /\ v \in Value
    <2>1. CASE kind[r] = "Indexed"
      <3>1. elements[r] \in IndexedValSet
        BY <2>1 DEF IInv, RelationsSound, Sound, Elements
      <3>2. \E k \in Key : u = DeleteKey(k) /\ elements[r][k] # None
        BY <2>1 DEF clear_updates
      <3> QED  BY <3>1, <3>2 DEF DeleteKey, Update, IndexedValSet
    <2>2. CASE kind[r] # "Indexed"
      BY <2>2 DEF clear_updates, delta_undo_updates, Insert, DeleteValue, Update
    <2> QED  BY <2>1, <2>2
  <1>6. todo' \in Collection
    BY <1>2, <1>5, CountDown DEF IInv, UndoMatches
  <1>7. RelationsSound' /\ SnapshotSound' /\ DeltaMatches' /\ call' \in {"clear", "idle"}
    BY <1>2, <1>3, <1>4, <1>5, ApplyKeeps
  <1> QED  BY <1>3, <1>4, <1>6, <1>7 DEF IInv, InTransaction, UndoMatches

\* The next update of a rollback succeeds, and reduces the delta as it reduces todo.
LEMMA UndoOk ==
    ASSUME IInv, call = "undo", NEW r \in RelId, NEW u \in delta_undo_updates(todo[r])
    PROVE  /\ u \in Update /\ u.v \in Value
           /\ apply_update(kind[r], elements[r], delta[r], u).ok
           /\ apply_update(kind[r], elements[r], delta[r], u).ds
                 = [delta[r] EXCEPT ![u.v] = IF @ > 0 THEN @ - 1 ELSE @ + 1]
  <1>1. todo[r] = delta[r] /\ transaction_in_progress
    BY DEF IInv, UndoMatches, InTransaction
  <1>2. /\ kind[r] \in Kind /\ Sound(kind[r], elements[r]) /\ delta[r] \in ZSet
        /\ SoundContents(kind[r], snapshot[r])
        /\ kind[r] # "Stream" =>
              \A v \in Value : Contents(kind[r], elements[r])[v] = snapshot[r][v] + delta[r][v]
    BY <1>1 DEF IInv, RelationsSound, Collection, SnapshotSound, DeltaMatches
  <1> QED  BY <1>1, <1>2, UndoUpdate

\* One update of a rollback: the delta and what is left to undo stay equal.
LEMMA UndoStepKeeps == KeyPreserving /\ IInv /\ delta_undo_step => IInv'
  <1> SUFFICES ASSUME KeyPreserving, IInv, delta_undo_step
               PROVE  IInv'
    OBVIOUS
  <1>1. PICK r \in RelId : \E u \in delta_undo_updates(todo[r]) :
           /\ Apply(r, u)
           /\ todo' = [todo EXCEPT ![r][u.v] = IF @ > 0 THEN @ - 1 ELSE @ + 1]
    BY DEF delta_undo_step
  <1>2. PICK u \in delta_undo_updates(todo[r]) :
           /\ Apply(r, u)
           /\ todo' = [todo EXCEPT ![r][u.v] = IF @ > 0 THEN @ - 1 ELSE @ + 1]
    BY <1>1
  <1>3. call = "undo" /\ UNCHANGED <<kind, transaction_in_progress, snapshot>>
    BY DEF delta_undo_step, txnvars
  <1>4. transaction_in_progress /\ todo = delta /\ delta \in Collection
    BY <1>3 DEF IInv, InTransaction, UndoMatches, RelationsSound
  <1> DEFINE res == apply_update(kind[r], elements[r], delta[r], u)
  <1>5. /\ u \in Update /\ u.v \in Value
        /\ res.ok
        /\ res.ds = [delta[r] EXCEPT ![u.v] = IF @ > 0 THEN @ - 1 ELSE @ + 1]
    BY <1>3, UndoOk
  <1>6. delta' = [delta EXCEPT ![r] = res.ds] /\ call' = "undo"
    BY <1>2, <1>3, <1>5 DEF Apply
  <1> HIDE DEF res
  <1>7. todo' = delta'
    BY <1>2, <1>4, <1>5, <1>6 DEF Collection, ZSet
  <1>8. RelationsSound' /\ SnapshotSound' /\ DeltaMatches'
    BY <1>2, <1>3, <1>4, <1>5, ApplyKeeps
  <1> QED  BY <1>3, <1>4, <1>6, <1>7, <1>8 DEF IInv, InTransaction, UndoMatches, RelationsSound

\* No update of clear_relation fails.
LEMMA ClearOk ==
    ASSUME IInv, NEW r \in RelId, NEW u \in clear_updates(r)
    PROVE  u \in Update /\ apply_update(kind[r], elements[r], delta[r], u).ok
  <1>1. kind[r] \in Kind /\ Sound(kind[r], elements[r])
    BY DEF IInv, RelationsSound
  <1>2. CASE kind[r] = "Indexed"
    BY <1>2 DEF clear_updates, DeleteKey, Update, apply_update, indexed_set_update, Ok
  <1>3. CASE kind[r] # "Indexed"
    <2>1. u.op \in {"Insert", "DeleteValue"} /\ u.v \in Value /\ u \in Update
      BY <1>3 DEF clear_updates, delta_undo_updates, Insert, DeleteValue, Update
    <2>2. kind[r] = "Flat" => elements[r][u.v] \in {0, 1}
      BY <1>1, <2>1 DEF Sound, Elements, ValSet
    <2> QED
      BY <1>1, <1>3, <2>1, <2>2 DEF Kind, apply_update, stream_update, mset_update, set_update, Ok
  <1> QED  BY <1>2, <1>3

-----------------------------------------------------------------------------
(* Theorems *)

\* Every step of the client, a worker or the dataflow keeps the invariant.
LEMMA NextKeeps == KeyPreserving /\ IInv /\ [Next]_vars => IInv'
  <1> SUFFICES ASSUME KeyPreserving, IInv, [Next]_vars
               PROVE  IInv'
    OBVIOUS
  <1> USE DEF relvars, txnvars, loopvars, histvars
  <1>1. CASE transaction_start
    BY <1>1, StartKeeps
  <1>2. CASE transaction_commit \/ transaction_rollback \/ stop
    BY <1>2, Quiet DEF transaction_commit, transaction_rollback, stop, flush
  <1>3. CASE apply_updates \/ apply_updates_rejected
    BY <1>3, Quiet DEF apply_updates, apply_updates_rejected, Abort
  <1>4. CASE apply_updates_step
    BY <1>4, StepKeeps
  <1>5. CASE \E r \in RelId : clear_relation(r)
    BY <1>5, ClearKeeps
  <1>6. CASE \E arrid \in RelId \cup {NoIndex}, k \in Key \cup {None} : query_arrangement(arrid, k)
    BY <1>6, Quiet DEF query_arrangement
  <1>7. CASE await_flush_ack \/ run_return \/ query_receive \/ query_return
    BY <1>7, Quiet DEF await_flush_ack, run_return, query_receive, query_return
  <1>8. CASE transaction_commit_return
    BY <1>8, CommitKeeps
  <1>9. CASE delta_undo
    BY <1>9, UndoKeeps
  <1>10. CASE delta_undo_step
    BY <1>10, UndoStepKeeps
  <1>11. CASE delta_undo_flush
    BY <1>11, Quiet DEF delta_undo_flush, flush
  <1>12. CASE transaction_rollback_return
    BY <1>12, RollbackKeeps
  <1>13. CASE apply_updates_send
    BY <1>13, SendKeeps
  <1>14. CASE clear_relation_step
    BY <1>14, ClearStepKeeps
  <1>15. CASE stop_broadcast \/ stop_return
    BY <1>15, Quiet DEF stop_broadcast, stop_return
  <1>16. CASE \/ \E w \in Worker : WorkerNext(w)
              \/ step \/ Stopped \/ UNCHANGED vars
    BY <1>16, Quiet
       DEF WorkerNext, ingest_initial_data, batch_update, handle_flush, flush_ack, handle_query,
           disable, worker_exit, step, Stopped, vars, clientvars
  <1> QED
    BY <1>1, <1>2, <1>3, <1>4, <1>5, <1>6, <1>7, <1>8, <1>9, <1>10, <1>11, <1>12, <1>13, <1>14,
       <1>15, <1>16 DEF Next, Call_, Continue

\* The inductive invariant holds of a program whose mutators keep the primary key.
THEOREM Invariance == ASSUME KeyPreserving PROVE Spec => []IInv
  <1>1. KeyPreserving
    OBVIOUS
  <1>2. IInv /\ [Next]_vars => IInv'
    BY <1>1, NextKeeps
  <1> QED  BY <1>2, InitIInv, PTL DEF Spec

\* The deltas that delta_inc and delta_dec keep are exact during a transaction, and empty
\* between transactions, whatever updates, failures and rollbacks there have been.
THEOREM DeltaIsExact == ASSUME KeyPreserving PROVE Spec => []DeltaExact
  <1>1. IInv => DeltaExact
    BY DEF IInv, DeltaMatches, DeltaExact, AllContents
  <1> QED  BY <1>1, Invariance, PTL

\* No update of delta_undo and of clear_relation fails.
THEOREM UndoAlwaysSucceeds == ASSUME KeyPreserving PROVE Spec => []UndoSucceeds
  <1>1. IInv => UndoSucceeds
    <2> SUFFICES ASSUME IInv, NEW r \in RelId
                 PROVE  /\ call = "undo" => \A u \in delta_undo_updates(todo[r]) :
                              apply_update(kind[r], elements[r], delta[r], u).ok
                        /\ call = "clear" /\ todo[r] # EmptyZSet => \A u \in clear_updates(r) :
                              apply_update(kind[r], elements[r], delta[r], u).ok
      BY DEF UndoSucceeds
    <2>1. call = "undo" => \A u \in delta_undo_updates(todo[r]) :
              apply_update(kind[r], elements[r], delta[r], u).ok
      BY UndoOk
    <2>2. \A u \in clear_updates(r) : apply_update(kind[r], elements[r], delta[r], u).ok
      BY ClearOk
    <2> QED  BY <2>1, <2>2
  <1> QED  BY <1>1, Invariance, PTL

\* A rollback that reaches its end leaves the relations as they were when the transaction
\* started, and no delta.
THEOREM RollbackRestoresRelations == ASSUME KeyPreserving PROVE Spec => []RelationsRestored
  <1>1. IInv => RelationsRestored
    <2> SUFFICES ASSUME IInv, Flushed("undone")
                 PROVE  /\ \A r \in RelId : kind[r] # "Stream" => AllContents[r] = snapshot[r]
                        /\ delta = EmptyCollection
      BY DEF RelationsRestored
    <2>1. delta = EmptyCollection /\ transaction_in_progress
      BY DEF Flushed, IInv, UndoMatches, InTransaction
    <2>2. ASSUME NEW r \in RelId, kind[r] # "Stream"
          PROVE  AllContents[r] = snapshot[r]
      <3>1. AllContents[r] \in ZSet /\ snapshot[r] \in ZSet
        BY <2>1, AllContentsType DEF IInv, SnapshotSound, SoundContents, Collection
      <3>2. \A v \in Value : AllContents[r][v] = snapshot[r][v]
        BY <2>1, <2>2, <3>1
           DEF IInv, DeltaMatches, AllContents, EmptyCollection, EmptyZSet, ZSet
      <3> QED  BY <3>1, <3>2 DEF ZSet
    <2> QED  BY <2>1, <2>2
  <1> QED  BY <1>1, Invariance, PTL

-----------------------------------------------------------------------------
(* Changes *)

\* An update pushes insertions and deletions of values.
LEMMA OutType ==
    ASSUME NEW kd \in Kind, NEW s, Sound(kd, s), NEW ds, NEW u \in Update
    PROVE  apply_update(kd, s, ds, u).out \in Seq(Change)
  <1>1. \A x \in Value : Plus(x) \in Change /\ Minus(x) \in Change
    BY DEF Plus, Minus, Change
  <1>2. \A x \in Value : <<Plus(x)>> \in Seq(Change) /\ <<Minus(x)>> \in Seq(Change)
    BY <1>1
  <1>3. \A x, y \in Value : <<Minus(x), Plus(y)>> \in Seq(Change)
    BY <1>1
  <1>4. <<>> \in Seq(Change)
    OBVIOUS
  <1>5. CASE kd = "Stream"
    BY <1>2, <1>4, <1>5 DEF apply_update, stream_update, Ok, Err, Update
  <1>6. CASE kd = "Multiset"
    BY <1>2, <1>4, <1>6 DEF apply_update, mset_update, Ok, Err, Update
  <1>7. CASE kd = "Flat"
    BY <1>2, <1>4, <1>7 DEF apply_update, set_update, Ok, Err, Update
  <1>8. CASE kd = "Indexed"
    <2> DEFINE k == IF u.op \in {"DeleteKey", "Modify"} THEN u.k ELSE KeyOf[u.v]
               old == s[k]
    <2>1. k \in Key /\ s \in IndexedValSet
      BY <1>8, ValueAssumption DEF Update, Sound, Elements
    <2>2. old \in Value \cup {None}
      BY <2>1 DEF IndexedValSet
    <2>3. u.op = "Modify" /\ old # None /\ u.m[old] # None => u.m[old] \in Value
      BY <2>2, ValueAssumption DEF Update
    <2>4. u.op \in {"Insert", "InsertOrUpdate", "DeleteValue"} => u.v \in Value
      BY DEF Update
    <2>6. CASE u.op \in {"Insert", "InsertOrUpdate"}
      BY <1>2, <1>3, <1>4, <1>8, <2>2, <2>4, <2>6
         DEF apply_update, indexed_set_update, Replace, Ok, Err
    <2>7. CASE u.op \in {"DeleteKey", "DeleteValue"}
      BY <1>2, <1>3, <1>4, <1>8, <2>2, <2>4, <2>7, ValueAssumption
         DEF apply_update, indexed_set_update, Replace, Ok, Err
    <2>8. CASE u.op = "Modify"
      BY <1>2, <1>3, <1>4, <1>8, <2>2, <2>3, <2>8
         DEF apply_update, indexed_set_update, Replace, Ok, Err
    <2> QED  BY <2>6, <2>7, <2>8 DEF Update
  <1> QED  BY <1>5, <1>6, <1>7, <1>8 DEF Kind

\* Changes tagged with their relation.
LEMMA TaggedType ==
    ASSUME NEW r \in RelId, NEW out \in Seq(Change)
    PROVE  Tagged(r, out) \in Seq(RelChange)
  <1>1. \A i \in 1 .. Len(out) : [relid |-> r, v |-> out[i].v, w |-> out[i].w] \in RelChange
    <2>1. \A i \in 1 .. Len(out) : out[i] \in Change
      OBVIOUS
    <2> QED  BY <2>1 DEF Change, RelChange
  <1>2. Tagged(r, out) = [i \in 1 .. Len(out) |-> [relid |-> r, v |-> out[i].v, w |-> out[i].w]]
    BY DEF Tagged
  <1> QED  BY <1>1, <1>2

\* The net weight of a value in a sequence of changes is an integer.
LEMMA NetType ==
    ASSUME NEW changes \in Seq(RelChange), NEW r, NEW v
    PROVE  Net(changes, r, v) \in Int
  <1>1. IsFiniteSet(DOMAIN changes)
    BY FS_Interval
  <1>2. \A S : S \subseteq DOMAIN changes => Cardinality(S) \in Nat
    BY <1>1, FS_Subset, FS_CardinalityType
  <1>3. /\ Cardinality({i \in DOMAIN changes : changes[i] = [relid |-> r, v |-> v, w |-> 1]}) \in Nat
        /\ Cardinality({i \in DOMAIN changes : changes[i] = [relid |-> r, v |-> v, w |-> -1]}) \in Nat
    BY <1>2
  <1> QED  BY <1>3 DEF Net

\* A collection with changes added to it is a collection.
LEMMA AddType ==
    ASSUME NEW c \in Collection, NEW changes \in Seq(RelChange)
    PROVE  Add(c, changes) \in Collection
  <1>1. \A r \in RelId, v \in Value : c[r][v] + Net(changes, r, v) \in Int
    BY NetType DEF Collection, ZSet
  <1> QED  BY <1>1 DEF Add, Collection, ZSet

\* The sum of two collections is a collection.
LEMMA CombineType ==
    ASSUME NEW c \in Collection, NEW d \in Collection
    PROVE  Combine(c, d) \in Collection
  BY DEF Combine, Collection, ZSet

-----------------------------------------------------------------------------
(* Chunks *)

\* Division rounds down.
LEMMA Quotient ==
    ASSUME NEW m \in Nat, NEW n \in Nat \ {0}
    PROVE  m \div n \in Nat /\ (m \div n) * n <= m
  OBVIOUS

\* Multiples of n up to m * n.
LEMMA Product ==
    ASSUME NEW m \in Nat, NEW n \in Nat, NEW k \in 0 .. m
    PROVE  k * n \in 0 .. m * n
  OBVIOUS

\* The chunks of apply_updates are sequences of changes: every index of SubSeq is in range.
LEMMA ChunksType ==
    ASSUME NEW changes \in Seq(RelChange)
    PROVE  Chunks(changes) \in Seq(Seq(RelChange))
  <1> DEFINE L == Len(changes)
             q == L \div N
             size == IF q > ChunkMin THEN q ELSE ChunkMin
             count == (L + size - 1) \div size
             upto(n) == IF n < L THEN n ELSE L
  <1>1. L \in Nat /\ q \in Nat /\ size \in Nat \ {0}
    BY ProgramAssumption
  <1>2. count \in Nat
    <2> HIDE DEF size
    <2>1. L + size - 1 \in Nat
      BY <1>1
    <2> QED  BY <1>1, <2>1
  <1>3. ASSUME NEW i \in 1 .. count
        PROVE  SubSeq(changes, (i - 1) * size + 1, upto(i * size)) \in Seq(RelChange)
    <2> HIDE DEF L, q, size, count
    <2>1. (i - 1) * size \in Nat /\ i * size \in Nat
      BY <1>1, <1>2
    <2>2. (i - 1) * size + 1 \in 1 .. L + 1 \/ (i - 1) * size + 1 > upto(i * size)
      BY <1>1, <2>1
    <2>3. upto(i * size) \in 0 .. L
      BY <1>1, <2>1
    <2> QED  BY <1>1, <2>1, <2>2, <2>3 DEF L
  <1>4. Chunks(changes) = [i \in 1 .. count |-> SubSeq(changes, (i - 1) * size + 1, upto(i * size))]
    BY DEF Chunks
  <1> HIDE DEF count, size
  <1> QED  BY <1>2, <1>3, <1>4

\* The chunks dealt to a worker are messages: no chunk is taken from beyond the last.
LEMMA DealType ==
    ASSUME NEW chunks \in Seq(Seq(RelChange)), worker_round_robbin \in Worker, timestamp \in Nat
    PROVE  Deal(chunks) \in [Worker -> Seq(Msg)]
  <1> SUFFICES ASSUME NEW w \in Worker
               PROVE  Deal(chunks)[w] \in Seq(Msg)
    BY DEF Deal
  <1> DEFINE first == ((w - worker_round_robbin + N) % N) + 1
             count == IF first > Len(chunks) THEN 0 ELSE ((Len(chunks) - first) \div N) + 1
             message(j) == [type |-> "Update", updates |-> chunks[first + (j - 1) * N],
                            timestamp |-> timestamp]
  <1>1. first \in Nat \ {0}
    BY ProgramAssumption DEF Worker
  <1> HIDE DEF first
  <1> DEFINE d == (Len(chunks) - first) \div N
  <1>2. first <= Len(chunks) => d \in Nat /\ d * N <= Len(chunks) - first
    <2>1. first <= Len(chunks) => Len(chunks) - first \in Nat
      BY <1>1
    <2> QED  BY <2>1, Quotient, ProgramAssumption
  <1> HIDE DEF d
  <1>3. count = (IF first > Len(chunks) THEN 0 ELSE d + 1) /\ count \in Nat
    BY <1>1, <1>2 DEF d
  <1>4. ASSUME NEW j \in 1 .. count
        PROVE  first + (j - 1) * N \in 1 .. Len(chunks)
    <2>1. first <= Len(chunks) /\ j - 1 \in 0 .. d
      BY <1>1, <1>2, <1>3
    <2>2. (j - 1) * N \in 0 .. d * N
      BY <1>2, <2>1, Product, ProgramAssumption
    <2>3. d * N \in Int
      BY <1>2, <2>1, ProgramAssumption
    <2> QED  BY <1>1, <1>2, <2>1, <2>2, <2>3
  <1>5. Deal(chunks)[w] = [j \in 1 .. count |-> message(j)]
    BY DEF Deal, first
  <1>6. \A j \in 1 .. count : message(j) \in Msg
    <2> SUFFICES ASSUME NEW j \in 1 .. count
                 PROVE  message(j) \in Msg
      OBVIOUS
    <2>1. chunks[first + (j - 1) * N] \in Seq(RelChange)
      BY <1>4
    <2> QED  BY <2>1 DEF Msg
  <1> HIDE DEF count, message
  <1> QED  BY <1>3, <1>5, <1>6

-----------------------------------------------------------------------------
(* Steps *)

\* What IInv says of types.
LEMMA IInvTypes == IInv => RelationsTypeOK /\ todo \in Collection
  BY DEF IInv, RelationsSound, UndoMatches, RelationsTypeOK, Sound

\* The types of the variables that one iteration of apply_updates changes.
LEMMA ApplyType ==
    ASSUME IInv, TypeOK, NEW r \in RelId, NEW u \in Update, Apply(r, u)
    PROVE  /\ filtered_updates' \in Seq(RelChange)
           /\ batch' \in Nat
           /\ call' \in Call
           /\ lost' \in Collection
  <1> DEFINE res == apply_update(kind[r], elements[r], delta[r], u)
  <1>1. res.out \in Seq(Change)
    BY OutType DEF IInv, RelationsSound
  <1>2. Tagged(r, res.out) \in Seq(RelChange)
    BY <1>1, TaggedType
  <1>3. filtered_updates \in Seq(RelChange) /\ batch \in Nat /\ call \in Call /\ lost \in Collection
    BY DEF TypeOK, ClientTypeOK
  <1>4. Add(lost, filtered_updates) \in Collection
    BY <1>3, AddType
  <1> HIDE DEF res
  <1>5. \/ /\ filtered_updates' = filtered_updates \o Tagged(r, res.out)
           /\ batch' \in {batch, batch + 1}
           /\ UNCHANGED <<call, lost>>
        \/ Abort
    BY DEF Apply, res
  <1>6. CASE Abort
    <2>1. "idle" \in Call /\ <<>> \in Seq(RelChange)
      BY DEF Call
    <2> QED  BY <1>4, <1>6, <2>1 DEF Abort
  <1>7. CASE ~Abort
    <2>1. filtered_updates \o Tagged(r, res.out) \in Seq(RelChange)
      BY <1>2, <1>3
    <2>2. batch + 1 \in Nat
      BY <1>3
    <2>3. call' = call /\ lost' = lost
      BY <1>5, <1>7
    <2> QED  BY <1>3, <1>5, <1>7, <2>1, <2>2, <2>3
  <1> QED  BY <1>6, <1>7

\* The types of the variables that the end of apply_updates changes.
LEMMA SendType ==
    ASSUME TypeOK, apply_updates_send
    PROVE  /\ requests' \in [Worker -> Seq(Msg)]
           /\ worker_round_robbin' \in Worker
           /\ need_to_flush' \in BOOLEAN
  <1>1. /\ filtered_updates \in Seq(RelChange) /\ worker_round_robbin \in Worker
        /\ timestamp \in Nat /\ requests \in [Worker -> Seq(Msg)] /\ need_to_flush \in BOOLEAN
    BY DEF TypeOK, ClientTypeOK
  <1>2. CASE filtered_updates = <<>>
    BY <1>1, <1>2 DEF apply_updates_send
  <1>3. CASE filtered_updates # <<>>
    <2> DEFINE chunks == Chunks(filtered_updates)
               messages == Deal(chunks)
    <2>1. chunks \in Seq(Seq(RelChange))
      BY <1>1, ChunksType
    <2>2. messages \in [Worker -> Seq(Msg)]
      BY <1>1, <2>1, DealType
    <2>3. /\ requests' = [w \in Worker |-> requests[w] \o messages[w]]
          /\ worker_round_robbin' = (worker_round_robbin + Len(chunks)) % N
          /\ need_to_flush' = TRUE
      BY <1>3 DEF apply_updates_send
    <2> HIDE DEF chunks, messages
    <2>4. Len(chunks) \in Nat
      BY <2>1
    <2>5. (worker_round_robbin + Len(chunks)) % N \in Worker
      BY <1>1, <2>4, ProgramAssumption DEF Worker
    <2> QED  BY <1>1, <2>2, <2>3, <2>5
  <1> QED  BY <1>2, <1>3

\* Messages and replies of every kind.
LEMMA MessageTypes ==
    /\ \A t \in Nat : [type |-> "Flush", advance_to |-> t] \in Msg
    /\ [type |-> "Stop"] \in Msg
    /\ \A r \in RelId \cup {NoIndex}, k \in Key \cup {None} :
          [type |-> "Query", arrid |-> r, key |-> k] \in Msg
    /\ FlushAck \in Reply
    /\ \A known \in BOOLEAN, vals \in SUBSET Value :
          [type |-> "QueryRes", known |-> known, vals |-> vals] \in Reply
  BY DEF Msg, Reply, FlushAck

\* What the request at the head of a queue carries.
LEMMA RequestTypes ==
    ASSUME TypeOK, NEW w \in Worker, requests[w] # <<>>
    PROVE  LET msg == Head(requests[w])
           IN  /\ msg.type = "Update" => msg.updates \in Seq(RelChange)
               /\ msg.type = "Flush" => msg.advance_to \in Nat
               /\ msg.type = "Query" =>
                     msg.arrid \in RelId \cup {NoIndex} /\ msg.key \in Key \cup {None}
               /\ [requests EXCEPT ![w] = Tail(@)] \in [Worker -> Seq(Msg)]
  <1>1. requests \in [Worker -> Seq(Msg)] /\ requests[w] \in Seq(Msg)
    BY DEF TypeOK
  <1>2. Head(requests[w]) \in Msg /\ Tail(requests[w]) \in Seq(Msg)
    BY <1>1
  <1> QED  BY <1>1, <1>2 DEF Msg

\* The types of the variables that flush changes.
LEMMA FlushType ==
    ASSUME TypeOK, NEW c \in Call, flush(c)
    PROVE  /\ call' \in Call /\ awaiting' \in 0 .. N /\ timestamp' \in Nat
           /\ need_to_flush' \in BOOLEAN /\ requests' \in [Worker -> Seq(Msg)]
  <1>1. /\ timestamp \in Nat /\ need_to_flush \in BOOLEAN
        /\ requests \in [Worker -> Seq(Msg)]
    BY DEF TypeOK, ClientTypeOK
  <1>2. [w \in Worker |-> Append(requests[w], [type |-> "Flush", advance_to |-> timestamp + 1])]
            \in [Worker -> Seq(Msg)]
    BY <1>1, MessageTypes
  <1>3. CASE need_to_flush
    <2>1. /\ call' = c /\ awaiting' = 0 /\ timestamp' = timestamp + 1 /\ need_to_flush' = FALSE
          /\ requests' = [w \in Worker |->
                             Append(requests[w], [type |-> "Flush", advance_to |-> timestamp + 1])]
      BY <1>3 DEF flush, broadcast
    <2>2. 0 \in 0 .. N /\ timestamp + 1 \in Nat
      BY <1>1, ProgramAssumption
    <2>3. requests' \in [Worker -> Seq(Msg)]
      BY <1>2, <2>1
    <2> QED  BY <2>1, <2>2, <2>3
  <1>4. CASE ~need_to_flush
    BY <1>1, <1>4, ProgramAssumption DEF flush
  <1> QED  BY <1>3, <1>4

\* The weight of the record of Enabled is an integer.
LEMMA EnabledType ==
    ASSUME enabled \in [open : Int, trace : Int], NEW w, NEW d \in Int, UpdateEnabled(w, d)
    PROVE  enabled' \in [open : Int, trace : Int]
  <1>1. CASE w = Leader
    <2>1. enabled.open + d \in Int
      OBVIOUS
    <2>2. enabled' = [enabled EXCEPT !.open = enabled.open + d]
      BY <1>1 DEF UpdateEnabled
    <2> QED  BY <2>1, <2>2
  <1>2. CASE w # Leader
    BY <1>2 DEF UpdateEnabled
  <1> QED  BY <1>1, <1>2

\* The next worker to await, or the end.
LEMMA NextWorker ==
    ASSUME NEW i \in Worker
    PROVE  i \in 0 .. N /\ i + 1 \in 0 .. N
  BY ProgramAssumption DEF Worker

\* Types are kept; the relations and todo are those of IInv.
LEMMA TypeKept ==
    ASSUME IInv, IInv', TypeOK, [Next]_vars
    PROVE  TypeOK'
  <1> RelationsTypeOK' /\ todo' \in Collection
    BY DEF IInv, RelationsSound, UndoMatches, RelationsTypeOK, Sound
  <1>1. Call = {"idle", "query", "undo_flush", "join", "run", "commit", "rollback", "undone", "stop",
                "updates", "undo", "clear"}
    BY DEF Call, Flushing, Updating
  <1> USE DEF TypeOK, ClientTypeOK, relvars, txnvars, loopvars, workvars, flowvars, sysvars, histvars
  <1>2. CASE transaction_start
    <2>1. AllContents \in Collection
      BY AllContentsType DEF IInv
    <2> QED  BY <1>2, <2>1 DEF transaction_start
  <1>3. CASE transaction_commit \/ transaction_rollback \/ stop \/ delta_undo_flush
    <2>1. PICK c \in {"commit", "rollback", "stop", "undone"} : flush(c)
      BY <1>3 DEF transaction_commit, transaction_rollback, stop, delta_undo_flush
    <2>2. /\ call' \in Call /\ awaiting' \in 0 .. N /\ timestamp' \in Nat
          /\ need_to_flush' \in BOOLEAN /\ requests' \in [Worker -> Seq(Msg)]
      BY <1>1, <2>1, FlushType
    <2> QED  BY <1>3, <2>2 DEF transaction_commit, transaction_rollback, stop, delta_undo_flush
  <1>4. CASE apply_updates
    BY <1>1, <1>4 DEF apply_updates
  <1>5. CASE apply_updates_rejected
    <2>1. Add(lost, filtered_updates) \in Collection
      BY AddType
    <2> QED  BY <1>1, <1>5, <2>1 DEF apply_updates_rejected, Abort
  <1>6. CASE apply_updates_step
    <2>1. /\ filtered_updates' \in Seq(RelChange) /\ batch' \in Nat
          /\ call' \in Call /\ lost' \in Collection
      BY <1>6, ApplyType DEF apply_updates_step
    <2> QED  BY <1>6, <2>1 DEF apply_updates_step
  <1>7. CASE delta_undo_step
    <2>1. PICK r \in RelId : \E u \in delta_undo_updates(todo[r]) : Apply(r, u)
      BY <1>7 DEF delta_undo_step
    <2>2. \A u \in delta_undo_updates(todo[r]) : u \in Update
      BY DEF delta_undo_updates, Insert, DeleteValue, Update
    <2>3. /\ filtered_updates' \in Seq(RelChange) /\ batch' \in Nat
          /\ call' \in Call /\ lost' \in Collection
      BY <2>1, <2>2, ApplyType
    <2> QED  BY <1>7, <2>3 DEF delta_undo_step
  <1>8. CASE clear_relation_step
    <2>1. PICK r \in RelId : \E u \in clear_updates(r) : Apply(r, u)
      BY <1>8 DEF clear_relation_step
    <2>2. \A u \in clear_updates(r) : u \in Update
      BY DEF clear_updates, delta_undo_updates, Insert, DeleteValue, DeleteKey, Update
    <2>3. /\ filtered_updates' \in Seq(RelChange) /\ batch' \in Nat
          /\ call' \in Call /\ lost' \in Collection
      BY <2>1, <2>2, ApplyType
    <2> QED  BY <1>8, <2>3 DEF clear_relation_step
  <1>9. CASE apply_updates_send
    <2>1. /\ requests' \in [Worker -> Seq(Msg)]
          /\ worker_round_robbin' \in Worker
          /\ need_to_flush' \in BOOLEAN
      BY <1>9, SendType
    <2> QED  BY <1>1, <1>9, <2>1 DEF apply_updates_send
  <1>10. CASE \E r \in RelId : clear_relation(r)
    BY <1>1, <1>10 DEF clear_relation
  <1>11. CASE \E arrid \in RelId \cup {NoIndex}, k \in Key \cup {None} : query_arrangement(arrid, k)
    <2>1. PICK arrid \in RelId \cup {NoIndex}, k \in Key \cup {None} : query_arrangement(arrid, k)
      BY <1>11
    <2>2. [w \in Worker |-> Append(requests[w], [type |-> "Query", arrid |-> arrid, key |-> k])]
              \in [Worker -> Seq(Msg)]
      <3>1. [type |-> "Query", arrid |-> arrid, key |-> k] \in Msg
        BY MessageTypes
      <3>2. \A w \in Worker : requests[w] \in Seq(Msg)
        OBVIOUS
      <3> QED  BY <3>1, <3>2
    <2>3. requests' \in [Worker -> Seq(Msg)] /\ awaiting' \in 0 .. N
      BY <2>1, <2>2, ProgramAssumption DEF query_arrangement, broadcast
    <2> QED  BY <1>1, <2>1, <2>3 DEF query_arrangement
  <1>12. CASE await_flush_ack
    <2>1. awaiting \in Worker
      BY <1>12, ProgramAssumption DEF await_flush_ack, Worker
    <2>2. replies' \in [Worker -> Seq(Reply)] /\ awaiting' \in 0 .. N
      <3>1. replies' = [replies EXCEPT ![awaiting] = Tail(@)] /\ replies[awaiting] # <<>>
        BY <1>12 DEF await_flush_ack
      <3>2. replies[awaiting] \in Seq(Reply)
        BY <2>1
      <3>3. Tail(replies[awaiting]) \in Seq(Reply)
        BY <3>1, <3>2
      <3>4. awaiting' \in {awaiting, awaiting + 1}
        BY <1>12 DEF await_flush_ack
      <3>5. awaiting \in 0 .. N /\ awaiting + 1 \in 0 .. N
        BY <2>1, NextWorker
      <3> QED  BY <2>1, <3>1, <3>3, <3>4, <3>5
    <2> QED  BY <1>1, <1>12, <2>2 DEF await_flush_ack
  <1>13. CASE query_receive
    <2>1. awaiting \in Worker
      BY <1>13, ProgramAssumption DEF query_receive, Worker
    <2>2. replies' \in [Worker -> Seq(Reply)] /\ awaiting' \in 0 .. N
      <3>1. replies' = [replies EXCEPT ![awaiting] = Tail(@)] /\ replies[awaiting] # <<>>
        BY <1>13 DEF query_receive
      <3>2. replies[awaiting] \in Seq(Reply)
        BY <2>1
      <3>3. Tail(replies[awaiting]) \in Seq(Reply)
        BY <3>1, <3>2
      <3>4. awaiting' \in {awaiting, awaiting + 1}
        BY <1>13 DEF query_receive
      <3>5. awaiting \in 0 .. N /\ awaiting + 1 \in 0 .. N
        BY <2>1, NextWorker
      <3> QED  BY <2>1, <3>1, <3>3, <3>4, <3>5
    <2>3. Head(replies[awaiting]) \in Reply
      BY <1>13, <2>1 DEF query_receive
    <2>4. query' \in [arrid : RelId \cup {NoIndex}, key : Key \cup {None},
                      res : SUBSET Value, unknown : BOOLEAN]
      <3> DEFINE reply == Head(replies[awaiting])
      <3>1. CASE reply.type = "QueryRes"
        <4>1. reply.vals \in SUBSET Value /\ reply.known \in BOOLEAN
          BY <2>3, <3>1 DEF Reply
        <4>2. query' = [query EXCEPT !.res = @ \cup reply.vals, !.unknown = @ \/ ~reply.known]
          BY <1>13, <3>1 DEF query_receive
        <4> HIDE DEF reply
        <4> QED  BY <4>1, <4>2
      <3>2. CASE reply.type # "QueryRes"
        BY <1>13, <3>2 DEF query_receive
      <3> QED  BY <3>1, <3>2
    <2> QED  BY <1>1, <1>13, <2>2, <2>4 DEF query_receive
  <1>14. CASE query_return \/ run_return \/ delta_undo
    <2>1. CASE query_return
      BY <1>1, <2>1 DEF query_return, NoQuery
    <2>2. CASE run_return
      BY <1>1, <2>2 DEF run_return
    <2>3. CASE delta_undo
      BY <1>1, <2>3 DEF delta_undo
    <2> QED  BY <1>14, <2>1, <2>2, <2>3
  <1>15. CASE transaction_commit_return \/ transaction_rollback_return
    BY <1>1, <1>15, EmptyCollectionType
       DEF transaction_commit_return, transaction_rollback_return, Forget
  <1>16. CASE stop_broadcast
    <2>1. [w \in Worker |-> Append(requests[w], [type |-> "Stop"])] \in [Worker -> Seq(Msg)]
      BY MessageTypes
    <2> QED  BY <1>1, <1>16, <2>1 DEF stop_broadcast, broadcast
  <1>17. CASE stop_return
    BY <1>1, <1>17 DEF stop_return
  <1>18. ASSUME NEW w \in Worker, WorkerNext(w)
         PROVE  TypeOK'
    <2> USE DEF clientvars, Request, Consume, advance
    <2>1. CASE ingest_initial_data(w)
      <3>1. enabled' \in [open : Int, trace : Int]
        BY <2>1, EnabledType DEF ingest_initial_data
      <3>2. time' \in [Worker -> Nat] /\ last' \in [Worker -> Nat]
        BY <2>1 DEF ingest_initial_data
      <3> QED  BY <2>1, <3>1, <3>2 DEF ingest_initial_data
    <2>2. CASE batch_update(w)
      <3>1. /\ Head(requests[w]).updates \in Seq(RelChange)
            /\ [requests EXCEPT ![w] = Tail(@)] \in [Worker -> Seq(Msg)]
        BY <2>2, RequestTypes DEF batch_update
      <3>2. Add(open, Head(requests[w]).updates) \in Collection
        BY <3>1, AddType
      <3> QED  BY <2>2, <3>1, <3>2 DEF batch_update
    <2>3. CASE handle_flush(w)
      <3>1. /\ Head(requests[w]).advance_to \in Nat
            /\ [requests EXCEPT ![w] = Tail(@)] \in [Worker -> Seq(Msg)]
        BY <2>3, RequestTypes DEF handle_flush
      <3> QED  BY <2>3, <3>1 DEF handle_flush
    <2>4. CASE flush_ack(w)
      BY <2>4, MessageTypes DEF flush_ack
    <2>5. CASE handle_query(w)
      <3>1. [requests EXCEPT ![w] = Tail(@)] \in [Worker -> Seq(Msg)]
        BY <2>5, RequestTypes DEF handle_query
      <3>2. \A r, k : Arrangement(w, r, k) \in SUBSET Value
        BY DEF Arrangement
      <3>3. PICK known \in BOOLEAN, vals \in SUBSET Value :
               replies' = [replies EXCEPT ![w] =
                             Append(@, [type |-> "QueryRes", known |-> known, vals |-> vals])]
        BY <2>5, <3>2 DEF handle_query
      <3>4. replies' \in [Worker -> Seq(Reply)]
        BY <3>3, MessageTypes
      <3> QED  BY <2>5, <3>1, <3>4 DEF handle_query
    <2>6. CASE disable(w)
      <3>1. [requests EXCEPT ![w] = Tail(@)] \in [Worker -> Seq(Msg)]
        BY <2>6, RequestTypes DEF disable
      <3>2. enabled' \in [open : Int, trace : Int]
        BY <2>6, EnabledType DEF disable
      <3>3. last[w] + 1 \in Nat
        OBVIOUS
      <3>4. time' \in [Worker -> Nat]
        BY <2>6, <3>3 DEF disable
      <3> QED  BY <2>6, <3>1, <3>2, <3>4 DEF disable
    <2>7. CASE worker_exit(w)
      BY <2>7 DEF worker_exit
    <2> QED  BY <1>18, <2>1, <2>2, <2>3, <2>4, <2>5, <2>6, <2>7 DEF WorkerNext
  <1>19. CASE step
    <2>1. Combine(trace, open) \in Collection
      BY CombineType
    <2> QED  BY <1>19, <2>1, EmptyCollectionType DEF step, clientvars
  <1>20. CASE Stopped \/ UNCHANGED vars
    BY <1>20 DEF Stopped, vars, clientvars
  <1> QED
    BY <1>2, <1>3, <1>4, <1>5, <1>6, <1>7, <1>8, <1>9, <1>10, <1>11, <1>12, <1>13, <1>14, <1>15,
       <1>16, <1>17, <1>18, <1>19, <1>20 DEF Next, Call_, Continue

\* Type correctness, for programs whose mutators keep the primary key: what the client sends,
\* what the workers answer and what the dataflow holds is always well formed.
THEOREM TypeCorrectness == ASSUME KeyPreserving PROVE Spec => []TypeOK
  <1>1. Init => TypeOK
    <2> SUFFICES ASSUME Init
                 PROVE  TypeOK
      OBVIOUS
    <2>1. RelationsTypeOK
      BY InitIInv, IInvTypes
    <2>2. 0 \in Worker /\ 0 \in 0 .. N
      BY ProgramAssumption DEF Worker
    <2> QED
      BY <2>1, <2>2, EmptyCollectionType
         DEF Init, TypeOK, ClientTypeOK, Call, Flushing, NoQuery
  <1>2. IInv /\ IInv' /\ TypeOK /\ [Next]_vars => TypeOK'
    BY TypeKept
  <1> QED  BY <1>1, <1>2, Invariance, PTL DEF Spec

-----------------------------------------------------------------------------
(* The inductive invariant of the protocol *)

\* Nothing but chunks of the given epoch.
OnlyUpdates(q, t) == \A i \in DOMAIN q : q[i].type = "Update" /\ q[i].timestamp = t

\* Chunks of the given epoch, then msg.
UpdatesThen(q, t, msg) ==
    /\ q # <<>>
    /\ \A i \in DOMAIN q : IF i = Len(q) THEN q[i] = msg
                                         ELSE q[i].type = "Update" /\ q[i].timestamp = t

\* The worker's loop has caught up with epoch t.
LoopAt(w, t) == pc[w] = "loop" /\ time[w] = t /\ last[w] = t

\* Nothing in the channels of a worker.
Silent(w) == requests[w] = <<>> /\ replies[w] = <<>>

\* Some worker has still to acknowledge the flush.
Waiting == call \in Flushing /\ awaiting < N

\* The worker has the Flush, or ingest_initial_data, ahead of it.
BeforeFlush(w) ==
    /\ frontier = timestamp - 1
    /\ time[w] = frontier /\ last[w] = frontier
    /\ replies[w] = <<>>
    /\ IF call = "run"
       THEN pc[w] = "start" /\ requests[w] = <<>>
       ELSE /\ pc[w] = "loop"
            /\ UpdatesThen(requests[w], frontier, [type |-> "Flush", advance_to |-> timestamp])

\* The worker is in flush(), stepping until the probe reaches its epoch.
DuringFlush(w) ==
    /\ pc[w] = "flushing"
    /\ time[w] = timestamp /\ last[w] = timestamp
    /\ Silent(w)

\* The worker has acknowledged the flush, and the client has not read it yet.
AfterFlush(w) ==
    /\ LoopAt(w, timestamp)
    /\ frontier = timestamp
    /\ requests[w] = <<>> /\ replies[w] = <<FlushAck>>

\* The client is in await_flush_ack.
FlushPhase ==
    Waiting =>
        /\ frontier \in {timestamp - 1, timestamp}
        /\ frontier = timestamp => open = EmptyCollection
        /\ \A w \in Worker :
              IF w < awaiting
              THEN LoopAt(w, timestamp) /\ Silent(w) /\ frontier = timestamp
              ELSE BeforeFlush(w) \/ DuringFlush(w) \/ AfterFlush(w)

\* The client waits for no worker: the queues hold chunks of the transaction in progress, and
\* nothing once they have been flushed.
QuietPhase ==
    running /\ call \notin {"query", "join"} /\ ~Waiting =>
        /\ frontier = timestamp
        /\ \A w \in Worker : /\ LoopAt(w, timestamp)
                             /\ replies[w] = <<>>
                             /\ OnlyUpdates(requests[w], timestamp)
                             /\ ~need_to_flush => requests[w] = <<>>

\* The part of the answer to the query in progress that worker w gives.
Answer(w) ==
    IF query.arrid = NoIndex THEN {} ELSE Arrangement(w, query.arrid, query.key)

\* The client is in _query_arrangement.
QueryPhase ==
    call = "query" =>
        /\ frontier = timestamp
        /\ \A w \in Worker :
              /\ LoopAt(w, timestamp)
              /\ IF w < awaiting
                 THEN Silent(w)
                 ELSE \/ /\ replies[w] = <<>>
                         /\ UpdatesThen(requests[w], timestamp,
                               [type |-> "Query", arrid |-> query.arrid, key |-> query.key])
                      \/ /\ requests[w] = <<>>
                         /\ replies[w] = <<[type |-> "QueryRes", known |-> query.arrid # NoIndex,
                                            vals |-> Answer(w)]>>
        /\ query.res = UNION {Answer(w) : w \in {x \in Worker : x < awaiting}}
        /\ query.unknown = (query.arrid = NoIndex /\ awaiting > 0)

\* The client has sent Stop and joins the workers, or has done so.
StopPhase ==
    call = "join" \/ ~running =>
        /\ frontier \in {timestamp, timestamp + 1}
        /\ \A w \in Worker :
              /\ replies[w] = <<>>
              /\ last[w] = timestamp
              /\ \/ /\ pc[w] = "loop" /\ time[w] = timestamp
                    /\ frontier = timestamp
                    /\ requests[w] = <<[type |-> "Stop"]>>
                 \/ /\ pc[w] = "exiting" /\ time[w] = timestamp + 1
                    /\ requests[w] = <<>>
                 \/ /\ pc[w] = "stopped" /\ time[w] = timestamp + 1
                    /\ frontier = timestamp + 1
                    /\ requests[w] = <<>>

\* What a method may assume of the client's own fields.
ClientPhase ==
    /\ timestamp >= 1
    /\ call = "run" => timestamp = 1 /\ ~transaction_in_progress
    /\ ~running => call = "idle" /\ \A w \in Worker : pc[w] = "stopped"
    /\ awaiting < N => call \in Flushing \cup {"query"}
    /\ call \in Flushing \cup {"join"} \/ ~running \/ ~transaction_in_progress => ~need_to_flush

\* Weights are on their way to the sessions, or there, only between a send and its flush.
OpenPhase ==
    ~need_to_flush /\ ~Waiting =>
        /\ open = EmptyCollection
        /\ \A w \in Worker : \A i \in DOMAIN requests[w] : requests[w][i].type # "Update"

\* The record of Enabled: the leader has still to insert it, holds it, or has deleted it.
EnabledPhase ==
    IF call = "run" /\ frontier = 0
    THEN enabled = [open |-> IF pc[Leader] = "start" THEN 0 ELSE 1, trace |-> 0]
    ELSE IF call = "join" \/ ~running
    THEN IF frontier = timestamp
         THEN enabled = [open |-> IF pc[Leader] = "exiting" THEN -1 ELSE 0, trace |-> 1]
         ELSE enabled = [open |-> 0, trace |-> 0]
    ELSE enabled = [open |-> 0, trace |-> 1]

\* Until a method flushes, the dataflow is what it was when the transaction started.
BasePhase ==
    transaction_in_progress /\ running /\ call \in {"idle", "updates", "clear", "query"} =>
        trace = base

PInv ==
    /\ ClientPhase
    /\ FlushPhase
    /\ QuietPhase
    /\ QueryPhase
    /\ StopPhase
    /\ OpenPhase
    /\ EnabledPhase
    /\ BasePhase

-----------------------------------------------------------------------------
(* Queues *)

\* The first message of a queue.
LEMMA AppendFirst == \A msg : Append(<<>>, msg) = <<msg>>
  OBVIOUS

\* A message broadcast after a send is the last of every queue.
LEMMA AppendLast ==
    ASSUME NEW q \in Seq(Msg), NEW t, OnlyUpdates(q, t), NEW msg \in Msg
    PROVE  UpdatesThen(Append(q, msg), t, msg)
  BY DEF OnlyUpdates, UpdatesThen

\* A worker takes chunks from the front of its queue.
LEMMA TailOnlyUpdates ==
    ASSUME NEW q \in Seq(Msg), NEW t, OnlyUpdates(q, t), q # <<>>
    PROVE  OnlyUpdates(Tail(q), t)
  <1>1. \A i \in DOMAIN Tail(q) : i + 1 \in DOMAIN q /\ Tail(q)[i] = q[i + 1]
    OBVIOUS
  <1> QED  BY <1>1 DEF OnlyUpdates

LEMMA TailUpdatesThen ==
    ASSUME NEW q \in Seq(Msg), NEW t, NEW msg \in Msg, UpdatesThen(q, t, msg),
           Head(q).type = "Update", msg.type # "Update"
    PROVE  UpdatesThen(Tail(q), t, msg) /\ Head(q).timestamp = t
  <1>1. q # <<>> /\ Len(q) \in Nat /\ Len(q) # 0 /\ Head(q) = q[1] /\ 1 \in DOMAIN q
    BY DEF UpdatesThen
  <1>2. Len(q) # 1 /\ q[1].timestamp = t
    BY <1>1 DEF UpdatesThen
  <1>3. Tail(q) \in Seq(Msg) /\ Len(Tail(q)) = Len(q) - 1
    BY <1>1, HeadTailProperties
  <1>6. Tail(q) # <<>>
    BY <1>1, <1>2, <1>3
  <1>4. \A i \in DOMAIN Tail(q) : i + 1 \in DOMAIN q /\ Tail(q)[i] = q[i + 1]
    BY <1>1
  <1>5. \A i \in DOMAIN Tail(q) : (i = Len(Tail(q))) = (i + 1 = Len(q))
    BY <1>1, <1>3
  <1> QED  BY <1>1, <1>2, <1>3, <1>4, <1>5, <1>6 DEF UpdatesThen

\* What is not a chunk is the only message left.
LEMMA LastAlone ==
    ASSUME NEW q \in Seq(Msg), NEW t, NEW msg \in Msg, UpdatesThen(q, t, msg),
           Head(q).type # "Update"
    PROVE  q = <<msg>> /\ Head(q) = msg /\ Tail(q) = <<>>
  <1>1. q # <<>> /\ Len(q) \in Nat /\ Len(q) # 0 /\ Head(q) = q[1] /\ 1 \in DOMAIN q
    BY DEF UpdatesThen
  <1>2. Len(q) = 1 /\ q[1] = msg
    BY <1>1 DEF UpdatesThen
  <1>3. Tail(q) \in Seq(Msg) /\ Len(Tail(q)) = 0
    BY <1>1, <1>2, HeadTailProperties
  <1>4. Tail(q) = <<>>
    BY <1>3, EmptySeq
  <1>5. q = <<msg>>
    BY <1>2, SeqEqual
  <1> QED  BY <1>1, <1>2, <1>4, <1>5

\* A queue is never emptied by what it is appended to.
LEMMA UpdatesThenHead ==
    ASSUME NEW q \in Seq(Msg), NEW t, NEW msg \in Msg, UpdatesThen(q, t, msg)
    PROVE  q # <<>> /\ (Head(q).type = "Update" \/ Head(q) = msg)
  BY DEF UpdatesThen

\* Chunks sent behind chunks of the same epoch.
LEMMA ConcatOnlyUpdates ==
    ASSUME NEW q \in Seq(Msg), NEW p \in Seq(Msg), NEW t, OnlyUpdates(q, t), OnlyUpdates(p, t)
    PROVE  OnlyUpdates(q \o p, t)
  <1>1. \A i \in DOMAIN (q \o p) : \/ i \in DOMAIN q /\ (q \o p)[i] = q[i]
                                   \/ i - Len(q) \in DOMAIN p /\ (q \o p)[i] = p[i - Len(q)]
    OBVIOUS
  <1> QED  BY <1>1 DEF OnlyUpdates

\* The messages of a deal are chunks of the client's epoch.
LEMMA DealOnlyUpdates ==
    ASSUME NEW chunks, NEW w \in Worker
    PROVE  OnlyUpdates(Deal(chunks)[w], timestamp)
  BY DEF Deal, OnlyUpdates

-----------------------------------------------------------------------------
(* Steps of the client *)

\* No worker owes the client an answer: every method but a waiting one starts and goes on here.
Quiescent == running /\ call \notin {"query", "join"} /\ ~Waiting

\* A step of a method that neither sends nor receives.
LEMMA LocalStep ==
    ASSUME TypeOK, PInv, Quiescent, call' \in {"idle", "updates", "undo", "clear", "undo_flush"},
           UNCHANGED <<need_to_flush, timestamp, running, awaiting, requests, replies, sysvars>>,
           ~transaction_in_progress' => call \in Flushing \/ ~transaction_in_progress,
           transaction_in_progress' /\ call' \in {"idle", "updates", "clear"} =>
               base' = trace \/ (/\ transaction_in_progress /\ call \in {"idle", "updates", "clear"}
                                 /\ base' = base)
    PROVE  PInv'
  <1> USE DEF PInv, Quiescent, Waiting, Flushing, sysvars, workvars, flowvars
  <1>1. awaiting = N
    BY ProgramAssumption DEF ClientPhase, TypeOK, ClientTypeOK
  <1>2. ClientPhase'
    BY <1>1 DEF ClientPhase
  <1>3. FlushPhase' /\ QueryPhase' /\ StopPhase'
    BY <1>1 DEF FlushPhase, QueryPhase, StopPhase
  <1>4. QuietPhase' /\ OpenPhase'
    BY <1>1 DEF QuietPhase, OpenPhase, LoopAt
  <1>5. EnabledPhase'
    <2>1. frontier = timestamp /\ timestamp >= 1
      BY DEF QuietPhase, ClientPhase
    <2>2. ~(call = "run" /\ frontier = 0) /\ ~(call' = "run")
      BY <2>1
    <2> QED  BY <2>2 DEF EnabledPhase
  <1>6. BasePhase'
    BY DEF BasePhase
  <1> QED  BY <1>2, <1>3, <1>4, <1>5, <1>6

\* flush: with something to flush, the Flush is the last message of every queue; without, there
\* is nothing to wait for.
LEMMA FlushStep ==
    ASSUME TypeOK, PInv, Quiescent, NEW c \in {"commit", "rollback", "undone", "stop"}, flush(c),
           UNCHANGED <<transaction_in_progress, running, query, replies, sysvars>>
    PROVE  PInv'
  <1> USE DEF PInv, sysvars, workvars, flowvars
  <1>1. /\ awaiting = N /\ timestamp \in Nat /\ timestamp >= 1 /\ frontier = timestamp
        /\ N \in Nat \ {0}
    BY ProgramAssumption DEF ClientPhase, QuietPhase, Quiescent, Waiting, TypeOK, ClientTypeOK
  <1>2. c \in Flushing /\ c # "run" /\ c # "join" /\ c # "idle" /\ c # "query"
    BY DEF Flushing
  <1>3. call' = c
    BY DEF flush
  <1>4. enabled = [open |-> 0, trace |-> 1]
    BY <1>1 DEF EnabledPhase, Quiescent
  <1>5. EnabledPhase' /\ BasePhase' /\ QueryPhase' /\ StopPhase'
    BY <1>2, <1>3, <1>4 DEF EnabledPhase, BasePhase, QueryPhase, StopPhase, Quiescent
  <1>6. CASE ~need_to_flush
    <2>1. awaiting' = N /\ UNCHANGED <<requests, timestamp, need_to_flush>>
      BY <1>6 DEF flush
    <2>2. ~Waiting'
      BY <1>1, <2>1 DEF Waiting
    <2>3. ClientPhase'
      BY <1>1, <1>2, <1>3, <1>6, <2>1 DEF ClientPhase, Quiescent
    <2>4. FlushPhase' /\ QuietPhase' /\ OpenPhase'
      BY <1>2, <1>3, <1>6, <2>1, <2>2 DEF FlushPhase, QuietPhase, OpenPhase, LoopAt, Quiescent
    <2> QED  BY <1>5, <2>3, <2>4
  <1>7. CASE need_to_flush
    <2> DEFINE msg == [type |-> "Flush", advance_to |-> timestamp + 1]
    <2>1. /\ requests' = [w \in Worker |-> Append(requests[w], msg)]
          /\ timestamp' = timestamp + 1 /\ need_to_flush' = FALSE /\ awaiting' = 0
      BY <1>7 DEF flush, broadcast
    <2>2. msg \in Msg
      BY <1>1, MessageTypes
    <2>3. Waiting'
      BY <1>1, <1>2, <1>3, <2>1 DEF Waiting
    <2>4. ClientPhase'
      BY <1>1, <1>2, <1>3, <2>1 DEF ClientPhase, Quiescent
    <2>5. QuietPhase' /\ OpenPhase'
      BY <2>3 DEF QuietPhase, OpenPhase
    <2>6. ASSUME NEW w \in Worker
          PROVE  BeforeFlush(w)'
      <3>1. requests[w] \in Seq(Msg) /\ OnlyUpdates(requests[w], timestamp)
        BY DEF TypeOK, QuietPhase, Quiescent
      <3>2. UpdatesThen(requests'[w], timestamp, msg)
        BY <2>1, <2>2, <3>1, AppendLast
      <3>3. timestamp' - 1 = frontier
        BY <1>1, <2>1
      <3>4. msg = [type |-> "Flush", advance_to |-> timestamp']
        BY <2>1
      <3>5. LoopAt(w, timestamp) /\ replies[w] = <<>>
        BY DEF QuietPhase, Quiescent
      <3> HIDE DEF msg
      <3> QED  BY <1>1, <1>2, <1>3, <3>2, <3>3, <3>4, <3>5 DEF BeforeFlush, LoopAt
    <2>7. FlushPhase'
      <3>1. \A w \in Worker : ~(w < awaiting')
        BY <2>1 DEF Worker
      <3>2. frontier' = timestamp' - 1 /\ frontier' # timestamp'
        BY <1>1, <2>1
      <3> QED  BY <2>6, <3>1, <3>2 DEF FlushPhase
    <2> QED  BY <1>5, <2>4, <2>5, <2>7
  <1> QED  BY <1>6, <1>7

\* The end of apply_updates: chunks of the client's epoch behind chunks of the same epoch.
LEMMA SendStep ==
    ASSUME TypeOK, IInv, PInv, apply_updates_send
    PROVE  PInv'
  <1> USE DEF PInv, sysvars, workvars, flowvars
  <1>1. /\ call \in {"updates", "clear", "undo"} /\ call' \in {"idle", "undo_flush"}
        /\ (call' = "idle") = (call # "undo")
        /\ UNCHANGED <<transaction_in_progress, timestamp, running, awaiting, replies, sysvars, base>>
    BY DEF apply_updates_send, histvars
  <1>2. transaction_in_progress
    BY <1>1 DEF IInv, InTransaction
  <1>3. Quiescent /\ ~Waiting' /\ awaiting = N
    BY <1>1, ProgramAssumption
       DEF Quiescent, Waiting, ClientPhase, Flushing, TypeOK, ClientTypeOK
  <1>4. /\ requests' \in [Worker -> Seq(Msg)]
        /\ \A w \in Worker : OnlyUpdates(requests'[w], timestamp)
    <2>1. \A w \in Worker : OnlyUpdates(requests[w], timestamp) /\ requests[w] \in Seq(Msg)
      BY <1>3 DEF QuietPhase, Quiescent, TypeOK
    <2>2. CASE filtered_updates = <<>>
      BY <2>1, <2>2, SendType DEF apply_updates_send
    <2>3. CASE filtered_updates # <<>>
      <3> DEFINE messages == Deal(Chunks(filtered_updates))
      <3>1. requests' = [w \in Worker |-> requests[w] \o messages[w]]
        BY <2>3 DEF apply_updates_send
      <3>2. messages \in [Worker -> Seq(Msg)]
        BY ChunksType, DealType DEF TypeOK, ClientTypeOK
      <3>3. \A w \in Worker : OnlyUpdates(messages[w], timestamp)
        BY DealOnlyUpdates
      <3> HIDE DEF messages
      <3>4. \A w \in Worker : OnlyUpdates(requests[w] \o messages[w], timestamp)
        BY <2>1, <3>2, <3>3, ConcatOnlyUpdates
      <3> QED  BY <3>1, <3>4, SendType
    <2> QED  BY <2>2, <2>3
  <1>5. need_to_flush' \/ UNCHANGED <<need_to_flush, requests>>
    BY DEF apply_updates_send
  <1>6. ClientPhase'
    BY <1>1, <1>2, <1>3 DEF ClientPhase, Quiescent, Flushing
  <1>7. QuietPhase'
    BY <1>1, <1>3, <1>4, <1>5 DEF QuietPhase, Quiescent, LoopAt
  <1>8. FlushPhase' /\ QueryPhase' /\ StopPhase' /\ OpenPhase'
    BY <1>1, <1>3, <1>5 DEF FlushPhase, QueryPhase, StopPhase, OpenPhase, Quiescent
  <1>9. EnabledPhase' /\ BasePhase'
    BY <1>1, <1>3 DEF EnabledPhase, BasePhase, Quiescent
  <1> QED  BY <1>6, <1>7, <1>8, <1>9

\* _query_arrangement broadcasts a Query, which the chunks sent before it precede.
LEMMA QueryStep ==
    ASSUME TypeOK, PInv, NEW arrid \in RelId \cup {NoIndex}, NEW k \in Key \cup {None},
           query_arrangement(arrid, k)
    PROVE  PInv'
  <1> USE DEF PInv, sysvars, workvars, flowvars
  <1> DEFINE msg == [type |-> "Query", arrid |-> arrid, key |-> k]
  <1>1. /\ call = "idle" /\ running /\ call' = "query" /\ awaiting' = 0
        /\ requests' = [w \in Worker |-> Append(requests[w], msg)]
        /\ query' = [arrid |-> arrid, key |-> k, res |-> {}, unknown |-> FALSE]
        /\ UNCHANGED <<transaction_in_progress, need_to_flush, timestamp, running, replies, sysvars,
                       base>>
    BY DEF query_arrangement, Ready, broadcast, txnvars, histvars
  <1>2. Quiescent /\ ~Waiting /\ ~Waiting'
    BY <1>1 DEF Quiescent, Waiting, Flushing
  <1>3. ClientPhase' /\ FlushPhase' /\ QuietPhase' /\ StopPhase'
    BY <1>1, <1>2 DEF ClientPhase, FlushPhase, QuietPhase, StopPhase, Flushing
  <1>8. OpenPhase'
    <2> SUFFICES ASSUME ~need_to_flush, NEW w \in Worker, NEW i \in DOMAIN requests'[w]
                 PROVE  open = EmptyCollection /\ requests'[w][i].type # "Update"
      BY <1>1, <1>2 DEF OpenPhase
    <2>1. open = EmptyCollection /\ requests[w] = <<>>
      BY <1>2 DEF OpenPhase, QuietPhase, Quiescent
    <2>2. requests'[w] = Append(<<>>, msg)
      BY <1>1, <2>1
    <2>3. requests'[w] = <<msg>>
      BY <2>2, AppendFirst
    <2> QED  BY <2>1, <2>3
  <1>4. EnabledPhase' /\ BasePhase'
    BY <1>1 DEF EnabledPhase, BasePhase
  <1>5. ASSUME NEW w \in Worker
        PROVE  /\ LoopAt(w, timestamp)' /\ replies'[w] = <<>> /\ ~(w < awaiting')
               /\ UpdatesThen(requests'[w], timestamp', msg)
    <2>1. /\ requests[w] \in Seq(Msg) /\ OnlyUpdates(requests[w], timestamp)
          /\ LoopAt(w, timestamp) /\ replies[w] = <<>>
      BY <1>2 DEF TypeOK, QuietPhase, Quiescent
    <2>2. msg \in Msg
      BY MessageTypes
    <2>3. UpdatesThen(Append(requests[w], msg), timestamp, msg)
      BY <2>1, <2>2, AppendLast
    <2> HIDE DEF msg
    <2> QED  BY <1>1, <2>1, <2>3 DEF LoopAt, Worker
  <1>6. frontier = timestamp
    BY <1>2 DEF QuietPhase, Quiescent
  <1>7. QueryPhase'
    <2>1. msg = [type |-> "Query", arrid |-> query'.arrid, key |-> query'.key]
      BY <1>1
    <2>2. {x \in Worker : x < awaiting'} = {}
      BY <1>1 DEF Worker
    <2>3. query'.res = {} /\ query'.unknown = FALSE /\ ~(awaiting' > 0)
      BY <1>1
    <2>4. UNION {Answer(w)' : w \in {x \in Worker : x < awaiting'}} = {}
      BY <2>2
    <2> HIDE DEF msg
    <2> QED  BY <1>1, <1>5, <1>6, <2>1, <2>3, <2>4 DEF QueryPhase
  <1> QED  BY <1>3, <1>4, <1>7, <1>8

\* await_flush_ack reads the acknowledgement of the next worker, never the answer to a query;
\* the last one shows that the flush is complete.
LEMMA AwaitStep ==
    ASSUME TypeOK, PInv, await_flush_ack
    PROVE  PInv'
  <1> USE DEF PInv, sysvars, workvars, flowvars
  <1>1. /\ Waiting /\ awaiting \in Worker /\ awaiting \in Nat /\ N \in Nat /\ timestamp \in Nat
        /\ call \notin {"query", "join", "idle"}
    <2>1. Waiting /\ awaiting < N
      BY DEF await_flush_ack, Waiting
    <2>2. awaiting \in 0 .. N /\ timestamp \in Nat /\ N \in Nat
      BY ProgramAssumption DEF TypeOK, ClientTypeOK
    <2>3. call \notin {"query", "join", "idle"}
      BY <2>1 DEF Waiting, Flushing
    <2> QED  BY <2>1, <2>2, <2>3 DEF Worker
  <1>2. AfterFlush(awaiting)
    BY <1>1 DEF await_flush_ack, FlushPhase, BeforeFlush, DuringFlush, AfterFlush, Silent
  <1>3. /\ awaiting' = awaiting + 1 /\ call' = call
        /\ replies' = [replies EXCEPT ![awaiting] = <<>>]
    <2>1. Head(replies[awaiting]).type = "FlushAck" /\ Tail(replies[awaiting]) = <<>>
      BY <1>2 DEF AfterFlush, FlushAck
    <2> QED  BY <2>1 DEF await_flush_ack
  <1>4. UNCHANGED <<transaction_in_progress, need_to_flush, timestamp, running, query, requests,
                    sysvars, base>>
    BY DEF await_flush_ack, txnvars, histvars
  <1>5. frontier = timestamp /\ open = EmptyCollection
    BY <1>1, <1>2 DEF AfterFlush, FlushPhase
  <1>6. \A w \in Worker : w < awaiting + 1 => LoopAt(w, timestamp)' /\ Silent(w)'
    <2> SUFFICES ASSUME NEW w \in Worker, w < awaiting + 1
                 PROVE  LoopAt(w, timestamp)' /\ Silent(w)'
      OBVIOUS
    <2>1. w = awaiting \/ w < awaiting
      BY <1>1 DEF Worker
    <2>2. replies'[w] = <<>>
      <3>1. replies \in [Worker -> Seq(Reply)]
        BY DEF TypeOK
      <3> QED  BY <1>1, <1>3, <2>1, <3>1 DEF FlushPhase, Silent
    <2> QED  BY <1>1, <1>2, <1>4, <2>1, <2>2 DEF FlushPhase, AfterFlush, Silent, LoopAt
  <1>7. ClientPhase' /\ QueryPhase' /\ StopPhase'
    BY <1>1, <1>3, <1>4 DEF ClientPhase, QueryPhase, StopPhase, Waiting
  <1>8. EnabledPhase' /\ BasePhase'
    BY <1>1, <1>3, <1>4, <1>5 DEF EnabledPhase, BasePhase, Waiting, Flushing
  <1>9. FlushPhase'
    <2> SUFFICES ASSUME Waiting', NEW w \in Worker
                 PROVE  IF w < awaiting'
                        THEN LoopAt(w, timestamp)' /\ Silent(w)' /\ frontier' = timestamp'
                        ELSE BeforeFlush(w)' \/ DuringFlush(w)' \/ AfterFlush(w)'
      BY <1>4, <1>5 DEF FlushPhase
    <2>1. CASE w < awaiting'
      BY <1>3, <1>4, <1>5, <1>6, <2>1
    <2>2. CASE ~(w < awaiting')
      <3>1. w # awaiting /\ ~(w < awaiting)
        BY <1>1, <1>3, <2>2 DEF Worker
      <3>2. replies'[w] = replies[w]
        BY <1>3, <3>1 DEF TypeOK
      <3>3. BeforeFlush(w) \/ DuringFlush(w) \/ AfterFlush(w)
        BY <1>1, <3>1 DEF FlushPhase
      <3> QED  BY <1>3, <1>4, <2>2, <3>2, <3>3 DEF BeforeFlush, DuringFlush, AfterFlush, Silent, LoopAt
    <2> QED  BY <2>1, <2>2
  <1>10. QuietPhase' /\ OpenPhase'
    <2> SUFFICES ASSUME ~Waiting'
                 PROVE  QuietPhase' /\ OpenPhase'
      BY DEF QuietPhase, OpenPhase
    <2>1. awaiting' = N
      BY <1>1, <1>3 DEF Waiting, Worker
    <2>2. \A w \in Worker : LoopAt(w, timestamp)' /\ Silent(w)'
      BY <1>1, <1>3, <1>6, <2>1 DEF Worker
    <2> QED  BY <1>4, <1>5, <2>2 DEF QuietPhase, OpenPhase, Silent, OnlyUpdates
  <1> QED  BY <1>7, <1>8, <1>9, <1>10

\* The client collects the next worker's part of the answer.
LEMMA ReceiveStep ==
    ASSUME TypeOK, PInv, query_receive
    PROVE  PInv'
  <1> USE DEF PInv, sysvars, workvars, flowvars
  <1>1. call = "query" /\ awaiting < N /\ replies[awaiting] # <<>>
    BY DEF query_receive
  <1>2. awaiting \in Worker /\ awaiting \in Nat /\ N \in Nat
    <2>1. awaiting \in 0 .. N /\ N \in Nat
      BY ProgramAssumption DEF TypeOK, ClientTypeOK
    <2> QED  BY <1>1, <2>1 DEF Worker
  <1>3. /\ requests[awaiting] = <<>>
        /\ replies[awaiting] = <<[type |-> "QueryRes", known |-> query.arrid # NoIndex,
                                  vals |-> Answer(awaiting)]>>
    BY <1>1, <1>2 DEF QueryPhase
  <1>4. UNCHANGED <<transaction_in_progress, need_to_flush, timestamp, running, requests, sysvars, base>>
    BY DEF query_receive, txnvars, histvars
  <1>5. /\ awaiting' = awaiting + 1 /\ call' = call
        /\ replies' = [replies EXCEPT ![awaiting] = <<>>]
        /\ query' = [query EXCEPT !.res = @ \cup Answer(awaiting),
                                  !.unknown = @ \/ ~(query.arrid # NoIndex)]
    <2> DEFINE reply == Head(replies[awaiting])
    <2>1. /\ reply.type = "QueryRes" /\ reply.known = (query.arrid # NoIndex)
          /\ reply.vals = Answer(awaiting) /\ Tail(replies[awaiting]) = <<>>
      BY <1>3
    <2>2. reply.type = "QueryRes" =>
             /\ query' = [query EXCEPT !.res = @ \cup reply.vals, !.unknown = @ \/ ~reply.known]
             /\ awaiting' = awaiting + 1
             /\ UNCHANGED call
      BY DEF query_receive
    <2>3. replies' = [replies EXCEPT ![awaiting] = Tail(replies[awaiting])]
      BY DEF query_receive
    <2> HIDE DEF reply
    <2> QED  BY <2>1, <2>2, <2>3
  <1>6. /\ query'.arrid = query.arrid /\ query'.key = query.key
        /\ query'.res = query.res \cup Answer(awaiting)
        /\ query'.unknown = (query.unknown \/ ~(query.arrid # NoIndex))
    BY <1>5 DEF TypeOK, ClientTypeOK
  <1>7. \A w \in Worker : Answer(w)' = Answer(w)
    BY <1>4, <1>6 DEF Answer, Arrangement
  <1>8. ~Waiting /\ ~Waiting' /\ call' # "run"
    BY <1>1, <1>5 DEF Waiting, Flushing
  <1>9. ClientPhase' /\ FlushPhase' /\ QuietPhase' /\ StopPhase' /\ OpenPhase'
    BY <1>1, <1>4, <1>5, <1>8
       DEF ClientPhase, FlushPhase, QuietPhase, StopPhase, OpenPhase
  <1>10. EnabledPhase' /\ BasePhase'
    BY <1>1, <1>4, <1>5 DEF EnabledPhase, BasePhase
  <1>11. QueryPhase'
    <2>1. ASSUME NEW w \in Worker
          PROVE  /\ LoopAt(w, timestamp)'
                 /\ w < awaiting' => Silent(w)'
                 /\ ~(w < awaiting') => w # awaiting /\ ~(w < awaiting) /\ replies'[w] = replies[w]
      <3>1. replies'[w] = IF w = awaiting THEN <<>> ELSE replies[w]
        BY <1>5 DEF TypeOK
      <3>2. w < awaiting' <=> w < awaiting \/ w = awaiting
        BY <1>2, <1>5 DEF Worker
      <3>3. LoopAt(w, timestamp) /\ (w < awaiting => Silent(w))
        BY <1>1 DEF QueryPhase
      <3>4. w = awaiting => Silent(w)'
        BY <1>3, <1>4, <3>1 DEF Silent
      <3>5. w < awaiting => Silent(w)'
        BY <1>3, <1>4, <3>1, <3>3 DEF Silent
      <3>6. LoopAt(w, timestamp)'
        BY <1>4, <3>3 DEF LoopAt
      <3> QED  BY <3>1, <3>2, <3>4, <3>5, <3>6
    <2>2. {x \in Worker : x < awaiting'} = {x \in Worker : x < awaiting} \cup {awaiting}
      BY <1>2, <1>5 DEF Worker
    <2>3. query'.res = UNION {Answer(w)' : w \in {x \in Worker : x < awaiting'}}
      <3>1. query.res = UNION {Answer(w) : w \in {x \in Worker : x < awaiting}}
        BY <1>1 DEF QueryPhase
      <3>2. UNION {Answer(w) : w \in {x \in Worker : x < awaiting} \cup {awaiting}}
              = (UNION {Answer(w) : w \in {x \in Worker : x < awaiting}}) \cup Answer(awaiting)
        OBVIOUS
      <3>3. {Answer(w)' : w \in {x \in Worker : x < awaiting'}}
              = {Answer(w) : w \in {x \in Worker : x < awaiting}  \cup {awaiting}}
        BY <1>7, <2>2
      <3> QED  BY <1>6, <3>1, <3>2, <3>3
    <2>4. query'.unknown = (query'.arrid = NoIndex /\ awaiting' > 0)
      <3>1. query.unknown = (query.arrid = NoIndex /\ awaiting > 0) /\ query.unknown \in BOOLEAN
        BY <1>1 DEF QueryPhase, TypeOK, ClientTypeOK
      <3>2. awaiting' > 0
        BY <1>2, <1>5
      <3> QED  BY <1>6, <3>1, <3>2
    <2>5. frontier' = timestamp'
      BY <1>1, <1>4 DEF QueryPhase
    <2>6. ASSUME NEW w \in Worker, ~(w < awaiting')
          PROVE  \/ /\ replies'[w] = <<>>
                    /\ UpdatesThen(requests'[w], timestamp',
                          [type |-> "Query", arrid |-> query'.arrid, key |-> query'.key])
                 \/ /\ requests'[w] = <<>>
                    /\ replies'[w] = <<[type |-> "QueryRes", known |-> query'.arrid # NoIndex,
                                        vals |-> Answer(w)']>>
      <3>1. ~(w < awaiting) /\ replies'[w] = replies[w] /\ requests'[w] = requests[w]
        BY <1>4, <2>1, <2>6
      <3> QED  BY <1>1, <1>4, <1>6, <1>7, <3>1 DEF QueryPhase
    <2> QED  BY <2>1, <2>3, <2>4, <2>5, <2>6 DEF QueryPhase
  <1> QED  BY <1>9, <1>10, <1>11

\* A query that returns leaves nothing behind in the channels.
LEMMA ReturnStep ==
    ASSUME TypeOK, PInv, query_return
    PROVE  PInv'
  <1> USE DEF PInv, sysvars, workvars, flowvars
  <1>1. /\ call = "query" /\ awaiting = N /\ call' = "idle"
        /\ UNCHANGED <<transaction_in_progress, need_to_flush, timestamp, running, awaiting, requests,
                       replies, sysvars, base>>
    BY DEF query_return, Flushed, txnvars, histvars
  <1>2. \A w \in Worker : w < N
    BY ProgramAssumption DEF Worker
  <1>3. N \in Nat /\ ~(awaiting < N)
    BY <1>1, ProgramAssumption
  <1>4. running /\ ~Waiting /\ ~Waiting'
    BY <1>1, <1>3 DEF ClientPhase, Waiting, Flushing
  <1>5. ClientPhase' /\ FlushPhase' /\ QueryPhase' /\ StopPhase'
    BY <1>1, <1>3, <1>4 DEF ClientPhase, FlushPhase, QueryPhase, StopPhase, Flushing
  <1>6. OpenPhase' /\ EnabledPhase' /\ BasePhase'
    BY <1>1, <1>4 DEF OpenPhase, EnabledPhase, BasePhase
  <1>7. QuietPhase'
    <2>1. \A w \in Worker : LoopAt(w, timestamp) /\ Silent(w)
      BY <1>1, <1>2 DEF QueryPhase
    <2>2. \A w \in Worker : OnlyUpdates(requests[w], timestamp)
      BY <2>1 DEF OnlyUpdates, Silent
    <2> QED  BY <1>1, <2>1, <2>2 DEF QuietPhase, QueryPhase, Silent, LoopAt
  <1> QED  BY <1>5, <1>6, <1>7

\* Stop is the only message in every queue.
LEMMA StopStep ==
    ASSUME TypeOK, PInv, stop_broadcast
    PROVE  PInv'
  <1> USE DEF PInv, sysvars, workvars, flowvars
  <1>1. /\ call = "stop" /\ awaiting = N /\ call' = "join"
        /\ requests' = [w \in Worker |-> Append(requests[w], [type |-> "Stop"])]
        /\ UNCHANGED <<transaction_in_progress, need_to_flush, timestamp, running, awaiting,
                       replies, sysvars, base>>
    BY DEF stop_broadcast, Flushed, broadcast, txnvars, histvars
  <1>2. N \in Nat /\ ~(awaiting < N)
    BY <1>1, ProgramAssumption
  <1>3. ~Waiting /\ ~Waiting' /\ running /\ ~need_to_flush
    BY <1>1, <1>2 DEF Waiting, ClientPhase, Flushing
  <1>4. ClientPhase' /\ FlushPhase' /\ QueryPhase' /\ QuietPhase' /\ BasePhase'
    BY <1>1, <1>2, <1>3 DEF ClientPhase, FlushPhase, QueryPhase, QuietPhase, BasePhase
  <1>5. /\ frontier = timestamp
        /\ \A w \in Worker : LoopAt(w, timestamp) /\ Silent(w)
    BY <1>1, <1>3 DEF QuietPhase, Silent
  <1>6. StopPhase' /\ OpenPhase'
    <2>1. \A w \in Worker : requests'[w] = <<[type |-> "Stop"]>>
      <3>1. \A w \in Worker : requests'[w] = Append(<<>>, [type |-> "Stop"])
        BY <1>1, <1>5 DEF Silent
      <3> QED  BY <3>1, AppendFirst
    <2>2. OpenPhase'
      BY <1>1, <1>3, <2>1 DEF OpenPhase
    <2> QED  BY <1>1, <1>5, <2>1, <2>2 DEF StopPhase, LoopAt, Silent
  <1>7. EnabledPhase'
    <2>1. enabled = [open |-> 0, trace |-> 1]
      BY <1>1, <1>3 DEF EnabledPhase
    <2>2. pc'[Leader] # "exiting"
      <3>1. Leader \in Worker
        BY ProgramAssumption DEF Leader, Worker
      <3>2. pc[Leader] = "loop"
        BY <1>5, <3>1 DEF LoopAt
      <3> QED  BY <1>1, <3>2
    <2> QED  BY <1>1, <1>5, <2>1, <2>2 DEF EnabledPhase
  <1> QED  BY <1>4, <1>6, <1>7

\* The workers have been joined.
LEMMA JoinStep ==
    ASSUME TypeOK, PInv, stop_return
    PROVE  PInv'
  <1> USE DEF PInv, sysvars, workvars, flowvars
  <1>1. /\ call = "join" /\ call' = "idle" /\ running' = FALSE
        /\ \A w \in Worker : pc[w] = "stopped"
        /\ UNCHANGED <<transaction_in_progress, need_to_flush, timestamp, awaiting, requests,
                       replies, sysvars, base>>
    BY DEF stop_return, txnvars, histvars
  <1>2. ClientPhase' /\ FlushPhase' /\ QueryPhase' /\ QuietPhase' /\ BasePhase'
    BY <1>1 DEF ClientPhase, FlushPhase, QueryPhase, QuietPhase, BasePhase, Waiting, Flushing
  <1>3. StopPhase'
    BY <1>1 DEF StopPhase
  <1>4. OpenPhase' /\ EnabledPhase'
    BY <1>1 DEF OpenPhase, EnabledPhase, Waiting, Flushing
  <1> QED  BY <1>2, <1>3, <1>4

-----------------------------------------------------------------------------
(* Steps of the workers and of the dataflow *)

\* What no step of a worker changes: the client, the closed epochs, and the other workers.
OthersUnchanged(w) ==
    /\ UNCHANGED <<clientvars, trace, frontier, base>>
    /\ \A x \in Worker \ {w} : /\ requests'[x] = requests[x] /\ replies'[x] = replies[x]
                               /\ pc'[x] = pc[x] /\ time'[x] = time[x] /\ last'[x] = last[x]

\* A worker's step while the client waits for the acknowledgements of a flush.
LEMMA FlushingWorker ==
    ASSUME PInv, Waiting, NEW w \in Worker, ~(w < awaiting), OthersUnchanged(w),
           BeforeFlush(w)' \/ DuringFlush(w)' \/ AfterFlush(w)',
           open' = open \/ frontier # timestamp,
           EnabledPhase'
    PROVE  PInv'
  <1> USE DEF PInv, OthersUnchanged, clientvars, txnvars
  <1>1. Waiting' /\ call \notin {"query", "join", "idle"} /\ running
    BY DEF Waiting, ClientPhase, Flushing
  <1>2. ClientPhase' /\ BasePhase'
    BY <1>1 DEF ClientPhase, BasePhase
  <1>3. QuietPhase' /\ QueryPhase' /\ StopPhase' /\ OpenPhase'
    BY <1>1 DEF QuietPhase, QueryPhase, StopPhase, OpenPhase
  <1>4. FlushPhase'
    <2> SUFFICES ASSUME NEW x \in Worker
                 PROVE  IF x < awaiting'
                        THEN LoopAt(x, timestamp)' /\ Silent(x)' /\ frontier' = timestamp'
                        ELSE BeforeFlush(x)' \/ DuringFlush(x)' \/ AfterFlush(x)'
      BY DEF FlushPhase
    <2>1. CASE x = w
      BY <2>1
    <2>2. CASE x # w
      BY <2>2 DEF FlushPhase, BeforeFlush, DuringFlush, AfterFlush, Silent, LoopAt
    <2> QED  BY <2>1, <2>2
  <1> QED  BY <1>2, <1>3, <1>4

\* Only a worker that the client waits for has the Flush in its queue, or the initial data ahead.
LEMMA FlushAhead ==
    ASSUME TypeOK, PInv, NEW w \in Worker, pc[w] = "start" \/ Request(w, "Flush")
    PROVE  Waiting /\ ~(w < awaiting) /\ BeforeFlush(w)
  <1> USE DEF PInv
  <1>1. Request(w, "Flush") => requests[w] # <<>> /\ requests[w] \in Seq(Msg)
    BY DEF Request, TypeOK
  <1>2. ASSUME Request(w, "Flush"), NEW t, OnlyUpdates(requests[w], t)
        PROVE  FALSE
    BY <1>1, <1>2 DEF Request, OnlyUpdates
  <1>3. ASSUME Request(w, "Flush"), NEW t, UpdatesThen(requests[w], t,
                  [type |-> "Query", arrid |-> query.arrid, key |-> query.key])
        PROVE  FALSE
    <2>1. [type |-> "Query", arrid |-> query.arrid, key |-> query.key] \in Msg
      BY MessageTypes DEF TypeOK, ClientTypeOK
    <2> QED  BY <1>1, <1>3, <2>1, UpdatesThenHead DEF Request
  <1>4. Waiting
    <2>1. CASE Quiescent
      BY <1>2, <2>1 DEF QuietPhase, Quiescent, LoopAt
    <2>2. CASE call = "query"
      BY <1>1, <1>3, <2>2 DEF QueryPhase, LoopAt, Silent
    <2>3. CASE call = "join" \/ ~running
      BY <1>1, <2>3 DEF StopPhase, Request
    <2> QED  BY <2>1, <2>2, <2>3 DEF Quiescent
  <1> QED
    BY <1>1, <1>4 DEF FlushPhase, DuringFlush, AfterFlush, LoopAt, Silent, Request

\* ingest_initial_data: the leader inserts the record of Enabled at epoch 0.
LEMMA IngestStep ==
    ASSUME TypeOK, PInv, NEW w \in Worker, ingest_initial_data(w)
    PROVE  PInv'
  <1> USE DEF PInv, clientvars, txnvars, histvars
  <1>1. Waiting /\ ~(w < awaiting) /\ BeforeFlush(w)
    BY FlushAhead DEF ingest_initial_data
  <1>2. call = "run" /\ timestamp = 1 /\ frontier = 0 /\ requests[w] = <<>> /\ replies[w] = <<>>
    BY <1>1 DEF BeforeFlush, ClientPhase, ingest_initial_data
  <1>3. /\ pc' = [pc EXCEPT ![w] = "flushing"] /\ time' = [time EXCEPT ![w] = 1]
        /\ last' = [last EXCEPT ![w] = 1] /\ pc[w] = "start" /\ UpdateEnabled(w, 1)
        /\ UNCHANGED <<clientvars, requests, replies, open, trace, frontier, base>>
    BY DEF ingest_initial_data, advance
  <1>4. OthersUnchanged(w)
    BY <1>3 DEF OthersUnchanged, TypeOK
  <1>5. DuringFlush(w)'
    BY <1>2, <1>3 DEF DuringFlush, Silent, TypeOK
  <1>6. EnabledPhase'
    <2>1. enabled = [open |-> IF pc[Leader] = "start" THEN 0 ELSE 1, trace |-> 0]
      BY <1>2 DEF EnabledPhase
    <2>2. CASE w = Leader
      BY <1>2, <1>3, <2>1, <2>2 DEF UpdateEnabled, EnabledPhase, TypeOK
    <2>3. CASE w # Leader
      BY <1>2, <1>3, <2>1, <2>3 DEF UpdateEnabled, EnabledPhase, TypeOK
    <2> QED  BY <2>2, <2>3
  <1> QED  BY <1>1, <1>3, <1>4, <1>5, <1>6, FlushingWorker

\* The record of Enabled while the client waits for no initial data and has sent no Stop.
LEMMA EnabledKept ==
    ASSUME EnabledPhase, UNCHANGED <<enabled, call, running, frontier, timestamp>>,
           call # "run" \/ frontier # 0 \/ UNCHANGED pc,
           (call # "join" /\ running) \/ UNCHANGED pc
    PROVE  EnabledPhase'
  BY DEF EnabledPhase

\* handle_flush: the Flush is the last message of the queue.
LEMMA HandleFlushStep ==
    ASSUME TypeOK, PInv, NEW w \in Worker, handle_flush(w)
    PROVE  PInv'
  <1> USE DEF PInv, clientvars, txnvars, histvars
  <1>1. Waiting /\ ~(w < awaiting) /\ BeforeFlush(w) /\ Request(w, "Flush")
    BY FlushAhead DEF handle_flush
  <1> DEFINE msg == [type |-> "Flush", advance_to |-> timestamp]
  <1>2. requests[w] = <<msg>> /\ Head(requests[w]) = msg /\ Tail(requests[w]) = <<>>
    <2>1. UpdatesThen(requests[w], frontier, msg) /\ Head(requests[w]).type # "Update"
      BY <1>1 DEF BeforeFlush, Request
    <2>2. msg \in Msg /\ requests[w] \in Seq(Msg)
      BY MessageTypes DEF TypeOK, ClientTypeOK
    <2> HIDE DEF msg
    <2> QED  BY <2>1, <2>2, LastAlone
  <1>3. /\ pc' = [pc EXCEPT ![w] = "flushing"] /\ time' = [time EXCEPT ![w] = timestamp]
        /\ last' = [last EXCEPT ![w] = timestamp] /\ requests' = [requests EXCEPT ![w] = <<>>]
        /\ UNCHANGED <<clientvars, replies, open, trace, enabled, frontier, base>>
    <2>1. Head(requests[w]).advance_to = timestamp
      BY <1>2
    <2>2. Tail(requests[w]) = <<>>
      BY <1>2
    <2> HIDE DEF msg
    <2> QED  BY <2>1, <2>2 DEF handle_flush, advance, Consume, flowvars
  <1>4. OthersUnchanged(w)
    BY <1>3 DEF OthersUnchanged, TypeOK
  <1>5. DuringFlush(w)'
    BY <1>1, <1>3 DEF DuringFlush, BeforeFlush, Silent, TypeOK
  <1>6. EnabledPhase'
    BY <1>1, <1>3, EnabledKept DEF BeforeFlush, Waiting, Flushing, ClientPhase, Request
  <1> QED  BY <1>1, <1>3, <1>4, <1>5, <1>6, FlushingWorker

\* flush_ack: the probe has reached the worker's epoch, so the flush is complete.
LEMMA FlushAckStep ==
    ASSUME TypeOK, PInv, NEW w \in Worker, flush_ack(w)
    PROVE  PInv'
  <1> USE DEF PInv, clientvars, txnvars, histvars
  <1>1. pc[w] = "flushing" /\ frontier >= time[w]
    BY DEF flush_ack, Probed
  <1>2. Waiting
    BY <1>1 DEF QuietPhase, QueryPhase, StopPhase, LoopAt
  <1>3. ~(w < awaiting) /\ DuringFlush(w)
    BY <1>1, <1>2 DEF FlushPhase, BeforeFlush, AfterFlush, LoopAt
  <1>4. frontier = timestamp /\ timestamp >= 1
    <2>1. timestamp \in Nat /\ frontier \in Nat /\ frontier \in {timestamp - 1, timestamp}
      BY <1>2 DEF TypeOK, ClientTypeOK, FlushPhase
    <2>2. frontier >= timestamp /\ timestamp >= 1
      BY <1>1, <1>3 DEF DuringFlush, ClientPhase
    <2> QED  BY <2>1, <2>2
  <1>5. /\ pc' = [pc EXCEPT ![w] = "loop"] /\ replies' = [replies EXCEPT ![w] = <<FlushAck>>]
        /\ UNCHANGED <<clientvars, requests, time, last, open, trace, enabled, frontier, base>>
    <2>1. replies[w] = <<>>
      BY <1>3 DEF DuringFlush, Silent
    <2> QED  BY <2>1, AppendFirst DEF flush_ack, flowvars
  <1>6. OthersUnchanged(w)
    BY <1>5 DEF OthersUnchanged, TypeOK
  <1>7. AfterFlush(w)'
    BY <1>3, <1>4, <1>5 DEF AfterFlush, DuringFlush, LoopAt, Silent, TypeOK
  <1>8. EnabledPhase'
    BY <1>2, <1>4, <1>5, EnabledKept DEF Waiting, Flushing, ClientPhase
  <1> QED  BY <1>2, <1>3, <1>5, <1>6, <1>7, <1>8, FlushingWorker

\* batch_update: a chunk reaches the sessions while its epoch is open.
LEMMA BatchStep ==
    ASSUME TypeOK, PInv, NEW w \in Worker, batch_update(w)
    PROVE  PInv'
  <1> USE DEF PInv, clientvars, txnvars, histvars, workvars
  <1>1. /\ pc[w] = "loop" /\ requests[w] # <<>> /\ Head(requests[w]).type = "Update"
        /\ requests' = [requests EXCEPT ![w] = Tail(@)]
        /\ UNCHANGED <<clientvars, replies, workvars, trace, enabled, frontier, base>>
    BY DEF batch_update, Request, Consume
  <1>2. /\ requests[w] \in Seq(Msg) /\ 1 \in DOMAIN requests[w] /\ requests[w][1].type = "Update"
        /\ requests'[w] = Tail(requests[w])
        /\ \A x \in Worker \ {w} : requests'[x] = requests[x]
    BY <1>1 DEF TypeOK
  <1>3. OthersUnchanged(w)
    BY <1>1, <1>2 DEF OthersUnchanged
  <1>4. EnabledPhase' /\ BasePhase' /\ ClientPhase'
    BY <1>1 DEF EnabledPhase, BasePhase, ClientPhase
  <1>5. CASE Waiting
    <2> DEFINE msg == [type |-> "Flush", advance_to |-> timestamp]
    <2>1. ~(w < awaiting) /\ BeforeFlush(w) /\ call # "run"
      BY <1>1, <1>5 DEF FlushPhase, BeforeFlush, DuringFlush, AfterFlush, Silent, LoopAt
    <2>2. msg \in Msg /\ msg.type # "Update"
      BY MessageTypes DEF TypeOK, ClientTypeOK
    <2>3. UpdatesThen(requests[w], frontier, msg)
      BY <2>1 DEF BeforeFlush
    <2>4. UpdatesThen(requests'[w], frontier, msg)
      <3> HIDE DEF msg
      <3> QED  BY <1>1, <1>2, <2>2, <2>3, TailUpdatesThen
    <2>5. BeforeFlush(w)'
      BY <1>1, <2>1, <2>4 DEF BeforeFlush
    <2>6. frontier # timestamp
      BY <2>1 DEF BeforeFlush, TypeOK, ClientTypeOK
    <2> QED  BY <1>3, <1>4, <1>5, <2>1, <2>5, <2>6, FlushingWorker
  <1>6. CASE ~Waiting
    <2>1. need_to_flush
      BY <1>2, <1>6 DEF OpenPhase
    <2>2. running /\ call # "join"
      BY <2>1 DEF ClientPhase
    <2>3. FlushPhase' /\ StopPhase' /\ OpenPhase' /\ ~Waiting'
      BY <1>1, <1>6, <2>1, <2>2 DEF FlushPhase, StopPhase, OpenPhase, Waiting
    <2>4. QuietPhase'
      <3> SUFFICES ASSUME call # "query"
                   PROVE  QuietPhase'
        BY <1>1 DEF QuietPhase
      <3>1. OnlyUpdates(requests[w], timestamp)
        BY <1>6, <2>2 DEF QuietPhase
      <3>2. OnlyUpdates(requests'[w], timestamp)
        BY <1>1, <1>2, <3>1, TailOnlyUpdates
      <3> QED  BY <1>1, <1>2, <1>6, <2>1, <2>2, <3>2 DEF QuietPhase, LoopAt
    <2>5. QueryPhase'
      <3> SUFFICES ASSUME call = "query"
                   PROVE  QueryPhase'
        BY <1>1 DEF QueryPhase
      <3> DEFINE msg == [type |-> "Query", arrid |-> query.arrid, key |-> query.key]
      <3>1. msg \in Msg /\ msg.type # "Update"
        BY MessageTypes DEF TypeOK, ClientTypeOK
      <3>2. ~(w < awaiting) /\ UpdatesThen(requests[w], timestamp, msg) /\ replies[w] = <<>>
        BY <1>1 DEF QueryPhase, Silent
      <3>3. UpdatesThen(requests'[w], timestamp, msg)
        <4> HIDE DEF msg
        <4> QED  BY <1>1, <1>2, <3>1, <3>2, TailUpdatesThen
      <3>4. \A x \in Worker : Answer(x)' = Answer(x)
        BY <1>1 DEF Answer, Arrangement
      <3>5. ASSUME NEW x \in Worker
            PROVE  /\ LoopAt(x, timestamp)'
                   /\ x < awaiting => Silent(x)'
                   /\ ~(x < awaiting) =>
                         \/ /\ replies'[x] = <<>>
                            /\ UpdatesThen(requests'[x], timestamp, msg)
                         \/ /\ requests'[x] = <<>>
                            /\ replies'[x] = <<[type |-> "QueryRes", known |-> query.arrid # NoIndex,
                                                vals |-> Answer(x)]>>
        <4>1. CASE x = w
          BY <1>1, <3>2, <3>3, <4>1 DEF QueryPhase, LoopAt
        <4>2. CASE x # w
          BY <1>1, <1>2, <4>2 DEF QueryPhase, LoopAt, Silent
        <4> QED  BY <4>1, <4>2
      <3>6. {Answer(x)' : x \in {y \in Worker : y < awaiting}}
               = {Answer(x) : x \in {y \in Worker : y < awaiting}}
        BY <3>4
      <3> QED  BY <1>1, <3>4, <3>5, <3>6 DEF QueryPhase
    <2> QED  BY <1>4, <2>3, <2>4, <2>5
  <1> QED  BY <1>5, <1>6

\* handle_query: the chunks sent before the Query have been fed, but belong to the open epoch.
LEMMA HandleQueryStep ==
    ASSUME TypeOK, PInv, NEW w \in Worker, handle_query(w)
    PROVE  PInv'
  <1> USE DEF PInv, clientvars, txnvars, histvars, sysvars, workvars, flowvars
  <1>1. /\ pc[w] = "loop" /\ requests[w] # <<>> /\ Head(requests[w]).type = "Query"
        /\ requests' = [requests EXCEPT ![w] = Tail(@)]
        /\ UNCHANGED <<clientvars, sysvars, base>>
    BY DEF handle_query, Request, Consume
  <1>2. requests[w] \in Seq(Msg) /\ 1 \in DOMAIN requests[w] /\ requests[w][1].type = "Query"
    BY <1>1 DEF TypeOK
  <1>3. call = "query"
    <2>1. ASSUME Waiting
          PROVE  FALSE
      <3> DEFINE msg == [type |-> "Flush", advance_to |-> timestamp]
      <3>1. UpdatesThen(requests[w], frontier, msg)
        BY <1>1, <2>1 DEF FlushPhase, BeforeFlush, DuringFlush, AfterFlush, Silent, LoopAt
      <3>2. msg \in Msg
        BY MessageTypes DEF TypeOK, ClientTypeOK
      <3>3. Head(requests[w]).type = "Update" \/ Head(requests[w]) = msg
        <4> HIDE DEF msg
        <4> QED  BY <1>2, <3>1, <3>2, UpdatesThenHead
      <3> QED  BY <1>1, <3>3
    <2>2. ~Quiescent
      BY <1>2 DEF Quiescent, QuietPhase, OnlyUpdates
    <2>3. ~(call = "join" \/ ~running)
      BY <1>2 DEF StopPhase
    <2> QED  BY <2>1, <2>2, <2>3 DEF Quiescent
  <1> DEFINE msg == [type |-> "Query", arrid |-> query.arrid, key |-> query.key]
             reply == [type |-> "QueryRes", known |-> query.arrid # NoIndex, vals |-> Answer(w)]
  <1>4. ~(w < awaiting) /\ UpdatesThen(requests[w], timestamp, msg) /\ replies[w] = <<>>
    BY <1>1, <1>3 DEF QueryPhase, Silent
  <1>5. Head(requests[w]) = msg /\ Tail(requests[w]) = <<>>
    <2>1. msg \in Msg
      BY MessageTypes DEF TypeOK, ClientTypeOK
    <2>2. Head(requests[w]).type # "Update"
      BY <1>1
    <2> HIDE DEF msg
    <2> QED  BY <1>2, <1>4, <2>1, <2>2, LastAlone
  <1>6. requests' = [requests EXCEPT ![w] = <<>>] /\ replies' = [replies EXCEPT ![w] = <<reply>>]
    <2>1. Head(requests[w]).arrid = query.arrid /\ Head(requests[w]).key = query.key
      BY <1>5
    <2>2. replies' = [replies EXCEPT ![w] = Append(<<>>, reply)]
      BY <1>4, <2>1 DEF handle_query, Answer
    <2>3. Tail(requests[w]) = <<>>
      BY <1>5
    <2> HIDE DEF reply, msg
    <2> QED  BY <1>1, <2>2, <2>3, AppendFirst
  <1>7. /\ requests'[w] = <<>> /\ replies'[w] = <<reply>>
        /\ \A x \in Worker \ {w} : requests'[x] = requests[x] /\ replies'[x] = replies[x]
    BY <1>6 DEF TypeOK
  <1>8. ~Waiting /\ ~Waiting' /\ running
    BY <1>1, <1>3 DEF Waiting, Flushing, ClientPhase
  <1>9. EnabledPhase' /\ BasePhase' /\ ClientPhase'
    BY <1>1 DEF EnabledPhase, BasePhase, ClientPhase
  <1>10. FlushPhase' /\ QuietPhase' /\ StopPhase'
    BY <1>1, <1>3, <1>8 DEF FlushPhase, QuietPhase, StopPhase
  <1>11. OpenPhase'
    <2> SUFFICES ASSUME ~need_to_flush, NEW x \in Worker
                 PROVE  \A i \in DOMAIN requests'[x] : requests'[x][i].type # "Update"
      BY <1>1, <1>8 DEF OpenPhase
    <2>1. CASE x = w
      BY <1>7, <2>1
    <2>2. CASE x # w
      BY <1>7, <1>8, <2>2 DEF OpenPhase
    <2> QED  BY <2>1, <2>2
  <1>12. QueryPhase'
    <2>1. \A x \in Worker : Answer(x)' = Answer(x)
      BY <1>1 DEF Answer, Arrangement
    <2>2. ASSUME NEW x \in Worker
          PROVE  /\ LoopAt(x, timestamp)'
                 /\ x < awaiting => Silent(x)'
                 /\ ~(x < awaiting) =>
                       \/ /\ replies'[x] = <<>>
                          /\ UpdatesThen(requests'[x], timestamp, msg)
                       \/ /\ requests'[x] = <<>>
                          /\ replies'[x] = <<[type |-> "QueryRes", known |-> query.arrid # NoIndex,
                                              vals |-> Answer(x)]>>
      <3>1. CASE x = w
        BY <1>1, <1>3, <1>4, <1>7, <3>1 DEF QueryPhase, LoopAt
      <3>2. CASE x # w
        BY <1>1, <1>3, <1>7, <3>2 DEF QueryPhase, LoopAt, Silent
      <3> QED  BY <3>1, <3>2
    <2>3. {Answer(x)' : x \in {y \in Worker : y < awaiting}}
             = {Answer(x) : x \in {y \in Worker : y < awaiting}}
      BY <2>1
    <2> QED  BY <1>1, <1>3, <2>1, <2>2, <2>3 DEF QueryPhase
  <1> QED  BY <1>9, <1>10, <1>11, <1>12

\* A worker's step after Stop.
LEMMA StoppingWorker ==
    ASSUME TypeOK, PInv, call = "join", NEW w \in Worker, OthersUnchanged(w), UNCHANGED <<replies, open>>,
           requests'[w] = <<>>, last'[w] = last[w], time'[w] = timestamp + 1,
           \/ pc'[w] = "exiting"
           \/ pc'[w] = "stopped" /\ frontier = timestamp + 1,
           EnabledPhase'
    PROVE  PInv'
  <1> USE DEF PInv, OthersUnchanged, clientvars, txnvars
  <1>1. running /\ ~Waiting /\ ~Waiting'
    BY DEF ClientPhase, Waiting, Flushing
  <1>2. ClientPhase' /\ FlushPhase' /\ QuietPhase' /\ QueryPhase' /\ BasePhase'
    BY <1>1 DEF ClientPhase, FlushPhase, QuietPhase, QueryPhase, BasePhase
  <1>3. OpenPhase'
    <2> SUFFICES ASSUME ~need_to_flush, NEW x \in Worker
                 PROVE  \A i \in DOMAIN requests'[x] : requests'[x][i].type # "Update"
      BY <1>1 DEF OpenPhase
    <2>1. CASE x = w
      BY <2>1
    <2>2. CASE x # w
      BY <1>1, <2>2 DEF OpenPhase
    <2> QED  BY <2>1, <2>2
  <1>4. StopPhase'
    <2> SUFFICES ASSUME NEW x \in Worker
                 PROVE  /\ replies'[x] = <<>>
                        /\ last'[x] = timestamp
                        /\ \/ /\ pc'[x] = "loop" /\ time'[x] = timestamp
                              /\ frontier = timestamp
                              /\ requests'[x] = <<[type |-> "Stop"]>>
                           \/ /\ pc'[x] = "exiting" /\ time'[x] = timestamp + 1
                              /\ requests'[x] = <<>>
                           \/ /\ pc'[x] = "stopped" /\ time'[x] = timestamp + 1
                              /\ frontier = timestamp + 1
                              /\ requests'[x] = <<>>
      BY DEF StopPhase
    <2>1. CASE x = w
      BY <2>1 DEF StopPhase
    <2>2. CASE x # w
      BY <2>2 DEF StopPhase
    <2> QED  BY <2>1, <2>2
  <1> QED  BY <1>2, <1>3, <1>4

\* disable: the leader deletes the record of Enabled at the last epoch.
LEMMA DisableStep ==
    ASSUME TypeOK, PInv, NEW w \in Worker, disable(w)
    PROVE  PInv'
  <1> USE DEF PInv, clientvars, txnvars, histvars
  <1>1. /\ pc[w] = "loop" /\ requests[w] # <<>> /\ Head(requests[w]).type = "Stop"
        /\ requests' = [requests EXCEPT ![w] = Tail(@)] /\ UpdateEnabled(w, -1)
        /\ time' = [time EXCEPT ![w] = last[w] + 1] /\ pc' = [pc EXCEPT ![w] = "exiting"]
        /\ UNCHANGED <<clientvars, replies, last, open, trace, frontier, base>>
    BY DEF disable, Request, Consume, advance
  <1>2. requests[w] \in Seq(Msg) /\ 1 \in DOMAIN requests[w] /\ requests[w][1].type = "Stop"
    BY <1>1 DEF TypeOK
  <1>3. call = "join"
    <2>1. ~Waiting
      <3> SUFFICES ASSUME Waiting
                   PROVE  FALSE
        OBVIOUS
      <3> DEFINE msg == [type |-> "Flush", advance_to |-> timestamp]
      <3>1. UpdatesThen(requests[w], frontier, msg) /\ msg \in Msg
        BY <1>1, MessageTypes
           DEF FlushPhase, BeforeFlush, DuringFlush, AfterFlush, Silent, LoopAt, TypeOK, ClientTypeOK
      <3>2. Head(requests[w]).type = "Update" \/ Head(requests[w]) = msg
        <4> HIDE DEF msg
        <4> QED  BY <1>2, <3>1, UpdatesThenHead
      <3> QED  BY <1>1, <3>2
    <2>2. call # "query"
      <3> SUFFICES ASSUME call = "query"
                   PROVE  FALSE
        OBVIOUS
      <3> DEFINE msg == [type |-> "Query", arrid |-> query.arrid, key |-> query.key]
      <3>1. UpdatesThen(requests[w], timestamp, msg) /\ msg \in Msg
        BY <1>1, MessageTypes DEF QueryPhase, Silent, TypeOK, ClientTypeOK
      <3>2. Head(requests[w]).type = "Update" \/ Head(requests[w]) = msg
        <4> HIDE DEF msg
        <4> QED  BY <1>2, <3>1, UpdatesThenHead
      <3> QED  BY <1>1, <3>2
    <2>3. ~Quiescent
      BY <1>2 DEF Quiescent, QuietPhase, OnlyUpdates
    <2>4. running
      BY <1>1 DEF ClientPhase
    <2> QED  BY <2>1, <2>2, <2>3, <2>4 DEF Quiescent
  <1>4. /\ requests[w] = <<[type |-> "Stop"]>> /\ last[w] = timestamp /\ time[w] = timestamp
        /\ frontier = timestamp
    BY <1>1, <1>3 DEF StopPhase
  <1>5. Tail(requests[w]) = <<>>
    BY <1>4
  <1>6. requests'[w] = <<>> /\ last'[w] = last[w] /\ time'[w] = timestamp + 1 /\ pc'[w] = "exiting"
    BY <1>1, <1>4, <1>5 DEF TypeOK
  <1>7. OthersUnchanged(w)
    BY <1>1 DEF OthersUnchanged, TypeOK
  <1>8. EnabledPhase'
    <2>1. enabled = [open |-> IF pc[Leader] = "exiting" THEN -1 ELSE 0, trace |-> 1]
      BY <1>3, <1>4 DEF EnabledPhase
    <2>2. CASE w = Leader
      BY <1>1, <1>3, <1>4, <1>6, <2>1, <2>2 DEF UpdateEnabled, EnabledPhase
    <2>3. CASE w # Leader
      <3>1. pc'[Leader] = pc[Leader]
        BY <1>1, <2>3 DEF TypeOK
      <3> QED  BY <1>1, <1>3, <1>4, <2>1, <2>3, <3>1 DEF UpdateEnabled, EnabledPhase
    <2> QED  BY <2>2, <2>3
  <1> QED  BY <1>1, <1>3, <1>6, <1>7, <1>8, StoppingWorker

\* A worker returns from its last flush.
LEMMA ExitStep ==
    ASSUME TypeOK, PInv, NEW w \in Worker, worker_exit(w)
    PROVE  PInv'
  <1> USE DEF PInv, clientvars, txnvars, histvars
  <1>1. /\ pc[w] = "exiting" /\ frontier >= time[w] /\ pc' = [pc EXCEPT ![w] = "stopped"]
        /\ UNCHANGED <<clientvars, requests, replies, time, last, open, trace, enabled, frontier, base>>
    BY DEF worker_exit, Probed, flowvars
  <1>2. call = "join"
    BY <1>1 DEF ClientPhase, FlushPhase, QuietPhase, QueryPhase, BeforeFlush, DuringFlush, AfterFlush,
                LoopAt
  <1>3. time[w] = timestamp + 1 /\ requests[w] = <<>> /\ frontier \in {timestamp, timestamp + 1}
    BY <1>1, <1>2 DEF StopPhase
  <1>4. frontier = timestamp + 1
    BY <1>1, <1>3 DEF TypeOK, ClientTypeOK
  <1>5. pc'[w] = "stopped" /\ OthersUnchanged(w)
    BY <1>1 DEF OthersUnchanged, TypeOK
  <1>6. EnabledPhase'
    <2>1. frontier # timestamp
      BY <1>4 DEF TypeOK, ClientTypeOK
    <2> QED  BY <1>1, <1>2, <2>1 DEF EnabledPhase
  <1> QED  BY <1>1, <1>2, <1>3, <1>4, <1>5, <1>6, StoppingWorker

\* An epoch closes only while the client waits for a flush, or after Stop when no weight is left.
LEMMA EpochCloses ==
    ASSUME TypeOK, PInv, step
    PROVE  \/ Waiting /\ frontier = timestamp - 1
           \/ call = "join" /\ frontier = timestamp /\ open = EmptyCollection
  <1> USE DEF PInv
  <1>1. 0 \in Worker /\ time[0] > frontier /\ frontier \in Nat /\ timestamp \in Nat
    BY ProgramAssumption DEF step, Worker, TypeOK, ClientTypeOK
  <1>2. CASE Waiting
    <2>1. frontier # timestamp
      BY <1>1, <1>2 DEF FlushPhase, BeforeFlush, DuringFlush, AfterFlush, LoopAt
    <2> QED  BY <1>2, <2>1 DEF FlushPhase
  <1>3. CASE ~Waiting
    <2>1. call = "join" \/ ~running
      <3>1. ~(frontier = timestamp /\ LoopAt(0, timestamp))
        BY <1>1 DEF LoopAt
      <3>2. call # "query"
        BY <1>1, <3>1 DEF QueryPhase
      <3> QED  BY <1>1, <1>3, <3>1, <3>2 DEF QuietPhase
    <2>2. time[0] \in {timestamp, timestamp + 1} /\ frontier \in {timestamp, timestamp + 1}
      BY <1>1, <2>1 DEF StopPhase
    <2>3. frontier = timestamp
      BY <1>1, <2>2
    <2>4. running /\ ~need_to_flush
      <3>1. timestamp # timestamp + 1
        BY <1>1
      <3> QED  BY <1>1, <2>1, <2>3, <3>1 DEF ClientPhase, StopPhase
    <2> QED  BY <1>3, <2>1, <2>3, <2>4 DEF OpenPhase
  <1> QED  BY <1>2, <1>3

\* Adding nothing to a collection.
LEMMA CombineEmpty ==
    ASSUME NEW c \in Collection
    PROVE  Combine(c, EmptyCollection) = c
  BY DEF Combine, Collection, ZSet, EmptyCollection, EmptyZSet

\* The dataflow closes the open epoch.
LEMMA CloseStep ==
    ASSUME TypeOK, PInv, step
    PROVE  PInv'
  <1> USE DEF PInv, clientvars, txnvars, histvars, workvars
  <1>1. /\ \A w \in Worker : time[w] > frontier
        /\ frontier' = frontier + 1 /\ open' = EmptyCollection /\ trace' = Combine(trace, open)
        /\ enabled' = [open |-> 0, trace |-> enabled.trace + enabled.open]
        /\ UNCHANGED <<clientvars, requests, replies, workvars, base>>
    BY DEF step
  <1>2. timestamp \in Nat /\ frontier \in Nat /\ 0 \in Worker /\ timestamp >= 1
    BY ProgramAssumption DEF TypeOK, ClientTypeOK, Worker, ClientPhase
  <1>3. ClientPhase'
    BY <1>1 DEF ClientPhase
  <1>4. CASE Waiting /\ frontier = timestamp - 1
    <2>1. call \in Flushing /\ call \notin {"query", "join", "idle", "updates", "clear"} /\ running
      BY <1>4 DEF Waiting, Flushing, ClientPhase
    <2>2. Waiting' /\ frontier' = timestamp' /\ frontier # timestamp /\ frontier' # 0
      BY <1>1, <1>2, <1>4 DEF Waiting
    <2>3. QuietPhase' /\ QueryPhase' /\ StopPhase' /\ OpenPhase' /\ BasePhase'
      BY <1>1, <2>1, <2>2 DEF QuietPhase, QueryPhase, StopPhase, OpenPhase, BasePhase
    <2>4. FlushPhase'
      <3> SUFFICES ASSUME NEW w \in Worker
                   PROVE  ~(w < awaiting) /\ DuringFlush(w)'
        BY <1>1, <2>2 DEF FlushPhase
      <3>1. ~(w < awaiting)
        BY <1>4, <2>2 DEF FlushPhase
      <3>2. ~BeforeFlush(w) /\ ~AfterFlush(w)
        BY <1>1, <1>2, <2>2 DEF BeforeFlush, AfterFlush
      <3>3. DuringFlush(w)
        BY <1>4, <3>1, <3>2 DEF FlushPhase
      <3> QED  BY <1>1, <3>1, <3>3 DEF DuringFlush, Silent
    <2>5. EnabledPhase'
      <3>1. CASE call = "run"
        <4>1. timestamp = 1 /\ frontier = 0
          BY <1>2, <1>4, <3>1 DEF ClientPhase
        <4>2. pc[Leader] # "start"
          <5>1. BeforeFlush(0) \/ DuringFlush(0) \/ AfterFlush(0) \/ LoopAt(0, timestamp)
            BY <1>2, <1>4 DEF FlushPhase
          <5>2. ~BeforeFlush(0)
            BY <1>1, <1>2 DEF BeforeFlush
          <5> QED  BY <5>1, <5>2 DEF DuringFlush, AfterFlush, LoopAt, Leader
        <4>3. enabled = [open |-> 1, trace |-> 0]
          BY <3>1, <4>1, <4>2 DEF EnabledPhase
        <4>4. enabled' = [open |-> 0, trace |-> 1]
          BY <1>1, <4>3
        <4> QED  BY <1>1, <2>1, <2>2, <4>4 DEF EnabledPhase
      <3>2. CASE call # "run"
        <4>1. enabled = [open |-> 0, trace |-> 1]
          BY <2>1, <3>2 DEF EnabledPhase
        <4>2. enabled' = [open |-> 0, trace |-> 1]
          BY <1>1, <4>1
        <4> QED  BY <1>1, <2>1, <2>2, <4>2 DEF EnabledPhase
      <3> QED  BY <3>1, <3>2
    <2> QED  BY <1>3, <2>3, <2>4, <2>5
  <1>5. CASE call = "join" /\ frontier = timestamp /\ open = EmptyCollection
    <2>1. running /\ ~Waiting /\ ~Waiting'
      BY <1>1, <1>5 DEF ClientPhase, Waiting, Flushing
    <2>2. FlushPhase' /\ QuietPhase' /\ QueryPhase' /\ BasePhase' /\ OpenPhase'
      BY <1>1, <1>5, <2>1 DEF FlushPhase, QuietPhase, QueryPhase, BasePhase, OpenPhase
    <2>3. frontier' = timestamp' + 1 /\ frontier' # timestamp'
      BY <1>1, <1>2, <1>5
    <2>4. \A w \in Worker : pc[w] = "exiting"
      <3> SUFFICES ASSUME NEW w \in Worker
                   PROVE  pc[w] = "exiting"
        OBVIOUS
      <3>1. frontier # timestamp + 1 /\ ~(time[w] = timestamp)
        BY <1>1, <1>2, <1>5
      <3> QED  BY <1>5, <3>1 DEF StopPhase
    <2>5. StopPhase'
      BY <1>1, <1>5, <2>3, <2>4 DEF StopPhase
    <2>6. EnabledPhase'
      <3>1. enabled = [open |-> -1, trace |-> 1]
        BY <1>2, <1>5, <2>4 DEF EnabledPhase, Leader
      <3>2. enabled' = [open |-> 0, trace |-> 0]
        BY <1>1, <3>1
      <3> QED  BY <1>1, <1>5, <2>3, <3>2 DEF EnabledPhase
    <2> QED  BY <1>3, <2>2, <2>5, <2>6
  <1> QED  BY <1>4, <1>5, EpochCloses

-----------------------------------------------------------------------------
(* Theorems about the protocol *)

\* The protocol invariant holds initially: the workers have the initial data ahead of them.
LEMMA InitPInv == Init => PInv
  <1> SUFFICES ASSUME Init
               PROVE  PInv
    OBVIOUS
  <1> USE DEF Init
  <1>1. N \in Nat \ {0} /\ Waiting /\ 0 \in Worker
    BY ProgramAssumption DEF Waiting, Flushing, Worker
  <1>2. \A w \in Worker : ~(w < awaiting) /\ BeforeFlush(w)
    BY DEF Worker, BeforeFlush
  <1>3. FlushPhase
    BY <1>2 DEF FlushPhase
  <1>4. ClientPhase /\ QuietPhase /\ QueryPhase /\ StopPhase /\ OpenPhase /\ BasePhase
    BY <1>1 DEF ClientPhase, QuietPhase, QueryPhase, StopPhase, OpenPhase, BasePhase, Flushing
  <1>5. EnabledPhase
    BY <1>1 DEF EnabledPhase, Leader
  <1> QED  BY <1>3, <1>4, <1>5 DEF PInv

\* A rollback that has started to undo does not stop: UndoOk.
LEMMA UndoGoesOn ==
    ASSUME IInv, delta_undo_step
    PROVE  call = "undo" /\ call' = "undo"
  <1>1. call = "undo"
    BY DEF delta_undo_step
  <1>2. PICK r \in RelId : \E u \in delta_undo_updates(todo[r]) : Apply(r, u)
    BY DEF delta_undo_step
  <1>3. PICK u \in delta_undo_updates(todo[r]) : Apply(r, u)
    BY <1>2
  <1>4. apply_update(kind[r], elements[r], delta[r], u).ok
    BY <1>1, UndoOk
  <1> QED  BY <1>1, <1>3, <1>4 DEF Apply

\* Every step of the client, a worker or the dataflow keeps the protocol invariant.
LEMMA NextPInv ==
    ASSUME IInv, TypeOK, PInv, [Next]_vars
    PROVE  PInv'
  <1> USE DEF relvars, txnvars, loopvars, histvars
  <1>1. Ready => Quiescent
    BY DEF Ready, Quiescent, Waiting, Flushing
  <1>2. \A c \in Flushing : Flushed(c) => Quiescent
    <2>1. N \in Nat /\ ~(N < N)
      BY ProgramAssumption
    <2> QED  BY <2>1 DEF Flushed, Quiescent, Waiting, Flushing, PInv, ClientPhase
  <1>3. call \in {"updates", "undo", "clear", "undo_flush"} => Quiescent
    BY DEF Quiescent, Waiting, Flushing, PInv, ClientPhase
  <1>4. Flushing = {"run", "commit", "rollback", "undone", "stop"}
    BY DEF Flushing
  <1>5. CASE transaction_start
    BY <1>1, <1>5, LocalStep DEF transaction_start, Ready
  <1>6. CASE apply_updates \/ \E r \in RelId : clear_relation(r)
    BY <1>1, <1>6, LocalStep DEF apply_updates, clear_relation, Ready
  <1>7. CASE apply_updates_step \/ apply_updates_rejected \/ clear_relation_step
    <2>1. call \in {"updates", "clear"} /\ call' \in {call, "idle"}
      BY <1>7 DEF apply_updates_step, apply_updates_rejected, clear_relation_step, Apply, Abort
    <2>2. UNCHANGED <<txnvars, running, awaiting, requests, replies, sysvars, base>>
      BY <1>7 DEF apply_updates_step, apply_updates_rejected, clear_relation_step
    <2> QED  BY <1>3, <2>1, <2>2, LocalStep
  <1>8. CASE run_return \/ transaction_commit_return \/ transaction_rollback_return \/ delta_undo
    <2>1. CASE run_return
      <3>1. Flushed("run") /\ ~transaction_in_progress
        BY <2>1 DEF run_return, Flushed, PInv, ClientPhase
      <3> QED  BY <1>2, <1>4, <2>1, <3>1, LocalStep DEF run_return
    <2>2. CASE transaction_commit_return
      BY <1>2, <1>4, <2>2, LocalStep DEF transaction_commit_return, Flushed
    <2>3. CASE transaction_rollback_return
      BY <1>2, <1>4, <2>3, LocalStep DEF transaction_rollback_return, Flushed
    <2>4. CASE delta_undo
      BY <1>2, <1>4, <2>4, LocalStep DEF delta_undo
    <2> QED  BY <1>8, <2>1, <2>2, <2>3, <2>4
  <1>9. CASE delta_undo_step
    <2>1. call = "undo" /\ call' = "undo"
      BY <1>9, UndoGoesOn
    <2>2. UNCHANGED <<txnvars, running, awaiting, requests, replies, sysvars, base>>
      BY <1>9 DEF delta_undo_step
    <2> QED  BY <1>3, <2>1, <2>2, LocalStep
  <1>10. CASE transaction_commit \/ transaction_rollback \/ stop \/ delta_undo_flush
    <2>1. PICK c \in {"commit", "rollback", "stop", "undone"} : flush(c)
      BY <1>10 DEF transaction_commit, transaction_rollback, stop, delta_undo_flush
    <2>2. /\ UNCHANGED <<transaction_in_progress, running, query, replies, sysvars>>
          /\ Ready \/ call = "undo_flush"
      BY <1>10 DEF transaction_commit, transaction_rollback, stop, delta_undo_flush
    <2> QED  BY <1>1, <1>3, <2>1, <2>2, FlushStep
  <1>11. CASE apply_updates_send
    BY <1>11, SendStep
  <1>12. CASE \E arrid \in RelId \cup {NoIndex}, k \in Key \cup {None} : query_arrangement(arrid, k)
    BY <1>12, QueryStep
  <1>13. CASE await_flush_ack \/ query_receive \/ query_return
    BY <1>13, AwaitStep, ReceiveStep, ReturnStep
  <1>14. CASE stop_broadcast \/ stop_return
    BY <1>14, StopStep, JoinStep
  <1>15. CASE \E w \in Worker : WorkerNext(w)
    BY <1>15, IngestStep, BatchStep, HandleFlushStep, FlushAckStep, HandleQueryStep, DisableStep,
       ExitStep DEF WorkerNext
  <1>16. CASE step
    BY <1>16, CloseStep
  <1>17. CASE Stopped \/ UNCHANGED vars
    BY <1>17
       DEF Stopped, vars, clientvars, sysvars, workvars, flowvars, PInv, ClientPhase, FlushPhase,
           QuietPhase, QueryPhase, StopPhase, OpenPhase, EnabledPhase, BasePhase, Waiting,
           BeforeFlush, DuringFlush, AfterFlush, LoopAt, Silent, Answer, Arrangement
  <1> QED
    BY <1>5, <1>6, <1>7, <1>8, <1>9, <1>10, <1>11, <1>12, <1>13, <1>14, <1>15, <1>16, <1>17
       DEF Next, Call_, Continue

\* The three inductive invariants together, for programs whose mutators keep the primary key.
THEOREM ProtocolInvariance == ASSUME KeyPreserving PROVE Spec => [](IInv /\ TypeOK /\ PInv)
  <1>1. IInv /\ TypeOK /\ PInv /\ [Next]_vars => PInv'
    BY NextPInv
  <1> QED  BY <1>1, InitPInv, Invariance, TypeCorrectness, PTL DEF Spec

\* update_at never meets an epoch that its session has left, and no two epochs are fed at once:
\* whatever the number of workers, every queued message fits the open epoch of the dataflow and
\* the epoch of the worker it waits for.
THEOREM EpochsAgree == ASSUME KeyPreserving PROVE Spec => []OneOpenEpoch
  <1>1. TypeOK /\ PInv => OneOpenEpoch
    <2> SUFFICES ASSUME TypeOK, PInv, NEW w \in Worker, NEW i \in DOMAIN requests[w]
                 PROVE  /\ requests[w][i].type = "Update" =>
                              requests[w][i].timestamp = frontier /\ time[w] = frontier
                        /\ requests[w][i].type = "Flush" => requests[w][i].advance_to = frontier + 1
                        /\ requests[w][i].type = "Stop" => last[w] = frontier /\ time[w] = frontier
      BY DEF OneOpenEpoch
    <2> USE DEF PInv
    <2>1. requests[w] # <<>>
      OBVIOUS
    <2>2. CASE Waiting
      <3>1. BeforeFlush(w) /\ call # "run"
        BY <2>1, <2>2 DEF FlushPhase, BeforeFlush, DuringFlush, AfterFlush, Silent
      <3>2. timestamp = frontier + 1
        BY <3>1 DEF BeforeFlush, TypeOK, ClientTypeOK
      <3> QED  BY <3>1, <3>2 DEF BeforeFlush, UpdatesThen
    <2>3. CASE Quiescent
      BY <2>3 DEF Quiescent, QuietPhase, OnlyUpdates, LoopAt
    <2>4. CASE call = "query"
      <3> DEFINE msg == [type |-> "Query", arrid |-> query.arrid, key |-> query.key]
      <3>1. /\ time[w] = frontier /\ timestamp = frontier
            /\ UpdatesThen(requests[w], timestamp, msg)
        BY <2>1, <2>4 DEF QueryPhase, LoopAt, Silent
      <3>2. msg.type = "Query"
        OBVIOUS
      <3>3. \/ requests[w][i] = msg
            \/ requests[w][i].type = "Update" /\ requests[w][i].timestamp = frontier
        BY <3>1 DEF UpdatesThen
      <3> HIDE DEF msg
      <3> QED  BY <3>1, <3>2, <3>3
    <2>5. CASE call = "join" \/ ~running
      <3>1. /\ requests[w] = <<[type |-> "Stop"]>>
            /\ last[w] = frontier /\ time[w] = frontier
        BY <2>1, <2>5 DEF StopPhase
      <3>2. requests[w][i] = [type |-> "Stop"]
        BY <3>1
      <3> QED  BY <3>1, <3>2
    <2> QED  BY <2>2, <2>3, <2>4, <2>5 DEF Quiescent
  <1> QED  BY <1>1, ProtocolInvariance, PTL

\* Whatever the order in which the workers get there, a method reads the replies to its own
\* request and leaves none behind: await_flush_ack meets no answer to a query, and
\* _query_arrangement no FlushAck.
THEOREM RepliesInOrder == ASSUME KeyPreserving PROVE Spec => []RepliesMatch
  <1>1. TypeOK /\ PInv => RepliesMatch
    <2> SUFFICES ASSUME TypeOK, PInv, NEW w \in Worker
                 PROVE  /\ Len(replies[w]) <= 1
                        /\ replies[w] # <<>> =>
                              /\ awaiting <= w
                              /\ call \in Flushing \cup {"query"}
                              /\ (Head(replies[w]).type = "FlushAck") = (call \in Flushing)
      BY DEF RepliesMatch
    <2> USE DEF PInv
    <2>1. CASE replies[w] = <<>>
      BY <2>1
    <2>2. CASE replies[w] # <<>>
      <3>1. ~(w < awaiting) => awaiting <= w
        BY ProgramAssumption DEF Worker, TypeOK, ClientTypeOK
      <3>2. CASE Waiting
        <4>1. ~(w < awaiting) /\ replies[w] = <<FlushAck>>
          BY <2>2, <3>2 DEF FlushPhase, BeforeFlush, DuringFlush, AfterFlush, Silent
        <4> QED  BY <3>1, <3>2, <4>1 DEF Waiting, FlushAck
      <3>3. CASE call = "query"
        <4> DEFINE reply == [type |-> "QueryRes", known |-> query.arrid # NoIndex, vals |-> Answer(w)]
        <4>1. ~(w < awaiting) /\ replies[w] = <<reply>>
          BY <2>2, <3>3 DEF QueryPhase, Silent
        <4>2. Len(replies[w]) = 1 /\ Head(replies[w]).type # "FlushAck"
          BY <4>1
        <4> QED  BY <3>1, <3>3, <4>1, <4>2 DEF Flushing
      <3> QED
        BY <2>2, <3>2, <3>3 DEF QuietPhase, StopPhase
    <2> QED  BY <2>1, <2>2
  <1> QED  BY <1>1, ProtocolInvariance, PTL

\* The leader inserts the record of Enabled once and deletes it once, whatever the order in which
\* the workers start and stop.
THEOREM EnabledOnce == ASSUME KeyPreserving PROVE Spec => []EnabledWhileRunning
  <1>1. TypeOK /\ PInv => EnabledWhileRunning
    <2> SUFFICES ASSUME TypeOK, PInv
                 PROVE  EnabledWhileRunning
      OBVIOUS
    <2> USE DEF PInv
    <2>1. timestamp \in Nat /\ frontier \in Nat /\ 0 \in Worker /\ timestamp >= 1
      BY ProgramAssumption DEF TypeOK, ClientTypeOK, Worker, ClientPhase
    <2>2. call \notin {"run", "join"} => enabled.trace = IF running THEN 1 ELSE 0
      <3>1. CASE running
        BY <3>1 DEF EnabledPhase
      <3>2. CASE ~running
        <4>1. frontier = timestamp + 1 /\ frontier # timestamp
          BY <2>1, <3>2 DEF ClientPhase, StopPhase
        <4> QED  BY <3>2, <4>1 DEF EnabledPhase, ClientPhase
      <3> QED  BY <3>1, <3>2
    <2>3. ASSUME NEW w \in Worker, pc[w] = "loop"
          PROVE  enabled.trace = 1
      <3>1. CASE call = "run"
        <4>1. Waiting => frontier = timestamp
          BY <2>3, <3>1 DEF FlushPhase, BeforeFlush, DuringFlush, AfterFlush
        <4>2. ~Waiting /\ running => frontier = timestamp
          BY <3>1 DEF QuietPhase
        <4>3. running
          BY <3>1 DEF ClientPhase
        <4>4. frontier # 0
          BY <2>1, <4>1, <4>2, <4>3
        <4> QED  BY <3>1, <4>3, <4>4 DEF EnabledPhase
      <3>2. CASE call = "join" \/ ~running
        <4>1. frontier = timestamp
          BY <2>3, <3>2 DEF StopPhase
        <4>2. ~(call = "run")
          BY <3>2 DEF ClientPhase
        <4> QED  BY <3>2, <4>1, <4>2 DEF EnabledPhase
      <3>3. CASE call # "run" /\ call # "join" /\ running
        BY <3>3 DEF EnabledPhase
      <3> QED  BY <3>1, <3>2, <3>3
    <2>4. ASSUME NEW w \in Worker, pc[w] = "stopped"
          PROVE  enabled.trace = 0
      <3>1. call = "join" \/ ~running
        BY <2>4 DEF FlushPhase, QuietPhase, QueryPhase, BeforeFlush, DuringFlush, AfterFlush, LoopAt
      <3>2. frontier = timestamp + 1 /\ frontier # timestamp
        BY <2>1, <2>4, <3>1 DEF StopPhase
      <3>3. ~(call = "run")
        BY <3>1 DEF ClientPhase
      <3> QED  BY <3>1, <3>2, <3>3 DEF EnabledPhase
    <2> QED  BY <2>2, <2>3, <2>4 DEF EnabledWhileRunning
  <1> QED  BY <1>1, ProtocolInvariance, PTL

\* What the dataflow shows changes only while a method waits for its flush: no update, query or
\* stop between calls can make an epoch close.
THEOREM OutputsStable == ASSUME KeyPreserving PROVE Spec => OutputsOnlyInFlush
  <1>1. TypeOK /\ PInv /\ [Next]_vars => [trace' # trace => call \in Flushing]_vars
    <2> SUFFICES ASSUME TypeOK, PInv, [Next]_vars, trace' # trace
                 PROVE  call \in Flushing
      OBVIOUS
    <2>1. step
      <3> USE DEF sysvars, flowvars
      <3>1. ~Call_
        BY DEF Call_, transaction_start, transaction_commit, transaction_rollback, apply_updates,
               apply_updates_step, apply_updates_rejected, clear_relation, query_arrangement, stop
      <3>2. ~Continue
        BY DEF Continue, await_flush_ack, run_return, transaction_commit_return, delta_undo,
               delta_undo_step, delta_undo_flush, transaction_rollback_return, apply_updates_send,
               clear_relation_step, query_receive, query_return, stop_broadcast, stop_return
      <3>3. ~\E w \in Worker : WorkerNext(w)
        BY DEF WorkerNext, ingest_initial_data, batch_update, handle_flush, flush_ack, handle_query,
               disable, worker_exit
      <3> QED  BY <3>1, <3>2, <3>3 DEF Next, Stopped, vars
    <2>2. CASE Waiting
      BY <2>2 DEF Waiting
    <2>3. CASE open = EmptyCollection
      BY <2>1, <2>3, CombineEmpty DEF step, TypeOK
    <2> QED  BY <2>1, <2>2, <2>3, EpochCloses
  <1> QED  BY <1>1, ProtocolInvariance, PTL DEF OutputsOnlyInFlush, Spec

\* A query returns exactly the committed values: the parts of the workers cover every key, chunks
\* that precede the Query in a queue stay in the open epoch, and no flush can come in between.
THEOREM QueriesIsolated == ASSUME KeyPreserving PROVE Spec => []QueryIsolation
  <1>1. TypeOK /\ PInv => QueryIsolation
    <2> SUFFICES ASSUME TypeOK, PInv, call = "query", awaiting = N
                 PROVE  QueryIsolation
      BY DEF QueryIsolation, Flushed
    <2> USE DEF PInv
    <2>1. N \in Nat \ {0} /\ awaiting > 0 /\ {x \in Worker : x < awaiting} = Worker
      BY ProgramAssumption DEF Worker
    <2>2. query.res = UNION {Answer(w) : w \in Worker}
      BY <2>1 DEF QueryPhase
    <2>3. query.unknown = (query.arrid = NoIndex)
      BY <2>1 DEF QueryPhase
    <2>4. running /\ (transaction_in_progress => trace = base)
      BY DEF ClientPhase, BasePhase
    <2>5. CASE query.arrid = NoIndex
      BY <2>3, <2>5 DEF QueryIsolation
    <2>6. CASE query.arrid # NoIndex
      <3> DEFINE vals == {v \in Value : /\ query.key \in {None, KeyOf[v]}
                                        /\ trace[query.arrid][v] # 0}
      <3>1. \A w \in Worker : Answer(w) = {v \in vals : Owner[KeyOf[v]] = w}
        BY <2>6 DEF Answer, Arrangement
      <3>2. \A v \in vals : Owner[KeyOf[v]] \in Worker
        BY ValueAssumption, ProgramAssumption
      <3> HIDE DEF vals
      <3>3. UNION {Answer(w) : w \in Worker} = vals
        BY <3>1, <3>2
      <3>4. query.res = vals
        BY <2>2, <3>3
      <3> QED  BY <2>3, <2>4, <2>6, <3>4 DEF QueryIsolation, vals
    <2> QED  BY <2>5, <2>6
  <1> QED  BY <1>1, ProtocolInvariance, PTL
=============================================================================
