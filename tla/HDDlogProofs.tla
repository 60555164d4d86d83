----------------------------- MODULE HDDlogProofs -----------------------------
(***************************************************************************)
(* Proofs about HDDlog: for any number of threads, rows and transactions,  *)
(* clients that do not overlap commits, rollbacks and stop read committed  *)
(* states, get exactly the changes of their transaction and never confuse  *)
(* the handler thread.                                                     *)
(***************************************************************************)
EXTENDS HDDlog, SequenceTheorems, TLAPS

-----------------------------------------------------------------------------
(* The inductive invariant: control *)

\* Places of messages of some type in the channel.
At(type) == {i \in 1 .. Len(channel) : channel[i].type = type}

\* The client has announced its commit to the handler thread, and not met it at the barrier.
InCommit(t) == cpc[t] \in {"lock", "commit", "after", "barrier"}
Quiet == \A t \in Thread : ~InCommit(t)

\* Clients do not overlap.
OneClient == \A t, u \in Thread : cpc[t] # "idle" /\ cpc[u] # "idle" => t = u

\* The mutex of the program is held by the client that flushes, until its call returns.
HoldsProg ==
    \A t \in Thread :
        cpc[t] \in {"commit", "after", "barrier", "take", "rollback", "undo"} => prog_lock = t

\* Workers report changes only while a client waits for them.
EmitsInFlush ==
    (\A t \in Thread : cpc[t] \notin {"commit", "rollback", "undo", "stop"}) => emit = Zero

\* The message that a commit begins with is in the channel at most once, until the handler
\* takes it; the one that ends it is the last message of the channel; Stop is sent at the end.
ChannelForm ==
    /\ \A i, j \in At("BeforeCommit") : i = j
    /\ \A i \in At("BeforeCommit") : ~Quiet /\ hpc = "recv" /\ delta_lock = None
    /\ \A i \in At("AfterCommit") :
          /\ i = Len(channel)
          /\ \E t \in Thread : cpc[t] = "barrier"
          /\ hpc \in {"recv", "lock_delta", "lock_db"}
    /\ At("Stop") # {} \/ hpc = "done" =>
          ~prog.running /\ \A t \in Thread : cpc[t] = "idle"
    /\ \A t \in Thread : cpc[t] = "stop" => ~prog.running

\* Where the handler thread is while a commit is under way, and the guards it has.
HandlerForm ==
    /\ Quiet => hpc \in {"recv", "done"} /\ delta_lock = None
    /\ ~Quiet /\ hpc = "recv" /\ delta_lock = None => At("BeforeCommit") # {}
    /\ hpc \in {"lock_delta", "barrier"} => delta_lock = None
    /\ hpc \in {"lock_db", "drain", "release"} => delta_lock = Handler
    /\ hpc = "lock_db" => DoStore
    /\ hpc \in {"drain", "release", "barrier"} =>
          channel = <<>> /\ \E t \in Thread : cpc[t] = "barrier"
    /\ (\E t \in Thread : cpc[t] = "barrier") /\ hpc \in {"recv", "lock_delta", "lock_db"} =>
          At("AfterCommit") # {}
    /\ db_lock = IF DoStore /\ hpc # "lock_db" THEN delta_lock ELSE None
    /\ hpc # "dead"

CInv == OneClient /\ HoldsProg /\ EmitsInFlush /\ ChannelForm /\ HandlerForm

-----------------------------------------------------------------------------
(* The inductive invariant: rows *)

\* The outputs before the commit of t, and what it changes in them.
Ended(t) == cpc[t] \in {"after", "barrier"} /\ success[t]
Base(t) == IF Ended(t) THEN previous ELSE committed
Change(t) ==
    CASE cpc[t] = "commit" -> prog.delta
      [] Ended(t) -> Plus(committed, Neg(previous))
      [] OTHER -> Zero

\* Reports of a row that the handler will apply: those that no BeforeCommit follows.
Reports(x) ==
    {i \in At("Update") : channel[i].row = x /\ \A j \in At("BeforeCommit") : j <= i}

\* The change of the row has not reached the maps.
Awaited(x) == emit[x] # 0 \/ Reports(x) # {}

\* A row changes once in a commit: its change is with the workers, or in one message, or it
\* has been applied to both maps.
RowForm(t, x) ==
    /\ emit[x] # 0 => emit[x] = Change(t)[x] /\ Reports(x) = {}
    /\ \A i \in Reports(x) : channel[i].w = Change(t)[x] /\ channel[i].w # 0
    /\ \A i, j \in Reports(x) : i = j
    /\ DoStore => db[x] = IF Awaited(x) THEN Base(t)[x] ELSE Base(t)[x] + Change(t)[x]
    /\ dump[t] => deltadb[x] = IF Awaited(x) THEN 0 ELSE Change(t)[x]

\* Nothing is applied before the handler has both guards.
NotApplied(t, x) ==
    hpc \in {"lock_delta", "lock_db"} \/ At("BeforeCommit") # {} => Awaited(x) \/ Change(t)[x] = 0

VInv ==
    /\ prog.out = committed
    /\ Quiet /\ DoStore => db = committed
    /\ \A t \in Thread :
          /\ cpc[t] = "commit" => success[t]
          /\ cpc[t] = "before" /\ dump[t] => deltadb = Zero
          /\ cpc[t] = "take" => deltadb = Plus(committed, Neg(previous))
          /\ InCommit(t) /\ dump[t] => deltadb # None
          /\ InCommit(t) => \A x \in Row : RowForm(t, x) /\ NotApplied(t, x)

HInv == CInv /\ VInv

-----------------------------------------------------------------------------
(* Types *)

\* A row of zeros, sums and negations of rows are rows.
LEMMA ZSets ==
    /\ Zero \in ZSet
    /\ \A f, g \in ZSet : Plus(f, g) \in ZSet
    /\ \A f \in ZSet : Neg(f) \in ZSet
  BY DEF ZSet, Zero, Plus, Neg

\* Applying a report to a map gives a map.
LEMMA UpdateType ==
  ASSUME NEW map \in ZSet, NEW msg \in Msg, msg.type = "Update"
  PROVE  update(map, msg) \in ZSet
  <1>1. msg.row \in Row /\ msg.w \in Int
    BY DEF Msg
  <1> QED  BY <1>1 DEF update, ZSet

\* Messages are one of four kinds.
LEMMA MsgTypes ==
    /\ \A type \in {"BeforeCommit", "AfterCommit", "Stop"} : [type |-> type] \in Msg
    /\ \A x \in Row, w \in Int : [type |-> "Update", row |-> x, w |-> w] \in Msg
    /\ \A m \in Msg : m.type \in {"BeforeCommit", "AfterCommit", "Stop", "Update"}
    /\ \A m \in Msg : m.type = "Update" => m.row \in Row /\ m.w \in Int
  BY DEF Msg

\* What sending a message does to the channel.
LEMMA Sent ==
  ASSUME channel \in Seq(Msg), NEW m \in Msg, Send(m)
  PROVE  /\ channel' \in Seq(Msg)
         /\ Len(channel) \in Nat /\ Len(channel') = Len(channel) + 1
         /\ \A i \in 1 .. Len(channel) : channel'[i] = channel[i]
         /\ channel'[Len(channel) + 1] = m
  BY AppendProperties DEF Send

\* What taking a message does to it.
LEMMA Taken ==
  ASSUME channel \in Seq(Msg), channel # <<>>, channel' = Tail(channel)
  PROVE  /\ channel' \in Seq(Msg)
         /\ Head(channel) \in Msg /\ Head(channel) = channel[1]
         /\ Len(channel) \in Nat \ {0} /\ Len(channel') = Len(channel) - 1
         /\ \A i \in 1 .. Len(channel') : channel'[i] = channel[i + 1]
  BY HeadTailProperties, EmptySeq

\* The handler thread applies a report to maps, and gets maps.
LEMMA CallbackType ==
  ASSUME TypeOK, NEW msg \in Msg, msg.type = "Update", update_cb(msg)
  PROVE  db' \in ZSet /\ (deltadb' = None \/ deltadb' \in ZSet)
  BY UpdateType DEF TypeOK, update_cb

LEMMA InitType == Init => TypeOK
  BY ZSets, HDDlogAssumption, EmptySeq DEF Init, TypeOK, Handler

\* Calls of clients keep the types.
LEMMA CallType ==
  ASSUME TypeOK, NEW t \in Thread, ClientCall(t)
  PROVE  TypeOK'
  <1>1. CASE transaction_start(t)
    <2>1. txns' \in Nat
      BY <1>1 DEF TypeOK, transaction_start
    <2> QED  BY <1>1, <2>1 DEF TypeOK, transaction_start, clientvars, handlervars
  <1>2. CASE \E x \in Row : apply_updates(t, x)
    <2>1. PICK x \in Row : apply_updates(t, x)
      BY <1>2
    <2>2. prog'.tip \in BOOLEAN /\ prog'.running \in BOOLEAN /\ prog'.out \in ZSet
      BY <2>1 DEF TypeOK, apply_updates
    <2>3. prog'.delta \in ZSet
      BY <2>1 DEF TypeOK, apply_updates, ZSet
    <2>4. prog' \in [tip : BOOLEAN, out : ZSet, delta : ZSet, running : BOOLEAN]
      BY <2>1, <2>2, <2>3 DEF TypeOK, apply_updates
    <2> QED  BY <2>1, <2>4 DEF TypeOK, apply_updates, clientvars, handlervars, histvars
  <1>3. CASE transaction_commit(t)
    BY <1>3 DEF TypeOK, transaction_commit, Goto, handlervars, histvars
  <1>4. CASE transaction_commit_dump_changes(t)
    BY <1>4 DEF TypeOK, transaction_commit_dump_changes, Goto, handlervars, histvars
  <1>5. CASE transaction_rollback(t)
    BY <1>5 DEF TypeOK, transaction_rollback, Goto, handlervars, histvars
  <1>6. CASE stop(t)
    BY <1>6 DEF TypeOK, stop, Goto, handlervars, histvars
  <1> QED  BY <1>1, <1>2, <1>3, <1>4, <1>5, <1>6 DEF ClientCall

\* So do their next steps.
LEMMA ContinueType ==
  ASSUME TypeOK, NEW t \in Thread, Continue(t)
  PROVE  TypeOK'
  <1>1. CASE reset_deltadb(t)
    BY <1>1, ZSets DEF TypeOK, reset_deltadb, Goto, histvars
  <1>2. CASE before_commit(t)
    <2>1. channel' \in Seq(Msg)
      BY <1>2, Sent, MsgTypes DEF TypeOK, before_commit
    <2> QED  BY <1>2, <2>1 DEF TypeOK, before_commit, Goto, handlervars, histvars
  <1>3. CASE commit_lock(t)
    BY <1>3 DEF TypeOK, commit_lock, Goto, handlervars, histvars
  <1>4. CASE commit_flushed(t)
    BY <1>4, ZSets DEF TypeOK, commit_flushed, Goto, handlervars
  <1>5. CASE after_commit(t)
    <2>1. channel' \in Seq(Msg)
      BY <1>5, Sent, MsgTypes DEF TypeOK, after_commit
    <2>2. cpc' \in [Thread -> {cpc[u] : u \in Thread} \cup {"barrier", "take", "idle"}]
          /\ prog_lock' \in {prog_lock, None}
      BY <1>5 DEF TypeOK, after_commit, AfterHandler, Goto
    <2> QED  BY <1>5, <2>1, <2>2 DEF TypeOK, after_commit, handlervars, histvars
  <1>6. CASE commit_barrier(t)
    BY <1>6 DEF TypeOK, commit_barrier, AfterHandler, Goto, histvars
  <1>7. CASE take_deltadb(t)
    BY <1>7 DEF TypeOK, take_deltadb, Goto, histvars
  <1>8. CASE delta_undo(t)
    BY <1>8, ZSets DEF TypeOK, delta_undo, Goto, handlervars, histvars
  <1>9. CASE rollback_return(t)
    BY <1>9, ZSets DEF TypeOK, rollback_return, Goto, handlervars, histvars
  <1>10. CASE drop_handler(t)
    <2>1. channel' \in Seq(Msg)
      BY <1>10, Sent, MsgTypes DEF TypeOK, drop_handler
    <2> QED  BY <1>10, <2>1 DEF TypeOK, drop_handler, Goto, handlervars, histvars
  <1> QED  BY <1>1, <1>2, <1>3, <1>4, <1>5, <1>6, <1>7, <1>8, <1>9, <1>10 DEF Continue

\* So do the reports of the workers and the steps of the handler thread.
LEMMA EmitType ==
  ASSUME TypeOK, mt_update_cb
  PROVE  TypeOK'
  <1>1. PICK x \in Row : /\ Send([type |-> "Update", row |-> x, w |-> emit[x]])
                         /\ emit' = [emit EXCEPT ![x] = 0]
    BY DEF mt_update_cb
  <1>2. emit[x] \in Int /\ emit' \in ZSet
    BY <1>1 DEF TypeOK, ZSet
  <1>3. channel' \in Seq(Msg)
    BY <1>1, <1>2, Sent, MsgTypes DEF TypeOK
  <1> QED  BY <1>2, <1>3 DEF TypeOK, mt_update_cb, handlervars, histvars

LEMMA HandlerType ==
  ASSUME TypeOK, HandlerNext
  PROVE  TypeOK'
  <1>1. CASE recv
    <2>1. channel' \in Seq(Msg) /\ Head(channel) \in Msg
      BY <1>1, Taken DEF TypeOK, recv
    <2>2. db' \in ZSet /\ (deltadb' = None \/ deltadb' \in ZSet)
      BY <1>1, <2>1, CallbackType DEF TypeOK, recv
    <2>3. hpc' \in {"recv", "lock_delta", "drain", "done"}
      BY <1>1, <2>1, MsgTypes DEF recv
    <2> QED  BY <1>1, <2>1, <2>2, <2>3 DEF TypeOK, recv, DropGuards, clientvars, histvars
  <1>2. CASE lock_delta
    BY <1>2 DEF TypeOK, lock_delta, clientvars, histvars
  <1>3. CASE lock_db
    BY <1>3 DEF TypeOK, lock_db, clientvars, histvars
  <1>4. CASE drain
    <2>1. channel' \in Seq(Msg) /\ (channel # <<>> => Head(channel) \in Msg)
      BY <1>4, Taken DEF TypeOK, drain
    <2>2. db' \in ZSet /\ (deltadb' = None \/ deltadb' \in ZSet)
      BY <1>4, <2>1, CallbackType DEF TypeOK, drain
    <2>3. hpc' \in {"drain", "release", "done"}
      BY <1>4 DEF drain
    <2> QED  BY <1>4, <2>1, <2>2, <2>3 DEF TypeOK, drain, DropGuards, clientvars, histvars
  <1>5. CASE release
    BY <1>5 DEF TypeOK, release, clientvars, histvars
  <1> QED  BY <1>1, <1>2, <1>3, <1>4, <1>5 DEF HandlerNext

LEMMA StutterType ==
  ASSUME TypeOK, UNCHANGED vars
  PROVE  TypeOK'
  BY DEF TypeOK, vars

LEMMA NextType ==
  ASSUME TypeOK, [Next]_vars
  PROVE  TypeOK'
  BY CallType, ContinueType, EmitType, HandlerType, StutterType DEF Next, Finished

\* Messages, maps, guards and counters keep their types whatever clients do, and only the
\* handler thread ever holds the mutexes of the maps between steps.
THEOREM TypesHold == Spec => []TypeOK
  BY InitType, NextType, PTL DEF Spec

-----------------------------------------------------------------------------
(* The channel *)

\* A message that is sent is the last one.
LEMMA SentAt ==
  ASSUME channel \in Seq(Msg), NEW m \in Msg, Send(m), NEW type
  PROVE  /\ m.type # type => At(type)' = At(type)
         /\ m.type = type => At(type)' = At(type) \cup {Len(channel) + 1}
         /\ \A i \in At(type) : i \in 1 .. Len(channel)
  BY Sent DEF At

\* A message that is taken was the first one.
LEMMA TakenAt ==
  ASSUME channel \in Seq(Msg), channel # <<>>, channel' = Tail(channel), NEW type
  PROVE  /\ \A i \in At(type)' : i \in Int /\ i + 1 \in At(type)
         /\ \A i \in At(type) : i \in Nat /\ (i = 1 \/ i - 1 \in At(type)')
         /\ 1 \in At(type) <=> Head(channel).type = type
         /\ At(type) # {} /\ Head(channel).type # type => At(type)' # {}
  <1> USE Taken
  <1>1. \A i \in At(type)' : i \in Int /\ i + 1 \in At(type)
    BY DEF At
  <1>2. \A i \in At(type) : i \in Nat /\ (i = 1 \/ i - 1 \in At(type)')
    <2> SUFFICES ASSUME NEW i \in At(type), i # 1
                 PROVE  i - 1 \in At(type)'
      BY DEF At
    <2>1. i - 1 \in 1 .. Len(channel') /\ (i - 1) + 1 = i
      BY DEF At
    <2>2. channel'[i - 1] = channel[i]
      BY <2>1
    <2> QED  BY <2>1, <2>2 DEF At
  <1>3. 1 \in At(type) <=> Head(channel).type = type
    BY DEF At
  <1> QED  BY <1>1, <1>2, <1>3

\* The places of messages only change with the channel.
LEMMA SameAt ==
  ASSUME channel' = channel
  PROVE  \A type : At(type)' = At(type)
  BY DEF At

\* An empty channel has no message.
LEMMA EmptyAt ==
  ASSUME channel = <<>>, NEW type
  PROVE  At(type) = {}
  BY EmptySeq DEF At

-----------------------------------------------------------------------------
(* The control part of the invariant *)

LEMMA InitCInv == Init => CInv
  BY HDDlogAssumption, EmptyAt
  DEF Init, CInv, OneClient, HoldsProg, EmitsInFlush, ChannelForm, HandlerForm, Quiet, InCommit, Handler

\* Calls that begin keep the invariant: the ones that flush find all clients idle.
LEMMA CallCInv ==
  ASSUME TypeOK, CInv, Serialised, NEW t \in Thread, ClientCall(t)
  PROVE  CInv'
  <1> USE DEF CInv
  <1>0. \A type : ClientCall(t) => At(type)' = At(type)
    BY SameAt DEF ClientCall, transaction_start, apply_updates, transaction_commit,
                  transaction_commit_dump_changes, transaction_rollback, stop
  <1>1. CASE transaction_start(t) \/ \E x \in Row : apply_updates(t, x)
    <2>1. UNCHANGED <<prog_lock, cpc, emit, channel, hpc, db_lock, delta_lock>>
          /\ prog'.running = prog.running
      BY <1>1 DEF transaction_start, apply_updates, clientvars, handlervars, TypeOK
    <2>2. Quiet' <=> Quiet
      BY <2>1 DEF Quiet, InCommit
    <2>3. OneClient' /\ HoldsProg' /\ EmitsInFlush'
      BY <2>1 DEF OneClient, HoldsProg, EmitsInFlush, Zero
    <2>4. ChannelForm'
      BY <1>0, <2>1, <2>2 DEF ChannelForm
    <2>5. HandlerForm'
      BY <1>0, <2>1, <2>2 DEF HandlerForm, Handler
    <2> QED  BY <2>3, <2>4, <2>5
  <1>2. CASE transaction_commit(t) \/ transaction_commit_dump_changes(t)
             \/ transaction_rollback(t) \/ stop(t)
    <2>1. /\ Ready(t) /\ \A u \in Thread : cpc[u] = "idle"
          /\ UNCHANGED <<channel, hpc, db_lock, delta_lock>>
      BY <1>2 DEF transaction_commit, transaction_commit_dump_changes, transaction_rollback,
                  stop, Ready, Alone, handlervars
    <2>2. /\ cpc' \in [Thread -> {"idle", "before", "reset", "rollback", "stop"}]
          /\ \A u \in Thread \ {t} : cpc'[u] = "idle"
      BY <1>2, <2>1 DEF transaction_commit, transaction_commit_dump_changes,
                        transaction_rollback, stop, Goto, TypeOK
    <2>3. Quiet /\ Quiet'
      BY <2>1, <2>2 DEF Quiet, InCommit
    <2>4. OneClient'
      BY <2>2 DEF OneClient
    <2>5. HoldsProg'
      BY <1>2, <2>1, <2>2 DEF HoldsProg, transaction_commit, transaction_commit_dump_changes,
                  transaction_rollback, stop, Goto, TypeOK
    <2>6. EmitsInFlush'
      <3>1. CASE transaction_commit(t) \/ transaction_commit_dump_changes(t)
        BY <3>1, <2>1 DEF EmitsInFlush, transaction_commit, transaction_commit_dump_changes, Zero
      <3>2. CASE transaction_rollback(t) \/ stop(t)
        BY <3>2 DEF EmitsInFlush, transaction_rollback, stop, Goto, TypeOK
      <3> QED  BY <1>2, <3>1, <3>2
    <2>7. prog.running /\ hpc # "done" /\ At("Stop") = {}
      BY <2>1 DEF Ready, ChannelForm
    <2>8. \A u \in Thread : cpc'[u] = "stop" => ~prog'.running
      BY <1>2, <2>1 DEF transaction_commit, transaction_commit_dump_changes,
                        transaction_rollback, stop, Goto, TypeOK
    <2>9. ChannelForm'
      BY <1>0, <2>1, <2>2, <2>3, <2>7, <2>8 DEF ChannelForm
    <2>10. HandlerForm'
      BY <1>0, <2>1, <2>2, <2>3 DEF HandlerForm, Handler
    <2> QED  BY <2>4, <2>5, <2>6, <2>9, <2>10
  <1> QED  BY <1>1, <1>2 DEF ClientCall

\* A step of the client t in which it is the only one with a call under way, and no message
\* is sent or taken, keeps what does not depend on where t is.
LEMMA OwnStep ==
  ASSUME TypeOK, OneClient, NEW t \in Thread, NEW l, cpc[t] # "idle", Goto(t, l)
  PROVE  /\ \A u \in Thread : cpc'[u] = IF u = t THEN l ELSE "idle"
         /\ \A u \in Thread : cpc[u] = IF u = t THEN cpc[t] ELSE "idle"
         /\ OneClient'
         /\ Quiet <=> ~InCommit(t)
         /\ Quiet' <=> l \notin {"lock", "commit", "after", "barrier"}
  <1>1. \A u \in Thread : cpc'[u] = IF u = t THEN l ELSE cpc[u]
    BY DEF TypeOK, Goto
  <1>2. \A u \in Thread : u # t => cpc[u] = "idle"
    BY DEF OneClient
  <1> QED  BY <1>1, <1>2 DEF OneClient, Quiet, InCommit

LEMMA SilentCInv ==
  ASSUME TypeOK, CInv, NEW t \in Thread,
         \/ reset_deltadb(t) \/ commit_lock(t) \/ commit_flushed(t) \/ take_deltadb(t)
         \/ delta_undo(t) \/ rollback_return(t)
  PROVE  CInv'
  <1> USE DEF CInv
  <1>1. /\ cpc[t] # "idle"
        /\ \E l : Goto(t, l)
        /\ UNCHANGED <<channel, hpc, db_lock, delta_lock>>
        /\ prog'.running = prog.running
    BY DEF reset_deltadb, commit_lock, commit_flushed, take_deltadb, delta_undo, rollback_return,
           handlervars, TypeOK
  <1>2. PICK l : Goto(t, l)
    BY <1>1
  <1>3. /\ \A u \in Thread : cpc'[u] = IF u = t THEN l ELSE "idle"
        /\ \A u \in Thread : cpc[u] = IF u = t THEN cpc[t] ELSE "idle"
        /\ OneClient'
        /\ Quiet <=> ~InCommit(t)
        /\ Quiet' <=> l \notin {"lock", "commit", "after", "barrier"}
    BY <1>1, <1>2, OwnStep
  <1>4. \/ cpc[t] = "reset" /\ l = "before" /\ UNCHANGED <<prog_lock, emit>>
        \/ cpc[t] = "lock" /\ l = "commit" /\ prog_lock' = t
        \/ cpc[t] = "lock" /\ l = "after" /\ prog_lock' = t /\ UNCHANGED emit
        \/ cpc[t] = "commit" /\ l = "after" /\ UNCHANGED <<prog_lock, emit>> /\ emit = Zero
        \/ cpc[t] = "take" /\ l = "idle" /\ prog_lock' = None /\ UNCHANGED emit
        \/ cpc[t] = "rollback" /\ l = "undo" /\ UNCHANGED prog_lock
        \/ cpc[t] = "undo" /\ l = "idle" /\ prog_lock' = None /\ UNCHANGED emit /\ emit = Zero
    <2>1. cpc'[t] = l
      BY <1>3
    <2> QED  BY <2>1 DEF reset_deltadb, commit_lock, commit_flushed, take_deltadb, delta_undo,
                   rollback_return, TypeOK, Goto
  <1>5. Quiet' <=> Quiet
    BY <1>3, <1>4 DEF InCommit
  <1>6. HoldsProg'
    BY <1>3, <1>4 DEF HoldsProg
  <1>7. Zero' = Zero
    BY DEF Zero
  <1>8. EmitsInFlush'
    BY <1>3, <1>4, <1>7 DEF EmitsInFlush
  <1>9. (\E u \in Thread : cpc[u] = "barrier") <=> (\E u \in Thread : cpc'[u] = "barrier")
    BY <1>3, <1>4
  <1>10. \A type : At(type)' = At(type)
    BY <1>1, SameAt
  <1>11. ChannelForm'
    BY <1>1, <1>3, <1>4, <1>5, <1>9, <1>10 DEF ChannelForm
  <1>12. HandlerForm'
    BY <1>1, <1>5, <1>9, <1>10 DEF HandlerForm, Handler
  <1> QED  BY <1>3, <1>6, <1>8, <1>11, <1>12

LEMMA BeforeCInv ==
  ASSUME TypeOK, CInv, NEW t \in Thread, before_commit(t)
  PROVE  CInv'
  <1> USE DEF CInv
  <1> DEFINE m == [type |-> "BeforeCommit"]
  <1>1. cpc[t] = "before" /\ Goto(t, "lock") /\ Send(m) /\ m \in Msg /\ m.type = "BeforeCommit"
        /\ UNCHANGED <<prog, prog_lock, emit, hpc, db_lock, delta_lock>>
    BY MsgTypes DEF before_commit, handlervars
  <1>2. /\ \A u \in Thread : cpc'[u] = IF u = t THEN "lock" ELSE "idle"
        /\ \A u \in Thread : cpc[u] = IF u = t THEN "before" ELSE "idle"
        /\ OneClient' /\ Quiet /\ ~Quiet'
    BY <1>1, OwnStep DEF InCommit
  <1>3. HoldsProg' /\ EmitsInFlush'
    BY <1>1, <1>2 DEF HoldsProg, EmitsInFlush, Zero
  <1> HIDE DEF m
  <1>4. /\ At("AfterCommit")' = At("AfterCommit") /\ At("Stop")' = At("Stop")
        /\ At("BeforeCommit")' = At("BeforeCommit") \cup {Len(channel) + 1}
    BY <1>1, SentAt DEF TypeOK
  <1>5. At("BeforeCommit") = {} /\ At("AfterCommit") = {} /\ At("Stop") = {} /\ hpc = "recv"
    BY <1>2 DEF ChannelForm, HandlerForm
  <1>6. ChannelForm'
    BY <1>1, <1>2, <1>4, <1>5 DEF ChannelForm, HandlerForm
  <1>7. HandlerForm'
    BY <1>1, <1>2, <1>4, <1>5 DEF HandlerForm, Handler
  <1> QED  BY <1>2, <1>3, <1>6, <1>7

\* The handler thread is there to hear of the end of the commit.
LEMMA AfterHeard ==
  ASSUME CInv, NEW t \in Thread, after_commit(t)
  PROVE  /\ Goto(t, "barrier") /\ Send([type |-> "AfterCommit"])
         /\ UNCHANGED <<prog, prog_lock, dump, success, emit, undo, handlervars, histvars>>
  <1>1. cpc[t] = "after"
    BY DEF after_commit
  <1>2. Connected
    BY <1>1 DEF CInv, ChannelForm, HandlerForm, Connected
  <1> QED  BY <1>2 DEF after_commit

LEMMA AfterCInv ==
  ASSUME TypeOK, CInv, NEW t \in Thread, after_commit(t)
  PROVE  CInv'
  <1> USE DEF CInv
  <1> DEFINE m == [type |-> "AfterCommit"]
  <1>1. cpc[t] = "after" /\ Goto(t, "barrier") /\ Send(m) /\ m \in Msg /\ m.type = "AfterCommit"
        /\ UNCHANGED <<prog, prog_lock, emit, hpc, db_lock, delta_lock>>
    BY AfterHeard, MsgTypes DEF after_commit, handlervars
  <1>2. /\ \A u \in Thread : cpc'[u] = IF u = t THEN "barrier" ELSE "idle"
        /\ \A u \in Thread : cpc[u] = IF u = t THEN "after" ELSE "idle"
        /\ OneClient' /\ ~Quiet /\ ~Quiet'
    BY <1>1, OwnStep DEF InCommit
  <1>3. HoldsProg' /\ EmitsInFlush'
    BY <1>1, <1>2 DEF HoldsProg, EmitsInFlush, Zero
  <1> HIDE DEF m
  <1>4. /\ At("BeforeCommit")' = At("BeforeCommit") /\ At("Stop")' = At("Stop")
        /\ At("AfterCommit")' = At("AfterCommit") \cup {Len(channel) + 1}
        /\ Len(channel') = Len(channel) + 1
    BY <1>1, SentAt, Sent DEF TypeOK
  <1>5. At("AfterCommit") = {} /\ At("Stop") = {} /\ hpc \in {"recv", "lock_delta", "lock_db"}
    BY <1>2 DEF ChannelForm, HandlerForm, TypeOK
  <1>6. ChannelForm'
    BY <1>1, <1>2, <1>4, <1>5 DEF ChannelForm
  <1>7. HandlerForm'
    BY <1>1, <1>2, <1>4, <1>5 DEF HandlerForm, Handler
  <1> QED  BY <1>2, <1>3, <1>6, <1>7

LEMMA BarrierCInv ==
  ASSUME TypeOK, CInv, NEW t \in Thread, commit_barrier(t)
  PROVE  CInv'
  <1> USE DEF CInv
  <1>1. /\ cpc[t] = "barrier" /\ hpc = "barrier" /\ hpc' = "recv"
        /\ UNCHANGED <<prog, channel, emit, db_lock, delta_lock>>
    BY DEF commit_barrier
  <1>2. PICK l \in {"take", "idle"} : Goto(t, l) /\ (l = "take" => prog_lock' = prog_lock)
    BY DEF commit_barrier, AfterHandler
  <1>3. /\ \A u \in Thread : cpc'[u] = IF u = t THEN l ELSE "idle"
        /\ \A u \in Thread : cpc[u] = IF u = t THEN "barrier" ELSE "idle"
        /\ OneClient' /\ ~Quiet /\ Quiet'
    BY <1>1, <1>2, OwnStep DEF InCommit
  <1>4. HoldsProg'
    BY <1>2, <1>3 DEF HoldsProg
  <1>5. EmitsInFlush'
    BY <1>1, <1>3 DEF EmitsInFlush, Zero
  <1>6. \A type : At(type)' = At(type) /\ At(type) = {}
    BY <1>1, SameAt, EmptyAt DEF HandlerForm
  <1>7. ChannelForm'
    BY <1>1, <1>2, <1>3, <1>6 DEF ChannelForm
  <1>8. HandlerForm'
    BY <1>1, <1>2, <1>3, <1>6, HDDlogAssumption DEF HandlerForm, Handler
  <1> QED  BY <1>3, <1>4, <1>5, <1>7, <1>8

LEMMA DropCInv ==
  ASSUME TypeOK, CInv, NEW t \in Thread, drop_handler(t)
  PROVE  CInv'
  <1> USE DEF CInv
  <1> DEFINE m == [type |-> "Stop"]
  <1>1. cpc[t] = "stop" /\ Goto(t, "idle") /\ Send(m) /\ m \in Msg /\ m.type = "Stop"
        /\ UNCHANGED <<prog, prog_lock, emit, hpc, db_lock, delta_lock>> /\ emit = Zero
    BY MsgTypes DEF drop_handler, handlervars
  <1>2. /\ \A u \in Thread : cpc'[u] = "idle"
        /\ \A u \in Thread : cpc[u] = IF u = t THEN "stop" ELSE "idle"
        /\ OneClient' /\ Quiet /\ Quiet'
    BY <1>1, OwnStep DEF InCommit
  <1>3. HoldsProg' /\ EmitsInFlush'
    BY <1>1, <1>2 DEF HoldsProg, EmitsInFlush, Zero
  <1> HIDE DEF m
  <1>4. At("BeforeCommit")' = At("BeforeCommit") /\ At("AfterCommit")' = At("AfterCommit")
    BY <1>1, SentAt DEF TypeOK
  <1>5. At("BeforeCommit") = {} /\ At("AfterCommit") = {} /\ ~prog.running
    BY <1>1, <1>2 DEF ChannelForm
  <1>6. ChannelForm'
    BY <1>1, <1>2, <1>4, <1>5 DEF ChannelForm
  <1>7. HandlerForm'
    BY <1>1, <1>2, <1>4, <1>5 DEF HandlerForm, Handler
  <1> QED  BY <1>2, <1>3, <1>6, <1>7

LEMMA EmitCInv ==
  ASSUME TypeOK, CInv, mt_update_cb
  PROVE  CInv'
  <1> USE DEF CInv
  <1>1. PICK x \in Row : /\ emit[x] # 0
                         /\ Send([type |-> "Update", row |-> x, w |-> emit[x]])
    BY DEF mt_update_cb
  <1> DEFINE m == [type |-> "Update", row |-> x, w |-> emit[x]]
  <1>2. m \in Msg /\ m.type = "Update" /\ Send(m)
    BY <1>1, MsgTypes DEF TypeOK, ZSet
  <1>3. UNCHANGED <<prog, prog_lock, cpc, hpc, db_lock, delta_lock>>
    BY DEF mt_update_cb, handlervars
  <1>4. emit # Zero
    BY <1>1 DEF Zero
  <1> HIDE DEF m
  <1>5. /\ At("BeforeCommit")' = At("BeforeCommit") /\ At("Stop")' = At("Stop")
        /\ At("AfterCommit")' = At("AfterCommit")
    BY <1>2, SentAt DEF TypeOK
  <1>6. PICK t \in Thread : cpc[t] \in {"commit", "rollback", "undo", "stop"}
    BY <1>4 DEF EmitsInFlush
  <1>7. \A u \in Thread : cpc[u] # "barrier"
    BY <1>6 DEF OneClient
  <1>8. Quiet' <=> Quiet
    BY <1>3 DEF Quiet, InCommit
  <1>9. OneClient' /\ HoldsProg' /\ EmitsInFlush'
    BY <1>3, <1>6 DEF OneClient, HoldsProg, EmitsInFlush
  <1>10. ChannelForm'
    BY <1>3, <1>5, <1>6, <1>7, <1>8 DEF ChannelForm
  <1>11. HandlerForm'
    BY <1>3, <1>5, <1>7, <1>8 DEF HandlerForm, Handler
  <1> QED  BY <1>9, <1>10, <1>11

\* The handler thread takes the message that begins a commit, the one that ends it, Stop, or
\* a report.
LEMMA RecvCInv ==
  ASSUME TypeOK, CInv, recv
  PROVE  CInv'
  <1> USE DEF CInv
  <1> DEFINE m == Head(channel)
  <1>1. /\ hpc = "recv" /\ channel # <<>> /\ channel' = Tail(channel) /\ m \in Msg
        /\ UNCHANGED <<prog, prog_lock, cpc, emit>>
    BY Taken DEF recv, clientvars, TypeOK
  <1>2. OneClient' /\ HoldsProg' /\ EmitsInFlush' /\ (Quiet' <=> Quiet)
    BY <1>1 DEF OneClient, HoldsProg, EmitsInFlush, Quiet, InCommit, Zero
  <1>3. /\ m.type \in {"BeforeCommit", "AfterCommit", "Stop", "Update"}
        /\ m.type = "Update" => hpc' = "recv"
        /\ m.type = "BeforeCommit" => hpc' = "lock_delta"
        /\ m.type = "AfterCommit" => hpc' = "drain"
        /\ m.type = "Stop" => hpc' = "done"
        /\ m.type # "Stop" => UNCHANGED <<delta_lock, db_lock>>
        /\ m.type = "Stop" => delta_lock' = None /\ db_lock' = None
    <2>1. m.type \in {"BeforeCommit", "AfterCommit", "Stop", "Update"}
      BY <1>1, MsgTypes
    <2> QED  BY <1>1, <2>1 DEF recv, DropGuards
  <1> HIDE DEF m
  <1>4. \A type : /\ \A i \in At(type)' : i \in Int /\ i + 1 \in At(type)
                  /\ \A i \in At(type) : i \in Nat /\ (i = 1 \/ i - 1 \in At(type)')
                  /\ 1 \in At(type) <=> m.type = type
                  /\ At(type) # {} /\ m.type # type => At(type)' # {}
    BY <1>1, TakenAt DEF TypeOK, m
  <1>5. /\ Len(channel) \in Nat \ {0} /\ Len(channel') = Len(channel) - 1
        /\ channel' \in Seq(Msg)
    BY <1>1, Taken DEF TypeOK
  <1>6. \A i, j \in At("BeforeCommit")' : i = j
    <2> SUFFICES ASSUME NEW i \in At("BeforeCommit")', NEW j \in At("BeforeCommit")'
                 PROVE  i = j
      OBVIOUS
    <2>1. i \in Int /\ j \in Int /\ i + 1 = j + 1
      BY <1>4 DEF ChannelForm
    <2> QED  BY <2>1
  <1>7. CASE m.type = "Update"
    <2>1. At("AfterCommit") # {} => At("AfterCommit")' # {}
      BY <1>4, <1>7
    <2>2. At("BeforeCommit") # {} => At("BeforeCommit")' # {}
      BY <1>4, <1>7
    <2>3. \A i \in At("AfterCommit")' : i = Len(channel')
      BY <1>4, <1>5 DEF ChannelForm
    <2>4. ChannelForm'
      BY <1>1, <1>2, <1>3, <1>4, <1>6, <1>7, <2>3 DEF ChannelForm
    <2>5. HandlerForm'
      BY <1>1, <1>2, <1>3, <1>7, <2>1, <2>2 DEF HandlerForm, Handler
    <2> QED  BY <1>2, <2>4, <2>5
  <1>8. CASE m.type = "BeforeCommit"
    <2>1. 1 \in At("BeforeCommit")
      BY <1>4, <1>8
    <2>2. ~Quiet /\ delta_lock = None
      BY <2>1 DEF ChannelForm
    <2>3. At("BeforeCommit")' = {}
      <3>1. \A i \in At("BeforeCommit")' : i \in Int /\ i + 1 = 1
        BY <1>4, <2>1 DEF ChannelForm
      <3>2. 0 \notin At("BeforeCommit")'
        BY DEF At
      <3> QED  BY <3>1, <3>2
    <2>4. \A i \in At("AfterCommit")' : i = Len(channel')
      BY <1>4, <1>5 DEF ChannelForm
    <2>5. At("AfterCommit") # {} => At("AfterCommit")' # {}
      BY <1>4, <1>8
    <2>6. At("Stop")' # {} => At("Stop") # {}
      BY <1>4
    <2>7. ChannelForm'
      BY <1>1, <1>2, <1>3, <1>4, <1>8, <2>2, <2>3, <2>4, <2>6 DEF ChannelForm
    <2>8. HandlerForm'
      BY <1>1, <1>2, <1>3, <1>8, <2>2, <2>5 DEF HandlerForm, Handler
    <2> QED  BY <1>2, <2>7, <2>8
  <1>9. CASE m.type = "AfterCommit"
    <2>1. 1 = Len(channel) /\ \E t \in Thread : cpc[t] = "barrier"
      BY <1>4, <1>9 DEF ChannelForm
    <2>2. channel' = <<>>
      <3>1. Len(channel') = 0 /\ channel' \in Seq(Msg)
        <4> HIDE DEF CInv
        <4>1. Len(channel) = 1
          BY <2>1
        <4> QED  BY <1>5, <4>1
      <3> QED  BY <3>1, EmptySeq
    <2>3. \A type : At(type)' = {}
      BY <2>2, EmptySeq DEF At
    <2>4. ~Quiet
      BY <2>1 DEF Quiet, InCommit
    <2>5. At("BeforeCommit") = {}
      <3>1. \A i \in At("BeforeCommit") : i = 1
        BY <2>1, <2>3, <1>4
      <3>2. 1 \notin At("BeforeCommit")
        BY <1>4, <1>9
      <3> QED  BY <3>1, <3>2
    <2>6. delta_lock = Handler
      BY <1>1, <2>4, <2>5 DEF HandlerForm, TypeOK
    <2>7. ChannelForm'
      BY <1>1, <1>2, <1>3, <1>9, <2>1, <2>3, <2>4 DEF ChannelForm
    <2>8. HandlerForm'
      BY <1>1, <1>2, <1>3, <1>9, <2>1, <2>2, <2>4, <2>6 DEF HandlerForm, Handler
    <2> QED  BY <1>2, <2>7, <2>8
  <1>10. CASE m.type = "Stop"
    <2>1. ~prog.running /\ \A t \in Thread : cpc[t] = "idle"
      BY <1>4, <1>10 DEF ChannelForm
    <2>2. Quiet
      BY <2>1 DEF Quiet, InCommit
    <2>3. At("BeforeCommit")' = {} /\ At("AfterCommit")' = {}
      BY <1>4, <2>1, <2>2 DEF ChannelForm
    <2>4. ChannelForm'
      BY <1>1, <1>2, <1>3, <1>10, <2>1, <2>2, <2>3 DEF ChannelForm
    <2>5. HandlerForm'
      BY <1>1, <1>2, <1>3, <1>10, <2>1, <2>2, <2>3 DEF HandlerForm, Handler
    <2> QED  BY <1>2, <2>4, <2>5
  <1> QED  BY <1>3, <1>7, <1>8, <1>9, <1>10

\* The other steps of the handler thread find the guards free or held as they expect them.
LEMMA HandlerCInv ==
  ASSUME TypeOK, CInv, lock_delta \/ lock_db \/ drain \/ release
  PROVE  CInv'
  <1> USE DEF CInv
  <1>1. UNCHANGED <<prog, prog_lock, cpc, emit, channel>>
    BY DEF lock_delta, lock_db, drain, release, clientvars, HandlerForm
  <1>2. OneClient' /\ HoldsProg' /\ EmitsInFlush' /\ (Quiet' <=> Quiet)
    BY <1>1 DEF OneClient, HoldsProg, EmitsInFlush, Quiet, InCommit, Zero
  <1>3. \A type : At(type)' = At(type)
    BY <1>1, SameAt
  <1>4. \/ hpc = "lock_delta" /\ hpc' = (IF DoStore THEN "lock_db" ELSE "recv")
           /\ delta_lock' = Handler /\ db_lock' = db_lock
        \/ hpc = "lock_db" /\ hpc' = "recv" /\ delta_lock' = delta_lock /\ db_lock' = Handler
        \/ hpc = "drain" /\ hpc' = "release" /\ delta_lock' = delta_lock /\ db_lock' = db_lock
        \/ hpc = "release" /\ hpc' = "barrier" /\ delta_lock' = None /\ db_lock' = None
    BY DEF lock_delta, lock_db, drain, release, DropGuards, HandlerForm, Locked
  <1>5. Handler # None
    BY HDDlogAssumption DEF Handler
  <1>6. hpc \in {"lock_db", "drain", "release"} => delta_lock = Handler
    BY DEF HandlerForm
  <1>7. ~Quiet /\ hpc # "done"
    BY <1>4 DEF HandlerForm
  <1>8. At("BeforeCommit") = {}
    BY <1>4 DEF ChannelForm
  <1>9. hpc \in {"drain", "release"} => At("AfterCommit") = {}
    BY EmptyAt DEF HandlerForm
  <1>10. ChannelForm'
    BY <1>1, <1>2, <1>3, <1>4, <1>7, <1>8, <1>9 DEF ChannelForm
  <1>11. HandlerForm'
    BY <1>1, <1>2, <1>3, <1>4, <1>5, <1>6, <1>7 DEF HandlerForm, Handler
  <1> QED  BY <1>2, <1>10, <1>11

LEMMA NextCInv ==
  ASSUME TypeOK, CInv, Serialised, [Next]_vars
  PROVE  CInv'
  <1>1. CASE UNCHANGED vars
    <2>1. \A type : At(type)' = At(type)
      BY <1>1, SameAt DEF vars
    <2>2. Quiet' <=> Quiet
      BY <1>1 DEF vars, Quiet, InCommit
    <2>3. OneClient' /\ HoldsProg' /\ EmitsInFlush'
      BY <1>1 DEF vars, CInv, OneClient, HoldsProg, EmitsInFlush, Zero
    <2>4. ChannelForm'
      BY <1>1, <2>1, <2>2 DEF vars, CInv, ChannelForm
    <2>5. HandlerForm'
      BY <1>1, <2>1, <2>2 DEF vars, CInv, HandlerForm, Handler
    <2> QED  BY <2>3, <2>4, <2>5 DEF CInv
  <1>2. ASSUME NEW t \in Thread, ClientCall(t) \/ Continue(t)
        PROVE  CInv'
    BY <1>2, CallCInv, SilentCInv, BeforeCInv, AfterCInv, BarrierCInv, DropCInv DEF Continue
  <1>3. CASE HandlerNext
    BY <1>3, RecvCInv, HandlerCInv DEF HandlerNext
  <1> QED  BY <1>1, <1>2, <1>3, EmitCInv DEF Next, Finished

\* Clients that do not overlap commits, rollbacks and stop keep the handler thread in step.
THEOREM ControlInvariance ==
  ASSUME Serialised
  PROVE  Spec => [](TypeOK /\ CInv)
  <1>1. Init => TypeOK /\ CInv
    BY InitType, InitCInv
  <1>2. TypeOK /\ CInv /\ [Next]_vars => (TypeOK /\ CInv)'
    BY NextType, NextCInv
  <1> QED  BY <1>1, <1>2, PTL DEF Spec

\* The handler thread takes both guards once for every commit, gives both back before it meets
\* the client, and never waits for a mutex that it holds itself.
THEOREM GuardsAlternate ==
  ASSUME Serialised
  PROVE  Spec => []HandlerAlternates
  <1>1. TypeOK /\ CInv => HandlerAlternates
    BY HDDlogAssumption DEF CInv, HandlerForm, HandlerAlternates, Handler
  <1> QED  BY <1>1, ControlInvariance, PTL

-----------------------------------------------------------------------------
(* The reports in the channel *)

LEMMA SameReports ==
  ASSUME channel' = channel
  PROVE  \A x : Reports(x)' = Reports(x)
  <1>1. \A type : At(type)' = At(type)
    BY SameAt
  <1> QED  BY <1>1 DEF Reports

\* BeforeCommit makes the handler skip all the reports before it; AfterCommit none of them.
LEMMA SentControl ==
  ASSUME channel \in Seq(Msg), NEW m \in Msg, Send(m), NEW x
  PROVE  /\ m.type = "BeforeCommit" => Reports(x)' = {}
         /\ m.type \in {"AfterCommit", "Stop"} => Reports(x)' = Reports(x)
         /\ \A i \in Reports(x) : channel'[i] = channel[i]
  <1>1. /\ Len(channel) \in Nat
        /\ \A i \in 1 .. Len(channel) : channel'[i] = channel[i]
    BY Sent
  <1>2. \A type : /\ m.type # type => At(type)' = At(type)
                  /\ m.type = type => At(type)' = At(type) \cup {Len(channel) + 1}
                  /\ \A i \in At(type) : i \in 1 .. Len(channel)
    BY SentAt
  <1>3. \A i \in Reports(x) : channel'[i] = channel[i]
    BY <1>1, <1>2 DEF Reports
  <1>4. ASSUME m.type = "BeforeCommit" PROVE Reports(x)' = {}
    <2>1. At("Update")' = At("Update") /\ Len(channel) + 1 \in At("BeforeCommit")'
      BY <1>2, <1>4
    <2>2. \A i \in At("Update") : ~(Len(channel) + 1 <= i)
      BY <1>1, <1>2
    <2> QED  BY <2>1, <2>2 DEF Reports
  <1>5. ASSUME m.type \in {"AfterCommit", "Stop"} PROVE Reports(x)' = Reports(x)
    <2>1. At("Update")' = At("Update") /\ At("BeforeCommit")' = At("BeforeCommit")
      BY <1>2, <1>5
    <2>2. \A i \in At("Update") : channel'[i] = channel[i]
      BY <1>1, <1>2
    <2> QED  BY <2>1, <2>2 DEF Reports
  <1> QED  BY <1>3, <1>4, <1>5

\* A report that is sent is one more of its row.
LEMMA SentReport ==
  ASSUME channel \in Seq(Msg), NEW m \in Msg, Send(m), m.type = "Update", NEW x
  PROVE  /\ m.row # x => Reports(x)' = Reports(x)
         /\ m.row = x => Reports(x)' = Reports(x) \cup {Len(channel) + 1}
         /\ \A i \in Reports(x) : channel'[i] = channel[i]
         /\ channel'[Len(channel) + 1] = m
  <1>1. /\ Len(channel) \in Nat
        /\ \A i \in 1 .. Len(channel) : channel'[i] = channel[i]
        /\ channel'[Len(channel) + 1] = m
    BY Sent
  <1>2. /\ At("BeforeCommit")' = At("BeforeCommit")
        /\ At("Update")' = At("Update") \cup {Len(channel) + 1}
        /\ \A i \in At("Update") \cup At("BeforeCommit") : i \in 1 .. Len(channel)
    BY SentAt
  <1>3. \A i \in At("Update") : channel'[i] = channel[i]
    BY <1>1, <1>2
  <1>4. \A j \in At("BeforeCommit") : j <= Len(channel) + 1
    BY <1>1, <1>2
  <1>5. \A i \in Reports(x) : channel'[i] = channel[i]
    BY <1>3 DEF Reports
  <1> QED  BY <1>1, <1>2, <1>3, <1>4, <1>5 DEF Reports

\* Taking a message moves the reports one place forward, and takes one if it is first and no
\* BeforeCommit is in the channel.
LEMMA TakenReport ==
  ASSUME channel \in Seq(Msg), channel # <<>>, channel' = Tail(channel), NEW x
  PROVE  /\ \A i \in Reports(x)' : /\ i \in Int /\ i + 1 \in Reports(x)
                                   /\ channel'[i] = channel[i + 1]
         /\ \A i \in Reports(x) : i \in Nat /\ (i = 1 \/ i - 1 \in Reports(x)')
         /\ 1 \in Reports(x) => /\ Head(channel).type = "Update" /\ Head(channel).row = x
                                /\ At("BeforeCommit") = {} /\ channel[1] = Head(channel)
         /\ Head(channel).type = "Update" /\ Head(channel).row = x /\ At("BeforeCommit") = {}
              => 1 \in Reports(x)
  <1>1. /\ Head(channel) = channel[1] /\ Len(channel) \in Nat \ {0}
        /\ Len(channel') = Len(channel) - 1
        /\ \A i \in 1 .. Len(channel') : channel'[i] = channel[i + 1]
    BY Taken
  <1>2. \A type : /\ \A i \in At(type)' : i \in Int /\ i + 1 \in At(type)
                  /\ \A i \in At(type) : i \in Nat /\ (i = 1 \/ i - 1 \in At(type)')
                  /\ 1 \in At(type) <=> Head(channel).type = type
    BY TakenAt
  <1>3. \A type : \A i \in At(type) : i \in Nat /\ i >= 1
    BY <1>1 DEF At
  <1>4. \A i \in At("Update")' : i \in Nat /\ i >= 1 /\ channel'[i] = channel[i + 1]
    BY <1>1 DEF At
  <1>5. ASSUME NEW i \in Reports(x)'
        PROVE  i \in Int /\ i + 1 \in Reports(x) /\ channel'[i] = channel[i + 1]
    <2>1. i \in At("Update")' /\ channel'[i].row = x /\ \A j \in At("BeforeCommit")' : j <= i
      BY <1>5 DEF Reports
    <2>2. \A j \in At("BeforeCommit") : j <= i + 1
      <3> SUFFICES ASSUME NEW j \in At("BeforeCommit") PROVE j <= i + 1
        OBVIOUS
      <3>1. j \in Nat /\ (j = 1 \/ j - 1 <= i)
        BY <1>2, <2>1
      <3> QED  BY <3>1, <1>4, <2>1
    <2> QED  BY <1>2, <1>4, <2>1, <2>2 DEF Reports
  <1>6. ASSUME NEW i \in Reports(x), i # 1
        PROVE  i - 1 \in Reports(x)'
    <2>1. i \in At("Update") /\ channel[i].row = x /\ \A j \in At("BeforeCommit") : j <= i
      BY <1>6 DEF Reports
    <2>2. i \in Nat /\ i - 1 \in At("Update")'
      BY <1>2, <1>6, <2>1
    <2>3. channel'[i - 1] = channel[i]
      <3>1. channel'[i - 1] = channel[(i - 1) + 1]
        BY <1>4, <2>2
      <3>2. (i - 1) + 1 = i
        BY <2>2
      <3> QED  BY <3>1, <3>2
    <2>4. \A j \in At("BeforeCommit")' : j <= i - 1
      <3> SUFFICES ASSUME NEW j \in At("BeforeCommit")' PROVE j <= i - 1
        OBVIOUS
      <3>1. j \in Int /\ j + 1 <= i
        BY <1>2, <2>1
      <3> QED  BY <3>1, <2>2
    <2> QED  BY <2>1, <2>2, <2>3, <2>4 DEF Reports
  <1>7. ASSUME 1 \in Reports(x)
        PROVE  /\ Head(channel).type = "Update" /\ Head(channel).row = x
               /\ At("BeforeCommit") = {} /\ channel[1] = Head(channel)
    <2>1. 1 \in At("Update") /\ channel[1].row = x /\ \A j \in At("BeforeCommit") : j <= 1
      BY <1>7 DEF Reports
    <2>2. \A j \in At("BeforeCommit") : j = 1
      BY <1>3, <2>1
    <2>3. 1 \notin At("BeforeCommit")
      BY <1>2, <2>1
    <2> QED  BY <1>1, <1>2, <2>1, <2>2, <2>3
  <1>8. \A i \in Reports(x) : i \in Nat
    BY <1>3 DEF Reports
  <1>9. Head(channel).type = "Update" /\ Head(channel).row = x /\ At("BeforeCommit") = {}
              => 1 \in Reports(x)
    BY <1>1, <1>2 DEF Reports
  <1> QED  BY <1>5, <1>6, <1>7, <1>8, <1>9

-----------------------------------------------------------------------------
(* The rows *)

\* What the maps hold for a row only changes with the row, its reports and the maps.
LEMMA RowFrame ==
  ASSUME NEW t \in Thread, NEW x \in Row, RowForm(t, x),
         Change(t)'[x] = Change(t)[x], Base(t)'[x] = Base(t)[x],
         emit'[x] = emit[x], Reports(x)' = Reports(x),
         \A i \in Reports(x) : channel'[i] = channel[i],
         dump'[t] = dump[t], db' = db, deltadb' = deltadb
  PROVE  RowForm(t, x)'
  BY DEF RowForm, Awaited

LEMMA AwaitedFrame ==
  ASSUME NEW x \in Row, emit'[x] = emit[x], Reports(x)' = Reports(x)
  PROVE  Awaited(x)' <=> Awaited(x)
  BY DEF Awaited

\* Changes are integers.
LEMMA ChangeType ==
  ASSUME TypeOK, NEW t \in Thread
  PROVE  Change(t) \in ZSet /\ Base(t) \in ZSet
  BY ZSets DEF TypeOK, Change, Base

\* Between commits nothing is said of single rows.
LEMMA QuietVInv ==
  ASSUME Quiet', prog'.out = committed', DoStore => db' = committed',
         \A t \in Thread : cpc'[t] = "before" /\ dump'[t] => deltadb' = Zero,
         \A t \in Thread : cpc'[t] = "take" => deltadb' = Plus(committed', Neg(previous'))
  PROVE  VInv'
  <1>1. \A t \in Thread : ~InCommit(t)' /\ cpc'[t] # "commit"
    BY DEF Quiet, InCommit
  <1> QED  BY <1>1 DEF VInv, Zero, Plus, Neg

LEMMA InitVInv == Init => VInv
  BY DEF Init, VInv, Quiet, InCommit

LEMMA CallVInv ==
  ASSUME TypeOK, CInv, VInv, Serialised, NEW t \in Thread, ClientCall(t)
  PROVE  VInv'
  <1>1. CASE transaction_start(t) \/ \E x \in Row : apply_updates(t, x)
    <2>1. /\ UNCHANGED <<cpc, dump, success, emit, channel, hpc, db, deltadb, committed, previous>>
          /\ prog'.out = prog.out /\ prog_lock = None
      BY <1>1 DEF transaction_start, apply_updates, clientvars, handlervars, histvars, TypeOK
    <2>2. \A u \in Thread : cpc[u] = "commit" => prog_lock = u
      BY DEF CInv, HoldsProg
    <2>3. \A u \in Thread : cpc[u] # "commit"
      BY <2>1, <2>2, HDDlogAssumption
    <2>4. \A u \in Thread : Change(u)' = Change(u) /\ Base(u)' = Base(u)
      BY <2>1, <2>3 DEF Change, Base, Ended, Zero, Plus, Neg
    <2>5. \A x \in Row : Reports(x)' = Reports(x)
      BY <2>1, SameReports
    <2>6. At("BeforeCommit")' = At("BeforeCommit")
      BY <2>1, SameAt
    <2>7. ASSUME NEW u \in Thread, InCommit(u)', NEW x \in Row
          PROVE  RowForm(u, x)' /\ NotApplied(u, x)'
      <3>1. RowForm(u, x) /\ NotApplied(u, x)
        BY <2>1, <2>7 DEF VInv, InCommit
      <3>2. RowForm(u, x)'
        BY <2>1, <2>4, <2>5, <3>1, RowFrame
      <3>3. Awaited(x)' <=> Awaited(x)
        BY <2>1, <2>5, AwaitedFrame
      <3> QED  BY <2>1, <2>4, <2>6, <3>1, <3>2, <3>3 DEF NotApplied
    <2>8. Quiet' <=> Quiet
      BY <2>1 DEF Quiet, InCommit
    <2> QED  BY <2>1, <2>7, <2>8 DEF VInv, InCommit, Zero, Plus, Neg
  <1>2. CASE transaction_commit(t) \/ transaction_commit_dump_changes(t)
             \/ transaction_rollback(t) \/ stop(t)
    <2>1. /\ \A u \in Thread : cpc[u] = "idle"
          /\ UNCHANGED <<db, deltadb, committed, previous>> /\ prog'.out = prog.out
      BY <1>2 DEF transaction_commit, transaction_commit_dump_changes, transaction_rollback,
                  stop, Ready, Alone, handlervars, histvars, TypeOK
    <2>2. /\ cpc' \in [Thread -> {"idle", "before", "reset", "rollback", "stop"}]
          /\ \A u \in Thread : cpc'[u] = "before" => dump'[u] = FALSE
      BY <1>2, <2>1 DEF transaction_commit, transaction_commit_dump_changes,
                        transaction_rollback, stop, Goto, TypeOK
    <2>3. Quiet /\ Quiet'
      BY <2>1, <2>2 DEF Quiet, InCommit
    <2> QED  BY <2>1, <2>2, <2>3, QuietVInv DEF VInv
  <1> QED  BY <1>1, <1>2 DEF ClientCall

\* Steps of a client outside a commit.
LEMMA OutsideVInv ==
  ASSUME TypeOK, CInv, VInv, NEW t \in Thread,
         \/ reset_deltadb(t) \/ take_deltadb(t) \/ delta_undo(t) \/ rollback_return(t)
         \/ drop_handler(t)
  PROVE  VInv'
  <1>1. /\ cpc[t] \in {"reset", "take", "rollback", "undo", "stop"}
        /\ \E l \in {"before", "idle", "undo"} : Goto(t, l) /\ (l = "before" => deltadb' = Zero)
        /\ UNCHANGED <<db, committed, previous>> /\ prog'.out = prog.out
    BY DEF reset_deltadb, take_deltadb, delta_undo, rollback_return, drop_handler,
           handlervars, histvars, TypeOK
  <1>2. PICK l \in {"before", "idle", "undo"} : Goto(t, l) /\ (l = "before" => deltadb' = Zero)
    BY <1>1
  <1>3. /\ \A u \in Thread : cpc'[u] = IF u = t THEN l ELSE "idle"
        /\ Quiet /\ Quiet'
    BY <1>1, <1>2, OwnStep DEF CInv, InCommit
  <1> QED  BY <1>1, <1>2, <1>3, QuietVInv DEF VInv

\* A commit begins with no change on its way.
LEMMA BeforeVInv ==
  ASSUME TypeOK, CInv, VInv, NEW t \in Thread, before_commit(t)
  PROVE  VInv'
  <1> DEFINE m == [type |-> "BeforeCommit"]
  <1>1. /\ cpc[t] = "before" /\ Goto(t, "lock") /\ Send(m) /\ m \in Msg
        /\ m.type = "BeforeCommit"
        /\ UNCHANGED <<prog, dump, success, emit, db, deltadb, committed, previous>>
    BY MsgTypes DEF before_commit, handlervars, histvars
  <1>2. /\ \A u \in Thread : cpc'[u] = IF u = t THEN "lock" ELSE "idle"
        /\ \A u \in Thread : cpc[u] = IF u = t THEN cpc[t] ELSE "idle"
        /\ Quiet /\ ~Quiet'
    BY <1>1, OwnStep DEF CInv, InCommit
  <1> HIDE DEF m
  <1>3. \A x \in Row : Reports(x)' = {}
    BY <1>1, SentControl DEF TypeOK
  <1>4. emit' = Zero
    BY <1>1, <1>2 DEF CInv, EmitsInFlush
  <1>5. \A x \in Row : ~Awaited(x)'
    BY <1>3, <1>4 DEF Awaited, Zero
  <1>6. Change(t)' = Zero /\ Base(t)' = committed
    BY <1>1, <1>2 DEF Change, Base, Ended, Zero
  <1>7. DoStore => db' = committed
    BY <1>1, <1>2 DEF VInv
  <1>8. dump'[t] => deltadb' = Zero /\ deltadb' # None
    BY <1>1, HDDlogAssumption DEF VInv, Zero
  <1>9. ASSUME NEW x \in Row
        PROVE  RowForm(t, x)' /\ NotApplied(t, x)'
    <2>1. committed[x] \in Int /\ Zero[x] = 0 /\ Change(t)'[x] = 0 /\ Base(t)'[x] = committed[x]
      BY <1>6 DEF TypeOK, ZSet, Zero
    <2>2. emit'[x] = 0
      BY <1>4, <2>1
    <2>3. DoStore => db'[x] = Base(t)'[x] + Change(t)'[x]
      BY <1>7, <2>1
    <2>4. dump'[t] => deltadb'[x] = Change(t)'[x]
      BY <1>8, <2>1
    <2>5. RowForm(t, x)'
      BY <1>3, <1>5, <2>2, <2>3, <2>4 DEF RowForm
    <2> QED  BY <2>1, <2>5 DEF NotApplied
  <1> QED  BY <1>1, <1>2, <1>8, <1>9 DEF VInv, InCommit

\* A commit that has a transaction to flush starts with all its changes on their way.
LEMMA LockVInv ==
  ASSUME TypeOK, CInv, VInv, NEW t \in Thread, commit_lock(t)
  PROVE  VInv'
  <1>1. /\ cpc[t] = "lock" /\ success' = [success EXCEPT ![t] = prog.tip]
        /\ UNCHANGED <<prog, dump, channel, hpc, db, deltadb, committed, previous>>
    BY DEF commit_lock, handlervars, histvars
  <1>2. PICK l \in {"commit", "after"} : /\ Goto(t, l)
                                         /\ prog.tip => l = "commit" /\ emit' = prog.delta
                                         /\ ~prog.tip => l = "after" /\ emit' = emit
    BY DEF commit_lock
  <1>3. /\ \A u \in Thread : cpc'[u] = IF u = t THEN l ELSE "idle"
        /\ \A u \in Thread : cpc[u] = IF u = t THEN cpc[t] ELSE "idle"
        /\ ~Quiet'
    BY <1>1, <1>2, OwnStep DEF CInv, InCommit
  <1>4. success'[t] = prog.tip
    BY <1>1 DEF TypeOK
  <1>5. Change(t) = Zero /\ Base(t) = committed
    BY <1>1 DEF Change, Base, Ended
  <1>6. Change(t)' = (IF prog.tip THEN prog.delta ELSE Zero) /\ Base(t)' = committed
    BY <1>1, <1>2, <1>3, <1>4 DEF Change, Base, Ended, Zero
  <1>7. emit = Zero
    BY <1>1, <1>3 DEF CInv, EmitsInFlush
  <1>8. ASSUME NEW x \in Row
        PROVE  RowForm(t, x)' /\ NotApplied(t, x)'
    <2>1. RowForm(t, x)
      BY <1>1 DEF VInv, InCommit
    <2>2. Zero[x] = 0 /\ committed[x] \in Int /\ prog.delta[x] \in Int
      BY DEF Zero, TypeOK, ZSet
    <2>3. Reports(x) = {}
      BY <1>5, <2>1, <2>2 DEF RowForm
    <2>4. Reports(x)' = {}
      BY <1>1, <2>3, SameReports
    <2>5. ~Awaited(x)
      BY <1>7, <2>2, <2>3 DEF Awaited
    <2>6. DoStore => db[x] = committed[x]
      BY <1>5, <2>1, <2>2, <2>5 DEF RowForm
    <2>7. dump[t] => deltadb[x] = 0
      BY <1>5, <2>1, <2>2, <2>5 DEF RowForm
    <2>8. emit'[x] = Change(t)'[x]
      BY <1>2, <1>6, <1>7
    <2>9. Awaited(x)' <=> Change(t)'[x] # 0
      BY <2>4, <2>8 DEF Awaited
    <2>10. Base(t)'[x] = committed[x] /\ Change(t)'[x] \in Int
      BY <1>6, <2>2
    <2>11. RowForm(t, x)'
      BY <1>1, <2>2, <2>4, <2>6, <2>7, <2>8, <2>9, <2>10 DEF RowForm
    <2> QED  BY <2>9, <2>11 DEF NotApplied
  <1>9. l = "commit" => success'[t]
    BY <1>2, <1>4
  <1> QED  BY <1>1, <1>3, <1>8, <1>9 DEF VInv, InCommit

\* The end of the flush and the message to the handler only rename the change.
LEMMA EndVInv ==
  ASSUME TypeOK, CInv, VInv, NEW t \in Thread, commit_flushed(t) \/ after_commit(t)
  PROVE  VInv'
  <1>1. /\ cpc[t] \in {"commit", "after"}
        /\ UNCHANGED <<dump, success, emit, hpc, db, deltadb>>
    BY DEF commit_flushed, after_commit, handlervars
  <1>2. PICK l \in {"after", "barrier"} : Goto(t, l)
    BY AfterHeard DEF commit_flushed
  <1>3. /\ \A u \in Thread : cpc'[u] = IF u = t THEN l ELSE "idle"
        /\ \A u \in Thread : cpc[u] = IF u = t THEN cpc[t] ELSE "idle"
        /\ ~Quiet'
    BY <1>1, <1>2, OwnStep DEF CInv, InCommit
  <1>4. prog.out = committed /\ (cpc[t] = "commit" => success[t])
    BY DEF VInv
  <1>5. prog'.out = committed'
    BY <1>4 DEF commit_flushed, after_commit, histvars, TypeOK
  <1>6. ASSUME NEW x \in Row
        PROVE  Change(t)'[x] = Change(t)[x] /\ Base(t)'[x] = Base(t)[x]
    <2>1. CASE commit_flushed(t)
      <3>1. /\ cpc[t] = "commit" /\ committed' = Plus(committed, prog.delta)
            /\ previous' = committed
            /\ cpc'[t] = "after" /\ success'[t]
        BY <2>1, <1>4 DEF commit_flushed, Goto, TypeOK
      <3>2. Change(t) = prog.delta /\ Base(t) = committed
        BY <3>1 DEF Change, Base, Ended
      <3>3. Change(t)' = Plus(committed', Neg(previous')) /\ Base(t)' = previous'
        BY <3>1 DEF Change, Base, Ended, Plus, Neg
      <3>4. committed[x] \in Int /\ prog.delta[x] \in Int
        BY DEF TypeOK, ZSet
      <3> QED  BY <3>1, <3>2, <3>3, <3>4 DEF Plus, Neg
    <2>2. CASE after_commit(t)
      <3>1. cpc[t] = "after" /\ cpc'[t] = "barrier" /\ UNCHANGED <<success, committed, previous>>
        BY <2>2, AfterHeard DEF after_commit, Goto, TypeOK, histvars
      <3> QED  BY <3>1 DEF Change, Base, Ended, Plus, Neg, Zero
    <2> QED  BY <2>1, <2>2
  <1>7. ASSUME NEW x \in Row
        PROVE  /\ Reports(x)' = Reports(x)
               /\ \A i \in Reports(x) : channel'[i] = channel[i]
    <2>1. CASE commit_flushed(t)
      BY <2>1, SameReports DEF commit_flushed
    <2>2. CASE after_commit(t)
      <3> DEFINE m == [type |-> "AfterCommit"]
      <3>1. m \in Msg /\ m.type = "AfterCommit" /\ Send(m)
        BY <2>2, AfterHeard, MsgTypes
      <3> HIDE DEF m
      <3> QED  BY <3>1, SentControl DEF TypeOK
    <2> QED  BY <2>1, <2>2
  <1>8. At("BeforeCommit")' = At("BeforeCommit")
    <2>1. CASE commit_flushed(t)
      BY <2>1, SameAt DEF commit_flushed
    <2>2. CASE after_commit(t)
      <3> DEFINE m == [type |-> "AfterCommit"]
      <3>1. m \in Msg /\ m.type = "AfterCommit" /\ Send(m)
        BY <2>2, AfterHeard, MsgTypes
      <3> HIDE DEF m
      <3> QED  BY <3>1, SentAt DEF TypeOK
    <2> QED  BY <2>1, <2>2
  <1>9. ASSUME NEW x \in Row
        PROVE  RowForm(t, x)' /\ NotApplied(t, x)'
    <2>1. RowForm(t, x) /\ NotApplied(t, x)
      BY <1>1 DEF VInv, InCommit
    <2>2. RowForm(t, x)'
      BY <1>1, <1>6, <1>7, <2>1, RowFrame
    <2>3. Awaited(x)' <=> Awaited(x)
      BY <1>1, <1>7, AwaitedFrame
    <2> QED  BY <1>1, <1>6, <1>8, <2>1, <2>2, <2>3 DEF NotApplied
  <1> QED  BY <1>1, <1>3, <1>5, <1>9 DEF VInv, InCommit

LEMMA ZSetEqual ==
  ASSUME NEW f \in ZSet, NEW g \in ZSet, \A x \in Row : f[x] = g[x]
  PROVE  f = g
  BY DEF ZSet

\* When the handler has emptied the channel after AfterCommit, both maps are up to date.
LEMMA AllApplied ==
  ASSUME TypeOK, CInv, VInv, NEW t \in Thread, InCommit(t), hpc = "barrier"
  PROVE  /\ DoStore => db = committed
         /\ dump[t] /\ success[t] => deltadb = Plus(committed, Neg(previous))
  <1>1. channel = <<>> /\ cpc[t] = "barrier"
    BY DEF CInv, HandlerForm, OneClient, InCommit
  <1>2. emit = Zero
    BY <1>1 DEF CInv, EmitsInFlush, OneClient
  <1>3. \A x \in Row : ~Awaited(x)
    BY <1>1, <1>2, EmptyAt DEF Awaited, Zero, Reports
  <1>4. \A x \in Row : RowForm(t, x)
    BY DEF VInv
  <1>5. /\ success[t] => Change(t) = Plus(committed, Neg(previous)) /\ Base(t) = previous
        /\ ~success[t] => Change(t) = Zero /\ Base(t) = committed
    BY <1>1 DEF Change, Base, Ended
  <1>6. ASSUME DoStore PROVE db = committed
    <2>1. ASSUME NEW x \in Row PROVE db[x] = committed[x]
      <3>1. db[x] = Base(t)[x] + Change(t)[x]
        BY <1>3, <1>4, <1>6, <2>1 DEF RowForm
      <3>2. committed[x] \in Int /\ previous[x] \in Int
        BY DEF TypeOK, ZSet
      <3>3. CASE success[t]
        BY <1>5, <3>1, <3>2, <3>3 DEF Plus, Neg
      <3>4. CASE ~success[t]
        BY <1>5, <3>1, <3>2, <3>4 DEF Zero
      <3> QED  BY <3>3, <3>4
    <2> QED  BY <2>1, ZSetEqual DEF TypeOK
  <1>7. ASSUME dump[t], success[t] PROVE deltadb = Plus(committed, Neg(previous))
    <2>1. deltadb \in ZSet
      BY <1>7 DEF VInv, TypeOK
    <2>2. \A x \in Row : deltadb[x] = Change(t)[x]
      BY <1>3, <1>4, <1>7 DEF RowForm
    <2>3. deltadb = Change(t)
      BY <2>1, <2>2, ZSetEqual, ChangeType
    <2> QED  BY <1>5, <1>7, <2>3
  <1> QED  BY <1>6, <1>7

\* Before the handler has both guards, no map has changed.
LEMMA NoneApplied ==
  ASSUME TypeOK, VInv, NEW t \in Thread, InCommit(t), DoStore,
         hpc \in {"lock_delta", "lock_db"} \/ At("BeforeCommit") # {}
  PROVE  db = Base(t)
  <1>1. ASSUME NEW x \in Row PROVE db[x] = Base(t)[x]
    <2>1. RowForm(t, x) /\ (Awaited(x) \/ Change(t)[x] = 0)
      BY DEF VInv, NotApplied
    <2>2. Base(t)[x] \in Int
      BY ChangeType DEF ZSet
    <2> QED  BY <2>1, <2>2 DEF RowForm
  <1> QED  BY <1>1, ZSetEqual, ChangeType DEF TypeOK

LEMMA BarrierVInv ==
  ASSUME TypeOK, CInv, VInv, NEW t \in Thread, commit_barrier(t)
  PROVE  VInv'
  <1>1. /\ cpc[t] = "barrier" /\ hpc = "barrier"
        /\ UNCHANGED <<prog, db, deltadb, committed, previous>>
    BY DEF commit_barrier, histvars
  <1>2. PICK l \in {"take", "idle"} : Goto(t, l) /\ (l = "take" => dump[t] /\ success[t])
    BY DEF commit_barrier, AfterHandler
  <1>3. (\A u \in Thread : cpc'[u] = IF u = t THEN l ELSE "idle") /\ Quiet'
    BY <1>1, <1>2, OwnStep DEF CInv, InCommit
  <1>4. /\ DoStore => db = committed
        /\ dump[t] /\ success[t] => deltadb = Plus(committed, Neg(previous))
    BY <1>1, AllApplied DEF InCommit
  <1>5. prog'.out = committed'
    BY <1>1 DEF VInv
  <1> QED  BY <1>1, <1>2, <1>3, <1>4, <1>5, QuietVInv

\* A worker's report moves a change into the channel.
LEMMA EmitVInv ==
  ASSUME TypeOK, CInv, VInv, mt_update_cb
  PROVE  VInv'
  <1>1. PICK y \in Row : /\ emit[y] # 0
                         /\ Send([type |-> "Update", row |-> y, w |-> emit[y]])
                         /\ emit' = [emit EXCEPT ![y] = 0]
    BY DEF mt_update_cb
  <1> DEFINE m == [type |-> "Update", row |-> y, w |-> emit[y]]
  <1>2. m \in Msg /\ m.type = "Update" /\ m.row = y /\ m.w = emit[y] /\ Send(m)
    BY <1>1, MsgTypes DEF TypeOK, ZSet
  <1> HIDE DEF m
  <1>3. UNCHANGED <<prog, cpc, dump, success, hpc, db, deltadb, committed, previous>>
    BY DEF mt_update_cb, handlervars, histvars
  <1>4. \A x \in Row : emit'[x] = IF x = y THEN 0 ELSE emit[x]
    BY <1>1 DEF TypeOK, ZSet
  <1>5. Quiet' <=> Quiet
    BY <1>3 DEF Quiet, InCommit
  <1>6. ASSUME NEW t \in Thread
        PROVE  Change(t)' = Change(t) /\ Base(t)' = Base(t)
    BY <1>3 DEF Change, Base, Ended, Zero, Plus, Neg
  <1>7. At("BeforeCommit")' = At("BeforeCommit")
    BY <1>2, SentAt DEF TypeOK
  <1>8. ASSUME NEW t \in Thread, InCommit(t)', NEW x \in Row
        PROVE  RowForm(t, x)' /\ NotApplied(t, x)'
    <2>1. RowForm(t, x) /\ NotApplied(t, x)
      BY <1>3, <1>8 DEF VInv, InCommit
    <2>2. /\ y # x => Reports(x)' = Reports(x)
          /\ y = x => Reports(x)' = Reports(x) \cup {Len(channel) + 1}
          /\ \A i \in Reports(x) : channel'[i] = channel[i]
          /\ channel'[Len(channel) + 1] = m
      BY <1>2, SentReport DEF TypeOK
    <2>3. CASE x # y
      <3>1. RowForm(t, x)'
        BY <1>3, <1>4, <1>6, <2>1, <2>2, <2>3, RowFrame
      <3>2. Awaited(x)' <=> Awaited(x)
        BY <1>4, <2>2, <2>3, AwaitedFrame
      <3> QED  BY <1>3, <1>6, <1>7, <2>1, <3>1, <3>2 DEF NotApplied
    <2>4. CASE x = y
      <3>1. emit[x] # 0 /\ emit[x] = Change(t)[x] /\ Reports(x) = {}
        BY <1>1, <2>1, <2>4 DEF RowForm
      <3>2. Reports(x)' = {Len(channel) + 1} /\ emit'[x] = 0
        BY <1>4, <2>2, <2>4, <3>1
      <3>3. Awaited(x) /\ Awaited(x)'
        BY <3>1, <3>2 DEF Awaited
      <3>4. channel'[Len(channel) + 1].w = Change(t)'[x]
        BY <1>2, <1>6, <2>2, <2>4, <3>1
      <3>5. Change(t)'[x] # 0
        BY <1>6, <3>1
      <3>6. RowForm(t, x)'
        BY <1>3, <1>6, <2>1, <3>2, <3>3, <3>4, <3>5 DEF RowForm
      <3> QED  BY <3>3, <3>6 DEF NotApplied
    <2> QED  BY <2>3, <2>4
  <1> QED  BY <1>3, <1>5, <1>8 DEF VInv, InCommit, Zero, Plus, Neg

\* A message that is not the report of a row leaves the row as it is.
LEMMA RowShift ==
  ASSUME TypeOK, channel # <<>>, channel' = Tail(channel),
         NEW t \in Thread, NEW x \in Row, RowForm(t, x), 1 \notin Reports(x),
         Change(t)'[x] = Change(t)[x], Base(t)'[x] = Base(t)[x],
         emit'[x] = emit[x], dump'[t] = dump[t], db'[x] = db[x],
         dump[t] => deltadb'[x] = deltadb[x]
  PROVE  RowForm(t, x)' /\ (Awaited(x)' <=> Awaited(x))
  <1>1. /\ \A i \in Reports(x)' : /\ i \in Int /\ i + 1 \in Reports(x)
                                  /\ channel'[i] = channel[i + 1]
        /\ \A i \in Reports(x) : i - 1 \in Reports(x)'
    BY TakenReport DEF TypeOK
  <1>2. Reports(x)' = {} <=> Reports(x) = {}
    BY <1>1
  <1>3. Awaited(x)' <=> Awaited(x)
    BY <1>2 DEF Awaited
  <1>4. \A i \in Reports(x)' : channel'[i].w = Change(t)'[x] /\ channel'[i].w # 0
    BY <1>1 DEF RowForm
  <1>5. \A i, j \in Reports(x)' : i = j
    <2> SUFFICES ASSUME NEW i \in Reports(x)', NEW j \in Reports(x)'
                 PROVE  i = j
      OBVIOUS
    <2>1. i \in Int /\ j \in Int /\ i + 1 = j + 1
      BY <1>1 DEF RowForm
    <2> QED  BY <2>1
  <1>6. RowForm(t, x)'
    BY <1>2, <1>3, <1>4, <1>5 DEF RowForm
  <1> QED  BY <1>3, <1>6

LEMMA RecvVInv ==
  ASSUME TypeOK, CInv, CInv', VInv, recv
  PROVE  VInv'
  <1> DEFINE m == Head(channel)
  <1>1. /\ hpc = "recv" /\ channel # <<>> /\ channel' = Tail(channel) /\ m \in Msg
        /\ UNCHANGED <<prog, cpc, dump, success, emit, committed, previous>>
    BY Taken DEF recv, clientvars, histvars, TypeOK
  <1>2. /\ m.type # "Update" => UNCHANGED <<db, deltadb>>
        /\ m.type = "Update" => update_cb(m) /\ hpc' = hpc
    BY DEF recv
  <1>3. delta_lock # Handler => UNCHANGED <<db, deltadb>>
    BY <1>2 DEF update_cb, Locked
  <1>4. Quiet' <=> Quiet
    BY <1>1 DEF Quiet, InCommit
  <1>5. Quiet => delta_lock # Handler
    BY HDDlogAssumption DEF CInv, HandlerForm, Handler
  <1>6. CASE Quiet
    BY <1>1, <1>3, <1>4, <1>5, <1>6, QuietVInv DEF VInv
  <1>7. CASE ~Quiet
    <2>1. PICK t \in Thread : InCommit(t)
      BY <1>7 DEF Quiet
    <2>2. \A u \in Thread : cpc'[u] = cpc[u] /\ (u # t => cpc[u] = "idle")
      BY <1>1, <2>1 DEF CInv, OneClient, InCommit
    <2>3. Change(t)' = Change(t) /\ Base(t)' = Base(t)
      BY <1>1 DEF Change, Base, Ended, Zero, Plus, Neg
    <2> HIDE DEF m
    <2>4. ASSUME NEW x \in Row
          PROVE  /\ 1 \in Reports(x) => /\ m.type = "Update" /\ m.row = x
                                        /\ At("BeforeCommit") = {} /\ channel[1] = m
                 /\ m.type = "Update" /\ m.row = x /\ At("BeforeCommit") = {} => 1 \in Reports(x)
      BY <1>1, TakenReport DEF TypeOK, m
    <2>5. ASSUME NEW x \in Row
          PROVE  RowForm(t, x) /\ NotApplied(t, x)
      BY <2>1 DEF VInv
    <2>6. CASE m.type = "Update" /\ delta_lock = Handler
      <3>1. /\ db' = IF DoStore THEN update(db, m) ELSE db
            /\ deltadb' = IF deltadb # None THEN update(deltadb, m) ELSE deltadb
        BY <1>2, <2>6 DEF update_cb, Locked
      <3>2. m.row \in Row /\ m.w \in Int
        BY <1>1, <2>6, MsgTypes
      <3>3. At("BeforeCommit") = {}
        BY <2>6, HDDlogAssumption DEF CInv, ChannelForm, Handler
      <3>4. At("BeforeCommit")' = {}
        BY <1>1, <3>3, TakenAt DEF TypeOK
      <3>5. \A x \in Row : NotApplied(t, x)'
        BY <1>1, <1>2, <2>6, <3>4 DEF NotApplied
      <3>6. DoStore => \A x \in Row : db'[x] = IF x = m.row THEN db[x] + m.w ELSE db[x]
        BY <3>1 DEF update, TypeOK, ZSet
      <3>7. deltadb # None =>
              /\ deltadb' # None
              /\ \A x \in Row : deltadb'[x] = IF x = m.row THEN deltadb[x] + m.w ELSE deltadb[x]
        <4>1. deltadb # None => deltadb' \in ZSet
          BY <1>1, <2>6, <3>1, UpdateType DEF TypeOK
        <4>2. None \notin ZSet
          BY HDDlogAssumption DEF ZSet
        <4> QED  BY <3>1, <4>1, <4>2 DEF update, TypeOK, ZSet
      <3>8. ASSUME NEW x \in Row, x # m.row
            PROVE  RowForm(t, x)'
        <4>1. 1 \notin Reports(x)
          BY <2>4, <3>8
        <4>2. db'[x] = db[x]
          BY <3>1, <3>6, <3>8
        <4>3. dump[t] => deltadb'[x] = deltadb[x]
          BY <2>1, <3>7, <3>8 DEF VInv
        <4> QED  BY <1>1, <2>3, <2>5, <4>1, <4>2, <4>3, RowShift
      <3>9. ASSUME NEW x \in Row, x = m.row
            PROVE  RowForm(t, x)'
        <4>1. RowForm(t, x) /\ 1 \in Reports(x) /\ channel[1] = m
          BY <2>4, <2>5, <2>6, <3>3, <3>9
        <4>2. m.w = Change(t)[x] /\ emit[x] = 0 /\ Awaited(x)
          BY <4>1 DEF RowForm, Awaited
        <4>3. Reports(x)' = {}
          <5>1. \A i \in Reports(x)' : i \in Int /\ i + 1 = 1
            BY <1>1, <4>1, TakenReport DEF TypeOK, RowForm
          <5>2. 0 \notin Reports(x)'
            BY DEF Reports, At
          <5> QED  BY <5>1, <5>2
        <4>4. ~Awaited(x)' /\ emit'[x] = 0
          BY <1>1, <4>2, <4>3 DEF Awaited
        <4>5. DoStore => db'[x] = Base(t)'[x] + Change(t)'[x]
          BY <2>3, <3>6, <3>9, <4>1, <4>2 DEF RowForm
        <4>6. dump[t] => deltadb # None
          BY <2>1 DEF VInv
        <4>7. dump[t] => deltadb'[x] = Change(t)'[x]
          BY <2>3, <3>2, <3>7, <3>9, <4>1, <4>2, <4>6 DEF RowForm
        <4> QED  BY <1>1, <4>3, <4>4, <4>5, <4>7 DEF RowForm
      <3> QED  BY <1>1, <1>4, <1>7, <2>1, <2>2, <3>5, <3>7, <3>8, <3>9 DEF VInv, InCommit, Zero, Plus, Neg
    <2>7. CASE ~(m.type = "Update" /\ delta_lock = Handler)
      <3>1. UNCHANGED <<db, deltadb>>
        BY <1>2, <1>3, <2>7
      <3>2. m.type = "Update" => At("BeforeCommit") # {}
        BY <1>1, <1>7, <2>7 DEF CInv, HandlerForm, TypeOK
      <3>3. \A x \in Row : 1 \notin Reports(x)
        BY <2>4, <3>2
      <3>4. ASSUME NEW x \in Row
            PROVE  RowForm(t, x)' /\ (Awaited(x)' <=> Awaited(x))
        BY <1>1, <2>3, <2>5, <3>1, <3>3, RowShift
      <3>5. hpc' \in {"lock_delta", "lock_db"} => m.type = "BeforeCommit"
        <4>1. m.type \in {"BeforeCommit", "AfterCommit", "Stop", "Update"}
          BY <1>1, MsgTypes
        <4> QED  BY <1>1, <4>1 DEF recv, m
      <3>6. At("BeforeCommit")' # {} \/ m.type = "BeforeCommit" => At("BeforeCommit") # {}
        BY <1>1, TakenAt DEF TypeOK, m
      <3>7. \A x \in Row : NotApplied(t, x)'
        BY <2>3, <2>5, <3>4, <3>5, <3>6 DEF NotApplied
      <3> QED  BY <1>1, <1>4, <1>7, <2>1, <2>2, <3>1, <3>4, <3>7 DEF VInv, InCommit, Zero, Plus, Neg
    <2> QED  BY <2>6, <2>7
  <1> QED  BY <1>6, <1>7

LEMMA HandlerVInv ==
  ASSUME TypeOK, CInv, VInv, lock_delta \/ lock_db \/ drain \/ release
  PROVE  VInv'
  <1>1. UNCHANGED <<prog, cpc, dump, success, emit, channel, db, deltadb, committed, previous>>
    BY DEF lock_delta, lock_db, drain, release, clientvars, histvars, CInv, HandlerForm
  <1>2. hpc' \in {"lock_delta", "lock_db"} => hpc \in {"lock_delta", "lock_db"}
    BY DEF lock_delta, lock_db, drain, release
  <1>3. Quiet' <=> Quiet
    BY <1>1 DEF Quiet, InCommit
  <1>4. \A x \in Row : Reports(x)' = Reports(x)
    BY <1>1, SameReports
  <1>5. At("BeforeCommit")' = At("BeforeCommit")
    BY <1>1, SameAt
  <1>6. ASSUME NEW t \in Thread, InCommit(t)', NEW x \in Row
        PROVE  RowForm(t, x)' /\ NotApplied(t, x)'
    <2>1. RowForm(t, x) /\ NotApplied(t, x)
      BY <1>1, <1>6 DEF VInv, InCommit
    <2>2. Change(t)' = Change(t) /\ Base(t)' = Base(t)
      BY <1>1 DEF Change, Base, Ended, Zero, Plus, Neg
    <2>3. RowForm(t, x)'
      BY <1>1, <1>4, <2>1, <2>2, RowFrame
    <2>4. Awaited(x)' <=> Awaited(x)
      BY <1>1, <1>4, AwaitedFrame
    <2> QED  BY <1>2, <1>5, <2>1, <2>2, <2>3, <2>4 DEF NotApplied
  <1> QED  BY <1>1, <1>3, <1>6 DEF VInv, InCommit, Zero, Plus, Neg

LEMMA NextVInv ==
  ASSUME TypeOK, CInv, CInv', VInv, Serialised, [Next]_vars
  PROVE  VInv'
  <1>1. CASE UNCHANGED vars
    <2>1. \A type : At(type)' = At(type)
      BY <1>1, SameAt DEF vars
    <2>2. \A x \in Row : Reports(x)' = Reports(x) /\ emit'[x] = emit[x]
      BY <1>1, SameReports DEF vars
    <2>3. \A t \in Thread : Change(t)' = Change(t) /\ Base(t)' = Base(t)
      BY <1>1 DEF vars, Change, Base, Ended, Zero, Plus, Neg
    <2>4. \A t \in Thread, x \in Row : RowForm(t, x) => RowForm(t, x)'
      BY <1>1, <2>2, <2>3, RowFrame DEF vars
    <2>5. \A x \in Row : Awaited(x)' <=> Awaited(x)
      BY <2>2, AwaitedFrame
    <2>6. \A t \in Thread, x \in Row : NotApplied(t, x) => NotApplied(t, x)'
      BY <1>1, <2>1, <2>3, <2>5 DEF vars, NotApplied
    <2> QED  BY <1>1, <2>4, <2>6 DEF vars, VInv, Quiet, InCommit, Zero, Plus, Neg
  <1>2. ASSUME NEW t \in Thread, ClientCall(t) \/ Continue(t)
        PROVE  VInv'
    BY <1>2, CallVInv, OutsideVInv, BeforeVInv, LockVInv, EndVInv, BarrierVInv DEF Continue
  <1>3. CASE HandlerNext
    BY <1>3, RecvVInv, HandlerVInv DEF HandlerNext
  <1> QED  BY <1>1, <1>2, <1>3, EmitVInv DEF Next, Finished

\* The same clients find every change of their transaction in both maps, once.
THEOREM MapsInvariance ==
  ASSUME Serialised
  PROVE  Spec => [](TypeOK /\ HInv)
  <1>1. Init => TypeOK /\ HInv
    BY InitType, InitCInv, InitVInv DEF HInv
  <1>2. TypeOK /\ HInv /\ [Next]_vars => (TypeOK /\ HInv)'
    BY NextType, NextCInv, NextVInv DEF HInv
  <1> QED  BY <1>1, <1>2, PTL DEF Spec

\* dump_table never reads part of a transaction, nor the changes of a rollback or of stop, and
\* once the call has returned it reads the transaction that was committed last.
THEOREM DumpsAreCommitted ==
  ASSUME Serialised
  PROVE  Spec => []DumpCommitted
  <1>1. TypeOK /\ HInv => DumpCommitted
    <2> SUFFICES ASSUME TypeOK, CInv, VInv, DoStore, db_lock = None
                 PROVE  /\ db \in {committed, previous}
                        /\ (\A t \in Thread : cpc[t] = "idle") => db = committed
      BY DEF HInv, DumpCommitted
    <2>1. CASE Quiet
      BY <2>1 DEF VInv
    <2>2. CASE ~Quiet
      <3>1. PICK t \in Thread : InCommit(t)
        BY <2>2 DEF Quiet
      <3>2. hpc = "lock_db" \/ delta_lock = None
        BY DEF CInv, HandlerForm
      <3>3. hpc \in {"lock_delta", "lock_db", "barrier"} \/ At("BeforeCommit") # {}
        <4>1. hpc # "done"
          BY <3>1 DEF CInv, ChannelForm, InCommit
        <4> QED  BY <2>2, <3>2, <4>1, HDDlogAssumption DEF CInv, HandlerForm, TypeOK, Handler
      <3>4. hpc = "barrier" => db = committed
        BY <3>1, AllApplied
      <3>5. hpc # "barrier" => db = Base(t)
        BY <3>1, <3>3, NoneApplied
      <3>6. Base(t) \in {committed, previous} /\ cpc[t] # "idle"
        BY <3>1 DEF Base, InCommit
      <3> QED  BY <3>4, <3>5, <3>6
    <2> QED  BY <2>1, <2>2
  <1> QED  BY <1>1, MapsInvariance, PTL

\* transaction_commit_dump_changes returns the changes of its transaction: all of them, each
\* once, and none that an earlier rollback or an earlier commit has reported.
THEOREM ChangesAreExact ==
  ASSUME Serialised
  PROVE  Spec => []ChangesExact
  <1>1. HInv => ChangesExact
    BY DEF HInv, VInv, ChangesExact
  <1> QED  BY <1>1, MapsInvariance, PTL
=============================================================================
