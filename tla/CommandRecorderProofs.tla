------------------------ MODULE CommandRecorderProofs ------------------------
(***************************************************************************)
(* A recorded session of the typed API replays to the state of the         *)
(* recorded program, for any values, keys and key-preserving mutators, any *)
(* number of calls and batches of any size.                                *)
(***************************************************************************)
EXTENDS CommandRecorder, InputRelationProofs, SequenceTheorems, WellFoundedInduction

-----------------------------------------------------------------------------
(* The inductive invariant *)

\* A relation that holds finitely many values.
Finite(kd, s) == IsFiniteSet({v \in Value : Contents(kd, s)[v] # 0})

AnyElements == ZSet \cup IndexedValSet

\* A program whose relation is sound, now and when its transaction started.
SoundProgram(p) ==
    /\ p \in [kind : Kind, s : AnyElements, ds : ZSet, tip : BOOLEAN, saved : AnyElements]
    /\ Sound(p.kind, p.s) /\ Finite(p.kind, p.s)
    /\ Sound(p.kind, p.saved) /\ Finite(p.kind, p.saved)
    /\ ~p.tip => p.ds = EmptyZSet /\ p.saved = NoElements(p.kind)

\* Executed by the program of the CLI, the call in the file does to it what it has done to the
\* recorded program.
Repeats(c) ==
    /\ Execute(copy, c).p = live
    /\ stopped = IF Execute(copy, c).ok THEN {} ELSE {live}

\* The CLI has read the updates before the j-th one of a batch.
AtCall(c) ==
    /\ Repeats(c)
    /\ \/ c.op # "apply_updates" /\ file = <<c>> /\ upds = <<>>
       \/ /\ c.op = "apply_updates"
          /\ \E j \in 1 .. Len(c.us) :
                /\ upds = SubSeq(c.us, 1, j - 1)
                /\ file = SubSeq(do_record_updates(c.us), j, Len(c.us))

\* Lines of a snapshot of a program.
Line == [op : {"update"}, u : Update, last : {FALSE}]
Updates(lines) == [i \in DOMAIN lines |-> lines[i].u]

SnapshotOf(p, lines) ==
    /\ p.kind # "Stream"
    /\ ~p.tip
    /\ LET w == Contents(p.kind, p.s)
       IN  \E order \in Orders(w) : lines = Snapshot(w, order)

\* A file that begins with them, as the client writes it.
SnapshotFile(lines) == <<[op |-> "start"]>> \o lines \o <<[op |-> "commit"]>>

\* The CLI has read what is before the j-th command of such a file.
AtSnapshot(lines) ==
    \E j \in 1 .. Len(lines) + 2 :
        /\ copy = IF j = 1 THEN NewProgram(live.kind) ELSE transaction_start(NewProgram(live.kind)).p
        /\ upds = SubSeq(Updates(lines), 1, j - 2)
        /\ file = SubSeq(SnapshotFile(lines), j, Len(lines) + 2)

Replaying ==
    \/ \E c \in Calls : AtCall(c)
    \/ \E lines \in Seq(Line) : SnapshotOf(live, lines) /\ stopped = {} /\ AtSnapshot(lines)

IInv ==
    /\ SoundProgram(live)
    /\ cli \in {"running", "failed"}
    /\ cli = "failed" => file = <<>> /\ stopped = {copy}
    /\ cli = "running" /\ file = <<>> => stopped = {} /\ upds = <<>> /\ copy = live
    /\ cli = "running" /\ file # <<>> => Replaying

-----------------------------------------------------------------------------
(* Batches *)

\* A set of naturals that is not empty has a least element: what takes the place of induction.
LEMMA Least ==
  ASSUME NEW S \in SUBSET Nat, S # {}
  PROVE  \E x \in S : \A y \in S : x <= y
  <1>1. PICK x \in S : \A y \in S : ~(<<y, x>> \in OpToRel(<, Nat))
    BY WFMin, NatLessThanWellFounded
  <1>2. \A y \in S : ~(y < x)
    BY <1>1 DEF OpToRel
  <1> QED  BY <1>2

\* The programs after the first updates of a batch.
IsAfter(a, p, us, n) ==
    a = [i \in 0 .. n |-> IF i = 0 THEN Done(p) ELSE apply_next(a[i - 1], us[i])]

\* There are such programs.
LEMMA AfterExists ==
  ASSUME NEW p, NEW us, NEW n \in Nat
  PROVE  \E a : IsAfter(a, p, us, n)
  <1> DEFINE Bad == {k \in Nat : ~\E a : IsAfter(a, p, us, k)}
  <1> SUFFICES ASSUME Bad # {} PROVE FALSE
    OBVIOUS
  <1>1. PICK k \in Bad : \A y \in Bad : k <= y
    BY Least
  <1>2. k \in Nat /\ ~\E a : IsAfter(a, p, us, k)
    BY <1>1
  <1>3. CASE k = 0
    <2> DEFINE a == [i \in 0 .. 0 |-> Done(p)]
    <2>1. IsAfter(a, p, us, 0)
      BY DEF IsAfter
    <2> QED  BY <1>2, <1>3, <2>1
  <1>4. CASE k > 0
    <2>1. k - 1 \in Nat /\ k - 1 \notin Bad
      BY <1>1, <1>2, <1>4
    <2>2. PICK b : IsAfter(b, p, us, k - 1)
      BY <2>1
    <2> DEFINE a == [i \in 0 .. k |-> IF i = k THEN apply_next(b[k - 1], us[k]) ELSE b[i]]
    <2>3. \A i \in 0 .. k - 1 : b[i] = IF i = 0 THEN Done(p) ELSE apply_next(b[i - 1], us[i])
      BY <2>1, <2>2 DEF IsAfter
    <2>4. \A i \in 0 .. k : a[i] = IF i = 0 THEN Done(p) ELSE apply_next(a[i - 1], us[i])
      <3> SUFFICES ASSUME NEW i \in 0 .. k
                   PROVE  a[i] = IF i = 0 THEN Done(p) ELSE apply_next(a[i - 1], us[i])
        OBVIOUS
      <3>1. CASE i = k
        <4>1. a[i] = apply_next(b[k - 1], us[k]) /\ a[k - 1] = b[k - 1]
          BY <1>2, <1>4, <3>1
        <4> QED  BY <1>4, <3>1, <4>1
      <3>2. CASE i # k /\ i # 0
        <4>1. i \in 0 .. k - 1 /\ i - 1 \in 0 .. k /\ i - 1 # k
          BY <1>2, <3>2
        <4>2. a[i] = b[i] /\ a[i - 1] = b[i - 1]
          BY <3>2, <4>1
        <4> QED  BY <2>3, <3>2, <4>1, <4>2
      <3>3. CASE i = 0
        BY <1>2, <1>4, <2>3, <3>3
      <3> QED  BY <3>1, <3>2, <3>3
    <2>5. IsAfter(a, p, us, k)
      <3> HIDE DEF a
      <3>1. a = [i \in 0 .. k |-> a[i]]
        BY DEF a
      <3> QED  BY <2>4, <3>1 DEF IsAfter
    <2> QED  BY <1>2, <2>5
  <1> QED  BY <1>2, <1>3, <1>4

\* What apply_updates leaves is what its last update leaves.
LEMMA ApplyUpdates ==
  ASSUME NEW p, p.tip, NEW us, Len(us) \in Nat
  PROVE  \E a : /\ apply_updates(p, us) = a[Len(us)]
                /\ a[0] = Done(p)
                /\ \A i \in 1 .. Len(us) : a[i] = apply_next(a[i - 1], us[i])
  <1> DEFINE a == CHOOSE x : IsAfter(x, p, us, Len(us))
  <1>1. IsAfter(a, p, us, Len(us))
    BY AfterExists
  <1>2. apply_updates(p, us) = a[Len(us)]
    BY DEF apply_updates, IsAfter
  <1> HIDE DEF a
  <1>3. \A i \in 0 .. Len(us) : a[i] = IF i = 0 THEN Done(p) ELSE apply_next(a[i - 1], us[i])
    BY <1>1 DEF IsAfter
  <1>4. a[0] = Done(p)
    BY <1>3
  <1>5. \A i \in 1 .. Len(us) : a[i] = apply_next(a[i - 1], us[i])
    BY <1>3
  <1> QED  BY <1>2, <1>4, <1>5

-----------------------------------------------------------------------------
(* Programs stay sound *)

\* Counts that differ for at most two values.
DiffersInTwo(ds, es) == \E x, y : \A v \in Value : v # x /\ v # y => es[v] = ds[v]

\* One update changes the counts of at most two values.
LEMMA DeltaLocal ==
  ASSUME KeyPreserving, NEW kd \in Kind, NEW s, Sound(kd, s), NEW ds \in ZSet, NEW u \in Update
  PROVE  DiffersInTwo(ds, apply_update(kd, s, ds, u).ds)
  <1> DEFINE es == apply_update(kd, s, ds, u).ds
  <1>1. CASE kd # "Indexed"
    <2>1. ASSUME u.op \in {"Insert", "InsertOrUpdate", "DeleteValue"}
          PROVE  \A v \in Value : v # u.v => es[v] = ds[v]
      <3>1. u.v \in Value
        BY <2>1 DEF Update
      <3> QED  BY <1>1, <2>1, <3>1
               DEF apply_update, stream_update, mset_update, set_update, Ok, Err, delta_inc,
                   delta_dec, ZSet, Kind
    <2>2. ASSUME u.op \notin {"Insert", "InsertOrUpdate", "DeleteValue"}
          PROVE  es = ds
      BY <1>1, <2>2 DEF apply_update, stream_update, mset_update, set_update, Err, Kind
    <2> QED  BY <2>1, <2>2 DEF DiffersInTwo
  <1>2. CASE kd = "Indexed"
    <2> DEFINE k == IF u.op \in {"DeleteKey", "Modify"} THEN u.k ELSE KeyOf[u.v]
               old == s[k]
               new == IF u.op = "Modify" THEN u.m[old] ELSE u.v
    <2>1. es = indexed_set_update(s, ds, u).ds
      BY <1>2 DEF apply_update
    <2>2. \/ es = delta_inc(ds, new)
          \/ es = delta_inc(delta_dec(ds, old), new)
          \/ es = delta_dec(ds, old)
          \/ es = ds
      BY <2>1 DEF indexed_set_update, Replace, Ok, Err
    <2> HIDE DEF es, old, new
    <2>3. \A v \in Value : v # old /\ v # new => es[v] = ds[v]
      BY <2>2 DEF delta_inc, delta_dec, ZSet
    <2> QED  BY <2>3 DEF es, DiffersInTwo
  <1> QED  BY <1>1, <1>2

\* An update leaves a relation that holds finitely many values.
LEMMA UpdateFinite ==
  ASSUME KeyPreserving, NEW kd \in Kind, NEW s, Sound(kd, s), NEW ds \in ZSet, NEW u \in Update,
         Finite(kd, s)
  PROVE  Finite(kd, apply_update(kd, s, ds, u).s)
  <1> DEFINE res == apply_update(kd, s, ds, u)
             old == {v \in Value : Contents(kd, s)[v] # 0}
             new == {v \in Value : Contents(kd, res.s)[v] # 0}
  <1>1. UpdateKeeps(kd, s, ds, res)
    BY ApplyUpdate
  <1>2. CASE kd = "Stream"
    <2>1. res.s = s
      BY <1>1, <1>2 DEF UpdateKeeps, Sound, Elements
    <2> QED  BY <2>1
  <1>3. CASE kd # "Stream"
    <2>1. PICK x, y : \A v \in Value : v # x /\ v # y => res.ds[v] = ds[v]
      BY DeltaLocal DEF DiffersInTwo
    <2>2. Contents(kd, s) \in ZSet /\ Contents(kd, res.s) \in ZSet /\ res.ds \in ZSet
      BY <1>1, ContentsType DEF UpdateKeeps
    <2>3. \A v \in Value : Contents(kd, res.s)[v] - res.ds[v] = Contents(kd, s)[v] - ds[v]
      BY <1>1, <1>3 DEF UpdateKeeps
    <2> HIDE DEF res
    <2>4. new \subseteq (old \cup {x}) \cup {y}
      BY <2>1, <2>2, <2>3 DEF ZSet
    <2>5. IsFiniteSet((old \cup {x}) \cup {y})
      BY FS_AddElement DEF Finite
    <2>6. IsFiniteSet(new)
      BY <2>4, <2>5, FS_Subset
    <2> QED  BY <2>6 DEF Finite, res
  <1> QED  BY <1>2, <1>3

\* The empty relation holds finitely many values.
LEMMA NoElementsFinite ==
  ASSUME NEW kd \in Kind
  PROVE  Finite(kd, NoElements(kd))
  <1>1. {v \in Value : Contents(kd, NoElements(kd))[v] # 0} = {}
    BY NoElementsSound DEF EmptyZSet
  <1> QED  BY <1>1, FS_EmptySet DEF Finite

\* A sound relation is represented by a function of one of the two shapes.
LEMMA SoundAny ==
  ASSUME NEW kd \in Kind, NEW s, Sound(kd, s)
  PROVE  s \in AnyElements
  BY DEF Sound, Elements, AnyElements, ZSet, ValSet, IndexedValSet, EmptyZSet, Kind

\* A new program is sound.
LEMMA NewSound ==
  ASSUME NEW kd \in Kind
  PROVE  SoundProgram(NewProgram(kd))
  <1>1. Sound(kd, NoElements(kd)) /\ Finite(kd, NoElements(kd)) /\ NoElements(kd) \in AnyElements
    BY NoElementsSound, NoElementsFinite, SoundAny
  <1>2. EmptyZSet \in ZSet
    BY DEF EmptyZSet, ZSet
  <1> QED  BY <1>1, <1>2 DEF NewProgram, SoundProgram

\* What one update of a batch leaves.
LEMMA NextSound ==
  ASSUME KeyPreserving, NEW acc, NEW u \in Update, SoundProgram(acc.p), acc.p.tip
  PROVE  /\ SoundProgram(apply_next(acc, u).p)
         /\ apply_next(acc, u).p.tip
         /\ apply_next(acc, u).p.kind = acc.p.kind
  <1> DEFINE p == acc.p
             res == apply_update(p.kind, p.s, p.ds, u)
             q == [p EXCEPT !.s = res.s, !.ds = res.ds]
  <1>1. p \in [kind : Kind, s : AnyElements, ds : ZSet, tip : BOOLEAN, saved : AnyElements]
    BY DEF SoundProgram
  <1>2. UpdateKeeps(p.kind, p.s, p.ds, res)
    BY ApplyUpdate DEF SoundProgram
  <1>3. Sound(p.kind, res.s) /\ res.s \in AnyElements /\ res.ds \in ZSet
    BY <1>1, <1>2, SoundAny DEF UpdateKeeps
  <1>4. Finite(p.kind, res.s)
    BY UpdateFinite DEF SoundProgram
  <1>5. CASE acc.ok
    <2>1. apply_next(acc, u).p = q
      BY <1>5 DEF apply_next
    <2> HIDE DEF res
    <2>2. /\ q.kind = p.kind /\ q.s = res.s /\ q.ds = res.ds /\ q.tip = p.tip /\ q.saved = p.saved
          /\ q \in [kind : Kind, s : AnyElements, ds : ZSet, tip : BOOLEAN, saved : AnyElements]
      BY <1>1, <1>3
    <2> HIDE DEF q, p
    <2>3. SoundProgram(p) /\ p.tip
      BY DEF p
    <2>4. SoundProgram(q)
      BY <1>3, <1>4, <2>2, <2>3 DEF SoundProgram
    <2> QED  BY <2>1, <2>2, <2>3, <2>4 DEF p
  <1>6. CASE ~acc.ok
    BY <1>6 DEF apply_next
  <1> QED  BY <1>5, <1>6

\* A batch.
IsBatch(us) == us \in Seq(Update) /\ Len(us) \in Nat /\ \A i \in 1 .. Len(us) : us[i] \in Update

\* A batch leaves a sound program in its transaction, whether or not it succeeds.
LEMMA BatchSound ==
  ASSUME KeyPreserving, NEW p, SoundProgram(p), p.tip, NEW us, IsBatch(us)
  PROVE  /\ SoundProgram(apply_updates(p, us).p)
         /\ apply_updates(p, us).p.kind = p.kind
  <1> DEFINE n == Len(us)
             Good(q) == SoundProgram(q) /\ q.tip /\ q.kind = p.kind
  <1>1. n \in Nat /\ \A i \in 1 .. n : us[i] \in Update
    BY DEF IsBatch
  <1>2. PICK a : /\ apply_updates(p, us) = a[n]
                 /\ a[0] = Done(p)
                 /\ \A i \in 1 .. n : a[i] = apply_next(a[i - 1], us[i])
    BY <1>1, ApplyUpdates
  <1> DEFINE Bad == {i \in 0 .. n : ~Good(a[i].p)}
  <1> HIDE DEF n
  <1>3. Bad = {}
    <2> SUFFICES ASSUME Bad # {} PROVE FALSE
      OBVIOUS
    <2>a. Bad \in SUBSET Nat
      BY <1>1
    <2>1. PICK i \in Bad : \A j \in Bad : i <= j
      <3> HIDE DEF Bad
      <3> QED  BY <2>a, Least
    <2>2. i \in 0 .. n /\ ~Good(a[i].p)
      BY <2>1
    <2>3. i # 0
      BY <1>2, <2>2 DEF Done
    <2>4. i \in 1 .. n /\ i - 1 \in 0 .. n /\ i - 1 \notin Bad
      BY <1>1, <2>1, <2>2, <2>3
    <2>5. Good(a[i - 1].p)
      BY <2>4
    <2>6. Good(apply_next(a[i - 1], us[i]).p)
      BY <1>1, <2>4, <2>5, NextSound
    <2> QED  BY <1>2, <2>2, <2>4, <2>6
  <1>4. n \in 0 .. n
    BY <1>1
  <1>5. Good(a[n].p)
    BY <1>3, <1>4
  <1> QED  BY <1>2, <1>5

\* What a call consists of.
LEMMA CallType ==
  ASSUME NEW c \in Calls
  PROVE  /\ c.op \in {"start", "commit", "commit dump_changes", "rollback", "clear", "apply_updates"}
         /\ c.op = "apply_updates" => IsBatch(c.us) /\ Len(c.us) >= 1
  <1>1. CASE c \in [op : {"start", "commit", "commit dump_changes", "rollback", "clear"}]
    BY <1>1
  <1>2. CASE c \in [op : {"apply_updates"}, us : UNION {[1 .. n -> Update] : n \in 1 .. MaxBatch}]
    <2>1. PICK n \in 1 .. MaxBatch : c.us \in [1 .. n -> Update]
      BY <1>2
    <2>2. n \in Nat /\ n >= 1
      BY <2>1, RecorderAssumption
    <2>3. c.us \in Seq(Update) /\ Len(c.us) = n
      BY <2>1, <2>2
    <2> QED  BY <1>2, <2>1, <2>2, <2>3 DEF IsBatch
  <1> QED  BY <1>1, <1>2 DEF Calls

\* Every call leaves a sound program, whether or not it succeeds.
LEMMA ExecuteSound ==
  ASSUME KeyPreserving, NEW p, SoundProgram(p), NEW c \in Calls
  PROVE  SoundProgram(Execute(p, c).p)
  <1>1. /\ p \in [kind : Kind, s : AnyElements, ds : ZSet, tip : BOOLEAN, saved : AnyElements]
        /\ Sound(p.kind, p.s) /\ Finite(p.kind, p.s)
        /\ Sound(p.kind, p.saved) /\ Finite(p.kind, p.saved)
    BY DEF SoundProgram
  <1>2. Fail(p).p = p
    BY DEF Fail
  <1>3. /\ Sound(p.kind, NoElements(p.kind)) /\ Finite(p.kind, NoElements(p.kind))
        /\ NoElements(p.kind) \in AnyElements
    BY <1>1, NoElementsSound, NoElementsFinite, SoundAny
  <1>4. EmptyZSet \in ZSet
    BY DEF EmptyZSet, ZSet
  <1>5. c.op \in {"start", "commit", "commit dump_changes", "rollback", "clear", "apply_updates"}
    BY CallType
  <1>6. ASSUME c.op = "start", ~p.tip
        PROVE  SoundProgram(Execute(p, c).p)
    <2> DEFINE q == [p EXCEPT !.tip = TRUE, !.saved = p.s]
    <2>1. Execute(p, c).p = q
      BY <1>6 DEF Execute, transaction_start, Done
    <2>2. /\ q.kind = p.kind /\ q.s = p.s /\ q.saved = p.s /\ q.tip
          /\ q \in [kind : Kind, s : AnyElements, ds : ZSet, tip : BOOLEAN, saved : AnyElements]
      BY <1>1
    <2> HIDE DEF q
    <2> QED  BY <1>1, <2>1, <2>2 DEF SoundProgram
  <1>7. ASSUME NEW s \in {p.s, p.saved}
        PROVE  SoundProgram(Ended(p, s))
    <2> DEFINE q == Ended(p, s)
    <2>1. /\ q.kind = p.kind /\ q.s = s /\ q.saved = NoElements(p.kind) /\ q.ds = EmptyZSet
          /\ q \in [kind : Kind, s : AnyElements, ds : ZSet, tip : BOOLEAN, saved : AnyElements]
      BY <1>1, <1>3, <1>4 DEF Ended
    <2> HIDE DEF q
    <2>2. SoundProgram(q)
      BY <1>1, <1>3, <2>1 DEF SoundProgram
    <2> QED  BY <2>2 DEF q
  <1>8. ASSUME c.op = "clear", p.tip, p.kind # "Stream"
        PROVE  SoundProgram(Execute(p, c).p)
    <2> DEFINE ds == [v \in Value |-> p.ds[v] - Contents(p.kind, p.s)[v]]
               q == [p EXCEPT !.s = NoElements(p.kind), !.ds = ds]
    <2>1. Execute(p, c).p = q
      BY <1>1, <1>8 DEF Execute, clear_relation, Done
    <2>2. ds \in ZSet
      <3>1. Contents(p.kind, p.s) \in ZSet
        BY <1>1, ContentsType
      <3> QED  BY <1>1, <3>1 DEF ZSet
    <2> HIDE DEF ds
    <2>3. /\ q.kind = p.kind /\ q.s = NoElements(p.kind) /\ q.saved = p.saved /\ q.tip
          /\ q \in [kind : Kind, s : AnyElements, ds : ZSet, tip : BOOLEAN, saved : AnyElements]
      BY <1>1, <1>3, <1>8, <2>2
    <2> HIDE DEF q
    <2> QED  BY <1>1, <1>3, <2>1, <2>3 DEF SoundProgram
  <1>9. ASSUME c.op = "apply_updates", p.tip
        PROVE  SoundProgram(Execute(p, c).p)
    BY <1>9, CallType, BatchSound DEF Execute
  <1>10. CASE c.op = "start"
    BY <1>2, <1>6, <1>10 DEF Execute, transaction_start
  <1>11. CASE c.op \in {"commit", "commit dump_changes"}
    BY <1>2, <1>7, <1>11 DEF Execute, transaction_commit, Done
  <1>12. CASE c.op = "rollback"
    BY <1>2, <1>7, <1>12 DEF Execute, transaction_rollback, Done
  <1>13. CASE c.op = "clear"
    BY <1>2, <1>8, <1>13 DEF Execute, clear_relation
  <1>14. CASE c.op = "apply_updates"
    BY <1>2, <1>9, <1>14 DEF Execute, apply_updates
  <1> QED  BY <1>5, <1>10, <1>11, <1>12, <1>13, <1>14

-----------------------------------------------------------------------------
(* Snapshots *)

\* A stored relation is determined by its contents.
LEMMA ContentsDetermine ==
  ASSUME NEW kd \in Kind, kd # "Stream", NEW s, NEW t, Sound(kd, s), Sound(kd, t),
         \A v \in Value : Contents(kd, s)[v] = Contents(kd, t)[v]
  PROVE  s = t
  <1>1. CASE kd = "Indexed"
    <2>1. s \in IndexedValSet /\ WellKeyed(s) /\ t \in IndexedValSet /\ WellKeyed(t)
      BY <1>1 DEF Sound, Elements
    <2>2. \A v \in Value : s[KeyOf[v]] = v <=> t[KeyOf[v]] = v
      <3>1. \A v \in Value : /\ Contents(kd, s)[v] = IF s[KeyOf[v]] = v THEN 1 ELSE 0
                             /\ Contents(kd, t)[v] = IF t[KeyOf[v]] = v THEN 1 ELSE 0
        BY <1>1, <2>1, IndexedContents
      <3> QED  BY <3>1
    <2>3. ASSUME NEW k \in Key
          PROVE  s[k] = t[k]
      <3>1. s[k] # None => t[k] = s[k]
        BY <2>1, <2>2 DEF IndexedValSet, WellKeyed
      <3>2. t[k] # None => t[k] = s[k]
        BY <2>1, <2>2 DEF IndexedValSet, WellKeyed
      <3> QED  BY <3>1, <3>2
    <2> QED  BY <2>1, <2>3 DEF IndexedValSet
  <1>2. CASE kd # "Indexed"
    <2>1. s \in ZSet /\ t \in ZSet /\ \A v \in Value : s[v] = t[v]
      BY <1>2 DEF Sound, Elements, Contents, Kind, ZSet, ValSet
    <2> QED  BY <2>1 DEF ZSet
  <1> QED  BY <1>1, <1>2

Size(k) == IF k >= 0 THEN k ELSE -k

\* The line a snapshot of w has for a value.
LineFor(w, v) == IF w[v] >= 0 THEN Insert(v) ELSE DeleteValue(v)

\* A line of a snapshot is replayed as an insertion or a deletion: the relation that is rebuilt
\* does not hold all copies of the value yet, and no value that the snapshot does not have and
\* that may occupy its key.
LEMMA LineApplies ==
  ASSUME NEW kd \in Kind, kd # "Stream", NEW s, Sound(kd, s), NEW t, Sound(kd, t),
         NEW ds \in ZSet, NEW v \in Value,
         NEW w, w = Contents(kd, s),
         Size(Contents(kd, t)[v]) < Size(w[v]),
         \A x \in Value : Contents(kd, t)[x] # 0 => w[x] # 0
  PROVE  LET res == apply_update(kd, t, ds, LineFor(w, v))
         IN  res.ok /\ res.ds = IF w[v] >= 0 THEN delta_inc(ds, v) ELSE delta_dec(ds, v)
  <1>1. w \in ZSet /\ Contents(kd, t) \in ZSet /\ SoundContents(kd, w) /\ SoundContents(kd, Contents(kd, t))
    BY ContentsType, ContentsSound
  <1>2. w[v] \in Int /\ Contents(kd, t)[v] \in Int
    BY <1>1 DEF ZSet
  <1>3. CASE kd = "Multiset"
    BY <1>3 DEF apply_update, mset_update, Ok, LineFor, Insert, DeleteValue
  <1>4. CASE kd \in {"Flat", "Indexed"}
    <2>1. w[v] \in {0, 1} /\ Contents(kd, t)[v] \in {0, 1}
      BY <1>1, <1>4 DEF SoundContents
    <2>2. w[v] = 1 /\ Contents(kd, t)[v] = 0
      BY <2>1 DEF Size
    <2>3. CASE kd = "Flat"
      <3>1. t[v] = 0
        BY <2>2, <2>3 DEF Contents
      <3> QED  BY <2>2, <2>3, <3>1 DEF apply_update, set_update, Ok, LineFor, Insert
    <2>4. CASE kd = "Indexed"
      <3>1. t \in IndexedValSet /\ WellKeyed(t) /\ KeyOf[v] \in Key
        BY <2>4, ValueAssumption DEF Sound, Elements
      <3>2. \A x \in Value : Contents(kd, t)[x] = IF t[KeyOf[x]] = x THEN 1 ELSE 0
        BY <2>4, <3>1, IndexedContents
      <3>3. ASSUME t[KeyOf[v]] # None
            PROVE  FALSE
        <4> DEFINE x == t[KeyOf[v]]
        <4>1. x \in Value /\ KeyOf[x] = KeyOf[v]
          BY <3>1, <3>3 DEF IndexedValSet, WellKeyed
        <4>2. Contents(kd, t)[x] = 1
          BY <3>2, <4>1
        <4> HIDE DEF x
        <4>3. w[x] = 1
          BY <1>1, <1>4, <4>1, <4>2 DEF SoundContents
        <4>4. x = v
          BY <1>1, <2>2, <2>4, <4>1, <4>3 DEF SoundContents
        <4> QED  BY <2>2, <4>2, <4>4
      <3> QED  BY <2>2, <2>4, <3>3 DEF apply_update, indexed_set_update, Ok, LineFor, Insert
    <2> QED  BY <1>4, <2>3, <2>4
  <1> QED  BY <1>3, <1>4 DEF Kind

\* The copies a snapshot writes.
LEMMA CopiesAre ==
  ASSUME NEW w \in ZSet
  PROVE  /\ \A x \in Copies(w) : x = <<x[1], x[2]>> /\ x[1] \in Value /\ x[2] \in 1 .. Size(w[x[1]])
         /\ \A v \in Value : \A i \in 1 .. Size(w[v]) : <<v, i>> \in Copies(w)
  BY DEF Copies, Size

\* A relation that holds finitely many values has finitely many copies to write.
LEMMA CopiesFinite ==
  ASSUME NEW w \in ZSet, IsFiniteSet({v \in Value : w[v] # 0})
  PROVE  IsFiniteSet(Copies(w))
  <1> DEFINE V == {v \in Value : w[v] # 0}
             f == [v \in V |-> {v} \X (1 .. Size(w[v]))]
             R == {f[v] : v \in V}
  <1>1. f \in Surjection(V, R)
    BY DEF Surjection
  <1>2. IsFiniteSet(R)
    BY <1>1, FS_Surjection
  <1>3. ASSUME NEW v \in V
        PROVE  IsFiniteSet(f[v])
    <2>1. 1 \in Int /\ Size(w[v]) \in Int
      BY DEF ZSet, Size
    <2>2. IsFiniteSet({v}) /\ IsFiniteSet(1 .. Size(w[v]))
      BY <2>1, FS_Singleton, FS_Interval
    <2>3. IsFiniteSet({v} \X (1 .. Size(w[v])))
      BY <2>2, FS_Product
    <2> QED  BY <2>3
  <1>4. IsFiniteSet(UNION R)
    <2>1. \A T \in R : IsFiniteSet(T)
      BY <1>3
    <2> HIDE DEF R
    <2> QED  BY <1>2, <2>1, FS_UNION
  <1>5. Copies(w) \subseteq UNION R
    <2> SUFFICES ASSUME NEW x \in Copies(w) PROVE x \in UNION R
      OBVIOUS
    <2>1. PICK v \in Value : x \in {v} \X (1 .. Size(w[v]))
      BY DEF Copies, Size
    <2>2. w[v] # 0
      BY <2>1 DEF Size
    <2> QED  BY <2>1, <2>2
  <1> HIDE DEF R
  <1> QED  BY <1>4, <1>5, FS_Subset

\* An order writes every copy once.
LEMMA OrderCovers ==
  ASSUME NEW w \in ZSet, IsFiniteSet({v \in Value : w[v] # 0}), NEW order \in Orders(w)
  PROVE  LET n == Cardinality(Copies(w))
         IN  /\ n \in Nat
             /\ order \in [1 .. n -> Copies(w)]
             /\ \A i, j \in 1 .. n : i # j => order[i] # order[j]
             /\ \A x \in Copies(w) : \E i \in 1 .. n : order[i] = x
  <1> DEFINE n == Cardinality(Copies(w))
  <1>1. IsFiniteSet(Copies(w))
    BY CopiesFinite
  <1>2. n \in Nat
    BY <1>1, FS_CardinalityType
  <1>3. order \in [1 .. n -> Copies(w)] /\ \A i, j \in 1 .. n : i # j => order[i] # order[j]
    BY DEF Orders, SetToSeqs
  <1>4. order \in Injection(1 .. n, Copies(w))
    BY <1>3 DEF Injection, IsInjective
  <1>5. Cardinality(1 .. n) = n
    <2>1. 1 \in Int /\ n \in Int
      BY <1>2
    <2> HIDE DEF n
    <2>2. Cardinality(1 .. n) = IF 1 > n THEN 0 ELSE n - 1 + 1
      BY <2>1, FS_Interval
    <2> QED  BY <1>2, <2>2
  <1>6. order \in Surjection(1 .. n, Copies(w))
    BY <1>1, <1>4, <1>5, FS_Injection
  <1> QED  BY <1>2, <1>3, <1>6 DEF Surjection

\* After some lines of a snapshot, m copies of a value are written: the first ones.
Written(order, j, v, m) ==
    \A i \in Nat \ {0} : (\E l \in 1 .. j : order[l] = <<v, i>>) <=> i <= m

\* The relation rebuilt from these lines holds as much of every value.
Rebuilt(w, order, j, q) ==
    \A v \in Value : \E m \in Nat :
        /\ Contents(q.kind, q.s)[v] = IF w[v] >= 0 THEN m ELSE -m
        /\ Written(order, j, v, m)

\* The next line of a snapshot writes the next copy of its value.
LEMMA NextCopy ==
  ASSUME NEW w \in ZSet, IsFiniteSet({v \in Value : w[v] # 0}), NEW order \in Orders(w),
         NEW j \in 1 .. Cardinality(Copies(w)), NEW m \in Nat,
         Written(order, j - 1, order[j][1], m)
  PROVE  /\ order[j][2] = m + 1
         /\ Written(order, j, order[j][1], m + 1)
  <1> DEFINE n == Cardinality(Copies(w))
             v == order[j][1]
             i == order[j][2]
  <1>1. /\ n \in Nat
        /\ order \in [1 .. n -> Copies(w)]
        /\ \A k, l \in 1 .. n : k # l => order[k] # order[l]
    BY OrderCovers
  <1>2. order[j] \in Copies(w) /\ order[j] = <<v, i>> /\ i \in Nat /\ i >= 1
    <2>1. order[j] \in Copies(w)
      BY <1>1
    <2>2. order[j] = <<v, i>> /\ i \in 1 .. Size(w[v])
      BY <2>1, CopiesAre
    <2> QED  BY <2>1, <2>2
  <1>3. i > 1 => j > 1 /\ order[j - 1] = <<v, i - 1>>
    BY <1>1 DEF Orders
  <1> HIDE DEF n, v, i
  <1>4. j \in Nat /\ j >= 1 /\ j \in 1 .. n
    BY <1>1 DEF n
  <1>5. \A k \in Nat \ {0} : (\E l \in 1 .. j - 1 : order[l] = <<v, k>>) <=> k <= m
    BY DEF Written, v
  <1>6. ~(i <= m)
    <2> SUFFICES ASSUME i <= m PROVE FALSE
      OBVIOUS
    <2>1. PICK l \in 1 .. j - 1 : order[l] = <<v, i>>
      BY <1>2, <1>5
    <2>2. l \in 1 .. n /\ l # j
      BY <1>1, <1>4, <2>1
    <2> QED  BY <1>1, <1>2, <1>4, <2>1, <2>2
  <1>7. i - 1 <= m
    <2>1. CASE i = 1
      BY <2>1
    <2>2. CASE i > 1
      <3>1. j - 1 \in 1 .. j - 1 /\ order[j - 1] = <<v, i - 1>> /\ i - 1 \in Nat \ {0}
        BY <1>2, <1>3, <1>4, <2>2
      <3> QED  BY <1>5, <3>1
    <2> QED  BY <1>2, <2>1, <2>2
  <1>8. i = m + 1
    BY <1>2, <1>6, <1>7
  <1>9. \A k \in Nat \ {0} : (\E l \in 1 .. j : order[l] = <<v, k>>) <=> k <= m + 1
    <2> SUFFICES ASSUME NEW k \in Nat \ {0}
                 PROVE  (\E l \in 1 .. j : order[l] = <<v, k>>) <=> k <= m + 1
      OBVIOUS
    <2>1. CASE k = m + 1
      BY <1>2, <1>4, <1>8, <2>1
    <2>2. CASE k # m + 1
      <3>1. order[j] # <<v, k>>
        BY <1>2, <1>8, <2>2
      <3>2. (\E l \in 1 .. j : order[l] = <<v, k>>) <=> (\E l \in 1 .. j - 1 : order[l] = <<v, k>>)
        BY <1>4, <3>1
      <3>3. k <= m + 1 <=> k <= m
        BY <2>2
      <3> QED  BY <1>5, <3>2, <3>3
    <2> QED  BY <2>1, <2>2
  <1> QED  BY <1>8, <1>9 DEF Written, v, i

\* It writes no copy of another value.
LEMMA OtherCopies ==
  ASSUME NEW order, NEW j \in Nat \ {0}, NEW x, NEW m \in Nat,
         NEW v, NEW k, order[j] = <<v, k>>, x # v, Written(order, j - 1, x, m)
  PROVE  Written(order, j, x, m)
  <1> SUFFICES ASSUME NEW i \in Nat \ {0}
               PROVE  (\E l \in 1 .. j : order[l] = <<x, i>>) <=> i <= m
    BY DEF Written
  <1>1. order[j] # <<x, i>>
    OBVIOUS
  <1>2. (\E l \in 1 .. j : order[l] = <<x, i>>) <=> (\E l \in 1 .. j - 1 : order[l] = <<x, i>>)
    BY <1>1
  <1> QED  BY <1>2 DEF Written

\* In the end all copies of a value are written.
LEMMA AllCopies ==
  ASSUME NEW w \in ZSet, IsFiniteSet({v \in Value : w[v] # 0}), NEW order \in Orders(w),
         NEW v \in Value, NEW m \in Nat, Written(order, Cardinality(Copies(w)), v, m)
  PROVE  m = Size(w[v])
  <1> DEFINE n == Cardinality(Copies(w))
  <1>1. /\ n \in Nat
        /\ order \in [1 .. n -> Copies(w)]
        /\ \A x \in Copies(w) : \E i \in 1 .. n : order[i] = x
    BY OrderCovers
  <1>2. \A i \in Nat \ {0} : <<v, i>> \in Copies(w) <=> i <= m
    BY <1>1 DEF Written
  <1>3. \A i \in Nat \ {0} : <<v, i>> \in Copies(w) <=> i <= Size(w[v])
    BY DEF Copies, Size, ZSet
  <1>4. Size(w[v]) \in Nat
    BY DEF Size, ZSet
  <1>5. \A i \in Nat \ {0} : i <= m <=> i <= Size(w[v])
    BY <1>2, <1>3
  <1>6. m # 0 => m <= Size(w[v])
    BY <1>5
  <1>7. Size(w[v]) # 0 => Size(w[v]) <= m
    BY <1>4, <1>5
  <1> QED  BY <1>4, <1>6, <1>7

\* The programs a snapshot goes through when it is replayed.
Rebuilding(p, order, j, acc) ==
    /\ acc.ok
    /\ SoundProgram(acc.p) /\ acc.p.tip /\ acc.p.kind = p.kind
    /\ Rebuilt(Contents(p.kind, p.s), order, j, acc.p)

\* The next line of a snapshot succeeds and adds its copy.
LEMMA RebuildLine ==
  ASSUME KeyPreserving, NEW p, SoundProgram(p), p.kind # "Stream",
         NEW w, w = Contents(p.kind, p.s), NEW order \in Orders(w),
         NEW j \in 1 .. Cardinality(Copies(w)), NEW acc, Rebuilding(p, order, j - 1, acc)
  PROVE  Rebuilding(p, order, j, apply_next(acc, LineFor(w, order[j][1])))
  <1> DEFINE kd == p.kind
             q == acc.p
             v == order[j][1]
             u == LineFor(w, v)
             res == apply_update(q.kind, q.s, q.ds, u)
             nxt == apply_next(acc, u)
             C == Contents(kd, q.s)
             D == Contents(kd, res.s)
  <1>1. /\ kd \in Kind /\ kd # "Stream" /\ Sound(kd, p.s) /\ w \in ZSet
        /\ IsFiniteSet({x \in Value : w[x] # 0})
    BY ContentsType DEF SoundProgram, Finite
  <1>2. acc.ok /\ SoundProgram(q) /\ q.tip /\ q.kind = kd /\ Rebuilt(w, order, j - 1, q)
    BY DEF Rebuilding
  <1>3. Sound(kd, q.s) /\ q.ds \in ZSet
    BY <1>2 DEF SoundProgram
  <1>4. /\ Cardinality(Copies(w)) \in Nat
        /\ order \in [1 .. Cardinality(Copies(w)) -> Copies(w)]
    BY <1>1, OrderCovers
  <1>5. /\ order[j] \in Copies(w) /\ order[j] = <<v, order[j][2]>>
        /\ v \in Value /\ order[j][2] \in 1 .. Size(w[v])
    <2>1. order[j] \in Copies(w)
      BY <1>4
    <2> QED  BY <1>1, <2>1, CopiesAre
  <1>6. u \in Update
    BY <1>5 DEF LineFor, Insert, DeleteValue, Update
  <1>7. \A x \in Value : \E m \in Nat :
            C[x] = (IF w[x] >= 0 THEN m ELSE -m) /\ Written(order, j - 1, x, m)
    BY <1>2 DEF Rebuilt
  <1>8. PICK m \in Nat : C[v] = (IF w[v] >= 0 THEN m ELSE -m) /\ Written(order, j - 1, v, m)
    BY <1>5, <1>7
  <1>9. order[j][2] = m + 1 /\ Written(order, j, v, m + 1)
    BY <1>1, <1>8, NextCopy
  <1>10. w[v] \in Int /\ Size(C[v]) < Size(w[v])
    <2>1. w[v] \in Int
      BY <1>1, <1>5 DEF ZSet
    <2>2. m + 1 <= Size(w[v])
      BY <1>5, <1>9, <2>1 DEF Size
    <2>3. Size(C[v]) = m
      BY <1>8 DEF Size
    <2> HIDE DEF C
    <2> QED  BY <2>1, <2>2, <2>3 DEF Size
  <1>11. ASSUME NEW x \in Value, C[x] # 0
         PROVE  w[x] # 0
    <2>1. PICK k \in Nat : C[x] = (IF w[x] >= 0 THEN k ELSE -k) /\ Written(order, j - 1, x, k)
      BY <1>7
    <2>2. k >= 1
      BY <1>11, <2>1
    <2>3. PICK l \in 1 .. j - 1 : order[l] = <<x, 1>>
      <3>1. \A i \in Nat \ {0} : (\E l \in 1 .. j - 1 : order[l] = <<x, i>>) <=> i <= k
        BY <2>1 DEF Written
      <3>2. 1 \in Nat \ {0}
        OBVIOUS
      <3> QED  BY <2>2, <3>1, <3>2
    <2>4. <<x, 1>> \in Copies(w)
      BY <1>4, <2>3
    <2>5. 1 \in 1 .. Size(w[x])
      BY <1>1, <2>4 DEF Copies, Size
    <2> QED  BY <2>5 DEF Size
  <1>12. res.ok /\ res.ds = IF w[v] >= 0 THEN delta_inc(q.ds, v) ELSE delta_dec(q.ds, v)
    BY <1>1, <1>2, <1>3, <1>5, <1>10, <1>11, LineApplies
  <1>13. UpdateKeeps(kd, q.s, q.ds, res)
    BY <1>1, <1>2, <1>3, <1>6, ApplyUpdate
  <1>14. \A x \in Value : D[x] - res.ds[x] = C[x] - q.ds[x]
    BY <1>1, <1>13 DEF UpdateKeeps
  <1>15. C \in ZSet /\ D \in ZSet
    BY <1>1, <1>3, <1>13, ContentsType DEF UpdateKeeps
  <1>16. \A x \in Value : D[x] = IF x = v THEN (IF w[v] >= 0 THEN m + 1 ELSE -(m + 1)) ELSE C[x]
    <2> HIDE DEF C, D, res, u
    <2>1. \A x \in Value :
             res.ds[x] = IF x = v THEN (IF w[v] >= 0 THEN q.ds[x] + 1 ELSE q.ds[x] - 1) ELSE q.ds[x]
      BY <1>3, <1>5, <1>12 DEF delta_inc, delta_dec, ZSet
    <2>2. \A x \in Value : q.ds[x] \in Int /\ C[x] \in Int /\ D[x] \in Int
      BY <1>3, <1>15 DEF ZSet
    <2> QED  BY <1>8, <1>14, <2>1, <2>2
  <1>17. /\ nxt.ok /\ nxt.p.s = res.s
         /\ SoundProgram(nxt.p) /\ nxt.p.tip /\ nxt.p.kind = kd
    <2>1. nxt = [p |-> [q EXCEPT !.s = res.s, !.ds = res.ds], ok |-> res.ok]
      BY <1>2 DEF apply_next
    <2>2. nxt.ok
      BY <1>12, <2>1
    <2>3. nxt.p.s = res.s
      <3>1. q \in [kind : Kind, s : AnyElements, ds : ZSet, tip : BOOLEAN, saved : AnyElements]
        BY <1>2 DEF SoundProgram
      <3> HIDE DEF q, res, nxt
      <3> QED  BY <2>1, <3>1
    <2>4. SoundProgram(nxt.p) /\ nxt.p.tip /\ nxt.p.kind = q.kind
      BY <1>2, <1>6, NextSound
    <2> QED  BY <1>2, <2>2, <2>3, <2>4
  <1>18. ASSUME NEW x \in Value
         PROVE  \E k \in Nat : D[x] = (IF w[x] >= 0 THEN k ELSE -k) /\ Written(order, j, x, k)
    <2>1. CASE x = v
      <3>1. D[x] = (IF w[x] >= 0 THEN m + 1 ELSE -(m + 1)) /\ Written(order, j, x, m + 1)
        BY <1>9, <1>16, <2>1
      <3> QED  BY <3>1
    <2>2. CASE x # v
      <3>1. PICK k \in Nat : C[x] = (IF w[x] >= 0 THEN k ELSE -k) /\ Written(order, j - 1, x, k)
        BY <1>7
      <3>2. j \in Nat \ {0}
        BY <1>4
      <3>3. Written(order, j, x, k)
        BY <1>5, <2>2, <3>1, <3>2, OtherCopies
      <3>4. D[x] = C[x]
        BY <1>16, <2>2
      <3> QED  BY <3>1, <3>3, <3>4
    <2> QED  BY <2>1, <2>2
  <1>19. Rebuilt(w, order, j, nxt.p)
    <2> HIDE DEF nxt, res
    <2> QED  BY <1>17, <1>18 DEF Rebuilt
  <1> QED  BY <1>17, <1>19 DEF Rebuilding

\* Before its first line nothing is rebuilt.
LEMMA RebuildNothing ==
  ASSUME NEW p, SoundProgram(p), NEW order, NEW q, q = transaction_start(NewProgram(p.kind)).p
  PROVE  Rebuilding(p, order, 0, Done(q)) /\ q.tip
  <1> DEFINE kd == p.kind
             n == NewProgram(kd)
  <1>1. kd \in Kind
    BY DEF SoundProgram
  <1>2. /\ n \in [kind : Kind, s : AnyElements, ds : ZSet, tip : BOOLEAN, saved : AnyElements]
        /\ SoundProgram(n) /\ n.kind = kd /\ n.s = NoElements(kd) /\ ~n.tip
    BY <1>1, NewSound DEF SoundProgram, NewProgram
  <1>3. q = [n EXCEPT !.tip = TRUE, !.saved = n.s]
    BY <1>2 DEF transaction_start, Done
  <1> HIDE DEF n
  <1>4. /\ q \in [kind : Kind, s : AnyElements, ds : ZSet, tip : BOOLEAN, saved : AnyElements]
        /\ q.kind = kd /\ q.s = n.s /\ q.saved = n.s /\ q.tip
    BY <1>2, <1>3
  <1>5. SoundProgram(q)
    BY <1>2, <1>4 DEF SoundProgram
  <1>6. ASSUME NEW v \in Value
        PROVE  Contents(q.kind, q.s)[v] = 0 /\ Written(order, 0, v, 0)
    <2>1. Contents(kd, NoElements(kd))[v] = 0
      BY <1>1, NoElementsSound DEF EmptyZSet
    <2> QED  BY <1>2, <1>4, <2>1 DEF Written
  <1>7. Rebuilt(Contents(kd, p.s), order, 0, q)
    <2>1. \A v \in Value : Contents(q.kind, q.s)[v] = IF Contents(kd, p.s)[v] >= 0 THEN 0 ELSE -0
      BY <1>6
    <2> QED  BY <1>6, <2>1 DEF Rebuilt
  <1> QED  BY <1>4, <1>5, <1>7 DEF Rebuilding, Done

\* Replayed by a new program in a transaction, the lines of a snapshot succeed, and the commit
\* after them makes it the program of which the snapshot was taken.
LEMMA SnapshotReplays ==
  ASSUME KeyPreserving, NEW p, SoundProgram(p), p.kind # "Stream", ~p.tip,
         NEW w, w = Contents(p.kind, p.s), NEW order \in Orders(w),
         NEW us, us = Updates(Snapshot(w, order)),
         NEW q, q = transaction_start(NewProgram(p.kind)).p
  PROVE  /\ apply_updates(q, us).ok
         /\ transaction_commit(apply_updates(q, us).p) = Done(p)
         /\ us = <<>> => apply_updates(q, us) = Done(q)
  <1> DEFINE n == Cardinality(Copies(w))
  <1>1. /\ p.kind \in Kind /\ Sound(p.kind, p.s) /\ w \in ZSet
        /\ IsFiniteSet({x \in Value : w[x] # 0})
    BY ContentsType DEF SoundProgram, Finite
  <1>2. n \in Nat /\ order \in [1 .. n -> Copies(w)]
    BY <1>1, OrderCovers
  <1>3. Len(us) = n /\ \A i \in 1 .. n : us[i] = LineFor(w, order[i][1])
    BY <1>2 DEF Updates, Snapshot, LineFor
  <1>4. Rebuilding(p, order, 0, Done(q)) /\ q.tip
    BY RebuildNothing
  <1>a. PICK a : /\ apply_updates(q, us) = a[Len(us)]
                 /\ a[0] = Done(q)
                 /\ \A i \in 1 .. Len(us) : a[i] = apply_next(a[i - 1], us[i])
    <2>1. Len(us) \in Nat
      BY <1>2, <1>3
    <2> QED  BY <1>4, <2>1, ApplyUpdates
  <1>5. /\ apply_updates(q, us) = a[n]
        /\ a[0] = Done(q)
        /\ \A i \in 1 .. n : a[i] = apply_next(a[i - 1], us[i])
    BY <1>3, <1>a
  <1> DEFINE Bad == {i \in 0 .. n : ~Rebuilding(p, order, i, a[i])}
  <1>6. Bad = {}
    <2> SUFFICES ASSUME Bad # {} PROVE FALSE
      OBVIOUS
    <2>a. Bad \in SUBSET Nat
      BY <1>2
    <2>1. PICK i \in Bad : \A j \in Bad : i <= j
      <3> HIDE DEF Bad
      <3> QED  BY <2>a, Least
    <2>2. i \in 0 .. n /\ ~Rebuilding(p, order, i, a[i])
      BY <2>1
    <2>3. i # 0
      BY <1>4, <1>5, <2>2
    <2>4. i \in 1 .. n /\ i - 1 \in 0 .. n /\ i - 1 \notin Bad
      <3> HIDE DEF n
      <3> QED  BY <1>2, <2>1, <2>2, <2>3
    <2>5. Rebuilding(p, order, i - 1, a[i - 1])
      BY <2>4
    <2>6. Rebuilding(p, order, i, apply_next(a[i - 1], LineFor(w, order[i][1])))
      BY <2>4, <2>5, RebuildLine
    <2> QED  BY <1>3, <1>5, <2>2, <2>4, <2>6
  <1>7. Rebuilding(p, order, n, a[n])
    <2>1. n \in 0 .. n
      BY <1>2
    <2> QED  BY <1>6, <2>1
  <1> DEFINE r == a[n].p
  <1>8. a[n].ok /\ SoundProgram(r) /\ r.tip /\ r.kind = p.kind /\ Rebuilt(w, order, n, r)
    BY <1>7 DEF Rebuilding
  <1>9. ASSUME NEW v \in Value
        PROVE  Contents(p.kind, r.s)[v] = Contents(p.kind, p.s)[v]
    <2>1. PICK m \in Nat : Contents(p.kind, r.s)[v] = (IF w[v] >= 0 THEN m ELSE -m)
                           /\ Written(order, n, v, m)
      BY <1>8 DEF Rebuilt
    <2>2. m = Size(w[v])
      BY <1>1, <2>1, AllCopies
    <2>3. w[v] \in Int
      BY <1>1 DEF ZSet
    <2> QED  BY <2>1, <2>2, <2>3 DEF Size
  <1>10. r.s = p.s
    <2>1. Sound(p.kind, r.s)
      BY <1>8 DEF SoundProgram
    <2> QED  BY <1>1, <1>9, <2>1, ContentsDetermine
  <1>11. Ended(r, r.s) = p
    <2>1. r \in [kind : Kind, s : AnyElements, ds : ZSet, tip : BOOLEAN, saved : AnyElements]
      BY <1>8 DEF SoundProgram
    <2>2. /\ p \in [kind : Kind, s : AnyElements, ds : ZSet, tip : BOOLEAN, saved : AnyElements]
          /\ p.tip = FALSE /\ p.ds = EmptyZSet /\ p.saved = NoElements(p.kind)
      BY DEF SoundProgram
    <2>3. Ended(r, r.s) = [r EXCEPT !.tip = FALSE, !.ds = EmptyZSet, !.s = p.s, !.saved = NoElements(p.kind)]
      BY <1>8, <1>10 DEF Ended
    <2> HIDE DEF r
    <2> QED  BY <1>8, <1>10, <2>1, <2>2, <2>3
  <1>12. transaction_commit(r) = Done(p)
    BY <1>8, <1>11 DEF transaction_commit
  <1>13. us = <<>> => n = 0
    BY <1>3
  <1> QED  BY <1>5, <1>8, <1>12, <1>13

-----------------------------------------------------------------------------
(* Reading a file *)

\* The CLI takes the next command from the rest of a file.
LEMMA ReadFile ==
  ASSUME NEW S, NEW f \in Seq(S), NEW j \in 1 .. Len(f)
  PROVE  /\ SubSeq(f, j, Len(f)) # <<>>
         /\ Head(SubSeq(f, j, Len(f))) = f[j]
         /\ Tail(SubSeq(f, j, Len(f))) = SubSeq(f, j + 1, Len(f))
         /\ j = Len(f) => SubSeq(f, j + 1, Len(f)) = <<>>
         /\ j < Len(f) => SubSeq(f, j + 1, Len(f)) # <<>>
  <1>1. Len(f) \in Nat /\ Len(f) \in j .. Len(f)
    BY LenProperties
  <1>2. \A i \in j .. Len(f) : f[i] \in S
    BY <1>1
  <1>3. Len(SubSeq(f, j, Len(f))) = Len(f) - j + 1
    BY <1>1, <1>2, SubSeqProperties
  <1>4. Len(SubSeq(f, j + 1, Len(f))) = IF j + 1 <= Len(f) THEN Len(f) - (j + 1) + 1 ELSE 0
    <2>1. \A i \in j + 1 .. Len(f) : f[i] \in S
      BY <1>1
    <2>2. j + 1 \in Int /\ Len(f) \in Int
      BY <1>1
    <2> QED  BY <2>1, <2>2, SubSeqProperties
  <1>5. Len(<<>>) = 0
    OBVIOUS
  <1>6. /\ Head(SubSeq(f, j, Len(f))) = f[j]
        /\ Tail(SubSeq(f, j, Len(f))) = SubSeq(f, j + 1, Len(f))
    BY <1>1, HeadTailOfSubSeq
  <1>7. j = Len(f) => SubSeq(f, j + 1, Len(f)) = <<>>
    <2>1. j + 1 \in Int /\ Len(f) \in Int /\ (j = Len(f) => Len(f) < j + 1)
      BY <1>1
    <2> QED  BY <2>1, SubSeqEmpty
  <1>8. SubSeq(f, j, Len(f)) # <<>>
    <2>1. Len(f) - j + 1 # 0
      BY <1>1
    <2> QED  BY <1>3, <1>5, <2>1, Zenon
  <1>9. j < Len(f) => SubSeq(f, j + 1, Len(f)) # <<>>
    BY <1>1, <1>4, <1>5
  <1> QED  BY <1>6, <1>7, <1>8, <1>9

\* It collects the updates it reads.
LEMMA Collect ==
  ASSUME NEW us \in Seq(Update), NEW j \in 1 .. Len(us)
  PROVE  Append(SubSeq(us, 1, j - 1), us[j]) = SubSeq(us, 1, j)
  <1>1. 1 \in 1 .. Len(us) /\ j \in 1 .. Len(us) /\ us[j] \in Update
    OBVIOUS
  <1>2. SubSeq(us, 1, j) = SubSeq(us, 1, j - 1) \o <<us[j]>>
    BY <1>1, SubSeqRecursiveSecond
  <1>3. SubSeq(us, 1, j - 1) \in Seq(Update)
    <2>1. \A i \in 1 .. j - 1 : us[i] \in Update
      OBVIOUS
    <2>2. 1 \in Int /\ j - 1 \in Int
      OBVIOUS
    <2> QED  BY <2>1, <2>2, SubSeqProperties
  <1> QED  BY <1>1, <1>2, <1>3, AppendIsConcat

\* Nothing is collected before the first.
LEMMA CollectedNothing ==
  ASSUME NEW us, NEW n \in Int, n < 1
  PROVE  SubSeq(us, 1, n) = <<>>
  BY SubSeqEmpty

\* The lines of a snapshot are updates.
LEMMA LinesType ==
  ASSUME NEW p, SoundProgram(p), NEW lines, SnapshotOf(p, lines)
  PROVE  lines \in Seq(Line)
  <1> DEFINE w == Contents(p.kind, p.s)
             n == Cardinality(Copies(w))
  <1>1. PICK order \in Orders(w) : lines = Snapshot(w, order)
    BY DEF SnapshotOf
  <1>2. w \in ZSet /\ IsFiniteSet({v \in Value : w[v] # 0})
    BY ContentsType DEF SoundProgram, Finite
  <1>3. n \in Nat /\ order \in [1 .. n -> Copies(w)]
    BY <1>2, OrderCovers
  <1>4. ASSUME NEW i \in 1 .. n
        PROVE  [op |-> "update", u |-> LineFor(w, order[i][1]), last |-> FALSE] \in Line
    <2>1. order[i] \in Copies(w)
      BY <1>3
    <2>2. order[i][1] \in Value
      BY <1>2, <2>1, CopiesAre
    <2> HIDE DEF w
    <2>3. LineFor(w, order[i][1]) \in Update
      BY <2>2 DEF LineFor, Insert, DeleteValue, Update
    <2> QED  BY <2>3 DEF Line
  <1>5. lines = [i \in 1 .. n |-> [op |-> "update", u |-> LineFor(w, order[i][1]), last |-> FALSE]]
    BY <1>1, <1>3 DEF Snapshot, LineFor
  <1>6. lines \in [1 .. n -> Line]
    <2> HIDE DEF w, n
    <2> QED  BY <1>4, <1>5
  <1> QED  BY <1>3, <1>6

\* The commands of a file that begins with a snapshot.
LEMMA FileType ==
  ASSUME NEW lines \in Seq(Line)
  PROVE  LET f == SnapshotFile(lines)
             n == Len(lines)
         IN  /\ n \in Nat
             /\ f \in Seq(Line \cup {[op |-> "start"], [op |-> "commit"]})
             /\ Len(f) = n + 2
             /\ f[1] = [op |-> "start"]
             /\ \A i \in 1 .. n : f[i + 1] = lines[i]
             /\ f[n + 2] = [op |-> "commit"]
             /\ Updates(lines) \in Seq(Update) /\ Len(Updates(lines)) = n
             /\ \A i \in 1 .. n : lines[i].op = "update" /\ ~lines[i].last
                                  /\ lines[i].u = Updates(lines)[i]
  <1> DEFINE start == [op |-> "start"]
             commit == [op |-> "commit"]
             Cmd == Line \cup {start, commit}
             n == Len(lines)
             g == <<start>> \o lines
             f == g \o <<commit>>
  <1>1. n \in Nat /\ \A i \in 1 .. n : lines[i] \in Line
    BY LenProperties
  <1>2. <<start>> \in Seq(Cmd) /\ <<commit>> \in Seq(Cmd) /\ lines \in Seq(Cmd)
    <2>1. start \in Cmd /\ commit \in Cmd /\ Line \subseteq Cmd
      OBVIOUS
    <2> HIDE DEF Cmd, start, commit
    <2> QED  BY <2>1
  <1> HIDE DEF Cmd, start, commit
  <1>3. /\ g \in Seq(Cmd) /\ Len(g) = 1 + n
        /\ \A i \in 1 .. 1 + n : g[i] = IF i <= 1 THEN <<start>>[i] ELSE lines[i - 1]
    <2>1. Len(<<start>>) = 1
      OBVIOUS
    <2> QED  BY <1>2, <2>1, ConcatProperties
  <1>4. /\ f \in Seq(Cmd) /\ Len(f) = 1 + n + 1
        /\ \A i \in 1 .. 1 + n + 1 : f[i] = IF i <= 1 + n THEN g[i] ELSE <<commit>>[i - (1 + n)]
    <2>1. Len(<<commit>>) = 1
      OBVIOUS
    <2> HIDE DEF g, n
    <2> QED  BY <1>2, <1>3, <2>1, ConcatProperties
  <1>5. f = SnapshotFile(lines)
    BY DEF SnapshotFile, start, commit
  <1> HIDE DEF f, g, n
  <1>6. f[1] = start
    <2>1. 1 \in 1 .. 1 + n /\ 1 \in 1 .. 1 + n + 1 /\ 1 <= 1 + n
      BY <1>1
    <2>2. f[1] = g[1]
      BY <1>4, <2>1
    <2>3. g[1] = <<start>>[1]
      BY <1>3, <2>1
    <2> QED  BY <2>2, <2>3
  <1>7. ASSUME NEW i \in 1 .. n PROVE f[i + 1] = lines[i]
    <2>1. i + 1 \in 1 .. 1 + n /\ i + 1 \in 1 .. 1 + n + 1 /\ i + 1 <= 1 + n /\ ~(i + 1 <= 1)
          /\ i + 1 - 1 = i
      BY <1>1
    <2> QED  BY <1>3, <1>4, <2>1
  <1>8. f[n + 2] = commit
    <2>1. n + 2 \in 1 .. 1 + n + 1 /\ ~(n + 2 <= 1 + n) /\ n + 2 - (1 + n) = 1
      BY <1>1
    <2>2. f[n + 2] = <<commit>>[n + 2 - (1 + n)]
      BY <1>1, <1>4, <2>1
    <2> QED  BY <2>1, <2>2
  <1>9. \A i \in 1 .. n : lines[i].op = "update" /\ ~lines[i].last /\ lines[i].u \in Update
    BY <1>1 DEF Line
  <1>10. Updates(lines) = [i \in 1 .. n |-> lines[i].u]
    BY <1>1 DEF Updates, n
  <1>11. Updates(lines) \in Seq(Update) /\ Len(Updates(lines)) = n
    BY <1>1, <1>9, <1>10
  <1> QED  BY <1>1, <1>4, <1>5, <1>6, <1>7, <1>8, <1>9, <1>10, <1>11 DEF n, Cmd, start, commit

-----------------------------------------------------------------------------
(* Steps of the CLI *)

\* An update that is not the last of its batch is collected.
LEMMA HandleUpdate ==
  ASSUME handle_cmd, Head(file).op = "update", ~Head(file).last
  PROVE  /\ copy' = copy /\ upds' = Append(upds, Head(file).u)
         /\ cli' = "running" /\ file' = Tail(file)
         /\ live' = live /\ stopped' = stopped
  BY DEF handle_cmd, Done

\* The last one is applied with the ones collected before.
LEMMA HandleLast ==
  ASSUME handle_cmd, Head(file).op = "update", Head(file).last,
         NEW us, us = Append(upds, Head(file).u), us # <<>>
  PROVE  LET res == apply_updates(copy, us)
         IN  /\ copy' = res.p /\ upds' = <<>>
             /\ cli' = IF res.ok THEN "running" ELSE "failed"
             /\ file' = IF res.ok THEN Tail(file) ELSE <<>>
             /\ live' = live /\ stopped' = stopped
  BY DEF handle_cmd, Done

\* Any other command executes, after the updates that are waiting.
LEMMA HandleOther ==
  ASSUME handle_cmd, Head(file).op # "update",
         NEW first, first = IF upds # <<>> THEN apply_updates(copy, upds) ELSE Done(copy), first.ok
  PROVE  LET res == Execute(first.p, Head(file))
         IN  /\ copy' = res.p /\ upds' = <<>>
             /\ cli' = IF res.ok THEN "running" ELSE "failed"
             /\ file' = IF res.ok THEN Tail(file) ELSE <<>>
             /\ live' = live /\ stopped' = stopped
  BY DEF handle_cmd

\* What the CLI does with the call that is in the file, when it has read all of it.
AfterReplay ==
    /\ live' = live /\ stopped' = stopped /\ file' = <<>>
    /\ upds' = <<>> /\ copy' = live
    /\ \/ cli' = "running" /\ stopped = {}
       \/ cli' = "failed" /\ stopped = {live}

\* A command of the CLI brings a call nearer its end, or ends it.
LEMMA HandleCall ==
  ASSUME handle_cmd, NEW c \in Calls, AtCall(c)
  PROVE  \/ AfterReplay
         \/ live' = live /\ stopped' = stopped /\ cli' = "running" /\ file' # <<>> /\ AtCall(c)'
  <1> DEFINE res == Execute(copy, c)
             us == c.us
             f == do_record_updates(us)
  <1>1. res.p = live /\ stopped = IF res.ok THEN {} ELSE {live}
    BY DEF AtCall, Repeats
  <1>2. /\ c.op \in {"start", "commit", "commit dump_changes", "rollback", "clear", "apply_updates"}
        /\ c.op = "apply_updates" => IsBatch(c.us) /\ Len(c.us) >= 1
    BY CallType
  <1>3. CASE c.op # "apply_updates"
    <2>1. file = <<c>> /\ upds = <<>>
      BY <1>3 DEF AtCall
    <2>2. Head(file) = c /\ Tail(file) = <<>> /\ c.op # "update"
      <3>1. Head(<<c>>) = c
        OBVIOUS
      <3>2. Tail(<<c>>) = <<>>
        OBVIOUS
      <3>3. c.op # "update"
        BY <1>2
      <3> QED  BY <2>1, <3>1, <3>2, <3>3
    <2>3. Done(copy).ok /\ Done(copy).p = copy
      BY DEF Done
    <2>4. /\ copy' = res.p /\ upds' = <<>>
          /\ cli' = IF res.ok THEN "running" ELSE "failed"
          /\ file' = IF res.ok THEN Tail(file) ELSE <<>>
          /\ live' = live /\ stopped' = stopped
      BY <2>1, <2>2, <2>3, HandleOther
    <2> HIDE DEF res
    <2> QED  BY <1>1, <2>2, <2>4 DEF AfterReplay
  <1>4. CASE c.op = "apply_updates"
    <2>1. PICK j \in 1 .. Len(us) : /\ upds = SubSeq(us, 1, j - 1)
                                    /\ file = SubSeq(f, j, Len(us))
      BY <1>4 DEF AtCall
    <2>2. us \in Seq(Update) /\ Len(us) \in Nat
      BY <1>2, <1>4 DEF IsBatch
    <2>3. /\ f \in Seq([op : {"update"}, u : Update, last : BOOLEAN]) /\ Len(f) = Len(us)
          /\ \A i \in 1 .. Len(us) : f[i] = [op |-> "update", u |-> us[i], last |-> i = Len(us)]
      <3>1. f = [i \in 1 .. Len(us) |-> [op |-> "update", u |-> us[i], last |-> i = Len(us)]]
        BY <2>2 DEF do_record_updates
      <3>2. \A i \in 1 .. Len(us) :
               [op |-> "update", u |-> us[i], last |-> i = Len(us)]
                  \in [op : {"update"}, u : Update, last : BOOLEAN]
        BY <2>2
      <3> HIDE DEF f, us
      <3> QED  BY <2>2, <3>1, <3>2
    <2> HIDE DEF f
    <2>4. /\ Head(file) = f[j] /\ Tail(file) = SubSeq(f, j + 1, Len(us))
          /\ j = Len(us) => Tail(file) = <<>>
          /\ j < Len(us) => Tail(file) # <<>>
      <3>1. j \in 1 .. Len(f) /\ Len(f) = Len(us) /\ file = SubSeq(f, j, Len(f))
        BY <2>1, <2>3
      <3>2. /\ Head(file) = f[j] /\ Tail(file) = SubSeq(f, j + 1, Len(f))
            /\ j = Len(f) => Tail(file) = <<>>
            /\ j < Len(f) => Tail(file) # <<>>
        BY <2>3, <3>1, ReadFile
      <3> QED  BY <3>1, <3>2
    <2>5. /\ Head(file).op = "update" /\ Head(file).u = us[j]
          /\ Head(file).last <=> j = Len(us)
      <3>1. Head(file) = [op |-> "update", u |-> us[j], last |-> j = Len(us)]
        BY <2>1, <2>3, <2>4
      <3>2. Head(file).op = "update" /\ Head(file).u = us[j]
        BY <3>1
      <3>3. Head(file).last <=> j = Len(us)
        <4> DEFINE b == j = Len(us)
        <4>1. Head(file).last = b
          BY <3>1
        <4> HIDE DEF b
        <4>2. Head(file).last <=> b
          BY <4>1
        <4> QED  BY <4>2 DEF b
      <3> QED  BY <3>2, <3>3
    <2>6. Append(upds, Head(file).u) = SubSeq(us, 1, j)
      BY <2>1, <2>2, <2>5, Collect
    <2>7. CASE j = Len(us)
      <3>1. SubSeq(us, 1, j) = us /\ us # <<>>
        <4>1. us # <<>>
          BY <1>2, <1>4
        <4> QED  BY <2>2, <2>7, <4>1, SubSeqFull
      <3>2. res = apply_updates(copy, us)
        BY <1>4 DEF Execute
      <3>3. /\ copy' = res.p /\ upds' = <<>>
            /\ cli' = IF res.ok THEN "running" ELSE "failed"
            /\ file' = IF res.ok THEN Tail(file) ELSE <<>>
            /\ live' = live /\ stopped' = stopped
        BY <2>5, <2>6, <2>7, <3>1, <3>2, HandleLast
      <3> HIDE DEF res
      <3> QED  BY <1>1, <2>4, <2>7, <3>3 DEF AfterReplay
    <2>8. CASE j < Len(us)
      <3>1. /\ copy' = copy /\ upds' = SubSeq(us, 1, j)
            /\ cli' = "running" /\ file' = SubSeq(f, j + 1, Len(us)) /\ file' # <<>>
            /\ live' = live /\ stopped' = stopped
        <4>1. ~Head(file).last
          BY <2>2, <2>5, <2>8
        <4> QED  BY <2>4, <2>5, <2>6, <2>8, <4>1, HandleUpdate
      <3>2. j + 1 \in 1 .. Len(us) /\ j = j + 1 - 1
        BY <2>2, <2>8
      <3>3. \E k \in 1 .. Len(us) : upds' = SubSeq(us, 1, k - 1) /\ file' = SubSeq(f, k, Len(us))
        BY <3>1, <3>2
      <3>4. Repeats(c)'
        BY <1>1, <3>1 DEF Repeats
      <3>5. AtCall(c)'
        BY <1>4, <3>3, <3>4 DEF AtCall, f
      <3> QED  BY <3>1, <3>5
    <2> QED  BY <2>1, <2>2, <2>7, <2>8
  <1> QED  BY <1>3, <1>4

\* A command of the CLI brings a snapshot nearer its end, or ends it with the program the
\* snapshot was taken of.
LEMMA HandleSnapshot ==
  ASSUME KeyPreserving, handle_cmd, SoundProgram(live), stopped = {},
         NEW lines \in Seq(Line), SnapshotOf(live, lines), AtSnapshot(lines)
  PROVE  \/ AfterReplay
         \/ live' = live /\ stopped' = stopped /\ cli' = "running" /\ file' # <<>> /\ AtSnapshot(lines)'
  <1> DEFINE new == NewProgram(live.kind)
             begun == transaction_start(new).p
             us == Updates(lines)
             f == SnapshotFile(lines)
             n == Len(lines)
  <1>1. /\ n \in Nat /\ f \in Seq(Line \cup {[op |-> "start"], [op |-> "commit"]})
        /\ Len(f) = n + 2
        /\ f[1] = [op |-> "start"]
        /\ \A i \in 1 .. n : f[i + 1] = lines[i]
        /\ f[n + 2] = [op |-> "commit"]
        /\ us \in Seq(Update) /\ Len(us) = n
        /\ \A i \in 1 .. n : lines[i].op = "update" /\ ~lines[i].last /\ lines[i].u = us[i]
    BY FileType
  <1>2. PICK j \in 1 .. n + 2 : /\ copy = IF j = 1 THEN new ELSE begun
                                /\ upds = SubSeq(us, 1, j - 2)
                                /\ file = SubSeq(f, j, n + 2)
    BY DEF AtSnapshot
  <1> HIDE DEF f, us, n
  <1>3. /\ Head(file) = f[j] /\ Tail(file) = SubSeq(f, j + 1, n + 2)
        /\ j = n + 2 => Tail(file) = <<>>
        /\ j < n + 2 => Tail(file) # <<>>
    <2>1. j \in 1 .. Len(f) /\ file = SubSeq(f, j, Len(f))
      BY <1>1, <1>2
    <2>2. /\ Head(file) = f[j] /\ Tail(file) = SubSeq(f, j + 1, Len(f))
          /\ j = Len(f) => Tail(file) = <<>>
          /\ j < Len(f) => Tail(file) # <<>>
      BY <1>1, <2>1, ReadFile
    <2> QED  BY <1>1, <2>2
  <1>4. ASSUME j < n + 2,
               copy' = begun, upds' = SubSeq(us, 1, j - 1), file' = Tail(file),
               live' = live, stopped' = stopped, cli' = "running"
        PROVE  live' = live /\ stopped' = stopped /\ cli' = "running" /\ file' # <<>> /\ AtSnapshot(lines)'
    <2>1. j + 1 \in 1 .. n + 2 /\ j + 1 # 1 /\ j + 1 - 2 = j - 1
      BY <1>1, <1>4
    <2>2. NewProgram(live'.kind) = new
      BY <1>4
    <2>3. /\ copy' = IF j + 1 = 1 THEN NewProgram(live'.kind) ELSE transaction_start(NewProgram(live'.kind)).p
          /\ upds' = SubSeq(us, 1, j + 1 - 2)
          /\ file' = SubSeq(f, j + 1, n + 2)
      BY <1>3, <1>4, <2>1, <2>2
    <2>4. AtSnapshot(lines)'
      <3> DEFINE k == j + 1
      <3> HIDE DEF k
      <3>1. /\ k \in 1 .. n + 2
            /\ copy' = IF k = 1 THEN NewProgram(live'.kind) ELSE transaction_start(NewProgram(live'.kind)).p
            /\ upds' = SubSeq(us, 1, k - 2)
            /\ file' = SubSeq(f, k, n + 2)
        BY <2>1, <2>3 DEF k
      <3> QED  BY <3>1 DEF AtSnapshot, f, us, n
    <2> QED  BY <1>3, <1>4, <2>4
  <1>5. Done(copy).ok /\ Done(copy).p = copy
    BY DEF Done
  <1>6. CASE j = 1
    <2>1. upds = <<>> /\ SubSeq(us, 1, j - 1) = <<>>
      <3>1. j - 2 \in Int /\ j - 2 < 1 /\ j - 1 \in Int /\ j - 1 < 1
        BY <1>6
      <3> QED  BY <1>2, <3>1, CollectedNothing
    <2>2. Head(file) = [op |-> "start"]
      BY <1>1, <1>3, <1>6
    <2>3. Head(file).op = "start"
      BY <2>2
    <2> DEFINE res == Execute(copy, Head(file))
    <2>4. /\ copy' = res.p /\ upds' = <<>>
          /\ cli' = IF res.ok THEN "running" ELSE "failed"
          /\ file' = IF res.ok THEN Tail(file) ELSE <<>>
          /\ live' = live /\ stopped' = stopped
      BY <1>5, <2>1, <2>3, HandleOther
    <2>5. res = transaction_start(new)
      BY <1>2, <1>6, <2>3 DEF Execute
    <2>6. res.ok /\ res.p = begun
      BY <2>5 DEF transaction_start, NewProgram, Done
    <2> HIDE DEF res, begun
    <2>7. j < n + 2
      BY <1>1, <1>6
    <2> QED  BY <1>4, <2>1, <2>4, <2>6, <2>7
  <1>7. CASE j > 1 /\ j < n + 2
    <2> DEFINE i == j - 1
    <2>1. i \in 1 .. n /\ j = i + 1 /\ j - 2 = i - 1
      BY <1>1, <1>7
    <2> HIDE DEF i
    <2>2. Head(file).op = "update" /\ ~Head(file).last /\ Head(file).u = us[i]
      BY <1>1, <1>3, <2>1
    <2>3. Append(upds, us[i]) = SubSeq(us, 1, i)
      BY <1>1, <1>2, <2>1, Collect
    <2>4. /\ copy' = copy /\ upds' = Append(upds, us[i])
          /\ cli' = "running" /\ file' = Tail(file)
          /\ live' = live /\ stopped' = stopped
      BY <2>2, HandleUpdate
    <2>5. copy = begun /\ i = j - 1
      BY <1>2, <1>7 DEF i
    <2> HIDE DEF begun
    <2> QED  BY <1>4, <1>7, <2>3, <2>4, <2>5
  <1>8. CASE j = n + 2
    <2>1. Head(file) = [op |-> "commit"]
      BY <1>1, <1>3, <1>8
    <2>2. Head(file).op = "commit"
      BY <2>1
    <2>3. upds = us /\ copy = begun
      <3>1. j - 2 = Len(us) /\ j # 1
        BY <1>1, <1>8
      <3> QED  BY <1>1, <1>2, <3>1, SubSeqFull
    <2> DEFINE p == live
               w == Contents(p.kind, p.s)
               last == apply_updates(begun, us)
    <2>4. PICK order \in Orders(w) : lines = Snapshot(w, order)
      BY DEF SnapshotOf
    <2>5. p.kind # "Stream" /\ ~p.tip
      BY DEF SnapshotOf
    <2>6. /\ last.ok
          /\ transaction_commit(last.p) = Done(p)
          /\ us = <<>> => last = Done(begun)
      <3>1. /\ us = Updates(Snapshot(w, order)) /\ w = Contents(p.kind, p.s)
            /\ begun = transaction_start(NewProgram(p.kind)).p /\ SoundProgram(p)
        BY <2>4 DEF us
      <3> HIDE DEF w, begun, p
      <3> QED  BY <2>5, <3>1, SnapshotReplays
    <2> DEFINE first == IF upds # <<>> THEN apply_updates(copy, upds) ELSE Done(copy)
    <2>7. first = last
      BY <2>3, <2>6
    <2> DEFINE res == Execute(first.p, Head(file))
    <2>8. /\ copy' = res.p /\ upds' = <<>>
          /\ cli' = IF res.ok THEN "running" ELSE "failed"
          /\ file' = IF res.ok THEN Tail(file) ELSE <<>>
          /\ live' = live /\ stopped' = stopped
      <3>1. first.ok
        BY <2>6, <2>7
      <3>2. Head(file).op # "update"
        BY <2>2
      <3> QED  BY <3>1, <3>2, HandleOther
    <2>9. res = Done(live)
      BY <2>2, <2>6, <2>7 DEF Execute
    <2>10. res.ok /\ res.p = live
      BY <2>9 DEF Done
    <2> HIDE DEF res
    <2> QED  BY <1>3, <1>8, <2>8, <2>10 DEF AfterReplay
  <1> QED  BY <1>1, <1>2, <1>6, <1>7, <1>8

-----------------------------------------------------------------------------
(* Theorems *)

\* The invariant holds in the beginning.
LEMMA IInvInit ==
  ASSUME Init
  PROVE  IInv
  <1>1. SoundProgram(live)
    BY NewSound DEF Init
  <1> QED  BY <1>1 DEF Init, IInv

\* A call keeps the invariant.
LEMMA IInvInvoke ==
  ASSUME KeyPreserving, ~Dynamic, IInv, NEW c \in Calls, invoke(c)
  PROVE  IInv'
  <1> DEFINE res == Execute(live, c)
  <1>1. /\ file = <<>> /\ live' = res.p /\ copy' = copy /\ upds' = upds /\ cli' = cli
        /\ stopped' = IF stopped = {} /\ ~res.ok THEN {res.p} ELSE stopped
        /\ file' = IF cli = "failed" THEN <<>> ELSE Recorded(c)
    BY DEF invoke, MayCall, record_command
  <1>2. SoundProgram(live')
    <2>1. SoundProgram(res.p)
      BY ExecuteSound DEF IInv
    <2> QED  BY <1>1, <2>1
  <1>3. CASE cli = "failed"
    BY <1>1, <1>2, <1>3 DEF IInv
  <1>4. CASE cli = "running"
    <2>1. stopped = {} /\ upds = <<>> /\ copy = live
      BY <1>1, <1>4 DEF IInv
    <2>2. /\ c.op \in {"start", "commit", "commit dump_changes", "rollback", "clear", "apply_updates"}
          /\ c.op = "apply_updates" => IsBatch(c.us) /\ Len(c.us) >= 1
      BY CallType
    <2>3. Repeats(c)'
      BY <1>1, <2>1 DEF Repeats
    <2>4. CASE c.op # "apply_updates"
      <3>1. file' = <<c>> /\ upds' = <<>>
        BY <1>1, <1>4, <2>1, <2>4 DEF Recorded
      <3>2. AtCall(c)'
        BY <2>3, <2>4, <3>1 DEF AtCall
      <3> QED  BY <1>1, <1>2, <1>4, <3>1, <3>2 DEF IInv, Replaying
    <2>5. CASE c.op = "apply_updates"
      <3> DEFINE us == c.us
                 f == do_record_updates(us)
      <3>1. us \in Seq(Update) /\ Len(us) \in Nat /\ 1 \in 1 .. Len(us)
        BY <2>2, <2>5 DEF IsBatch
      <3>2. f \in Seq([op : {"update"}, u : Update, last : BOOLEAN]) /\ Len(f) = Len(us)
        <4>1. f = [i \in 1 .. Len(us) |-> [op |-> "update", u |-> us[i], last |-> i = Len(us)]]
          BY <3>1 DEF do_record_updates
        <4>2. \A i \in 1 .. Len(us) :
                 [op |-> "update", u |-> us[i], last |-> i = Len(us)]
                    \in [op : {"update"}, u : Update, last : BOOLEAN]
          BY <3>1
        <4> HIDE DEF f, us
        <4> QED  BY <3>1, <4>1, <4>2
      <3>3. file' = f
        BY <1>1, <1>4, <2>5 DEF Recorded
      <3> HIDE DEF f
      <3>4. f = SubSeq(f, 1, Len(us)) /\ f # <<>>
        <4>1. SubSeq(f, 1, Len(f)) = f
          BY <3>2, SubSeqFull
        <4>2. Len(f) # 0
          BY <3>1, <3>2
        <4> QED  BY <3>2, <4>1, <4>2
      <3>5. upds' = SubSeq(us, 1, 1 - 1)
        BY <1>1, <2>1, CollectedNothing
      <3>6. AtCall(c)'
        BY <2>3, <2>5, <3>1, <3>3, <3>4, <3>5 DEF AtCall, f
      <3> QED  BY <1>1, <1>2, <1>4, <3>3, <3>4, <3>6 DEF IInv, Replaying
    <2> QED  BY <2>4, <2>5
  <1> QED  BY <1>3, <1>4 DEF IInv

\* So does a new file that begins with a snapshot.
LEMMA IInvDump ==
  ASSUME KeyPreserving, IInv, dump_input_snapshot
  PROVE  IInv'
  <1> DEFINE w == Contents(live.kind, live.s)
  <1>1. /\ live.kind # "Stream" /\ ~live.tip /\ live' = live /\ copy' = NewProgram(live.kind)
        /\ upds' = <<>> /\ cli' = "running" /\ stopped' = {}
    BY DEF dump_input_snapshot
  <1>2. PICK order \in Orders(w) :
            file' = <<[op |-> "start"]>> \o Snapshot(w, order) \o <<[op |-> "commit"]>>
    BY DEF dump_input_snapshot
  <1> DEFINE l == Snapshot(w, order)
  <1>3. \E x : x = l
    OBVIOUS
  <1>4. PICK lines : lines = l
    BY <1>3
  <1>5. SnapshotOf(live, lines) /\ SoundProgram(live)
    BY <1>1, <1>2, <1>4 DEF SnapshotOf, IInv
  <1>6. lines \in Seq(Line)
    BY <1>5, LinesType
  <1>7. /\ Len(lines) \in Nat
        /\ SnapshotFile(lines) \in Seq(Line \cup {[op |-> "start"], [op |-> "commit"]})
        /\ Len(SnapshotFile(lines)) = Len(lines) + 2
    BY <1>6, FileType
  <1>8. file' = SnapshotFile(lines)
    BY <1>2, <1>4 DEF SnapshotFile
  <1>9. SnapshotFile(lines) = SubSeq(SnapshotFile(lines), 1, Len(lines) + 2)
        /\ SnapshotFile(lines) # <<>>
    <2>1. SubSeq(SnapshotFile(lines), 1, Len(SnapshotFile(lines))) = SnapshotFile(lines)
      BY <1>7, SubSeqFull
    <2>2. Len(SnapshotFile(lines)) # 0
      BY <1>7
    <2> QED  BY <1>7, <2>1, <2>2
  <1>10. SubSeq(Updates(lines), 1, 1 - 2) = <<>>
    BY CollectedNothing
  <1>11. AtSnapshot(lines)'
    <2>1. 1 \in 1 .. Len(lines) + 2
      BY <1>7
    <2>2. /\ copy' = IF 1 = 1 THEN NewProgram(live'.kind) ELSE transaction_start(NewProgram(live'.kind)).p
          /\ upds' = SubSeq(Updates(lines), 1, 1 - 2)
          /\ file' = SubSeq(SnapshotFile(lines), 1, Len(lines) + 2)
      BY <1>1, <1>8, <1>9, <1>10
    <2> QED  BY <2>1, <2>2 DEF AtSnapshot
  <1>12. SnapshotOf(live', lines) /\ SoundProgram(live')
    BY <1>1, <1>5
  <1>13. Replaying'
    BY <1>1, <1>6, <1>11, <1>12 DEF Replaying
  <1> QED  BY <1>1, <1>8, <1>9, <1>12, <1>13 DEF IInv

\* So does every command of the CLI.
LEMMA IInvHandle ==
  ASSUME KeyPreserving, IInv, handle_cmd
  PROVE  IInv'
  <1>1. cli = "running" /\ file # <<>> /\ Replaying /\ SoundProgram(live)
    BY DEF handle_cmd, IInv
  <1>2. ASSUME AfterReplay
        PROVE  IInv'
    <2>1. SoundProgram(live')
      BY <1>1, <1>2 DEF AfterReplay
    <2> QED  BY <1>2, <2>1 DEF AfterReplay, IInv
  <1>3. ASSUME NEW c \in Calls, AtCall(c)
        PROVE  IInv'
    <2>1. CASE live' = live /\ stopped' = stopped /\ cli' = "running" /\ file' # <<>> /\ AtCall(c)'
      <3>1. SoundProgram(live')
        BY <1>1, <2>1
      <3> QED  BY <2>1, <3>1 DEF IInv, Replaying
    <2> QED  BY <1>2, <1>3, <2>1, HandleCall
  <1>4. ASSUME NEW lines \in Seq(Line), SnapshotOf(live, lines), stopped = {}, AtSnapshot(lines)
        PROVE  IInv'
    <2>1. CASE live' = live /\ stopped' = stopped /\ cli' = "running" /\ file' # <<>>
               /\ AtSnapshot(lines)'
      <3>1. SoundProgram(live') /\ SnapshotOf(live', lines)
        BY <1>1, <1>4, <2>1
      <3> QED  BY <1>4, <2>1, <3>1 DEF IInv, Replaying
    <2> QED  BY <1>1, <1>2, <1>4, <2>1, HandleSnapshot
  <1> QED  BY <1>1, <1>3, <1>4 DEF Replaying

\* What the CLI has read, what it has not, and the two programs fit together in every state.
LEMMA Invariant ==
  ASSUME KeyPreserving, ~Dynamic
  PROVE  Spec => []IInv
  <1>1. Init => IInv
    BY IInvInit
  <1>2. IInv /\ [Next]_vars => IInv'
    <2> SUFFICES ASSUME IInv, [Next]_vars
                 PROVE  IInv'
      OBVIOUS
    <2>1. CASE \E c \in Calls : invoke(c)
      BY <2>1, IInvInvoke
    <2>2. CASE dump_input_snapshot
      BY <2>2, IInvDump
    <2>3. CASE handle_cmd
      BY <2>3, IInvHandle
    <2>4. CASE UNCHANGED vars
      BY <2>4 DEF vars, IInv, Replaying, AtCall, Repeats, AtSnapshot
    <2> QED  BY <2>1, <2>2, <2>3, <2>4 DEF Next
  <1> QED  BY <1>1, <1>2, PTL DEF Spec

\* Replaying a file that was recorded by calls of the typed API (Dynamic is FALSE) brings a new
\* program to the state of the recorded one, also when the file begins with a snapshot: the
\* lines of dump_input_snapshot rebuild a relation of any kind.
THEOREM ReplayFaithful ==
  ASSUME KeyPreserving, ~Dynamic
  PROVE  Spec => []ReplayMatches
  <1>1. IInv => ReplayMatches
    BY DEF IInv, ReplayMatches, Same
  <1> QED  BY <1>1, Invariant, PTL

\* The CLI (handle_cmd) ends with an error only at the first recorded call that failed, and
\* leaves the program the failed call has left.
THEOREM ReplayStopsAtFailure ==
  ASSUME KeyPreserving, ~Dynamic
  PROVE  Spec => []ReplayStops
  <1>1. IInv => ReplayStops
    BY DEF IInv, ReplayStops, Same
  <1> QED  BY <1>1, Invariant, PTL
=============================================================================
