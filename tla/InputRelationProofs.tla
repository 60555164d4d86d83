------------------------- MODULE InputRelationProofs -------------------------
(***************************************************************************)
(* Facts about one update of one input relation, for any values, keys and  *)
(* mutators.  They are the lemmas of RunningProgramProofs.                 *)
(***************************************************************************)
EXTENDS InputRelation, FiniteSetTheorems, TLAPS

\* The elements a relation of a kind may hold.
Sound(kd, s) == s \in Elements(kd) /\ (kd = "Indexed" => WellKeyed(s))

\* An indexed relation whose values are stored under their own keys holds a value once or
\* not at all: once if the value is the one stored under its key.
LEMMA IndexedContents ==
    ASSUME NEW s \in IndexedValSet, WellKeyed(s), NEW v \in Value
    PROVE  Contents("Indexed", s)[v] = IF s[KeyOf[v]] = v THEN 1 ELSE 0
  <1> DEFINE K == {k \in Key : s[k] = v}
  <1>1. Contents("Indexed", s)[v] = Cardinality(K)
    BY DEF Contents
  <1>2. CASE s[KeyOf[v]] = v
    <2>1. K = {KeyOf[v]}
      BY <1>2, ValueAssumption DEF WellKeyed
    <2> QED  BY <1>1, <1>2, <2>1, FS_Singleton
  <1>3. CASE s[KeyOf[v]] # v
    <2>1. K = {}
      BY <1>3, ValueAssumption DEF WellKeyed
    <2> QED  BY <1>1, <1>3, <2>1, FS_EmptySet
  <1> QED  BY <1>2, <1>3

\* A sound relation is a Z-set.
LEMMA ContentsType ==
    ASSUME NEW kd \in Kind, NEW s, Sound(kd, s)
    PROVE  Contents(kd, s) \in ZSet
  <1>1. CASE kd = "Indexed"
    <2> s \in IndexedValSet /\ WellKeyed(s)
      BY <1>1 DEF Sound, Elements
    <2>1. \A v \in Value : Contents("Indexed", s)[v] \in Int
      BY IndexedContents
    <2>2. Contents("Indexed", s) = [v \in Value |-> Contents("Indexed", s)[v]]
      BY DEF Contents
    <2> QED  BY <1>1, <2>1, <2>2 DEF ZSet
  <1>2. CASE kd # "Indexed"
    BY <1>2 DEF Sound, Elements, Contents, ZSet, ValSet, EmptyZSet, Kind
  <1> QED  BY <1>1, <1>2

\* The empty relation is sound and holds nothing.
LEMMA NoElementsSound ==
    ASSUME NEW kd \in Kind
    PROVE  Sound(kd, NoElements(kd)) /\ Contents(kd, NoElements(kd)) = EmptyZSet
  <1>1. CASE kd = "Indexed"
    <2>1. NoElements(kd) \in IndexedValSet /\ WellKeyed(NoElements(kd))
      BY <1>1 DEF NoElements, IndexedValSet, WellKeyed
    <2>2. \A v \in Value : Contents("Indexed", NoElements(kd))[v] = 0
      BY <1>1, <2>1, IndexedContents, ValueAssumption DEF NoElements
    <2>3. Contents("Indexed", NoElements(kd)) = EmptyZSet
      BY <2>2 DEF Contents, EmptyZSet
    <2> QED  BY <1>1, <2>1, <2>3 DEF Sound, Elements
  <1>2. CASE kd # "Indexed"
    BY <1>2 DEF Sound, Elements, NoElements, Contents, ZSet, ValSet, EmptyZSet, Kind
  <1> QED  BY <1>1, <1>2

-----------------------------------------------------------------------------
(* One update *)

\* What every update keeps, whether or not it succeeds: the relation stays sound, its delta
\* changes by as much as its contents do, and a failing update changes neither.
UpdateKeeps(kd, s, ds, res) ==
    /\ Sound(kd, res.s)
    /\ res.ds \in ZSet
    /\ kd # "Stream" => \A v \in Value :
          Contents(kd, res.s)[v] - res.ds[v] = Contents(kd, s)[v] - ds[v]
    /\ ~res.ok => res.s = s /\ res.ds = ds

\* An update of a stream succeeds or leaves it alone (stream_update).
LEMMA StreamUpdate ==
    ASSUME NEW s, Sound("Stream", s), NEW ds \in ZSet, NEW u \in Update
    PROVE  UpdateKeeps("Stream", s, ds, stream_update(s, ds, u))
  BY DEF UpdateKeeps, Sound, Elements, ZSet, Update, stream_update, Ok, Err, delta_inc, delta_dec

\* An update of a multiset changes its contents and its delta alike (mset_update).
LEMMA MsetUpdate ==
    ASSUME NEW s, Sound("Multiset", s), NEW ds \in ZSet, NEW u \in Update
    PROVE  UpdateKeeps("Multiset", s, ds, mset_update(s, ds, u))
  BY DEF UpdateKeeps, Sound, Elements, Contents, ZSet, Update, mset_update, Ok, Err, delta_inc, delta_dec

\* An update of a flat set changes its contents and its delta alike (set_update).
LEMMA SetUpdate ==
    ASSUME NEW s, Sound("Flat", s), NEW ds \in ZSet, NEW u \in Update
    PROVE  UpdateKeeps("Flat", s, ds, set_update(s, ds, u))
  BY DEF UpdateKeeps, Sound, Elements, Contents, ZSet, ValSet, Update, set_update, Ok, Err,
         delta_inc, delta_dec

\* The three ways an update changes an indexed relation: it fills a vacant key, replaces the
\* value of a key, or removes it.
LEMMA IndexedPut ==
    ASSUME NEW s \in IndexedValSet, WellKeyed(s), NEW ds \in ZSet, NEW k \in Key,
           s[k] = None, NEW x \in Value, KeyOf[x] = k
    PROVE  UpdateKeeps("Indexed", s, ds, Ok([s EXCEPT ![k] = x], delta_inc(ds, x), <<Plus(x)>>))
  <1> DEFINE t == [s EXCEPT ![k] = x]
             es == delta_inc(ds, x)
  <1>1. t \in IndexedValSet /\ WellKeyed(t)
    BY DEF IndexedValSet, WellKeyed
  <1>2. \A y \in Key : t[y] = IF y = k THEN x ELSE s[y]
    BY DEF IndexedValSet
  <1>3. es \in ZSet /\ \A v \in Value : es[v] = IF v = x THEN ds[v] + 1 ELSE ds[v]
    BY DEF delta_inc, ZSet
  <1>4. UpdateKeeps("Indexed", s, ds, Ok(t, es, <<Plus(x)>>))
    <2> HIDE DEF t, es
    <2>1. ASSUME NEW v \in Value
          PROVE  Contents("Indexed", t)[v] - es[v] = Contents("Indexed", s)[v] - ds[v]
      <3>1. /\ Contents("Indexed", t)[v] = IF t[KeyOf[v]] = v THEN 1 ELSE 0
            /\ Contents("Indexed", s)[v] = IF s[KeyOf[v]] = v THEN 1 ELSE 0
        BY <1>1, IndexedContents
      <3>2. ds[v] \in Int /\ KeyOf[v] \in Key /\ v # None
        BY ValueAssumption DEF ZSet
      <3> QED  BY <1>2, <1>3, <3>1, <3>2
    <2> QED  BY <1>1, <1>3, <2>1 DEF UpdateKeeps, Sound, Elements, Ok
  <1> QED  BY <1>4

\* Replacing the value of a key moves contents and delta from the old value to the new one.
LEMMA IndexedReplace ==
    ASSUME NEW s \in IndexedValSet, WellKeyed(s), NEW ds \in ZSet, NEW k \in Key,
           s[k] # None, NEW x \in Value, KeyOf[x] = k
    PROVE  UpdateKeeps("Indexed", s, ds, Replace(s, ds, k, s[k], x))
  <1> DEFINE t == [s EXCEPT ![k] = x]
             old == s[k]
             es == delta_inc(delta_dec(ds, old), x)
  <1>1. t \in IndexedValSet /\ WellKeyed(t)
    BY DEF IndexedValSet, WellKeyed
  <1>2. \A y \in Key : t[y] = IF y = k THEN x ELSE s[y]
    BY DEF IndexedValSet
  <1>3. old \in Value /\ KeyOf[old] = k /\ s[k] = old
    BY DEF IndexedValSet, WellKeyed
  <1>4. /\ es \in ZSet
        /\ \A v \in Value : es[v] = ds[v] + (IF v = x THEN 1 ELSE 0) - (IF v = old THEN 1 ELSE 0)
    BY <1>3 DEF delta_inc, delta_dec, ZSet
  <1>5. UpdateKeeps("Indexed", s, ds, Ok(t, es, <<Minus(old), Plus(x)>>))
    <2> HIDE DEF t, old, es
    <2>1. ASSUME NEW v \in Value
          PROVE  Contents("Indexed", t)[v] - es[v] = Contents("Indexed", s)[v] - ds[v]
      <3>1. /\ Contents("Indexed", t)[v] = IF t[KeyOf[v]] = v THEN 1 ELSE 0
            /\ Contents("Indexed", s)[v] = IF s[KeyOf[v]] = v THEN 1 ELSE 0
        BY <1>1, IndexedContents
      <3>2. ds[v] \in Int /\ KeyOf[v] \in Key
        BY ValueAssumption DEF ZSet
      <3> QED  BY <1>2, <1>3, <1>4, <3>1, <3>2
    <2> QED  BY <1>1, <1>4, <2>1 DEF UpdateKeeps, Sound, Elements, Ok
  <1> QED  BY <1>5 DEF Replace

\* Removing the value of a key takes it from the contents and from the delta.
LEMMA IndexedRemove ==
    ASSUME NEW s \in IndexedValSet, WellKeyed(s), NEW ds \in ZSet, NEW k \in Key, s[k] # None
    PROVE  UpdateKeeps("Indexed", s, ds,
                       Ok([s EXCEPT ![k] = None], delta_dec(ds, s[k]), <<Minus(s[k])>>))
  <1> DEFINE t == [s EXCEPT ![k] = None]
             old == s[k]
             es == delta_dec(ds, old)
  <1>1. t \in IndexedValSet /\ WellKeyed(t)
    BY DEF IndexedValSet, WellKeyed
  <1>2. \A y \in Key : t[y] = IF y = k THEN None ELSE s[y]
    BY DEF IndexedValSet
  <1>3. old \in Value /\ KeyOf[old] = k /\ s[k] = old
    BY DEF IndexedValSet, WellKeyed
  <1>4. es \in ZSet /\ \A v \in Value : es[v] = IF v = old THEN ds[v] - 1 ELSE ds[v]
    BY <1>3 DEF delta_dec, ZSet
  <1>5. UpdateKeeps("Indexed", s, ds, Ok(t, es, <<Minus(old)>>))
    <2> HIDE DEF t, old, es
    <2>1. ASSUME NEW v \in Value
          PROVE  Contents("Indexed", t)[v] - es[v] = Contents("Indexed", s)[v] - ds[v]
      <3>1. /\ Contents("Indexed", t)[v] = IF t[KeyOf[v]] = v THEN 1 ELSE 0
            /\ Contents("Indexed", s)[v] = IF s[KeyOf[v]] = v THEN 1 ELSE 0
        BY <1>1, IndexedContents
      <3>2. ds[v] \in Int /\ KeyOf[v] \in Key /\ v # None
        BY ValueAssumption DEF ZSet
      <3> QED  BY <1>2, <1>3, <1>4, <3>1, <3>2
    <2> QED  BY <1>1, <1>4, <2>1 DEF UpdateKeeps, Sound, Elements, Ok
  <1> QED  BY <1>5

\* An update of an indexed set by key-preserving mutators changes its contents and its delta
\* alike (indexed_set_update).
LEMMA IndexedUpdate ==
    ASSUME KeyPreserving, NEW s, Sound("Indexed", s), NEW ds \in ZSet, NEW u \in Update
    PROVE  UpdateKeeps("Indexed", s, ds, indexed_set_update(s, ds, u))
  <1>1. s \in IndexedValSet /\ WellKeyed(s)
    BY DEF Sound, Elements
  <1>2. UpdateKeeps("Indexed", s, ds, Err(s, ds))
    <2>1. Contents("Indexed", s) \in ZSet
      BY ContentsType DEF Kind
    <2> QED  BY <2>1 DEF UpdateKeeps, Err, ZSet
  <1>3. CASE u.op \in {"Insert", "InsertOrUpdate"}
    <2>1. u.v \in Value /\ KeyOf[u.v] \in Key
      BY <1>3, ValueAssumption DEF Update
    <2>2. CASE s[KeyOf[u.v]] = None
      BY <1>1, <1>3, <2>1, <2>2, IndexedPut DEF indexed_set_update
    <2>3. CASE s[KeyOf[u.v]] # None /\ u.op = "InsertOrUpdate"
      BY <1>1, <2>1, <2>3, IndexedReplace DEF indexed_set_update
    <2>4. CASE s[KeyOf[u.v]] # None /\ u.op = "Insert"
      BY <1>2, <2>4 DEF indexed_set_update
    <2> QED  BY <1>3, <2>2, <2>3, <2>4
  <1>4. CASE u.op = "DeleteValue"
    <2>1. u.v \in Value /\ KeyOf[u.v] \in Key
      BY <1>4, ValueAssumption DEF Update
    <2>2. CASE s[KeyOf[u.v]] = u.v
      <3>1. s[KeyOf[u.v]] # None
        BY <2>1, <2>2, ValueAssumption
      <3> QED  BY <1>1, <1>4, <2>1, <2>2, <3>1, IndexedRemove DEF indexed_set_update
    <2>3. CASE s[KeyOf[u.v]] # u.v
      BY <1>2, <1>4, <2>3 DEF indexed_set_update
    <2> QED  BY <2>2, <2>3
  <1>5. CASE u.op = "DeleteKey"
    <2>1. u.k \in Key
      BY <1>5 DEF Update
    <2>2. CASE s[u.k] # None
      BY <1>1, <1>5, <2>1, <2>2, IndexedRemove DEF indexed_set_update
    <2>3. CASE s[u.k] = None
      BY <1>2, <1>5, <2>3 DEF indexed_set_update
    <2> QED  BY <2>2, <2>3
  <1>6. CASE u.op = "Modify"
    <2>1. u.k \in Key /\ u.m \in Mutator
      BY <1>6 DEF Update
    <2>2. CASE s[u.k] # None /\ u.m[s[u.k]] # None
      <3>1. s[u.k] \in Value /\ KeyOf[s[u.k]] = u.k
        BY <1>1, <2>1, <2>2 DEF IndexedValSet, WellKeyed
      <3>2. u.m[s[u.k]] \in Value /\ KeyOf[u.m[s[u.k]]] = u.k
        BY <2>1, <2>2, <3>1, ValueAssumption DEF KeyPreserving
      <3> QED  BY <1>1, <1>6, <2>1, <2>2, <3>2, IndexedReplace DEF indexed_set_update
    <2>3. CASE ~(s[u.k] # None /\ u.m[s[u.k]] # None)
      BY <1>2, <1>6, <2>3 DEF indexed_set_update
    <2> QED  BY <2>2, <2>3
  <1> QED  BY <1>3, <1>4, <1>5, <1>6 DEF Update

\* An update of a relation of any kind keeps what UpdateKeeps says.
LEMMA ApplyUpdate ==
    ASSUME KeyPreserving, NEW kd \in Kind, NEW s, Sound(kd, s), NEW ds \in ZSet, NEW u \in Update
    PROVE  UpdateKeeps(kd, s, ds, apply_update(kd, s, ds, u))
  BY StreamUpdate, MsetUpdate, SetUpdate, IndexedUpdate DEF apply_update, Kind

-----------------------------------------------------------------------------
(* Undoing a delta *)

\* Contents a relation of a kind may have: a set, or a set with one value per key.
SoundContents(kd, c) ==
    /\ c \in ZSet
    /\ kd \in {"Flat", "Indexed"} => \A v \in Value : c[v] \in {0, 1}
    /\ kd = "Indexed" =>
          \A x, y \in Value : c[x] = 1 /\ c[y] = 1 /\ KeyOf[x] = KeyOf[y] => x = y

\* The contents of a sound relation are contents a relation of its kind may have.
LEMMA ContentsSound ==
    ASSUME NEW kd \in Kind, NEW s, Sound(kd, s)
    PROVE  SoundContents(kd, Contents(kd, s))
  <1>1. Contents(kd, s) \in ZSet
    BY ContentsType
  <1>2. CASE kd = "Indexed"
    <2>1. s \in IndexedValSet /\ WellKeyed(s)
      BY <1>2 DEF Sound, Elements
    <2>2. \A v \in Value : Contents(kd, s)[v] = IF s[KeyOf[v]] = v THEN 1 ELSE 0
      BY <1>2, <2>1, IndexedContents
    <2> QED  BY <1>1, <1>2, <2>2 DEF SoundContents
  <1>3. CASE kd = "Flat"
    <2>1. Contents(kd, s) = s /\ s \in ValSet
      BY <1>3 DEF Sound, Elements, Contents
    <2> QED  BY <1>1, <1>3, <2>1 DEF SoundContents, ValSet
  <1>4. CASE kd \notin {"Indexed", "Flat"}
    BY <1>1, <1>4 DEF SoundContents
  <1> QED  BY <1>2, <1>3, <1>4

\* An update of a rollback succeeds, and takes its part of the delta with it.  In an indexed
\* relation this is so because a value is inserted only when all others that the transaction
\* added, and that may occupy its key, have been deleted.
LEMMA UndoUpdate ==
    ASSUME NEW kd \in Kind, NEW s, Sound(kd, s), NEW ds \in ZSet,
           NEW c, SoundContents(kd, c),
           kd # "Stream" => \A v \in Value : Contents(kd, s)[v] = c[v] + ds[v],
           NEW u \in delta_undo_updates(ds)
    PROVE  /\ u \in Update /\ u.v \in Value
           /\ apply_update(kd, s, ds, u).ok
           /\ apply_update(kd, s, ds, u).ds = [ds EXCEPT ![u.v] = IF @ > 0 THEN @ - 1 ELSE @ + 1]
  <1>1. /\ u \in Update
        /\ u.v \in Value
        /\ \/ u.op = "DeleteValue" /\ ds[u.v] > 0
           \/ u.op = "Insert" /\ ds[u.v] < 0 /\ \A y \in Value : ds[y] <= 0
    BY DEF delta_undo_updates, Update, Insert, DeleteValue
  <1>2. ds[u.v] \in Int
    BY <1>1 DEF ZSet
  <1> DEFINE es == [ds EXCEPT ![u.v] = IF @ > 0 THEN @ - 1 ELSE @ + 1]
  <1>7. u.op = "DeleteValue" => es = delta_dec(ds, u.v)
    BY <1>1, <1>2 DEF delta_dec
  <1>8. u.op = "Insert" => es = delta_inc(ds, u.v)
    <2>1. u.op = "Insert" => ~(ds[u.v] > 0)
      BY <1>1, <1>2
    <2> QED  BY <1>1, <1>2, <2>1 DEF delta_inc
  <1> HIDE DEF es
  <1> SUFFICES apply_update(kd, s, ds, u).ok /\ apply_update(kd, s, ds, u).ds = es
    BY <1>1 DEF es
  <1>3. CASE kd = "Stream"
    BY <1>1, <1>3, <1>7, <1>8 DEF apply_update, stream_update, Ok
  <1>4. CASE kd = "Multiset"
    BY <1>1, <1>4, <1>7, <1>8 DEF apply_update, mset_update, Ok
  <1>5. CASE kd = "Flat"
    <2>1. s[u.v] \in {0, 1} /\ c[u.v] \in {0, 1} /\ s[u.v] = c[u.v] + ds[u.v]
      BY <1>1, <1>5 DEF Sound, Elements, ValSet, SoundContents, Contents
    <2>2. (u.op = "DeleteValue" => s[u.v] = 1) /\ (u.op = "Insert" => s[u.v] = 0)
      BY <1>1, <1>2, <2>1
    <2> QED  BY <1>1, <1>5, <1>7, <1>8, <2>2 DEF apply_update, set_update, Ok
  <1>6. CASE kd = "Indexed"
    <2>1. s \in IndexedValSet /\ WellKeyed(s)
      BY <1>6 DEF Sound, Elements
    <2>2. \A v \in Value : (IF s[KeyOf[v]] = v THEN 1 ELSE 0) = c[v] + ds[v]
      BY <1>6, <2>1, IndexedContents
    <2>3. \A v \in Value : c[v] \in {0, 1} /\ ds[v] \in Int
      BY <1>6 DEF SoundContents, ZSet
    <2>4. CASE u.op = "DeleteValue"
      <3>1. s[KeyOf[u.v]] = u.v
        BY <1>1, <2>2, <2>3, <2>4
      <3> QED  BY <1>6, <1>7, <2>4, <3>1 DEF apply_update, indexed_set_update, Ok
    <2>5. CASE u.op = "Insert"
      <3>1. c[u.v] = 1 /\ s[KeyOf[u.v]] # u.v
        BY <1>1, <2>2, <2>3, <2>5
      <3>2. ASSUME s[KeyOf[u.v]] # None
            PROVE  FALSE
        <4> DEFINE x == s[KeyOf[u.v]]
        <4>1. x \in Value /\ KeyOf[x] = KeyOf[u.v]
          BY <1>1, <2>1, <3>2, ValueAssumption DEF IndexedValSet, WellKeyed
        <4>2. c[x] = 1
          BY <1>1, <2>2, <2>3, <2>5, <4>1
        <4> QED  BY <1>1, <1>6, <3>1, <4>1, <4>2 DEF SoundContents
      <3> QED  BY <1>6, <1>8, <2>5, <3>2 DEF apply_update, indexed_set_update, Ok
    <2> QED  BY <1>1, <2>4, <2>5
  <1> QED  BY <1>3, <1>4, <1>5, <1>6 DEF Kind
=============================================================================
