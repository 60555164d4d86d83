---------------------------- MODULE InputRelation ----------------------------
(***************************************************************************)
(* The client side of one input relation of a running DDlog program: the   *)
(* enum RelationInstance and the functions of RunningProgram that apply    *)
(* one update to it (rust/template/differential_datalog/src/program/mod.rs,*)
(* "program/mod.rs" below).                                                *)
(*                                                                         *)
(* A DeltaSet or ValMSet is a hash map from values to non-zero counts:     *)
(* delta_inc and delta_dec remove an entry whose count reaches 0.  It is   *)
(* represented by the total function that gives an absent value the count  *)
(* 0.  The ValSet of a flat relation is represented in the same way, with  *)
(* counts 0 and 1.  The IndexedValSet of a relation with a primary key     *)
(* maps every key to a value or to None.                                   *)
(***************************************************************************)
EXTENDS Integers, Sequences, FiniteSets

CONSTANTS
    Value,      \* DDValues of an input relation
    Key,        \* primary keys
    KeyOf,      \* key_func of the relation, a function from Value to Key
    Mutator,    \* the mutators of Modify: functions from Value to a value or None
    None        \* no value: a vacant key, or the failure of a mutator

ASSUME ValueAssumption ==
    /\ None \notin Value
    /\ None \notin Key
    /\ KeyOf \in [Value -> Key]
    /\ Mutator \subseteq [Value -> Value \cup {None}]

-----------------------------------------------------------------------------
(* Types *)

\* The variants of RelationInstance.
Kind == {"Stream", "Multiset", "Flat", "Indexed"}

ZSet == [Value -> Int]
EmptyZSet == [v \in Value |-> 0]
ValSet == [Value -> {0, 1}]
IndexedValSet == [Key -> Value \cup {None}]

\* The type of the `elements` field.  A stream keeps none.
Elements(kind) ==
    CASE kind = "Stream" -> {EmptyZSet}
      [] kind = "Multiset" -> ZSet
      [] kind = "Flat" -> ValSet
      [] kind = "Indexed" -> IndexedValSet

NoElements(kind) ==
    IF kind = "Indexed" THEN [k \in Key |-> None] ELSE EmptyZSet

\* enum Update of program/update.rs, without its relid.
Update ==
    [op : {"Insert", "InsertOrUpdate", "DeleteValue"}, v : Value]
        \cup [op : {"DeleteKey"}, k : Key]
        \cup [op : {"Modify"}, k : Key, m : Mutator]

Insert(x) == [op |-> "Insert", v |-> x]
DeleteValue(x) == [op |-> "DeleteValue", v |-> x]
DeleteKey(x) == [op |-> "DeleteKey", k |-> x]

\* The only updates that reach the workers, as changes of a weight.
Change == [v : Value, w : {1, -1}]
Plus(x) == [v |-> x, w |-> 1]
Minus(x) == [v |-> x, w |-> -1]

\* What applying one update leaves: whether it succeeded, the elements, the
\* delta, and the changes pushed to `filtered_updates`.
Ok(s, ds, out) == [ok |-> TRUE, s |-> s, ds |-> ds, out |-> out]
Err(s, ds) == [ok |-> FALSE, s |-> s, ds |-> ds, out |-> <<>>]

-----------------------------------------------------------------------------
(* Operations *)

delta_inc(ds, x) == [ds EXCEPT ![x] = @ + 1]

delta_dec(ds, x) == [ds EXCEPT ![x] = @ - 1]

stream_update(s, ds, u) ==
    CASE u.op = "Insert" -> Ok(s, delta_inc(ds, u.v), <<Plus(u.v)>>)
      [] u.op = "DeleteValue" -> Ok(s, delta_dec(ds, u.v), <<Minus(u.v)>>)
      [] OTHER -> Err(s, ds)

mset_update(s, ds, u) ==
    CASE u.op = "Insert" ->
             Ok(delta_inc(s, u.v), delta_inc(ds, u.v), <<Plus(u.v)>>)
      [] u.op = "DeleteValue" ->
             Ok(delta_dec(s, u.v), delta_dec(ds, u.v), <<Minus(u.v)>>)
      [] OTHER -> Err(s, ds)

\* A repeated insert or delete succeeds and changes nothing.
set_update(s, ds, u) ==
    CASE u.op = "Insert" /\ s[u.v] = 0 ->
             Ok([s EXCEPT ![u.v] = 1], delta_inc(ds, u.v), <<Plus(u.v)>>)
      [] u.op = "DeleteValue" /\ s[u.v] = 1 ->
             Ok([s EXCEPT ![u.v] = 0], delta_dec(ds, u.v), <<Minus(u.v)>>)
      [] \/ u.op = "Insert" /\ s[u.v] = 1
         \/ u.op = "DeleteValue" /\ s[u.v] = 0 ->
             Ok(s, ds, <<>>)
      [] OTHER -> Err(s, ds)

\* Mutant of Replace: the delta forgets the value that is replaced.
ReplaceWithoutDec(s, ds, k, old, x) ==
    Ok([s EXCEPT ![k] = x], delta_inc(ds, x), <<Minus(old), Plus(x)>>)

\* Replace the value `old` stored under key k by x.
Replace(s, ds, k, old, x) ==
    Ok([s EXCEPT ![k] = x], delta_inc(delta_dec(ds, old), x), <<Minus(old), Plus(x)>>)

\* The mutator writes the stored value in place; a failing one leaves it as it
\* was (ddval_convert.rs mutates a clone).  The key is not computed again.
indexed_set_update(s, ds, u) ==
    LET k == IF u.op \in {"DeleteKey", "Modify"} THEN u.k ELSE KeyOf[u.v]
        old == s[k]
    IN  CASE u.op \in {"Insert", "InsertOrUpdate"} /\ old = None ->
                 Ok([s EXCEPT ![k] = u.v], delta_inc(ds, u.v), <<Plus(u.v)>>)
          [] u.op = "InsertOrUpdate" /\ old # None ->
                 Replace(s, ds, k, old, u.v)
          [] \/ u.op = "DeleteKey" /\ old # None
             \/ u.op = "DeleteValue" /\ old = u.v ->
                 Ok([s EXCEPT ![k] = None], delta_dec(ds, old), <<Minus(old)>>)
          [] u.op = "Modify" /\ old # None /\ u.m[old] # None ->
                 Replace(s, ds, k, old, u.m[old])
          [] OTHER -> Err(s, ds)

apply_update(kind, s, ds, u) ==
    CASE kind = "Stream" -> stream_update(s, ds, u)
      [] kind = "Multiset" -> mset_update(s, ds, u)
      [] kind = "Flat" -> set_update(s, ds, u)
      [] kind = "Indexed" -> indexed_set_update(s, ds, u)

\* Mutant of delta_undo_updates: deletions and insertions in any order.
undo_in_any_order(ds) ==
    {DeleteValue(v) : v \in {x \in Value : ds[x] > 0}}
        \cup {Insert(v) : v \in {x \in Value : ds[x] < 0}}

\* The updates delta_undo_updates generates for the counts ds that are still to
\* be reversed, in the orders hash map iteration allows: every deletion comes
\* before every insertion, "to avoid duplicate key errors in apply_updates()".
delta_undo_updates(ds) ==
    {DeleteValue(v) : v \in {x \in Value : ds[x] > 0}}
        \cup {Insert(v) : v \in {x \in Value : ds[x] < 0 /\ \A y \in Value : ds[y] <= 0}}

-----------------------------------------------------------------------------
(* What a relation means *)

\* The Z-set of values a relation holds.
Contents(kind, s) ==
    IF kind = "Indexed"
    THEN [v \in Value |-> Cardinality({k \in Key : s[k] = v})]
    ELSE s

\* Every value of an indexed relation is stored under its own key.
WellKeyed(s) == \A k \in Key : s[k] # None => KeyOf[s[k]] = k

\* Mutators that do not touch the fields of the primary key.
KeyPreserving == \A m \in Mutator : \A v \in Value : m[v] # None => KeyOf[m[v]] = KeyOf[v]
=============================================================================
