------------------------------ MODULE CApiProofs ------------------------------
(***************************************************************************)
(* Proofs about CApi: for any number of handles, values and tables, a      *)
(* client that keeps to the ownership rules of ddlog.h never holds a       *)
(* pointer to freed memory, only calls that report an error leave memory   *)
(* behind, and the changes that the client was given add up to the         *)
(* contents of the output tables.                                          *)
(***************************************************************************)
EXTENDS CApi, ZSetsProofs, SequenceTheorems, WellFoundedInduction, TLAPS

-----------------------------------------------------------------------------
(* The inductive invariant *)

\* Handles that nobody can give back.
Leaked == Allocated \ Reachable

\* Every record of an array of changes is no array, and belongs to that array alone: freeing
\* an array frees no record of the client, and none of another array.
Ownership ==
    /\ role \in Roles
    /\ Allocated \subseteq Handles
    /\ owned \subseteq Allocated
    /\ \A h \in Allocated : HeldBy(h) \subseteq Allocated \ owned
    /\ \A h \in Allocated : \A g \in HeldBy(h) : HeldBy(g) = {}
    /\ \A g, h \in Allocated : g # h => HeldBy(g) \cap HeldBy(h) = {}

DInv == Ownership

\* What every call achieves: the invariant, and no leak unless it reports an error.
Safe == DInv' /\ (Leaked' \subseteq Leaked \/ ret' = -1)

\* A set of handles to free that leaves no array without its records, or records without
\* their array.
Whole(S) ==
    \A g \in Allocated : IF g \in S THEN HeldBy(g) \subseteq S ELSE HeldBy(g) \cap S = {}

-----------------------------------------------------------------------------
(* Numbers *)

\* A set of naturals has a least element, and Min is it.
LEMMA MinLeast ==
  ASSUME NEW S \in SUBSET Nat, S # {}
  PROVE  Min(S) \in S /\ \A y \in S : Min(S) <= y
  BY LeastNat DEF Min

-----------------------------------------------------------------------------
(* Calls: what they free, take and return *)

\* A handle that is free can be found.
LEMMA FreshHandle ==
  ASSUME Ownership, NEW f, Handles \ DOMAIN f # {}
  PROVE  HandleFor(f) \in Handles \ DOMAIN f
  <1>1. Handles \ DOMAIN f \in SUBSET Nat
    BY HandlesAssumption DEF Ownership, Handles
  <1> QED  BY <1>1, MinLeast DEF HandleFor

\* Objects of the client that are no arrays can be freed one by one.
LEMMA WholePlain ==
  ASSUME Ownership, NEW S, S \subseteq owned, \A h \in S : heap[h].is # "updates"
  PROVE  Whole(S)
  BY DEF Ownership, Whole, HeldBy

\* An array of the client can be freed with its records.
LEMMA WholeArray ==
  ASSUME Ownership, NEW h \in owned, heap[h].is = "updates"
  PROVE  Whole({h} \cup heap[h].recs) /\ heap[h].recs \cap owned = {}
  <1>1. h \in Allocated /\ HeldBy(h) = heap[h].recs
    BY DEF Ownership, HeldBy
  <1>2. \A g \in Allocated : g \notin {h} \cup heap[h].recs => h \notin HeldBy(g)
    BY DEF Ownership
  <1> QED  BY <1>1, <1>2 DEF Ownership, Whole

\* Calls that leave the objects alone are safe.
LEMMA SameSafe ==
  ASSUME DInv, UNCHANGED <<role, heap, owned>>
  PROVE  Safe
  <1>1. Allocated' = Allocated /\ Handles' = Handles /\ \A h : HeldBy(h)' = HeldBy(h)
    BY DEF Allocated, Handles, HeldBy
  <1>2. Ownership'
    BY <1>1 DEF DInv, Ownership
  <1>3. Leaked' = Leaked
    BY <1>1 DEF Leaked, Reachable
  <1> QED  BY <1>2, <1>3 DEF Safe, DInv

\* What freeing and taking objects leaves is owned as before, and a call that frees all that
\* it takes leaks nothing.
LEMMA ReleaseOwned ==
  ASSUME Ownership, NEW freed, NEW taken, Whole(freed), taken \subseteq owned,
         freed \cap owned \subseteq taken
  PROVE  LET left == Allocated \ freed
             mine == owned \ taken
         IN  /\ DOMAIN Release(freed) = left
             /\ \A h \in left : Release(freed)[h] = heap[h]
             /\ mine \subseteq left
             /\ \A h \in left : HeldBy(h) \subseteq left \ mine
             /\ taken \subseteq freed =>
                  \A g \in left : g \in Reachable => g \in mine \/ \E h \in mine : g \in HeldBy(h)
  BY DEF Ownership, Whole, Release, Reachable

LEMMA DoneSafe ==
  ASSUME DInv, UNCHANGED role, NEW freed, NEW taken, NEW code,
         Whole(freed), taken \subseteq owned, freed \cap owned \subseteq taken,
         Done(freed, taken, code), taken \subseteq freed \/ code = -1
  PROVE  Safe
  <1> DEFINE left == Allocated \ freed
             mine == owned \ taken
  <1>1. /\ heap' = Release(freed) /\ owned' = mine /\ ret' = code /\ Handles' = Handles
    BY DEF Done, Handles
  <1>2. /\ DOMAIN heap' = left
        /\ \A h \in left : heap'[h] = heap[h]
        /\ mine \subseteq left
        /\ \A h \in left : HeldBy(h) \subseteq left \ mine
        /\ taken \subseteq freed =>
              \A g \in left : g \in Reachable => g \in mine \/ \E h \in mine : g \in HeldBy(h)
    BY <1>1, ReleaseOwned DEF DInv
  <1> HIDE DEF left, mine
  <1>3. Allocated' = left /\ left \subseteq Allocated
    BY <1>2 DEF Allocated, left
  <1>4. \A h \in left : HeldBy(h)' = HeldBy(h)
    BY <1>2 DEF HeldBy
  <1>5. Ownership'
    BY <1>1, <1>2, <1>3, <1>4 DEF DInv, Ownership
  <1>6. ASSUME taken \subseteq freed PROVE Leaked' \subseteq Leaked
    BY <1>1, <1>2, <1>3, <1>4, <1>6 DEF Leaked, Reachable
  <1> QED  BY <1>1, <1>5, <1>6 DEF Safe, DInv

LEMMA ReturnsSafe ==
  ASSUME DInv, UNCHANGED role, NEW freed, NEW taken, NEW obj,
         Whole(freed), taken \subseteq owned, freed \cap owned \subseteq taken,
         Returns(freed, taken, obj), obj.is # "updates", taken \subseteq freed
  PROVE  Safe
  <1> DEFINE left == Allocated \ freed
             mine == owned \ taken
  <1>0. PICK new : new = HandleFor(Release(freed))
    OBVIOUS
  <1>1. /\ DOMAIN Release(freed) = left
        /\ \A h \in left : Release(freed)[h] = heap[h]
        /\ mine \subseteq left
        /\ \A h \in left : HeldBy(h) \subseteq left \ mine
        /\ \A g \in left : g \in Reachable => g \in mine \/ \E h \in mine : g \in HeldBy(h)
    BY ReleaseOwned DEF DInv
  <1>2. new \in Handles \ left
    BY <1>0, <1>1, FreshHandle DEF Returns, DInv
  <1>3. heap' = With(Release(freed), new, obj) /\ owned' = mine \cup {new} /\ Handles' = Handles
    BY <1>0 DEF Returns, Handles
  <1> HIDE DEF left, mine
  <1>4. Allocated' = left \cup {new} /\ left \subseteq Allocated
    BY <1>1, <1>2, <1>3 DEF With, Allocated, left
  <1>5. (\A h \in left : heap'[h] = heap[h]) /\ heap'[new] = obj
    BY <1>1, <1>2, <1>3 DEF With
  <1>6. (\A h \in left : HeldBy(h)' = HeldBy(h)) /\ HeldBy(new)' = {}
    BY <1>5 DEF HeldBy
  <1>7. Ownership'
    <2>1. \A h \in left : HeldBy(h)' \subseteq left
      BY <1>1, <1>6
    <2>2. \A h \in Allocated' : HeldBy(h)' \subseteq Allocated' \ owned'
      BY <1>1, <1>2, <1>3, <1>4, <1>6
    <2>3. \A h \in Allocated' : \A g \in HeldBy(h)' : HeldBy(g)' = {}
      BY <1>4, <1>6, <2>1 DEF DInv, Ownership
    <2>4. \A g, h \in Allocated' : g # h => HeldBy(g)' \cap HeldBy(h)' = {}
      BY <1>4, <1>6 DEF DInv, Ownership
    <2>5. Allocated' \subseteq Handles' /\ owned' \subseteq Allocated' /\ role' \in Roles
      BY <1>1, <1>2, <1>3, <1>4 DEF DInv, Ownership
    <2> QED  BY <2>2, <2>3, <2>4, <2>5 DEF Ownership
  <1>8. Leaked' \subseteq Leaked
    BY <1>1, <1>3, <1>4, <1>6 DEF Leaked, Reachable
  <1> QED  BY <1>7, <1>8 DEF Safe, DInv

\* Calls on objects of the client that are no arrays: all that is taken is freed, unless the
\* call reports an error.
LEMMA PlainDone ==
  ASSUME DInv, UNCHANGED role, NEW F, NEW S, NEW code,
         S \subseteq owned, F \subseteq S, \A h \in F : heap[h].is # "updates",
         Done(F, S, code), F = S \/ code = -1
  PROVE  Safe
  <1>1. Whole(F)
    BY WholePlain DEF DInv
  <1> QED  BY <1>1, DoneSafe

LEMMA PlainReturns ==
  ASSUME DInv, UNCHANGED role, NEW S, NEW obj,
         S \subseteq owned, \A h \in S : heap[h].is # "updates",
         Returns(S, S, obj), obj.is # "updates"
  PROVE  Safe
  <1>1. Whole(S)
    BY WholePlain DEF DInv
  <1> QED  BY <1>1, ReturnsSafe

-----------------------------------------------------------------------------
(* Records *)

\* Objects that are no arrays.
LEMMA Plain ==
    /\ \A kind, val : Rec(kind, val).is # "updates"
    /\ \A op, val, fits : Cmd(op, val, fits).is # "updates"
    /\ \A z, counts : Delta(z, counts).is # "updates" /\ Flatbuf(z, counts).is # "updates"
    /\ Str.is # "updates"
    /\ \A is : is # "updates" => \A h \in Owned(is) : h \in owned /\ heap[h].is # "updates"
    /\ \A h \in Records : h \in owned /\ heap[h].is # "updates"
  BY DEF Rec, Cmd, Delta, Flatbuf, Str, Owned, Records

LEMMA TextSafe ==
  ASSUME DInv, NEW valid, TextRecord(valid)
  PROVE  Safe
  <1>1. CASE valid
    BY <1>1, Plain, PlainReturns DEF TextRecord, OnlyHeap
  <1>2. CASE ~valid
    BY <1>2, PlainDone DEF TextRecord, OnlyHeap
  <1> QED  BY <1>1, <1>2

LEMMA MovesSafe ==
  ASSUME DInv, NEW kind, NEW fields \in SUBSET Records, Moves(kind, fields)
  PROVE  Safe
  BY Plain, PlainReturns DEF Moves, OnlyHeap

LEMMA ConsumesSafe ==
  ASSUME DInv, NEW coll, NEW recs \in SUBSET Records, Consumes(coll, recs)
  PROVE  Safe
  BY Plain, PlainDone DEF Consumes, OnlyHeap

LEMMA StructSafe ==
  ASSUME DInv, NEW fields \in SUBSET Records
  PROVE  /\ \A valid : ddlog_struct(fields, valid) => Safe
         /\ \A name \in {"valid", "invalid", "null"} : ddlog_struct_with_length(fields, name) => Safe
         /\ \A takes \in SUBSET fields, valid \in BOOLEAN : ddlog_named_struct(fields, takes, valid) => Safe
  <1>0. fields \subseteq owned /\ \A h \in fields : heap[h].is # "updates"
    BY Plain
  <1>1. ASSUME Returns(fields, fields, Rec("struct", NotAValue)), OnlyHeap
        PROVE  Safe
    BY <1>0, <1>1, Plain, PlainReturns DEF OnlyHeap
  <1>2. ASSUME NEW takes \in SUBSET fields, Done(takes, fields, -1), OnlyHeap
        PROVE  Safe
    BY <1>0, <1>2, PlainDone DEF OnlyHeap
  <1>3. ASSUME NEW valid, ddlog_struct(fields, valid)
        PROVE  Safe
    BY <1>1, <1>2, <1>3 DEF ddlog_struct
  <1>4. ASSUME NEW name \in {"valid", "invalid", "null"}, ddlog_struct_with_length(fields, name)
        PROVE  Safe
    <2>1. {} \in SUBSET fields /\ fields \in SUBSET fields
      OBVIOUS
    <2>2. OnlyHeap /\ \/ Returns(fields, fields, Rec("struct", NotAValue))
                      \/ Done(fields, fields, -1)
                      \/ Done({}, fields, -1)
      BY <1>4 DEF ddlog_struct_with_length
    <2> QED  BY <1>1, <1>2, <2>1, <2>2
  <1>5. ASSUME NEW takes \in SUBSET fields, NEW valid \in BOOLEAN,
               ddlog_named_struct(fields, takes, valid)
        PROVE  Safe
    BY <1>1, <1>2, <1>5 DEF ddlog_named_struct
  <1> QED  BY <1>3, <1>4, <1>5

\* An object of the client that is no array can be freed; and new objects, texts and copies of
\* records can be had.
LEMMA FreeSafe ==
  ASSUME DInv, NEW h \in owned, heap[h].is # "updates", Done({h}, {h}, 0), OnlyHeap
  PROVE  Safe
  BY PlainDone DEF OnlyHeap

LEMMA NewSafe ==
  ASSUME DInv, NEW obj, obj.is # "updates", Returns({}, {}, obj), UNCHANGED role
  PROVE  Safe
  BY PlainReturns

LEMMA FailSafe ==
  ASSUME DInv, NEW code, Done({}, {}, code), UNCHANGED role
  PROVE  Safe
  BY PlainDone

LEMMA TextOrNullSafe ==
  ASSUME DInv, NEW ok, TextOrNull(ok)
  PROVE  Safe
  BY Plain, NewSafe, FailSafe DEF TextOrNull, OnlyHeap

LEMMA CollectionsSafe ==
  ASSUME DInv, build_collections
  PROVE  Safe
  <1>1. ASSUME NEW fields \in SUBSET Records,
               \/ ddlog_tuple(fields) \/ ddlog_vector(fields) \/ ddlog_set(fields)
               \/ ddlog_map(fields)
        PROVE  Safe
    BY <1>1, MovesSafe DEF ddlog_tuple, ddlog_vector, ddlog_set, ddlog_map
  <1>2. ASSUME NEW fields \in SUBSET Records,
               \/ \E valid \in BOOLEAN :
                    ddlog_struct(fields, valid) \/ ddlog_struct_static_cons(fields, valid)
               \/ \E name \in {"valid", "invalid", "null"} :
                    \/ ddlog_struct_with_length(fields, name)
                    \/ ddlog_struct_static_cons_with_length(fields, name)
               \/ \E takes \in SUBSET fields, valid \in BOOLEAN :
                    ddlog_named_struct(fields, takes, valid)
        PROVE  Safe
    BY <1>2, StructSafe DEF ddlog_struct_static_cons, ddlog_struct_static_cons_with_length
  <1>3. ASSUME NEW coll \in Records, NEW rec \in Records,
               \/ ddlog_tuple_push(coll, rec) \/ ddlog_vector_push(coll, rec)
               \/ ddlog_set_push(coll, rec)
               \/ \E val \in Records : ddlog_map_push(coll, rec, val)
        PROVE  Safe
    BY <1>3, ConsumesSafe DEF ddlog_tuple_push, ddlog_vector_push, ddlog_set_push, ddlog_map_push
  <1>4. ASSUME NEW v1 \in Records, NEW v2 \in Records, ddlog_pair(v1, v2)
        PROVE  Safe
    BY <1>4, Plain, PlainReturns DEF ddlog_pair, OnlyHeap
  <1> QED  BY <1>1, <1>2, <1>3, <1>4 DEF build_collections

LEMMA RecordsSafe ==
  ASSUME DInv, build_records
  PROVE  Safe
  <1>1. CASE ddlog_scalar(NotAValue)
    BY <1>1, Plain, NewSafe DEF ddlog_scalar, OnlyHeap
  <1>2. ASSUME NEW valid \in BOOLEAN, NEW empty \in BOOLEAN, NEW format \in BOOLEAN,
               \/ ddlog_string(valid) \/ ddlog_string_with_length(empty, valid)
               \/ ddlog_serialized(format, valid)
               \/ ddlog_serialized_with_length(format, empty, valid)
        PROVE  Safe
    BY <1>2, TextSafe DEF ddlog_string, ddlog_string_with_length, ddlog_serialized,
                          ddlog_serialized_with_length
  <1>3. ASSUME NEW h \in Records,
               \/ ddlog_clone(h) \/ ddlog_free(h)
               \/ \E ok \in BOOLEAN : \/ ddlog_dump_record(h, ~ok)
                                      \/ ddlog_into_ovsdb_insert_str(h, ok)
                                      \/ ddlog_into_osvdb_delete_str(h, ok)
                                      \/ ddlog_into_ovsdb_update_str(h, ok)
        PROVE  Safe
    <2>1. h \in owned /\ heap[h].is # "updates"
      BY Plain
    <2>2. CASE ddlog_clone(h)
      BY <2>1, <2>2, Plain, NewSafe DEF ddlog_clone, OnlyHeap
    <2>3. CASE ddlog_free(h)
      BY <2>1, <2>3, FreeSafe DEF ddlog_free
    <2> QED  BY <1>3, <2>2, <2>3, TextOrNullSafe
             DEF ddlog_dump_record, ddlog_into_ovsdb_insert_str, ddlog_into_osvdb_delete_str,
                 ddlog_into_ovsdb_update_str
  <1>4. ASSUME NEW h \in Owned("string"), ddlog_string_free(h) \/ ddlog_free_json(h)
        PROVE  Safe
    BY <1>4, Plain, FreeSafe DEF ddlog_string_free, ddlog_free_json
  <1> QED  BY <1>1, <1>2, <1>3, <1>4, CollectionsSafe DEF build_records

-----------------------------------------------------------------------------
(* Updates *)

\* A function on 1 .. n is a sequence of length n.
LEMMA SeqOfLength ==
  ASSUME NEW n \in Nat, NEW s, DOMAIN s = 1 .. n, s = [i \in 1 .. n |-> s[i]]
  PROVE  s \in Seq({s[i] : i \in 1 .. n}) /\ Len(s) = n
  <1>1. s \in [1 .. n -> {s[i] : i \in 1 .. n}]
    OBVIOUS
  <1>2. s \in Seq({s[i] : i \in 1 .. n})
    BY <1>1, SeqDef
  <1>3. Len(s) \in Nat /\ DOMAIN s = 1 .. Len(s)
    BY <1>2, LenProperties
  <1> QED  BY <1>2, <1>3

\* No more commands are fed to the program than there are, and a failure is found among them
\* or after the last.
LEMMA FedBound ==
  ASSUME NEW T, NEW cs \in Seq(T)
  PROVE  Len(Fed(cs)) \in Nat /\ Len(Fed(cs)) <= Len(cs) /\ Fed(cs) \in Seq(T)
  <1> DEFINE M == {i - 1 : i \in {j \in DOMAIN cs : ~Converts(cs[j])}} \cup {Len(cs)}
  <1>1. Len(cs) \in Nat /\ DOMAIN cs = 1 .. Len(cs)
    BY LenProperties
  <1>2. M \in SUBSET Nat /\ M # {} /\ Len(cs) \in M
    BY <1>1
  <1> HIDE DEF M
  <1>3. Min(M) \in Nat /\ Min(M) <= Len(cs)
    BY <1>2, MinLeast
  <1>4. Fed(cs) = SubSeq(cs, 1, Min(M))
    BY DEF Fed, M
  <1>5. SubSeq(cs, 1, Min(M)) \in Seq(T) /\ Len(SubSeq(cs, 1, Min(M))) = Min(M)
    BY <1>1, <1>3, SubSeqProperties
  <1> QED  BY <1>3, <1>4, <1>5

LEMMA FailureBound ==
  ASSUME NEW T, NEW cs \in Seq(T)
  PROVE  FirstFailure(cs) \in Nat
  <1>1. Len(cs) \in Nat /\ DOMAIN cs = 1 .. Len(cs)
    BY LenProperties
  <1> DEFINE f == Progress(cs)
             M == {i \in DOMAIN cs : f[i] = Failed} \cup {Len(cs) + 1}
  <1>2. M \in SUBSET Nat /\ M # {}
    BY <1>1
  <1> HIDE DEF M
  <1>3. Min(M) \in Nat
    BY <1>2, MinLeast
  <1> QED  BY <1>3 DEF FirstFailure, M

\* The commands that are freed are some of the batch, and all of it when the call succeeds.
LEMMA PulledBound ==
  ASSUME NEW T, NEW cs \in Seq(T)
  PROVE  /\ Pulled(cs) \in 0 .. Len(cs)
         /\ prog.txn /\ BatchOk(cs) => Pulled(cs) = Len(cs)
  <1>1. Len(cs) \in Nat
    BY LenProperties
  <1>2. Len(Fed(cs)) \in Nat /\ Len(Fed(cs)) <= Len(cs) /\ Fed(cs) \in Seq(T)
    BY FedBound
  <1>3. FirstFailure(Fed(cs)) \in Nat
    BY <1>2, FailureBound
  <1>4. Pulled(cs) \in 0 .. Len(cs)
    BY <1>1, <1>2, <1>3 DEF Pulled
  <1>5. ASSUME prog.txn, BatchOk(cs) PROVE Pulled(cs) = Len(cs)
    <2>1. Fed(cs) = cs /\ FirstFailure(cs) > Len(cs)
      BY <1>5 DEF BatchOk
    <2>2. ~(FirstFailure(Fed(cs)) <= Len(Fed(cs)))
      BY <1>1, <1>3, <2>1
    <2> QED  BY <1>5, <2>2 DEF Pulled
  <1> QED  BY <1>4, <1>5

LEMMA ApplySafe ==
  ASSUME DInv, NEW hs \in Batches, ddlog_apply_updates(hs)
  PROVE  Safe
  <1> DEFINE cs == [i \in DOMAIN hs |-> heap[hs[i]]]
             all == {hs[i] : i \in DOMAIN hs}
             code == IF prog.txn /\ BatchOk(cs) THEN 0 ELSE -1
  <1>1. PICK n \in {1, 2} : DOMAIN hs = 1 .. n /\ \A i \in 1 .. n : hs[i] \in Owned("cmd")
    <2>1. CASE \E a \in Owned("cmd") : hs = <<a>>
      BY <2>1
    <2>2. CASE hs \in Owned("cmd") \X Owned("cmd")
      <3>1. PICK a, b \in Owned("cmd") : hs = <<a, b>>
        BY <2>2
      <3>2. DOMAIN hs = 1 .. 2 /\ hs[1] = a /\ hs[2] = b
        BY <3>1
      <3> QED  BY <3>2
    <2> QED  BY <2>1, <2>2 DEF Batches
  <1>2. DOMAIN cs = 1 .. n /\ cs = [i \in 1 .. n |-> cs[i]]
    BY <1>1
  <1>3. Done(Consumed(hs), all, code) /\ UNCHANGED role
    BY DEF ddlog_apply_updates
  <1>4. Consumed(hs) = {hs[i] : i \in 1 .. Pulled(cs)}
    BY DEF Consumed
  <1>5. all \subseteq owned /\ \A h \in all : heap[h].is # "updates"
    BY <1>1, Plain
  <1> HIDE DEF cs
  <1>6. Len(cs) = n /\ cs \in Seq({cs[i] : i \in 1 .. n})
    BY <1>1, <1>2, SeqOfLength
  <1>7. Pulled(cs) \in 0 .. n /\ (prog.txn /\ BatchOk(cs) => Pulled(cs) = n)
    BY <1>6, PulledBound
  <1>8. Consumed(hs) \subseteq all /\ (prog.txn /\ BatchOk(cs) => Consumed(hs) = all)
    BY <1>1, <1>4, <1>7
  <1>9. Consumed(hs) = all \/ code = -1
    BY <1>8
  <1> HIDE DEF all, code
  <1> QED  BY <1>3, <1>5, <1>8, <1>9, PlainDone

\* Calls that read the program and return nothing.
LEMMA ReadsSafe ==
  ASSUME DInv, NEW ok, Reads(ok)
  PROVE  Safe
  BY FailSafe DEF Reads, OnlyHeap

LEMMA UpdatesSafe ==
  ASSUME DInv, send_updates
  PROVE  Safe
  <1>1. ASSUME NEW val, ddlog_scalar(val)
        PROVE  Safe
    BY <1>1, Plain, NewSafe DEF ddlog_scalar, OnlyHeap
  <1>2. ASSUME NEW h \in Records, ddlog_free(h) \/ ddlog_query_index(h)
        PROVE  Safe
    BY <1>2, Plain, FreeSafe, FailSafe DEF ddlog_free, ddlog_query_index, OnlyHeap
  <1>3. ASSUME NEW ok \in BOOLEAN,
               \/ ddlog_dump_index(ok) \/ ddlog_dump_table(ok)
               \/ ddlog_enable_cpu_profiling(ok) \/ ddlog_enable_change_profiling(ok)
               \/ ddlog_enable_timely_profiling(ok)
        PROVE  Safe
    BY <1>3, ReadsSafe DEF ddlog_dump_index, ddlog_dump_table, ddlog_enable_cpu_profiling,
                           ddlog_enable_change_profiling, ddlog_enable_timely_profiling
  <1>4. ASSUME NEW op, NEW h \in Records, ddlog_cmd(op, h)
        PROVE  Safe
    <2>1. {h} \subseteq owned /\ \A g \in {h} : heap[g].is # "updates"
      BY Plain
    <2> QED  BY <1>4, <2>1, Plain, PlainReturns DEF ddlog_cmd, OnlyHeap
  <1>5. ASSUME NEW key \in Records, NEW values \in Records, ddlog_modify_cmd(key, values)
        PROVE  Safe
    <2>1. {key, values} \subseteq owned /\ \A g \in {key, values} : heap[g].is # "updates"
      BY Plain
    <2> QED  BY <1>5, <2>1, Plain, PlainReturns DEF ddlog_modify_cmd, OnlyHeap
  <1>6. CASE ddlog_clear_relation
    BY <1>6, SameSafe DEF ddlog_clear_relation, OnlyProgram
  <1>7. ASSUME NEW fd, NEW ok, ddlog_record_commands(fd, ok) \/ ddlog_dump_input_snapshot(fd, ok)
        PROVE  Safe
    BY <1>7, SameSafe DEF ddlog_record_commands, ddlog_dump_input_snapshot, OnlyProgram
  <1> QED  BY <1>1, <1>2, <1>3, <1>4, <1>5, <1>6, <1>7, ApplySafe DEF send_updates

-----------------------------------------------------------------------------
(* Changes *)

\* An array of changes comes with records of its own.
LEMMA ArraySafe ==
  ASSUME DInv, ddlog_transaction_commit_dump_changes_as_array
  PROVE  Safe
  <1>1. PICK recs \in SUBSET FreeHandles, h \in FreeHandles :
          /\ h \notin recs
          /\ heap' = [g \in Allocated \cup recs \cup {h} |->
                       IF g = h THEN Updates(TxnChanges, recs)
                       ELSE IF g \in recs THEN Rec("scalar", NotAValue) ELSE heap[g]]
          /\ owned' = owned \cup {h}
    BY DEF ddlog_transaction_commit_dump_changes_as_array, kSubset
  <1>2. role' = role
    BY DEF ddlog_transaction_commit_dump_changes_as_array
  <1>3. /\ Allocated' = Allocated \cup recs \cup {h}
        /\ recs \cap Allocated = {} /\ h \notin Allocated
        /\ recs \subseteq Handles /\ h \in Handles /\ Handles' = Handles
    BY <1>1, <1>2 DEF Allocated, FreeHandles, Handles
  <1>4. /\ \A g \in Allocated : HeldBy(g)' = HeldBy(g)
        /\ \A g \in recs : HeldBy(g)' = {}
        /\ HeldBy(h)' = recs
    <2>1. \A g \in Allocated : heap'[g] = heap[g]
      BY <1>1, <1>3
    <2>2. \A g \in recs : heap'[g] = Rec("scalar", NotAValue)
      BY <1>1, <1>3
    <2>3. heap'[h] = Updates(TxnChanges, recs)
      BY <1>1
    <2>4. Updates(TxnChanges, recs).is = "updates" /\ Updates(TxnChanges, recs).recs = recs
      BY DEF Updates
    <2> QED  BY <2>1, <2>2, <2>3, <2>4, Plain DEF HeldBy
  <1>5. Ownership'
    <2>1. \A g \in Allocated' : HeldBy(g)' \subseteq Allocated' \ owned'
      BY <1>1, <1>3, <1>4 DEF DInv, Ownership
    <2>2. \A g \in Allocated' : \A k \in HeldBy(g)' : HeldBy(k)' = {}
      BY <1>3, <1>4 DEF DInv, Ownership
    <2>3. \A g, k \in Allocated' : g # k => HeldBy(g)' \cap HeldBy(k)' = {}
      BY <1>3, <1>4 DEF DInv, Ownership
    <2> QED  BY <1>1, <1>2, <1>3, <2>1, <2>2, <2>3 DEF DInv, Ownership
  <1>6. Leaked' \subseteq Leaked
    BY <1>1, <1>3, <1>4 DEF Leaked, Reachable, DInv, Ownership
  <1> QED  BY <1>2, <1>5, <1>6 DEF Safe, DInv

\* Deltas of the client may change in place.
LEMMA DeltaSafe ==
  ASSUME DInv, UNCHANGED <<role, owned>>, Allocated' = Allocated,
         \A h \in Allocated : heap'[h] = heap[h] \/ (h \in Owned("delta") /\ heap'[h].is = "delta")
  PROVE  Safe
  <1>1. \A h \in Allocated : HeldBy(h)' = HeldBy(h)
    BY DEF HeldBy, Owned
  <1>2. Handles' = Handles
    BY DEF Handles
  <1>3. Ownership'
    BY <1>1, <1>2 DEF DInv, Ownership
  <1>4. Leaked' \subseteq Leaked
    BY <1>1 DEF Leaked, Reachable
  <1> QED  BY <1>3, <1>4 DEF Safe, DInv

\* Splitting a delta gives a new one.
LEMMA SplitSafe ==
  ASSUME DInv, NEW h \in Owned("delta"), NEW t, ddlog_delta_remove_table(h, t)
  PROVE  Safe
  <1>0. PICK new : new = NewHandle
    OBVIOUS
  <1>1. new \in Handles \ Allocated /\ UNCHANGED role /\ owned' = owned \cup {new}
    <2>1. FreeHandles \in SUBSET Nat /\ FreeHandles # {}
      BY HandlesAssumption
      DEF DInv, Ownership, Handles, FreeHandles, ddlog_delta_remove_table
    <2>2. NewHandle \in FreeHandles
      BY <2>1, MinLeast DEF NewHandle
    <2> QED  BY <1>0, <2>2 DEF FreeHandles, ddlog_delta_remove_table, OnlyHeap
  <1>2. h \in Allocated /\ heap[h].is = "delta"
    BY DEF Owned, DInv, Ownership
  <1>3. PICK z, y, c : heap' = With([heap EXCEPT ![h] = Delta(z, c)], new, Delta(y, c))
    BY <1>0 DEF ddlog_delta_remove_table
  <1>4. Allocated' = Allocated \cup {new} /\ Handles' = Handles
    BY <1>1, <1>3 DEF Allocated, With, Handles
  <1>5. /\ \A g \in Allocated : g # h => heap'[g] = heap[g]
        /\ heap'[h] = Delta(z, c) /\ heap'[new] = Delta(y, c)
    BY <1>1, <1>2, <1>3 DEF Allocated, With
  <1>6. (\A g \in Allocated : HeldBy(g)' = HeldBy(g)) /\ HeldBy(new)' = {}
    BY <1>2, <1>5, Plain DEF HeldBy
  <1>7. Ownership'
    <2>1. \A g \in Allocated' : HeldBy(g)' \subseteq Allocated' \ owned'
      BY <1>1, <1>4, <1>6 DEF DInv, Ownership
    <2>2. \A g \in Allocated' : \A k \in HeldBy(g)' : HeldBy(k)' = {}
      BY <1>4, <1>6 DEF DInv, Ownership
    <2>3. \A g, k \in Allocated' : g # k => HeldBy(g)' \cap HeldBy(k)' = {}
      BY <1>4, <1>6 DEF DInv, Ownership
    <2> QED  BY <1>1, <1>4, <2>1, <2>2, <2>3 DEF DInv, Ownership
  <1>8. Leaked' \subseteq Leaked
    BY <1>1, <1>4, <1>6 DEF Leaked, Reachable, DInv, Ownership
  <1> QED  BY <1>1, <1>7, <1>8 DEF Safe, DInv

LEMMA DeltaCallsSafe ==
  ASSUME DInv, NEW h \in Owned("delta")
  PROVE  /\ \A t : ddlog_delta_get_table(h, t) => Safe
         /\ \A ts : ddlog_delta_clear(h, ts) => Safe
         /\ \A new \in Owned("delta") : ddlog_delta_union(h, new) => Safe
  <1>0. \A z, c : Delta(z, c).is = "delta"
    BY DEF Delta
  <1>1. ASSUME NEW t, ddlog_delta_get_table(h, t)
        PROVE  Safe
    BY <1>1, Plain, NewSafe DEF ddlog_delta_get_table, OnlyHeap
  <1>2. ASSUME NEW ts, ddlog_delta_clear(h, ts)
        PROVE  Safe
    <2>1. PICK z, c : heap' = [heap EXCEPT ![h] = Delta(z, c)]
      BY <1>2 DEF ddlog_delta_clear
    <2>2. \A g \in Allocated : heap'[g] = IF g = h THEN Delta(z, c) ELSE heap[g]
      BY <2>1 DEF Allocated
    <2>3. Allocated' = Allocated
      BY <2>1 DEF Allocated
    <2>4. UNCHANGED <<role, owned>>
      BY <1>2 DEF ddlog_delta_clear
    <2> QED  BY <1>0, <2>2, <2>3, <2>4, DeltaSafe
  <1>3. ASSUME NEW new \in Owned("delta"), ddlog_delta_union(h, new)
        PROVE  Safe
    <2>1. PICK z, c, y, d : heap' = [heap EXCEPT ![h] = Delta(z, c), ![new] = Delta(y, d)]
      BY <1>3 DEF ddlog_delta_union
    <2>2. \A g \in Allocated : heap'[g] = IF g = new THEN Delta(y, d)
                                          ELSE IF g = h THEN Delta(z, c) ELSE heap[g]
      BY <2>1 DEF Allocated
    <2>3. Allocated' = Allocated
      BY <2>1 DEF Allocated
    <2>4. UNCHANGED <<role, owned>>
      BY <1>3 DEF ddlog_delta_union
    <2> QED  BY <1>0, <2>2, <2>3, <2>4, DeltaSafe
  <1> QED  BY <1>1, <1>2, <1>3

\* Changes are freed with what belongs to them.
LEMMA FreeChangesSafe ==
  ASSUME DInv
  PROVE  /\ \A h \in Owned("updates") : ddlog_free_record_updates(h) => Safe
         /\ \A h \in Owned("flatbuf") \cup Owned("delta") : FreeChanges(h) => Safe
  <1>1. ASSUME NEW h \in Owned("updates"), ddlog_free_record_updates(h)
        PROVE  Safe
    <2>1. h \in owned /\ heap[h].is = "updates"
      BY DEF Owned
    <2>2. Whole({h} \cup heap[h].recs) /\ heap[h].recs \cap owned = {}
      BY <2>1, WholeArray DEF DInv
    <2>3. Done({h} \cup heap[h].recs, {h}, 0) /\ UNCHANGED role
      BY <1>1 DEF ddlog_free_record_updates
    <2> QED  BY <2>1, <2>2, <2>3, DoneSafe
  <1>2. ASSUME NEW h \in Owned("flatbuf") \cup Owned("delta"), FreeChanges(h)
        PROVE  Safe
    <2>1. {h} \subseteq owned /\ heap[h].is # "updates"
      BY DEF Owned
    <2>2. Done({h}, {h}, 0) /\ UNCHANGED role
      BY <1>2 DEF FreeChanges
    <2> QED  BY <2>1, <2>2, PlainDone
  <1> QED  BY <1>1, <1>2

LEMMA TextsSafe ==
  ASSUME DInv, collect_texts
  PROVE  Safe
  <1>1. ASSUME NEW ok, Profile(ok)
        PROVE  Safe
    BY <1>1, TextOrNullSafe DEF Profile
  <1>2. ASSUME NEW h, NEW t, NEW ok,
               ddlog_dump_ovsdb_delta_tables(h, t, ok) \/ ddlog_dump_ovsdb_output_table(h, t, ok)
        PROVE  Safe
    BY <1>2, TextOrNullSafe DEF ddlog_dump_ovsdb_delta_tables, ddlog_dump_ovsdb_output_table
  <1>3. ASSUME NEW h \in Owned("string"), ddlog_string_free(h) \/ ddlog_free_json(h)
        PROVE  Safe
    BY <1>3, Plain, FreeSafe DEF ddlog_string_free, ddlog_free_json
  <1> QED  BY <1>1, <1>2, <1>3
           DEF collect_texts, ddlog_dump_profile, ddlog_arrangement_size_profile,
               ddlog_peak_arrangement_size_profile, ddlog_change_profile, ddlog_cpu_profile

\* A commit returns its changes, or reports that it cannot convert them.
LEMMA CommitsSafe ==
  ASSUME DInv, NEW converts
  PROVE  /\ ddlog_transaction_commit_dump_changes => Safe
         /\ ddlog_transaction_commit_dump_changes_to_flatbuf(converts) => Safe
         /\ IndexValues(converts) => Safe
  <1>1. ddlog_transaction_commit_dump_changes => Safe
    BY Plain, NewSafe DEF ddlog_transaction_commit_dump_changes
  <1>2. ASSUME ddlog_transaction_commit_dump_changes_to_flatbuf(converts) PROVE Safe
    <2>1. /\ UNCHANGED role
          /\ Returns({}, {}, Flatbuf(TxnChanges, TRUE)) \/ Done({}, {}, -1)
      BY <1>2 DEF ddlog_transaction_commit_dump_changes_to_flatbuf
    <2> QED  BY <2>1, Plain, NewSafe, FailSafe
  <1>3. IndexValues(converts) => Safe
    BY Plain, NewSafe, FailSafe DEF IndexValues, OnlyHeap
  <1> QED  BY <1>1, <1>2, <1>3

LEMMA ChangesSafe ==
  ASSUME DInv, collect_changes
  PROVE  Safe
  <1>1. ASSUME NEW c, ddlog_apply_updates_from_flatbuf(c) \/ ddlog_apply_ovsdb_updates(c)
        PROVE  Safe
    <2>1. UNCHANGED <<role, heap, owned>>
      BY <1>1 DEF ddlog_apply_updates_from_flatbuf, ddlog_apply_ovsdb_updates, apply_converted,
                  OnlyProgram
    <2> QED  BY <2>1, SameSafe
  <1>2. ASSUME NEW converts \in BOOLEAN,
               \/ ddlog_transaction_commit_dump_changes_to_flatbuf(converts)
               \/ ddlog_dump_index_to_flatbuf(converts)
               \/ ddlog_query_index_from_flatbuf(converts)
        PROVE  Safe
    BY <1>2, CommitsSafe DEF ddlog_dump_index_to_flatbuf, ddlog_query_index_from_flatbuf
  <1>3. CASE ddlog_transaction_commit_dump_changes
    BY <1>3, CommitsSafe
  <1>4. CASE ddlog_new_delta
    BY <1>4, Plain, NewSafe DEF ddlog_new_delta, OnlyHeap
  <1>5. ASSUME NEW h \in Owned("delta"),
               \/ \E t \in Tables : \/ ddlog_delta_get_table(h, t)
                                    \/ ddlog_delta_remove_table(h, t)
                                    \/ ddlog_delta_clear(h, {t})
               \/ ddlog_delta_clear(h, Tables)
               \/ \E new \in Owned("delta") \ {h} : ddlog_delta_union(h, new)
        PROVE  Safe
    BY <1>5, DeltaCallsSafe, SplitSafe
  <1> QED  BY <1>1, <1>2, <1>3, <1>4, <1>5, ArraySafe, TextsSafe, FreeChangesSafe
           DEF collect_changes, ddlog_free_delta, ddlog_flatbuf_free

LEMMA TransactionsSafe ==
  ASSUME DInv, run_transactions
  PROVE  Safe
  <1>1. CASE ddlog_transaction_start \/ ddlog_transaction_rollback
    BY <1>1, SameSafe DEF ddlog_transaction_start, ddlog_transaction_rollback, OnlyProgram
  <1>2. CASE ddlog_transaction_commit \/ CommitFails
    BY <1>2, SameSafe DEF ddlog_transaction_commit, CommitFails
  <1>3. ASSUME NEW sole \in BOOLEAN, NEW ok \in BOOLEAN, ddlog_stop(sole, ok)
        PROVE  Safe
    <2>1. UNCHANGED <<role, heap, owned>>
      BY <1>3 DEF ddlog_stop, OnlyProgram
    <2> QED  BY <2>1, SameSafe
  <1> QED  BY <1>1, <1>2, <1>3 DEF run_transactions

-----------------------------------------------------------------------------
(* Theorems *)

LEMMA InitDInv == Init => DInv
  <1> SUFFICES ASSUME Init PROVE DInv
    OBVIOUS
  <1>1. Allocated = {}
    BY DEF Init, Allocated
  <1> QED  BY <1>1 DEF Init, DInv, Ownership

LEMMA NextSafe ==
  ASSUME DInv, [Next]_vars
  PROVE  Safe
  <1>1. CASE Next
    BY <1>1, RecordsSafe, UpdatesSafe, ChangesSafe, TransactionsSafe DEF Next
  <1>2. CASE UNCHANGED vars
    BY <1>2, SameSafe DEF vars
  <1> QED  BY <1>1, <1>2

\* Every record of an array belongs to it alone, whatever the client builds, sends and frees.
THEOREM OwnershipInvariance == Spec => []DInv
  BY InitDInv, NextSafe, PTL DEF Spec, Safe

\* The client never holds a pointer to freed memory, nor owns twice what an array owns.
THEOREM NoDanglingPointer == Spec => []NothingDangles
  <1>1. DInv => NothingDangles
    BY DEF DInv, Ownership, NothingDangles, Held
  <1> QED  BY <1>1, OwnershipInvariance, PTL

\* A call that succeeds has freed all that it took and did not give back.
THEOREM NoLeakOnSuccess == Spec => SuccessLeaksNothing
  <1>1. DInv /\ [Next]_vars =>
          [(Allocated \ Reachable)' \subseteq Allocated \ Reachable \/ ret' = -1]_vars
    BY NextSafe DEF Safe, Leaked
  <1> QED  BY <1>1, OwnershipInvariance, PTL DEF Spec, SuccessLeaksNothing

-----------------------------------------------------------------------------
(* Adding up changes *)

\* Z-sets of records of D.
ZSetsOver(D) == UNION {[T -> Int \ {0}] : T \in SUBSET D}

LEMMA OverIs ==
  ASSUME NEW D, NEW z
  PROVE  z \in ZSetsOver(D) <=> IsZSet(z) /\ DOMAIN z \subseteq D
  <1>1. ASSUME z \in ZSetsOver(D) PROVE IsZSet(z) /\ DOMAIN z \subseteq D
    <2>1. PICK T \in SUBSET D : z \in [T -> Int \ {0}]
      BY <1>1 DEF ZSetsOver
    <2> QED  BY <2>1 DEF IsZSet
  <1>2. ASSUME IsZSet(z), DOMAIN z \subseteq D PROVE z \in ZSetsOver(D)
    <2>1. z \in [DOMAIN z -> Int \ {0}]
      BY <1>2 DEF IsZSet
    <2> QED  BY <1>2, <2>1 DEF ZSetsOver
  <1> QED  BY <1>1, <1>2

\* One change is added to the weight of its record.
LEMMA UpdateWeights ==
  ASSUME NEW z, IsZSet(z), NEW x, NEW d \in Int, d # 0
  PROVE  /\ IsZSet(update(z, x, d)) /\ DOMAIN update(z, x, d) \subseteq DOMAIN z \cup {x}
         /\ \A y : Weight(update(z, x, d), y) = Weight(z, y) + (IF y = x THEN d ELSE 0)
  <1>1. \A y \in DOMAIN z : z[y] \in Int /\ z[y] # 0
    BY DEF IsZSet
  <1>2. CASE x \in DOMAIN z /\ z[x] = -d
    <2> DEFINE u == [y \in DOMAIN z \ {x} |-> z[y]]
    <2>1. update(z, x, d) = u
      BY <1>2 DEF update
    <2>2. IsZSet(u) /\ DOMAIN u \subseteq DOMAIN z \cup {x}
      BY <1>1 DEF IsZSet
    <2>3. \A y : Weight(u, y) = Weight(z, y) + (IF y = x THEN d ELSE 0)
      BY <1>1, <1>2 DEF Weight
    <2> QED  BY <2>1, <2>2, <2>3
  <1>3. CASE ~(x \in DOMAIN z /\ z[x] = -d)
    <2> DEFINE w == Weight(z, x) + d
               u == [y \in DOMAIN z \cup {x} |-> IF y = x THEN w ELSE z[y]]
    <2>1. update(z, x, d) = u
      BY <1>3 DEF update, With
    <2>2. w \in Int /\ w # 0
      BY <1>1, <1>3 DEF Weight
    <2>3. IsZSet(u) /\ DOMAIN u \subseteq DOMAIN z \cup {x}
      <3> HIDE DEF w
      <3> QED  BY <1>1, <2>2 DEF IsZSet
    <2>4. \A y : Weight(u, y) = Weight(z, y) + (IF y = x THEN d ELSE 0)
      BY <1>1 DEF Weight
    <2> QED  BY <2>1, <2>3, <2>4
  <1> QED  BY <1>2, <1>3

\* The sums that UnionOf goes through, as a recursive function.
Unites(g, z, new) ==
    g = [s \in SUBSET DOMAIN new |->
           IF s = {} THEN z ELSE update(g[Rest(s)], Pick(s), new[Pick(s)])]

LEMMA UnitesExists ==
  ASSUME NEW z, IsZSet(z), NEW new, IsZSet(new), IsFiniteSet(DOMAIN new)
  PROVE  \E g : Unites(g, z, new)
  <1>0. PICK S : S = DOMAIN new
    OBVIOUS
  <1>1. PICK A : A = ZSetsOver(DOMAIN z \cup S)
    OBVIOUS
  <1> DEFINE step == [xa \in S \X A |-> update(xa[2], xa[1], new[xa[1]])]
  <1>2. z \in A
    BY <1>1, OverIs
  <1>3. ASSUME NEW x \in S, NEW a \in A PROVE update(a, x, new[x]) \in A
    <2>1. IsZSet(a) /\ DOMAIN a \subseteq DOMAIN z \cup S
      BY <1>1, OverIs
    <2>2. new[x] \in Int /\ new[x] # 0
      BY <1>0 DEF IsZSet
    <2>3. IsZSet(update(a, x, new[x])) /\ DOMAIN update(a, x, new[x]) \subseteq DOMAIN a \cup {x}
      BY <2>1, <2>2, UpdateWeights
    <2>4. DOMAIN update(a, x, new[x]) \subseteq DOMAIN z \cup S
      BY <2>1, <2>3
    <2> QED  BY <1>1, <2>3, <2>4, OverIs
  <1>4. step \in [S \X A -> A]
    BY <1>3
  <1>5. PICK g \in [SUBSET S -> A] : FoldsBy(g, S, z, step)
    <2> HIDE DEF step
    <2> QED  BY <1>0, <1>2, <1>4, FoldExists
  <1>6. ASSUME NEW s \in SUBSET S, s # {}
        PROVE  step[<<Pick(s), g[Rest(s)]>>] = update(g[Rest(s)], Pick(s), new[Pick(s)])
    <2>1. IsFiniteSet(s)
      BY <1>0, FS_Subset
    <2>2. Pick(s) \in S /\ Rest(s) \in SUBSET S
      BY <1>6, <2>1, RestSmaller
    <2>3. <<Pick(s), g[Rest(s)]>> \in S \X A
      BY <2>2
    <2> QED  BY <2>3
  <1> HIDE DEF step
  <1>7. \A s \in SUBSET S :
          g[s] = IF s = {} THEN z ELSE update(g[Rest(s)], Pick(s), new[Pick(s)])
    BY <1>5, <1>6 DEF FoldsBy
  <1>8. Unites(g, z, new)
    BY <1>0, <1>7 DEF Unites
  <1> QED  BY <1>8

\* A finite Z-set.
FiniteZ(z) == IsZSet(z) /\ IsFiniteSet(DOMAIN z)

\* The union of two deltas adds up their weights, however the changes are ordered.
LEMMA UnionWeights ==
  ASSUME NEW z, FiniteZ(z), NEW new, FiniteZ(new)
  PROVE  /\ FiniteZ(UnionOf(z, new))
         /\ \A x : Weight(UnionOf(z, new), x) = Weight(z, x) + Weight(new, x)
  <1>0. PICK S : S = DOMAIN new
    OBVIOUS
  <1> DEFINE g == CHOOSE h : h = [s \in SUBSET S |->
                   IF s = {} THEN z ELSE update(h[Rest(s)], Pick(s), new[Pick(s)])]
  <1>1. UnionOf(z, new) = g[S]
    BY <1>0 DEF UnionOf, FoldSet, MapThenFoldSet, Pick, Rest
  <1>2. g = [s \in SUBSET S |->
                   IF s = {} THEN z ELSE update(g[Rest(s)], Pick(s), new[Pick(s)])]
    BY <1>0, UnitesExists DEF Unites, FiniteZ
  <1> HIDE DEF g
  <1>3. \A s \in SUBSET S : g[s] = IF s = {} THEN z ELSE update(g[Rest(s)], Pick(s), new[Pick(s)])
    BY <1>2
  <1> DEFINE Good(s) == /\ IsZSet(g[s]) /\ DOMAIN g[s] \subseteq DOMAIN z \cup s
                        /\ \A x : Weight(g[s], x) = Weight(z, x) + (IF x \in s THEN new[x] ELSE 0)
             Bad == {s \in SUBSET S : ~Good(s)}
  <1>4. \A x : Weight(z, x) \in Int
    BY WeightType DEF FiniteZ
  <1>5. \A x \in S : new[x] \in Int /\ new[x] # 0
    BY <1>0 DEF FiniteZ, IsZSet
  <1>6. Bad = {}
    <2> SUFFICES ASSUME Bad # {} PROVE FALSE
      OBVIOUS
    <2>1. PICK s \in Bad : \A t \in Bad : Cardinality(s) <= Cardinality(t)
      <3>1. Bad \in SUBSET (SUBSET S)
        OBVIOUS
      <3> HIDE DEF Bad
      <3> QED  BY <1>0, <3>1, SmallestSubset DEF FiniteZ
    <2>2. s \in SUBSET S /\ IsFiniteSet(s) /\ ~Good(s)
      BY <1>0, <2>1, FS_Subset DEF FiniteZ
    <2>3. CASE s = {}
      <3>1. g[s] = z
        BY <1>3, <2>2, <2>3
      <3>2. Good(s)
        BY <1>4, <2>3, <3>1 DEF FiniteZ
      <3> QED  BY <2>2, <3>2
    <2>4. CASE s # {}
      <3>0. PICK p, r : p = Pick(s) /\ r = Rest(s)
        OBVIOUS
      <3>1. /\ p \in s /\ r = s \ {p} /\ Cardinality(s) \in Nat
            /\ Cardinality(r) = Cardinality(s) - 1
        BY <2>2, <2>4, <3>0, RestSmaller DEF Rest
      <3>2. r \in SUBSET S /\ r \notin Bad
        <4>1. r \in SUBSET S
          BY <2>2, <3>1
        <4> HIDE DEF Bad
        <4> QED  BY <2>1, <3>1, <4>1
      <3>3. Good(r)
        BY <3>2
      <3>4. g[s] = update(g[r], p, new[p])
        BY <1>3, <2>2, <2>4, <3>0
      <3>5. new[p] \in Int /\ new[p] # 0
        BY <1>5, <2>2, <3>1
      <3>6. /\ IsZSet(g[s]) /\ DOMAIN g[s] \subseteq DOMAIN g[r] \cup {p}
            /\ \A y : Weight(g[s], y) = Weight(g[r], y) + (IF y = p THEN new[p] ELSE 0)
        BY <3>3, <3>4, <3>5, UpdateWeights
      <3>7. DOMAIN g[s] \subseteq DOMAIN z \cup s
        BY <3>1, <3>3, <3>6
      <3>8. ASSUME NEW x PROVE Weight(g[s], x) = Weight(z, x) + (IF x \in s THEN new[x] ELSE 0)
        <4>1. Weight(g[s], x) = Weight(g[r], x) + (IF x = p THEN new[p] ELSE 0)
          BY <3>6
        <4>2. Weight(g[r], x) = Weight(z, x) + (IF x \in r THEN new[x] ELSE 0)
          BY <3>3
        <4>3. Weight(z, x) \in Int
          BY <1>4
        <4>4. x \in r => new[x] \in Int
          BY <1>5, <3>2
        <4>5. CASE x = p
          BY <3>1, <3>5, <4>1, <4>2, <4>3, <4>5
        <4>6. CASE x # p
          BY <3>1, <4>1, <4>2, <4>3, <4>4, <4>6
        <4> QED  BY <4>5, <4>6
      <3> QED  BY <2>2, <3>6, <3>7, <3>8
    <2> QED  BY <2>3, <2>4
  <1>7. Good(S)
    BY <1>6
  <1>8. IsFiniteSet(DOMAIN g[S])
    <2>1. IsFiniteSet(DOMAIN z \cup S)
      BY <1>0, FS_Union DEF FiniteZ
    <2> QED  BY <1>7, <2>1, FS_Subset
  <1>9. \A x : Weight(g[S], x) = Weight(z, x) + Weight(new, x)
    BY <1>0, <1>7 DEF Weight
  <1> QED  BY <1>1, <1>7, <1>8, <1>9 DEF FiniteZ
-----------------------------------------------------------------------------
(* The invariant of the changes *)

IsChange(obj) == obj.is \in {"delta", "flatbuf", "updates"}
Counted(obj) == IsChange(obj) /\ obj.counts

Ops == {"insert", "insert_or_update", "delete", "delete_key", "modify"}

\* What an object holds.
WellFormed(obj) ==
    /\ IsChange(obj) => FiniteZ(obj.z) /\ obj.counts \in BOOLEAN
    /\ obj.is \in {"record", "cmd"} => obj.val \in Vals \cup {NotAValue}
    /\ obj.is = "cmd" => obj.op \in Ops

Objects ==
    /\ \A h \in Allocated : WellFormed(heap[h])
    /\ \A h \in Allocated : \A g \in HeldBy(h) : heap[g].is = "record"

\* What a relation holds: values, as many as have been inserted.
Contents(rel) == rel \in SUBSET Vals /\ IsFiniteSet(rel)

Program(p) ==
    /\ p = [running |-> p.running, txn |-> p.txn, broken |-> p.broken, rel |-> p.rel,
            start |-> p.start, recorder |-> p.recorder]
    /\ p.txn \in BOOLEAN
    /\ Contents(p.rel) /\ Contents(p.start)

\* The weight that handle h of heap f contributes to the account of record x, and the sum
\* over all handles.
Share(f, h, x) == IF h \in DOMAIN f /\ Counted(f[h]) THEN Weight(f[h].z, x) ELSE 0
Shares(f, H, x) == [h \in H |-> Share(f, h, x)]
Total(f, H, x) == SumOver(Shares(f, H, x), H)

Shown(rel) == AsZSet(Outputs(rel))

Balance ==
    \A x : Weight(missed, x) + Total(heap, Handles, x) = Weight(Shown(Committed), x)

GInv == Objects /\ IsZSet(missed) /\ Program(prog) /\ ret \in {0, -1}
CInv == DInv /\ GInv /\ Balance

-----------------------------------------------------------------------------
(* Batches *)

\* The relation after one more update, unless one before it has failed.
Advance(rel, c) == IF rel = Failed THEN Failed ELSE Updated(rel, c)

IsProgress(f, rel, cs, n) ==
    f = [i \in 0 .. n |-> IF i = 0 THEN rel
                          ELSE IF f[i - 1] = Failed THEN Failed ELSE Updated(f[i - 1], cs[i])]

\* The relations that a batch goes through exist, whatever its length.
LEMMA ProgressExists ==
  ASSUME NEW rel, NEW cs, NEW n \in Nat
  PROVE  \E f : IsProgress(f, rel, cs, n)
  <1> DEFINE Bad == {k \in Nat : ~\E f : IsProgress(f, rel, cs, k)}
  <1> SUFFICES ASSUME Bad # {} PROVE FALSE
    OBVIOUS
  <1>1. PICK k \in Bad : \A y \in Bad : k <= y
    BY LeastNat
  <1>2. k \in Nat /\ ~\E f : IsProgress(f, rel, cs, k)
    BY <1>1
  <1>3. CASE k = 0
    <2> DEFINE f == [i \in 0 .. 0 |-> rel]
    <2>1. IsProgress(f, rel, cs, 0)
      BY DEF IsProgress
    <2> QED  BY <1>2, <1>3, <2>1
  <1>4. CASE k > 0
    <2>1. k - 1 \in Nat /\ k - 1 \notin Bad
      BY <1>1, <1>2, <1>4
    <2>2. PICK b : IsProgress(b, rel, cs, k - 1)
      BY <2>1
    <2> DEFINE f == [i \in 0 .. k |-> IF i = k THEN Advance(b[k - 1], cs[k]) ELSE b[i]]
    <2>3. \A i \in 0 .. k - 1 : b[i] = IF i = 0 THEN rel ELSE Advance(b[i - 1], cs[i])
      BY <2>1, <2>2 DEF IsProgress, Advance
    <2>4. \A i \in 0 .. k : f[i] = IF i = 0 THEN rel ELSE Advance(f[i - 1], cs[i])
      <3> SUFFICES ASSUME NEW i \in 0 .. k
                   PROVE  f[i] = IF i = 0 THEN rel ELSE Advance(f[i - 1], cs[i])
        OBVIOUS
      <3>1. CASE i = k
        <4>1. f[i] = Advance(b[k - 1], cs[k]) /\ f[k - 1] = b[k - 1]
          BY <1>2, <1>4, <3>1
        <4> QED  BY <1>4, <3>1, <4>1
      <3>2. CASE i # k /\ i # 0
        <4>1. i \in 0 .. k - 1 /\ i - 1 \in 0 .. k /\ i - 1 # k
          BY <1>2, <3>2
        <4>2. f[i] = b[i] /\ f[i - 1] = b[i - 1]
          BY <3>2, <4>1
        <4> QED  BY <2>3, <3>2, <4>1, <4>2
      <3>3. CASE i = 0
        BY <1>2, <1>4, <2>3, <3>3
      <3> QED  BY <3>1, <3>2, <3>3
    <2>5. IsProgress(f, rel, cs, k)
      <3> HIDE DEF f
      <3>1. f = [i \in 0 .. k |-> f[i]]
        BY DEF f
      <3> QED  BY <2>4, <3>1 DEF IsProgress, Advance
    <2> QED  BY <1>2, <2>5
  <1> QED  BY <1>2, <1>3, <1>4

\* Commands that a batch may consist of.
IsCmd(c) == c.op \in Ops /\ c.val \in Vals \cup {NotAValue}

\* An update of a value leaves a set of values.
LEMMA UpdatedContents ==
  ASSUME NEW rel, Contents(rel), NEW c, IsCmd(c), c.val # NotAValue
  PROVE  Updated(rel, c) = Failed \/ Contents(Updated(rel, c))
  <1>1. IsFiniteSet(rel \cup {c.val}) /\ IsFiniteSet(rel \ {c.val})
    BY FS_AddElement, FS_RemoveElement DEF Contents
  <1>2. c.val \in Vals
    BY DEF IsCmd
  <1>3. Contents(rel \cup {c.val}) /\ Contents(rel \ {c.val})
    BY <1>1, <1>2 DEF Contents
  <1>4. \/ Updated(rel, c) = Failed \/ Updated(rel, c) = rel
        \/ Updated(rel, c) = rel \cup {c.val} \/ Updated(rel, c) = rel \ {c.val}
    BY DEF Updated, IsCmd, Ops
  <1> QED  BY <1>3, <1>4

\* What is fed to the program are the first commands, all of which convert.
LEMMA FedCommands ==
  ASSUME NEW T, NEW cs \in Seq(T)
  PROVE  /\ Len(Fed(cs)) \in Nat /\ Len(Fed(cs)) <= Len(cs)
         /\ \A i \in 1 .. Len(Fed(cs)) : i \in DOMAIN cs /\ Fed(cs)[i] = cs[i] /\ Converts(cs[i])
  <1> DEFINE M == {i - 1 : i \in {j \in DOMAIN cs : ~Converts(cs[j])}} \cup {Len(cs)}
  <1>1. Len(cs) \in Nat /\ DOMAIN cs = 1 .. Len(cs)
    BY LenProperties
  <1>2. M \in SUBSET Nat /\ M # {} /\ Len(cs) \in M
    BY <1>1
  <1>3. \A j \in DOMAIN cs : ~Converts(cs[j]) => j - 1 \in M
    OBVIOUS
  <1>4. PICK m : m = Min(M)
    OBVIOUS
  <1>5. Fed(cs) = SubSeq(cs, 1, m)
    BY <1>4 DEF Fed
  <1> HIDE DEF M
  <1>6. m \in Nat /\ m <= Len(cs) /\ \A y \in M : m <= y
    BY <1>2, <1>4, MinLeast
  <1>7. /\ Len(SubSeq(cs, 1, m)) = m
        /\ \A i \in 1 .. m : SubSeq(cs, 1, m)[i] = cs[i]
    BY <1>1, <1>6, SubSeqProperties
  <1>8. ASSUME NEW i \in 1 .. m PROVE i \in DOMAIN cs /\ Converts(cs[i])
    <2>1. i \in DOMAIN cs
      BY <1>1, <1>6
    <2>2. ~Converts(cs[i]) => m <= i - 1
      BY <1>3, <1>6, <2>1
    <2> QED  BY <1>6, <2>1, <2>2
  <1> QED  BY <1>5, <1>6, <1>7, <1>8

\* A batch leaves a set of values, and the transaction as it is.
LEMMA BatchContents ==
  ASSUME Program(prog), NEW T, NEW cs \in Seq(T), \A i \in DOMAIN cs : IsCmd(cs[i])
  PROVE  /\ Program(AfterBatch(cs))
         /\ AfterBatch(cs).txn = prog.txn /\ AfterBatch(cs).start = prog.start
  <1>0. PICK fs : fs = Fed(cs)
    OBVIOUS
  <1>1. /\ Len(fs) \in Nat /\ fs \in Seq(T)
        /\ \A i \in 1 .. Len(fs) : IsCmd(fs[i]) /\ fs[i].val # NotAValue
    BY <1>0, FedCommands, FedBound DEF Converts
  <1> DEFINE f == CHOOSE g : IsProgress(g, prog.rel, fs, Len(fs))
  <1>2. Progress(fs) = f
    BY DEF Progress, IsProgress
  <1>3. IsProgress(f, prog.rel, fs, Len(fs))
    BY <1>1, ProgressExists
  <1> HIDE DEF f
  <1>4. \A i \in 0 .. Len(fs) : f[i] = IF i = 0 THEN prog.rel
                     ELSE IF f[i - 1] = Failed THEN Failed ELSE Updated(f[i - 1], fs[i])
    BY <1>3 DEF IsProgress
  <1>5. Contents(prog.rel)
    BY DEF Program
  <1>6. \A i \in 0 .. Len(fs) : f[i] = Failed \/ Contents(f[i])
    <2> DEFINE Bad == {i \in 0 .. Len(fs) : ~(f[i] = Failed \/ Contents(f[i]))}
    <2> SUFFICES ASSUME Bad # {} PROVE FALSE
      OBVIOUS
    <2>1. Bad \in SUBSET Nat
      BY <1>1
    <2>2. PICK k \in Bad : \A y \in Bad : k <= y
      <3> HIDE DEF Bad
      <3> QED  BY <2>1, LeastNat
    <2>3. k \in 0 .. Len(fs) /\ ~(f[k] = Failed \/ Contents(f[k])) /\ k \in Nat
      BY <2>1, <2>2
    <2>4. k # 0
      BY <1>4, <1>5, <2>3
    <2>5. k - 1 \in 0 .. Len(fs) /\ k - 1 \notin Bad
      <3>1. k - 1 \in 0 .. Len(fs)
        BY <1>1, <2>3, <2>4
      <3> HIDE DEF Bad
      <3> QED  BY <2>2, <2>3, <3>1
    <2>6. f[k - 1] = Failed \/ Contents(f[k - 1])
      BY <2>5
    <2>7. f[k] = IF f[k - 1] = Failed THEN Failed ELSE Updated(f[k - 1], fs[k])
      BY <1>4, <2>3, <2>4
    <2>8. k \in 1 .. Len(fs)
      BY <1>1, <2>3, <2>4
    <2>9. IsCmd(fs[k]) /\ fs[k].val # NotAValue
      BY <1>1, <2>8
    <2> QED  BY <2>3, <2>6, <2>7, <2>9, UpdatedContents
  <1>7. PICK n : n = FirstFailure(fs)
    OBVIOUS
  <1>8. n \in 1 .. Len(fs) + 1 /\ \A i \in 1 .. Len(fs) : f[i] = Failed => n <= i
    <2> DEFINE M == {i \in DOMAIN fs : f[i] = Failed} \cup {Len(fs) + 1}
    <2>1. DOMAIN fs = 1 .. Len(fs)
      BY <1>1, LenProperties
    <2>2. M \in SUBSET Nat /\ M # {} /\ M \subseteq 1 .. Len(fs) + 1
      BY <1>1, <2>1
    <2>3. n = Min(M)
      BY <1>2, <1>7 DEF FirstFailure
    <2>4. \A i \in 1 .. Len(fs) : f[i] = Failed => i \in M
      BY <2>1
    <2> HIDE DEF M
    <2>5. n \in M /\ \A y \in M : n <= y
      BY <2>2, <2>3, MinLeast
    <2> QED  BY <2>2, <2>4, <2>5
  <1>9. Contents(f[n - 1])
    <2>1. n - 1 \in 0 .. Len(fs)
      BY <1>1, <1>8
    <2>2. CASE n = 1
      <3>1. f[0] = prog.rel
        BY <1>1, <1>4
      <3> QED  BY <1>5, <2>2, <3>1
    <2>3. CASE n # 1
      <3>1. n - 1 \in 1 .. Len(fs)
        BY <1>1, <1>8, <2>3
      <3>2. f[n - 1] # Failed
        BY <1>8, <3>1
      <3> QED  BY <1>6, <2>1, <3>2
    <2> QED  BY <2>2, <2>3
  <1>10. PICK r, b : r = f[n - 1] /\ AfterBatch(cs) = [prog EXCEPT !.rel = r, !.broken = b]
    BY <1>0, <1>2, <1>7 DEF AfterBatch
  <1>11. AfterBatch(cs) = [running |-> prog.running, txn |-> prog.txn, broken |-> b, rel |-> r,
                           start |-> prog.start, recorder |-> prog.recorder]
    BY <1>10 DEF Program
  <1> QED  BY <1>9, <1>10, <1>11 DEF Program

-----------------------------------------------------------------------------
(* Accounts *)

LEMMA HandlesFinite ==
  ASSUME Ownership
  PROVE  IsFiniteSet(Handles)
  BY HandlesAssumption, FS_Interval DEF Ownership, Handles

LEMMA ShareInt ==
  ASSUME NEW f, \A h \in DOMAIN f : WellFormed(f[h]), NEW h, NEW x
  PROVE  Share(f, h, x) \in Int
  BY WeightType DEF Share, WellFormed, Counted, FiniteZ

\* Heaps whose handles have the same shares have the same total.
LEMMA TotalSame ==
  ASSUME NEW H, NEW f, NEW g, NEW x, \A h \in H : Share(g, h, x) = Share(f, h, x)
  PROVE  Total(g, H, x) = Total(f, H, x)
  BY DEF Total, Shares

\* Heaps in which only handle k has another share.
SharesDiffer(f, g, H, k, x) ==
    /\ \A h \in DOMAIN f : WellFormed(f[h])
    /\ \A h \in DOMAIN g : WellFormed(g[h])
    /\ \A h \in H \ {k} : Share(g, h, x) = Share(f, h, x)

\* The total follows the share of the one handle that changes.
LEMMA TotalChange ==
  ASSUME NEW H, IsFiniteSet(H), NEW f, NEW g, NEW k \in H, NEW x, SharesDiffer(f, g, H, k, x)
  PROVE  /\ Total(f, H, x) \in Int /\ Total(g, H, x) \in Int
         /\ Total(g, H, x) = Total(f, H, x) + (Share(g, k, x) - Share(f, k, x))
  <1>0. PICK e, d : e = Shares(f, H, x) /\ d = Shares(g, H, x)
    OBVIOUS
  <1>1. \A h \in H : e[h] = Share(f, h, x) /\ d[h] = Share(g, h, x)
    BY <1>0 DEF Shares
  <1>2. \A h \in H : e[h] \in Int /\ d[h] \in Int
    BY <1>1, ShareInt DEF SharesDiffer
  <1>3. DifferAt(e, d, H, k)
    BY <1>1, <1>2 DEF SharesDiffer, DifferAt
  <1>4. /\ SumOver(e, H) \in Int /\ SumOver(d, H) \in Int
        /\ SumOver(d, H) = SumOver(e, H) + (d[k] - e[k])
    BY <1>3, SumChange
  <1> QED  BY <1>0, <1>1, <1>4 DEF Total

LEMMA TotalInt ==
  ASSUME CInv, NEW x
  PROVE  Total(heap, Handles, x) \in Int /\ Weight(missed, x) \in Int
  <1>0. PICK e : e = Shares(heap, Handles, x)
    OBVIOUS
  <1>1. \A h \in Handles : e[h] \in Int
    BY <1>0, ShareInt DEF CInv, GInv, Objects, Allocated, Shares
  <1>2. SumOver(e, Handles) \in Int
    BY <1>1, HandlesFinite, SumRemove DEF CInv, DInv
  <1> QED  BY <1>0, <1>2, WeightType DEF Total, CInv, GInv

-----------------------------------------------------------------------------
(* Calls: what they do to the account *)

\* The objects that a call leaves and the one that it returns.
Leaves(S, F) ==
    /\ DOMAIN heap' = S
    /\ \A h \in Allocated \ F : h \in S /\ heap'[h] = heap[h]

LEMMA DoneLeaves ==
  ASSUME NEW freed, NEW taken, NEW code, Done(freed, taken, code)
  PROVE  Leaves(Allocated \ freed, freed) /\ Allocated' = Allocated \ freed /\ ret' = code
  BY DEF Done, Release, Leaves, Allocated

LEMMA ReturnsLeaves ==
  ASSUME DInv, NEW freed, NEW taken, NEW obj, Returns(freed, taken, obj)
  PROVE  \E new \in Handles \ (Allocated \ freed) :
           /\ Leaves((Allocated \ freed) \cup {new}, freed)
           /\ heap'[new] = obj /\ new \in owned' /\ ret' = 0
  <1>0. PICK new : new = HandleFor(Release(freed))
    OBVIOUS
  <1>1. DOMAIN Release(freed) = Allocated \ freed /\ \A h \in Allocated \ freed : Release(freed)[h] = heap[h]
    BY DEF Release
  <1>2. new \in Handles \ (Allocated \ freed)
    BY <1>0, <1>1, FreshHandle DEF Returns, DInv
  <1>3. heap' = With(Release(freed), new, obj) /\ new \in owned' /\ ret' = 0
    BY <1>0 DEF Returns
  <1>4. DOMAIN heap' = (Allocated \ freed) \cup {new}
    BY <1>1, <1>3 DEF With
  <1>5. heap'[new] = obj /\ \A h \in Allocated \ freed : heap'[h] = heap[h]
    BY <1>1, <1>2, <1>3 DEF With
  <1> QED  BY <1>2, <1>3, <1>4, <1>5 DEF Leaves

\* A call that returns no object leaves the others well-formed.
LEMMA DoneObjects ==
  ASSUME CInv, DInv', NEW freed, NEW taken, NEW code, Done(freed, taken, code)
  PROVE  Objects'
  <1>1. Allocated' = Allocated \ freed /\ \A h \in Allocated' : heap'[h] = heap[h]
    BY DoneLeaves DEF Leaves
  <1>2. \A h \in Allocated' : HeldBy(h)' = HeldBy(h) /\ HeldBy(h)' \subseteq Allocated'
    BY <1>1 DEF HeldBy, DInv, Ownership
  <1> QED  BY <1>1, <1>2 DEF CInv, GInv, Objects

\* So does one that returns a well-formed object.
LEMMA ReturnsObjects ==
  ASSUME CInv, DInv', NEW freed, NEW taken, NEW obj, Returns(freed, taken, obj),
         WellFormed(obj), obj.is # "updates"
  PROVE  Objects'
  <1>1. PICK new \in Handles \ (Allocated \ freed) :
           /\ Leaves((Allocated \ freed) \cup {new}, freed)
           /\ heap'[new] = obj /\ new \in owned'
    BY ReturnsLeaves DEF CInv
  <1>2. /\ Allocated' = (Allocated \ freed) \cup {new}
        /\ \A h \in Allocated \ freed : heap'[h] = heap[h]
    BY <1>1 DEF Leaves, Allocated
  <1>3. \A h \in Allocated' : WellFormed(heap'[h])
    BY <1>1, <1>2 DEF CInv, GInv, Objects
  <1>4. /\ HeldBy(new)' = {}
        /\ \A h \in Allocated \ freed : HeldBy(h)' = HeldBy(h)
    BY <1>1, <1>2 DEF HeldBy
  <1>5. \A h \in Allocated' : HeldBy(h)' \subseteq Allocated' \ owned'
    BY DEF DInv, Ownership
  <1>6. \A h \in Allocated' : \A g \in HeldBy(h)' : heap'[g].is = "record"
    <2> SUFFICES ASSUME NEW h \in Allocated', NEW g \in HeldBy(h)'
                 PROVE  heap'[g].is = "record"
      OBVIOUS
    <2>1. h \in Allocated \ freed /\ g \in HeldBy(h)
      BY <1>2, <1>4
    <2>2. g \in Allocated \ freed
      BY <1>1, <1>2, <1>5
    <2> QED  BY <1>2, <2>1, <2>2 DEF CInv, GInv, Objects
  <1> QED  BY <1>3, <1>6 DEF Objects

\* Objects that are not on the account.
Uncounted(S) == \A h \in S : h \in Allocated => ~IsChange(heap[h])

\* Freeing them does not change it.
LEMMA DoneTotal ==
  ASSUME CInv, NEW freed, NEW taken, NEW code, Done(freed, taken, code), Uncounted(freed), NEW x
  PROVE  Total(heap', Handles, x) = Total(heap, Handles, x)
  <1>1. Leaves(Allocated \ freed, freed)
    BY DoneLeaves
  <1>2. \A h \in Handles : Share(heap', h, x) = Share(heap, h, x)
    BY <1>1 DEF Leaves, Share, Uncounted, Counted, Allocated
  <1> QED  BY <1>2, TotalSame

\* A new object adds what it counts.
LEMMA ReturnsTotal ==
  ASSUME CInv, NEW freed, NEW taken, NEW obj, Returns(freed, taken, obj), WellFormed(obj),
         Uncounted(freed), NEW x
  PROVE  Total(heap', Handles, x) =
           Total(heap, Handles, x) + (IF Counted(obj) THEN Weight(obj.z, x) ELSE 0)
  <1>1. PICK new \in Handles \ (Allocated \ freed) :
           /\ Leaves((Allocated \ freed) \cup {new}, freed)
           /\ heap'[new] = obj
    BY ReturnsLeaves DEF CInv
  <1>2. \A h \in Handles \ {new} : Share(heap', h, x) = Share(heap, h, x)
    BY <1>1 DEF Leaves, Share, Uncounted, Counted, Allocated
  <1>3. Share(heap, new, x) = 0
    BY DEF Share, Uncounted, Counted, Allocated
  <1>4. Share(heap', new, x) = IF Counted(obj) THEN Weight(obj.z, x) ELSE 0
    BY <1>1 DEF Leaves, Share
  <1>5. \A h \in DOMAIN heap : WellFormed(heap[h])
    BY DEF CInv, GInv, Objects, Allocated
  <1>6. \A h \in DOMAIN heap' : WellFormed(heap'[h])
    BY <1>1, <1>5 DEF Leaves, Allocated
  <1>7. IsFiniteSet(Handles)
    BY HandlesFinite DEF CInv, DInv
  <1>8. PICK f, g : f = heap /\ g = heap'
    OBVIOUS
  <1>9. /\ Total(f, Handles, x) \in Int /\ Total(g, Handles, x) \in Int
        /\ Total(g, Handles, x) = Total(f, Handles, x) + (Share(g, new, x) - Share(f, new, x))
    <2>1. SharesDiffer(f, g, Handles, new, x)
      BY <1>2, <1>5, <1>6, <1>8 DEF SharesDiffer
    <2> QED  BY <1>7, <2>1, TotalChange
  <1>10. Share(g, new, x) \in Int
    BY <1>6, <1>8, ShareInt
  <1> QED  BY <1>3, <1>4, <1>8, <1>9, <1>10

\* Objects put at one handle, in place of another or of none.
Puts(f, g, k, obj) ==
    /\ (\A h \in DOMAIN f : WellFormed(f[h])) /\ WellFormed(obj)
    /\ DOMAIN g = DOMAIN f \cup {k} /\ g[k] = obj
    /\ \A h \in DOMAIN f \ {k} : g[h] = f[h]

\* The weight that an object contributes.
Counts(obj, x) == IF Counted(obj) THEN Weight(obj.z, x) ELSE 0

\* They change the account by what they count.
LEMMA PutTotal ==
  ASSUME NEW H, IsFiniteSet(H), NEW f, NEW g, NEW k \in H, NEW obj, Puts(f, g, k, obj), NEW x
  PROVE  /\ \A h \in DOMAIN g : WellFormed(g[h])
         /\ Total(g, H, x) = Total(f, H, x) + (Counts(obj, x) - Share(f, k, x))
         /\ Total(f, H, x) \in Int /\ Total(g, H, x) \in Int
         /\ Counts(obj, x) \in Int /\ Share(f, k, x) \in Int
  <1>1. \A h \in DOMAIN g : WellFormed(g[h])
    BY DEF Puts
  <1>2. \A h \in H \ {k} : Share(g, h, x) = Share(f, h, x)
    BY DEF Puts, Share
  <1>3. Share(g, k, x) = Counts(obj, x)
    BY DEF Puts, Share, Counts
  <1>4. SharesDiffer(f, g, H, k, x)
    BY <1>1, <1>2 DEF SharesDiffer, Puts
  <1>5. /\ Total(f, H, x) \in Int /\ Total(g, H, x) \in Int
        /\ Total(g, H, x) = Total(f, H, x) + (Share(g, k, x) - Share(f, k, x))
    BY <1>4, TotalChange
  <1>6. Share(f, k, x) \in Int /\ Share(g, k, x) \in Int
    BY <1>1, ShareInt DEF Puts
  <1> QED  BY <1>1, <1>3, <1>5, <1>6

\* Freeing an object with others that are not on the account takes what it counts.
LEMMA FreeTotal ==
  ASSUME CInv, NEW freed, NEW taken, NEW code, Done(freed, taken, code),
         NEW k \in freed, k \in Allocated, Uncounted(freed \ {k}), NEW x
  PROVE  /\ Total(heap', Handles, x) = Total(heap, Handles, x) - Counts(heap[k], x)
         /\ Counts(heap[k], x) \in Int
  <1>1. Leaves(Allocated \ freed, freed)
    BY DoneLeaves
  <1>2. \A h \in Handles \ {k} : Share(heap', h, x) = Share(heap, h, x)
    BY <1>1 DEF Leaves, Share, Uncounted, Counted, Allocated
  <1>3. Share(heap', k, x) = 0 /\ Share(heap, k, x) = Counts(heap[k], x)
    BY <1>1 DEF Leaves, Share, Allocated, Counts
  <1>4. \A h \in DOMAIN heap : WellFormed(heap[h])
    BY DEF CInv, GInv, Objects, Allocated
  <1>5. \A h \in DOMAIN heap' : WellFormed(heap'[h])
    BY <1>1, <1>4 DEF Leaves, Allocated
  <1>6. IsFiniteSet(Handles) /\ k \in Handles
    BY HandlesFinite DEF CInv, DInv, Ownership
  <1>7. PICK f, g : f = heap /\ g = heap'
    OBVIOUS
  <1>8. /\ Total(f, Handles, x) \in Int /\ Total(g, Handles, x) \in Int
        /\ Total(g, Handles, x) = Total(f, Handles, x) + (Share(g, k, x) - Share(f, k, x))
    <2>1. SharesDiffer(f, g, Handles, k, x)
      BY <1>2, <1>4, <1>5, <1>7 DEF SharesDiffer
    <2> QED  BY <1>6, <2>1, TotalChange
  <1>9. Share(f, k, x) \in Int
    BY <1>4, <1>7, ShareInt
  <1> QED  BY <1>3, <1>7, <1>8, <1>9

-----------------------------------------------------------------------------
(* What every call keeps *)

Kept == GInv' /\ Balance'

\* Calls on objects that are not on the account.
LEMMA KeptDone ==
  ASSUME CInv, DInv', NEW F, NEW T, NEW code \in {0, -1}, Done(F, T, code), Uncounted(F),
         UNCHANGED <<role, missed>>, Program(prog'), Committed' = Committed
  PROVE  Kept
  <1>1. Objects' /\ ret' = code
    BY DoneObjects DEF Done
  <1>2. Handles' = Handles
    BY DEF Handles
  <1>3. GInv'
    BY <1>1 DEF CInv, GInv
  <1>4. \A x : Total(heap', Handles, x) = Total(heap, Handles, x)
    BY DoneTotal
  <1>5. Balance'
    BY <1>2, <1>4 DEF CInv, Balance
  <1> QED  BY <1>3, <1>5 DEF Kept

LEMMA OnlyHeapCommitted ==
  ASSUME CInv, OnlyHeap
  PROVE  UNCHANGED <<role, missed>> /\ Program(prog') /\ Committed' = Committed
  BY DEF OnlyHeap, Committed, CInv, GInv

\* An object that adds nothing to the account.
Harmless(obj) == WellFormed(obj) /\ (\A x : Counts(obj, x) = 0) /\ obj.is # "updates"

LEMMA KeptReturns ==
  ASSUME CInv, DInv', OnlyHeap, NEW F, NEW T, NEW obj, Returns(F, T, obj), Uncounted(F), Harmless(obj)
  PROVE  Kept
  <1>1. Objects' /\ ret' = 0
    BY ReturnsObjects DEF Returns, Harmless
  <1>2. UNCHANGED <<role, prog, missed>> /\ Handles' = Handles /\ Committed' = Committed
    BY DEF OnlyHeap, Handles, Committed
  <1>3. GInv'
    BY <1>1, <1>2 DEF CInv, GInv
  <1>4. \A x : Total(heap', Handles, x) = Total(heap, Handles, x)
    <2> SUFFICES ASSUME NEW x PROVE Total(heap', Handles, x) = Total(heap, Handles, x)
      OBVIOUS
    <2>1. Total(heap', Handles, x) =
           Total(heap, Handles, x) + (IF Counted(obj) THEN Weight(obj.z, x) ELSE 0)
      BY ReturnsTotal DEF Harmless
    <2>2. Total(heap, Handles, x) \in Int
      BY TotalInt
    <2> QED  BY <2>1, <2>2 DEF Harmless, Counts
  <1>5. Balance'
    BY <1>2, <1>4 DEF CInv, Balance
  <1> QED  BY <1>3, <1>5 DEF Kept

\* Calls that leave the objects alone, and what is committed.
LEMMA KeptProgram ==
  ASSUME CInv, UNCHANGED <<role, heap, missed>>, Program(prog'), Committed' = Committed,
         ret' \in {0, -1}
  PROVE  Kept
  <1>1. Allocated' = Allocated /\ Handles' = Handles /\ \A h : HeldBy(h)' = HeldBy(h)
    BY DEF Allocated, Handles, HeldBy
  <1>2. GInv'
    BY <1>1 DEF CInv, GInv, Objects
  <1>3. Balance'
    BY <1>1 DEF CInv, Balance
  <1> QED  BY <1>2, <1>3 DEF Kept

-----------------------------------------------------------------------------
(* What a transaction changes *)

\* The tables show finitely many records, each once.
LEMMA ShownFinite ==
  ASSUME NEW rel, Contents(rel)
  PROVE  FiniteZ(Shown(rel))
  <1>1. IsFiniteSet(Tables \X rel)
    BY TablesAssumption, FS_Product DEF Contents
  <1>2. Outputs(rel) \subseteq Tables \X rel
    BY DEF Outputs
  <1>3. IsFiniteSet(Outputs(rel))
    BY <1>1, <1>2, FS_Subset
  <1> QED  BY <1>3 DEF Shown, AsZSet, FiniteZ, IsZSet

LEMMA TxnWeights ==
  ASSUME Program(prog)
  PROVE  /\ FiniteZ(TxnChanges)
         /\ \A x : Weight(TxnChanges, x) = Weight(Shown(prog.rel), x) - Weight(Shown(prog.start), x)
  <1>0. PICK a, b : a = Shown(prog.rel) /\ b = Shown(prog.start)
    OBVIOUS
  <1>1. FiniteZ(a) /\ FiniteZ(b)
    BY <1>0, ShownFinite DEF Program
  <1>2. TxnChanges = Minus(a, b)
    BY <1>0 DEF TxnChanges, Shown
  <1>3. IsZSet(Minus(a, b)) /\ \A x : Weight(Minus(a, b), x) = Weight(a, x) - Weight(b, x)
    BY <1>1, MinusWeights DEF FiniteZ
  <1>4. DOMAIN Minus(a, b) \subseteq DOMAIN a \cup DOMAIN b
    <2>1. \A x : x \in DOMAIN Minus(a, b) => Weight(Minus(a, b), x) # 0
      BY <1>3 DEF IsZSet, Weight
    <2>2. \A x : x \notin DOMAIN a \cup DOMAIN b => Weight(a, x) - Weight(b, x) = 0
      BY DEF Weight
    <2> QED  BY <1>3, <2>1, <2>2
  <1>5. IsFiniteSet(DOMAIN a \cup DOMAIN b)
    BY <1>1, FS_Union DEF FiniteZ
  <1>6. IsFiniteSet(DOMAIN Minus(a, b))
    BY <1>4, <1>5, FS_Subset
  <1> QED  BY <1>0, <1>2, <1>3, <1>6 DEF FiniteZ

\* Changes that the client misses.
LEMMA MissWeights ==
  ASSUME CInv, NEW z, IsZSet(z), Miss(z)
  PROVE  /\ IsZSet(missed')
         /\ \A x : Weight(missed', x) = Weight(missed, x) + Weight(z, x)
  <1>1. missed' = Concat(missed, z) /\ IsZSet(missed)
    BY DEF Miss, CInv, GInv
  <1> QED  BY <1>1, ConcatWeights

\* The end of a transaction commits its changes.
LEMMA EndTxnCommits ==
  ASSUME CInv, prog.txn, EndTxn
  PROVE  Program(prog') /\ Committed = prog.start /\ Committed' = prog.rel
  <1>1. prog' = [running |-> prog.running, txn |-> FALSE, broken |-> prog.broken, rel |-> prog.rel,
                 start |-> prog.start, recorder |-> prog.recorder]
    BY DEF EndTxn, CInv, GInv, Program
  <1>2. Program(prog')
    BY <1>1 DEF CInv, GInv, Program
  <1>3. Committed = prog.start /\ Committed' = prog.rel
    BY <1>1 DEF Committed
  <1> QED  BY <1>2, <1>3

\* The account is balanced again when the changes of the transaction were entered.
LEMMA BalanceCommit ==
  ASSUME CInv, prog.txn, EndTxn, role' = role,
         \A x : Weight(missed', x) + Total(heap', Handles, x) =
                  (Weight(missed, x) + Total(heap, Handles, x)) + Weight(TxnChanges, x)
  PROVE  Balance'
  <1>1. Handles' = Handles
    BY DEF Handles
  <1>2. Committed = prog.start /\ Committed' = prog.rel
    BY EndTxnCommits
  <1>3. \A x : Weight(TxnChanges, x) = Weight(Shown(prog.rel), x) - Weight(Shown(prog.start), x)
    BY TxnWeights DEF CInv, GInv
  <1>4. \A x : Weight(Shown(prog.rel), x) \in Int /\ Weight(Shown(prog.start), x) \in Int
    BY ShownFinite, WeightType DEF CInv, GInv, Program, FiniteZ
  <1>5. \A x : Weight(missed, x) + Total(heap, Handles, x) = Weight(Shown(prog.start), x)
    BY <1>2 DEF CInv, Balance
  <1>6. \A x : Weight(missed', x) + Total(heap', Handles, x) = Weight(Shown(prog.rel), x)
    BY <1>3, <1>4, <1>5
  <1> QED  BY <1>1, <1>2, <1>6 DEF Balance

\* A commit that returns its changes in a new object.
LEMMA KeptCommit ==
  ASSUME CInv, DInv', prog.txn, EndTxn, UNCHANGED <<role, missed>>,
         NEW obj, Returns({}, {}, obj), obj.z = TxnChanges, obj.counts = TRUE,
         obj.is \in {"delta", "flatbuf"}
  PROVE  Kept
  <1>1. FiniteZ(TxnChanges)
    BY TxnWeights DEF CInv, GInv
  <1>2. WellFormed(obj) /\ Counted(obj) /\ obj.is # "updates"
    BY <1>1 DEF WellFormed, Counted, IsChange
  <1>3. Objects' /\ ret' = 0
    BY <1>2, ReturnsObjects DEF Returns
  <1>4. GInv'
    BY <1>3, EndTxnCommits DEF CInv, GInv
  <1>5. ASSUME NEW x
        PROVE  Weight(missed', x) + Total(heap', Handles, x) =
                  (Weight(missed, x) + Total(heap, Handles, x)) + Weight(TxnChanges, x)
    <2>1. Uncounted({})
      BY DEF Uncounted
    <2>2. Total(heap', Handles, x) = Total(heap, Handles, x) + Weight(TxnChanges, x)
      BY <1>2, <2>1, ReturnsTotal
    <2>3. Total(heap, Handles, x) \in Int /\ Weight(missed, x) \in Int /\ Weight(TxnChanges, x) \in Int
      BY <1>1, TotalInt, WeightType DEF FiniteZ
    <2> QED  BY <2>2, <2>3
  <1>6. Balance'
    BY <1>5, BalanceCommit
  <1> QED  BY <1>4, <1>6 DEF Kept

\* A commit whose changes the client misses.
LEMMA KeptMissed ==
  ASSUME CInv, DInv', prog.txn, EndTxn, Miss(TxnChanges), role' = role, ret' \in {0, -1},
         UNCHANGED heap \/ Done({}, {}, -1)
  PROVE  Kept
  <1>1. IsZSet(TxnChanges)
    BY TxnWeights DEF CInv, GInv, FiniteZ
  <1>2. IsZSet(missed') /\ \A x : Weight(missed', x) = Weight(missed, x) + Weight(TxnChanges, x)
    BY <1>1, MissWeights
  <1>3. Objects' /\ \A x : Total(heap', Handles, x) = Total(heap, Handles, x)
    <2>1. CASE UNCHANGED heap
      <3>1. Allocated' = Allocated /\ \A h : HeldBy(h)' = HeldBy(h)
        BY <2>1 DEF Allocated, HeldBy
      <3> QED  BY <2>1, <3>1 DEF CInv, GInv, Objects
    <2>2. CASE Done({}, {}, -1)
      <3>1. Uncounted({})
        BY DEF Uncounted
      <3> QED  BY <2>2, <3>1, DoneObjects, DoneTotal
    <2> QED  BY <2>1, <2>2
  <1>4. GInv'
    BY <1>2, <1>3, EndTxnCommits DEF GInv
  <1>5. ASSUME NEW x
        PROVE  Weight(missed', x) + Total(heap', Handles, x) =
                  (Weight(missed, x) + Total(heap, Handles, x)) + Weight(TxnChanges, x)
    <2>1. Total(heap, Handles, x) \in Int /\ Weight(missed, x) \in Int /\ Weight(TxnChanges, x) \in Int
      BY <1>1, TotalInt, WeightType
    <2> QED  BY <1>2, <1>3, <2>1
  <1>6. Balance'
    BY <1>5, BalanceCommit
  <1> QED  BY <1>4, <1>6 DEF Kept

\* A commit that returns an array: its records are not on the account.
LEMMA KeptArray ==
  ASSUME CInv, DInv', ddlog_transaction_commit_dump_changes_as_array
  PROVE  Kept
  <1>1. PICK recs \in SUBSET FreeHandles, h \in FreeHandles :
          /\ h \notin recs
          /\ heap' = [g \in Allocated \cup recs \cup {h} |->
                       IF g = h THEN Updates(TxnChanges, recs)
                       ELSE IF g \in recs THEN Rec("scalar", NotAValue) ELSE heap[g]]
    BY DEF ddlog_transaction_commit_dump_changes_as_array, kSubset
  <1>2. prog.txn /\ EndTxn /\ UNCHANGED <<role, missed>> /\ ret' = 0
    BY DEF ddlog_transaction_commit_dump_changes_as_array
  <1>3. /\ Allocated' = Allocated \cup recs \cup {h}
        /\ recs \cap Allocated = {} /\ h \notin Allocated /\ h \in Handles
    BY <1>1 DEF Allocated, FreeHandles
  <1>4. PICK obj, rec : obj = Updates(TxnChanges, recs) /\ rec = Rec("scalar", NotAValue)
    OBVIOUS
  <1>5. /\ \A g \in Allocated : heap'[g] = heap[g]
        /\ \A g \in recs : heap'[g] = rec
        /\ heap'[h] = obj
    BY <1>1, <1>3, <1>4
  <1>6. /\ obj.is = "updates" /\ obj.z = TxnChanges /\ obj.counts = TRUE /\ obj.recs = recs
        /\ rec.is = "record" /\ rec.val = NotAValue
    BY <1>4 DEF Updates, Rec
  <1>7. FiniteZ(TxnChanges)
    BY TxnWeights DEF CInv, GInv
  <1>8. WellFormed(obj) /\ WellFormed(rec) /\ Counted(obj) /\ ~Counted(rec)
    BY <1>6, <1>7 DEF WellFormed, Counted, IsChange
  <1>9. \A g \in Allocated' : WellFormed(heap'[g])
    BY <1>3, <1>5, <1>8 DEF CInv, GInv, Objects
  <1>10. \A g \in Allocated' : \A k \in HeldBy(g)' : heap'[k].is = "record"
    <2>1. \A g \in Allocated : HeldBy(g)' = HeldBy(g) /\ HeldBy(g) \subseteq Allocated
      BY <1>5 DEF HeldBy, CInv, DInv, Ownership
    <2>2. (\A g \in recs : HeldBy(g)' = {}) /\ HeldBy(h)' = recs
      BY <1>5, <1>6 DEF HeldBy
    <2> QED  BY <1>3, <1>5, <1>6, <2>1, <2>2 DEF CInv, GInv, Objects
  <1>11. GInv'
    BY <1>2, <1>9, <1>10, EndTxnCommits DEF CInv, GInv, Objects
  <1>12. ASSUME NEW x
         PROVE  Weight(missed', x) + Total(heap', Handles, x) =
                  (Weight(missed, x) + Total(heap, Handles, x)) + Weight(TxnChanges, x)
    <2>1. \A g \in Handles \ {h} : Share(heap', g, x) = Share(heap, g, x)
      BY <1>3, <1>5, <1>8 DEF Share, Allocated
    <2>2. Share(heap, h, x) = 0 /\ Share(heap', h, x) = Weight(TxnChanges, x)
      BY <1>3, <1>5, <1>6, <1>8 DEF Share, Allocated
    <2>3. PICK f, g : f = heap /\ g = heap'
      OBVIOUS
    <2>4. SharesDiffer(f, g, Handles, h, x)
      BY <1>9, <2>1, <2>3 DEF SharesDiffer, CInv, GInv, Objects, Allocated
    <2>5. IsFiniteSet(Handles)
      BY HandlesFinite DEF CInv, DInv
    <2>6. Total(g, Handles, x) = Total(f, Handles, x) + (Share(g, h, x) - Share(f, h, x))
      BY <1>3, <2>4, <2>5, TotalChange
    <2>7. Total(heap, Handles, x) \in Int /\ Weight(missed, x) \in Int /\ Weight(TxnChanges, x) \in Int
      BY <1>7, TotalInt, WeightType DEF FiniteZ
    <2> QED  BY <1>2, <2>2, <2>3, <2>6, <2>7
  <1>13. Balance'
    BY <1>2, <1>12, BalanceCommit
  <1> QED  BY <1>11, <1>13 DEF Kept

\* What is thrown away counts as missed.
LEMMA DiscardWeights ==
  ASSUME CInv, NEW obj, IsChange(obj), IsZSet(obj.z), Discard(obj)
  PROVE  /\ IsZSet(missed')
         /\ \A x : Weight(missed', x) = Weight(missed, x) + Counts(obj, x)
  <1>1. CASE obj.counts
    BY <1>1, MissWeights DEF Discard, Counts, Counted
  <1>2. CASE ~obj.counts
    <2>1. missed' = missed /\ IsZSet(missed) /\ \A x : Counts(obj, x) = 0
      BY <1>2 DEF Discard, Counts, Counted, CInv, GInv
    <2>2. \A x : Weight(missed, x) \in Int
      BY <2>1, WeightType
    <2> QED  BY <2>1, <2>2
  <1> QED  BY <1>1, <1>2

\* Changes that are freed are missed from then on.
LEMMA KeptFree ==
  ASSUME CInv, DInv', UNCHANGED <<role, prog>>, NEW F, NEW T, NEW k \in F, k \in Allocated,
         Uncounted(F \ {k}), IsChange(heap[k]), Done(F, T, 0), Discard(heap[k])
  PROVE  Kept
  <1>1. Objects' /\ ret' = 0
    BY DoneObjects DEF Done
  <1>2. FiniteZ(heap[k].z)
    BY DEF CInv, GInv, Objects, WellFormed
  <1>3. IsZSet(missed') /\ \A x : Weight(missed', x) = Weight(missed, x) + Counts(heap[k], x)
    BY <1>2, DiscardWeights DEF FiniteZ
  <1>4. GInv'
    BY <1>1, <1>3 DEF CInv, GInv
  <1>5. Handles' = Handles /\ Committed' = Committed
    BY DEF Handles, Committed
  <1>6. ASSUME NEW x
        PROVE  Weight(missed', x) + Total(heap', Handles, x) = Weight(missed, x) + Total(heap, Handles, x)
    <2>1. /\ Total(heap', Handles, x) = Total(heap, Handles, x) - Counts(heap[k], x)
          /\ Counts(heap[k], x) \in Int
      BY FreeTotal
    <2>2. Total(heap, Handles, x) \in Int /\ Weight(missed, x) \in Int
      BY TotalInt
    <2> QED  BY <1>3, <2>1, <2>2
  <1>7. Balance'
    BY <1>5, <1>6 DEF CInv, Balance
  <1> QED  BY <1>4, <1>7 DEF Kept

-----------------------------------------------------------------------------
(* Deltas *)

\* Deltas of the client change in place, and new ones are added at N.
Places(N) ==
    /\ Allocated' = Allocated \cup N /\ owned \subseteq owned'
    /\ \A h \in Allocated' : WellFormed(heap'[h])
    /\ \A h \in N : heap'[h].is = "delta" /\ h \notin Allocated
    /\ \A h \in Allocated : heap'[h] = heap[h] \/ (h \in Owned("delta") /\ heap'[h].is = "delta")

LEMMA PlaceObjects ==
  ASSUME CInv, DInv', NEW N, Places(N)
  PROVE  Objects'
  <1> USE DEF Places
  <1>1. \A h \in Allocated : HeldBy(h)' = HeldBy(h)
    BY DEF HeldBy, Owned
  <1>2. \A h \in N : HeldBy(h)' = {}
    BY DEF HeldBy
  <1>3. \A h \in Allocated : HeldBy(h) \subseteq Allocated \ owned
    BY DEF CInv, DInv, Ownership
  <1>4. \A h \in Allocated' : \A g \in HeldBy(h)' : heap'[g].is = "record"
    BY <1>1, <1>2, <1>3 DEF CInv, GInv, Objects, Owned
  <1> QED  BY <1>4 DEF Objects

LEMMA DeltaIs ==
  ASSUME NEW z, NEW c
  PROVE  /\ Delta(z, c).is = "delta" /\ Delta(z, c).z = z /\ Delta(z, c).counts = c
         /\ c \in BOOLEAN /\ FiniteZ(z) => WellFormed(Delta(z, c))
         /\ \A x : Counts(Delta(z, c), x) = IF c THEN Weight(z, x) ELSE 0
  BY DEF Delta, WellFormed, IsChange, Counts, Counted

\* A delta of the client.
LEMMA OwnDelta ==
  ASSUME CInv, NEW h \in Owned("delta")
  PROVE  /\ h \in Allocated /\ h \in Handles /\ h \in owned /\ heap[h].is = "delta"
         /\ FiniteZ(heap[h].z) /\ heap[h].counts \in BOOLEAN /\ IsChange(heap[h])
         /\ \A x : Share(heap, h, x) = Counts(heap[h], x)
         /\ \A x : Counts(heap[h], x) = IF heap[h].counts THEN Weight(heap[h].z, x) ELSE 0
  <1>1. h \in owned /\ heap[h].is = "delta"
    BY DEF Owned
  <1>2. h \in Allocated /\ h \in Handles
    BY <1>1 DEF CInv, DInv, Ownership
  <1>3. IsChange(heap[h]) /\ WellFormed(heap[h])
    BY <1>1, <1>2 DEF CInv, GInv, Objects, IsChange
  <1> QED  BY <1>1, <1>2, <1>3 DEF WellFormed, Share, Counts, Counted, Allocated

\* The part of a delta that satisfies a condition.
Part(z, S) == [x \in S |-> z[x]]

LEMMA PartWeights ==
  ASSUME NEW z, FiniteZ(z), NEW S \in SUBSET DOMAIN z
  PROVE  /\ FiniteZ(Part(z, S))
         /\ \A x : Weight(Part(z, S), x) = IF x \in S THEN Weight(z, x) ELSE 0
  <1>1. IsFiniteSet(S)
    BY FS_Subset DEF FiniteZ
  <1> QED  BY <1>1 DEF FiniteZ, IsZSet, Part, Weight

LEMMA KeptClear ==
  ASSUME CInv, DInv', NEW h \in Owned("delta"), NEW ts, ddlog_delta_clear(h, ts)
  PROVE  Kept
  <1>0. PICK z, c, kept, obj : /\ z = heap[h].z /\ c = heap[h].counts
                               /\ kept = Part(z, {y \in DOMAIN z : y[1] \notin ts})
                               /\ obj = Delta(kept, c)
    OBVIOUS
  <1>1. /\ heap' = [heap EXCEPT ![h] = obj]
        /\ Discard(Delta(Minus(z, kept), c))
        /\ ret' = 0 /\ UNCHANGED <<role, owned, prog>>
    BY <1>0 DEF ddlog_delta_clear, Part
  <1>2. FiniteZ(z) /\ c \in BOOLEAN /\ h \in Allocated /\ h \in Handles
    BY <1>0, OwnDelta
  <1>3. FiniteZ(kept)
    BY <1>0, <1>2, PartWeights
  <1>4. /\ obj.is = "delta" /\ WellFormed(obj)
        /\ \A x : Counts(obj, x) = IF c THEN Weight(kept, x) ELSE 0
    BY <1>0, <1>2, <1>3, DeltaIs
  <1>5. Allocated' = Allocated /\ \A g \in Allocated : heap'[g] = IF g = h THEN obj ELSE heap[g]
    BY <1>1 DEF Allocated
  <1>6. Objects'
    <2>1. \A g \in Allocated' : WellFormed(heap'[g])
      BY <1>4, <1>5 DEF CInv, GInv, Objects
    <2>2. \A g \in Allocated : heap'[g] = heap[g] \/ (g \in Owned("delta") /\ heap'[g].is = "delta")
      BY <1>4, <1>5
    <2>3. Allocated' = Allocated \cup {} /\ owned \subseteq owned'
      BY <1>1, <1>5
    <2>4. Places({})
      BY <2>1, <2>2, <2>3 DEF Places
    <2> QED  BY <2>4, PlaceObjects
  <1>7. PICK old : old = Delta(Minus(z, kept), c)
    OBVIOUS
  <1>8. IsZSet(Minus(z, kept)) /\ \A x : Weight(Minus(z, kept), x) = Weight(z, x) - Weight(kept, x)
    BY <1>2, <1>3, MinusWeights DEF FiniteZ
  <1>9. IsChange(old) /\ old.z = Minus(z, kept) /\ old.counts = c
    BY <1>7, DeltaIs DEF IsChange
  <1>10. IsZSet(missed') /\ \A x : Weight(missed', x) = Weight(missed, x) + Counts(old, x)
    BY <1>1, <1>7, <1>8, <1>9, DiscardWeights
  <1>11. GInv'
    BY <1>1, <1>6, <1>10 DEF CInv, GInv
  <1>12. ASSUME NEW x
         PROVE  Weight(missed', x) + Total(heap', Handles, x) = Weight(missed, x) + Total(heap, Handles, x)
    <2>1. PICK f, g : f = heap /\ g = heap'
      OBVIOUS
    <2>2. \A k \in DOMAIN f : WellFormed(f[k])
      BY <2>1 DEF CInv, GInv, Objects, Allocated
    <2>3. Puts(f, g, h, obj)
      BY <1>2, <1>4, <1>5, <2>1, <2>2 DEF Puts, Allocated
    <2>4. IsFiniteSet(Handles)
      BY HandlesFinite DEF CInv, DInv
    <2>5. Total(g, Handles, x) = Total(f, Handles, x) + (Counts(obj, x) - Share(f, h, x))
      BY <1>2, <2>3, <2>4, PutTotal
    <2>6. Share(f, h, x) = IF c THEN Weight(z, x) ELSE 0
      BY <1>0, <2>1, OwnDelta
    <2>7. Counts(old, x) = IF c THEN Weight(z, x) - Weight(kept, x) ELSE 0
      BY <1>8, <1>9 DEF Counts, Counted
    <2>8. Total(heap, Handles, x) \in Int /\ Weight(missed, x) \in Int
      BY TotalInt
    <2>9. Weight(z, x) \in Int /\ Weight(kept, x) \in Int
      BY <1>2, <1>3, WeightType DEF FiniteZ
    <2> QED  BY <1>2, <1>4, <1>10, <2>1, <2>5, <2>6, <2>7, <2>8, <2>9
  <1>13. Handles' = Handles /\ Committed' = Committed
    BY <1>1 DEF Handles, Committed
  <1>14. Balance'
    BY <1>12, <1>13 DEF CInv, Balance
  <1> QED  BY <1>11, <1>14 DEF Kept

\* Moving the changes of a table to another delta keeps their sum.
LEMMA KeptSplit ==
  ASSUME CInv, DInv', NEW h \in Owned("delta"), NEW t, ddlog_delta_remove_table(h, t)
  PROVE  Kept
  <1>0. PICK z, c, rest, moved, a, b, new :
          /\ z = heap[h].z /\ c = heap[h].counts
          /\ rest = Part(z, {y \in DOMAIN z : y[1] # t})
          /\ moved = Part(z, {y \in DOMAIN z : y[1] = t})
          /\ a = Delta(rest, c) /\ b = Delta(moved, c) /\ new = NewHandle
    OBVIOUS
  <1>1. /\ heap' = With([heap EXCEPT ![h] = a], new, b)
        /\ owned' = owned \cup {new} /\ ret' = 0 /\ UNCHANGED <<role, prog, missed>>
    BY <1>0 DEF ddlog_delta_remove_table, OnlyHeap, OfTable, WithoutTable, Part
  <1>2. FiniteZ(z) /\ c \in BOOLEAN /\ h \in Allocated /\ h \in Handles
    BY <1>0, OwnDelta
  <1>3. new \in Handles \ Allocated
    <2>1. FreeHandles \in SUBSET Nat /\ FreeHandles # {}
      BY HandlesAssumption
      DEF CInv, DInv, Ownership, Handles, FreeHandles, ddlog_delta_remove_table
    <2>2. NewHandle \in FreeHandles
      BY <2>1, MinLeast DEF NewHandle
    <2> QED  BY <1>0, <2>2 DEF FreeHandles
  <1>4. /\ FiniteZ(rest) /\ FiniteZ(moved)
        /\ \A x : Weight(rest, x) + Weight(moved, x) = Weight(z, x)
    <2>1. PICK R, M : R = {y \in DOMAIN z : y[1] # t} /\ M = {y \in DOMAIN z : y[1] = t}
      OBVIOUS
    <2>2. /\ R \in SUBSET DOMAIN z /\ M \in SUBSET DOMAIN z
          /\ R \cap M = {} /\ R \cup M = DOMAIN z
      BY <2>1
    <2>3. /\ FiniteZ(rest) /\ \A x : Weight(rest, x) = IF x \in R THEN Weight(z, x) ELSE 0
      BY <1>0, <1>2, <2>1, <2>2, PartWeights
    <2>4. /\ FiniteZ(moved) /\ \A x : Weight(moved, x) = IF x \in M THEN Weight(z, x) ELSE 0
      BY <1>0, <1>2, <2>1, <2>2, PartWeights
    <2>5. \A x : Weight(z, x) \in Int /\ (x \notin DOMAIN z => Weight(z, x) = 0)
      BY <1>2, WeightType DEF FiniteZ, Weight
    <2> QED  BY <2>2, <2>3, <2>4, <2>5
  <1>5. /\ a.is = "delta" /\ WellFormed(a) /\ b.is = "delta" /\ WellFormed(b)
        /\ \A x : Counts(a, x) = IF c THEN Weight(rest, x) ELSE 0
        /\ \A x : Counts(b, x) = IF c THEN Weight(moved, x) ELSE 0
    BY <1>0, <1>2, <1>4, DeltaIs
  <1>6. PICK mid : mid = [heap EXCEPT ![h] = a]
    OBVIOUS
  <1>7. DOMAIN mid = Allocated /\ \A g \in Allocated : mid[g] = IF g = h THEN a ELSE heap[g]
    BY <1>6 DEF Allocated
  <1>8. /\ DOMAIN heap' = Allocated \cup {new} /\ heap'[new] = b
        /\ \A g \in Allocated : heap'[g] = mid[g]
    BY <1>1, <1>3, <1>6, <1>7 DEF With
  <1>9. Objects'
    <2>1. Places({new})
      BY <1>1, <1>3, <1>5, <1>7, <1>8 DEF Places, Allocated, CInv, GInv, Objects
    <2> QED  BY <2>1, PlaceObjects
  <1>10. GInv'
    BY <1>1, <1>9 DEF CInv, GInv
  <1>11. ASSUME NEW x
         PROVE  Total(heap', Handles, x) = Total(heap, Handles, x)
    <2>1. PICK f, g : f = heap /\ g = heap'
      OBVIOUS
    <2>2. \A k \in DOMAIN f : WellFormed(f[k])
      BY <2>1 DEF CInv, GInv, Objects, Allocated
    <2>3. IsFiniteSet(Handles)
      BY HandlesFinite DEF CInv, DInv
    <2>4. Puts(f, mid, h, a)
      BY <1>2, <1>5, <1>7, <2>1, <2>2 DEF Puts, Allocated
    <2>5. /\ Total(mid, Handles, x) = Total(f, Handles, x) + (Counts(a, x) - Share(f, h, x))
          /\ \A k \in DOMAIN mid : WellFormed(mid[k])
      BY <1>2, <2>3, <2>4, PutTotal
    <2>6. Puts(mid, g, new, b)
      BY <1>3, <1>5, <1>7, <1>8, <2>1, <2>5 DEF Puts
    <2>7. Total(g, Handles, x) = Total(mid, Handles, x) + (Counts(b, x) - Share(mid, new, x))
      BY <1>3, <2>3, <2>6, PutTotal
    <2>8. Share(f, h, x) = IF c THEN Weight(z, x) ELSE 0
      BY <1>0, <2>1, OwnDelta
    <2>9. Share(mid, new, x) = 0
      BY <1>3, <1>7 DEF Share
    <2>10. Total(heap, Handles, x) \in Int
      BY TotalInt
    <2>11. Weight(rest, x) \in Int /\ Weight(moved, x) \in Int
      BY <1>4, WeightType DEF FiniteZ
    <2>12. Weight(rest, x) + Weight(moved, x) = Weight(z, x)
      BY <1>4
    <2>13. Counts(a, x) = IF c THEN Weight(rest, x) ELSE 0
      BY <1>5
    <2>14. Counts(b, x) = IF c THEN Weight(moved, x) ELSE 0
      BY <1>5
    <2> QED  BY <1>2, <2>1, <2>5, <2>7, <2>8, <2>9, <2>10, <2>11, <2>12, <2>13, <2>14
  <1>12. Handles' = Handles /\ Committed' = Committed
    BY <1>1 DEF Handles, Committed
  <1>13. Balance'
    BY <1>1, <1>11, <1>12 DEF CInv, Balance
  <1> QED  BY <1>10, <1>13 DEF Kept

\* Adding a delta to another keeps the account, whichever of them is on it.
LEMMA KeptUnion ==
  ASSUME CInv, DInv', NEW h \in Owned("delta"), NEW new \in Owned("delta"), h # new,
         ddlog_delta_union(h, new)
  PROVE  Kept
  <1>0. PICK z, c, y, d, sum, a, b :
          /\ z = heap[h].z /\ c = heap[h].counts /\ y = heap[new].z /\ d = heap[new].counts
          /\ sum = UnionOf(z, y) /\ a = Delta(sum, c /\ d) /\ b = Delta(y, d /\ ~c)
    OBVIOUS
  <1>1. /\ heap' = [heap EXCEPT ![h] = a, ![new] = b]
        /\ IF c /\ ~d THEN Miss(z) ELSE UNCHANGED missed
        /\ ret' = 0 /\ UNCHANGED <<role, owned, prog>>
    BY <1>0 DEF ddlog_delta_union
  <1>2. /\ FiniteZ(z) /\ c \in BOOLEAN /\ h \in Allocated /\ h \in Handles
        /\ FiniteZ(y) /\ d \in BOOLEAN /\ new \in Allocated /\ new \in Handles
    BY <1>0, OwnDelta
  <1>3. FiniteZ(sum) /\ \A x : Weight(sum, x) = Weight(z, x) + Weight(y, x)
    BY <1>0, <1>2, UnionWeights
  <1>4. /\ a.is = "delta" /\ WellFormed(a) /\ b.is = "delta" /\ WellFormed(b)
        /\ \A x : Counts(a, x) = IF c /\ d THEN Weight(sum, x) ELSE 0
        /\ \A x : Counts(b, x) = IF d /\ ~c THEN Weight(y, x) ELSE 0
    <2> DEFINE p == c /\ d
               q == d /\ ~c
    <2>1. p \in BOOLEAN /\ q \in BOOLEAN
      OBVIOUS
    <2>2. a = Delta(sum, p) /\ b = Delta(y, q)
      BY <1>0
    <2> HIDE DEF p, q
    <2>3. a.is = "delta" /\ WellFormed(a) /\ \A x : Counts(a, x) = IF p THEN Weight(sum, x) ELSE 0
      BY <1>3, <2>1, <2>2, DeltaIs
    <2>4. b.is = "delta" /\ WellFormed(b) /\ \A x : Counts(b, x) = IF q THEN Weight(y, x) ELSE 0
      BY <1>2, <2>1, <2>2, DeltaIs
    <2> QED  BY <2>3, <2>4 DEF p, q
  <1>5. PICK mid : mid = [heap EXCEPT ![h] = a]
    OBVIOUS
  <1>6. DOMAIN mid = Allocated /\ \A g \in Allocated : mid[g] = IF g = h THEN a ELSE heap[g]
    BY <1>5 DEF Allocated
  <1>7. DOMAIN heap' = Allocated /\ \A g \in Allocated : heap'[g] = IF g = new THEN b ELSE mid[g]
    BY <1>1, <1>5 DEF Allocated
  <1>8. Objects'
    <2>1. Places({})
      BY <1>1, <1>4, <1>6, <1>7 DEF Places, Allocated, CInv, GInv, Objects
    <2> QED  BY <2>1, PlaceObjects
  <1>9. /\ IsZSet(missed')
        /\ \A x : Weight(missed', x) = Weight(missed, x) + (IF c /\ ~d THEN Weight(z, x) ELSE 0)
    <2>1. CASE c /\ ~d
      BY <1>1, <1>2, <2>1, MissWeights DEF FiniteZ
    <2>2. CASE ~(c /\ ~d)
      <3>1. missed' = missed /\ IsZSet(missed)
        BY <1>1, <2>2 DEF CInv, GInv
      <3>2. \A x : Weight(missed, x) \in Int
        BY <3>1, WeightType
      <3> QED  BY <2>2, <3>1, <3>2
    <2> QED  BY <2>1, <2>2
  <1>10. GInv'
    BY <1>1, <1>8, <1>9 DEF CInv, GInv
  <1>11. ASSUME NEW x
         PROVE  Weight(missed', x) + Total(heap', Handles, x) = Weight(missed, x) + Total(heap, Handles, x)
    <2>1. PICK f, g : f = heap /\ g = heap'
      OBVIOUS
    <2>2. \A k \in DOMAIN f : WellFormed(f[k])
      BY <2>1 DEF CInv, GInv, Objects, Allocated
    <2>3. IsFiniteSet(Handles)
      BY HandlesFinite DEF CInv, DInv
    <2>4. Puts(f, mid, h, a)
      BY <1>2, <1>4, <1>6, <2>1, <2>2 DEF Puts, Allocated
    <2>5. /\ Total(mid, Handles, x) = Total(f, Handles, x) + (Counts(a, x) - Share(f, h, x))
          /\ \A k \in DOMAIN mid : WellFormed(mid[k])
      BY <1>2, <2>3, <2>4, PutTotal
    <2>6. Puts(mid, g, new, b)
      BY <1>2, <1>4, <1>6, <1>7, <2>1, <2>5 DEF Puts
    <2>7. Total(g, Handles, x) = Total(mid, Handles, x) + (Counts(b, x) - Share(mid, new, x))
      <3>1. new \in Handles
        BY <1>2
      <3>2. PICK H : H = Handles
        OBVIOUS
      <3>3. Total(g, H, x) = Total(mid, H, x) + (Counts(b, x) - Share(mid, new, x))
        BY <2>3, <2>6, <3>1, <3>2, PutTotal
      <3> QED  BY <3>2, <3>3
    <2>8. Share(f, h, x) = IF c THEN Weight(z, x) ELSE 0
      BY <1>0, <2>1, OwnDelta
    <2>9. Share(mid, new, x) = IF d THEN Weight(y, x) ELSE 0
      <3>1. Share(heap, new, x) = IF d THEN Weight(y, x) ELSE 0
        BY <1>0, OwnDelta
      <3> QED  BY <1>2, <1>6, <3>1 DEF Share, Allocated
    <2>10. Total(heap, Handles, x) \in Int /\ Weight(missed, x) \in Int
      BY TotalInt
    <2>11. Weight(z, x) \in Int /\ Weight(y, x) \in Int
      BY <1>2, WeightType DEF FiniteZ
    <2>12. Weight(sum, x) = Weight(z, x) + Weight(y, x)
      BY <1>3
    <2>13. Counts(a, x) = IF c /\ d THEN Weight(sum, x) ELSE 0
      BY <1>4
    <2>14. Counts(b, x) = IF d /\ ~c THEN Weight(y, x) ELSE 0
      BY <1>4
    <2>15. Weight(missed', x) = Weight(missed, x) + (IF c /\ ~d THEN Weight(z, x) ELSE 0)
      BY <1>9
    <2> QED  BY <1>2, <2>1, <2>5, <2>7, <2>8, <2>9, <2>10, <2>11, <2>12, <2>13, <2>14, <2>15
  <1>12. Handles' = Handles /\ Committed' = Committed
    BY <1>1 DEF Handles, Committed
  <1>13. Balance'
    BY <1>11, <1>12 DEF CInv, Balance
  <1> QED  BY <1>10, <1>13 DEF Kept

-----------------------------------------------------------------------------
(* Calls that are not about changes *)

LEMMA EmptyFinite == FiniteZ(Empty)
  BY FS_EmptySet DEF FiniteZ, IsZSet, Empty

\* Objects that add nothing to the account, and handles that can be freed.
LEMMA HarmlessObjects ==
    /\ \A kind : \A val \in Vals \cup {NotAValue} : Harmless(Rec(kind, val))
    /\ \A kind : Harmless(Rec(kind, NotAValue))
    /\ \A op \in Ops : \A val \in Vals \cup {NotAValue}, fits \in BOOLEAN : Harmless(Cmd(op, val, fits))
    /\ Harmless(Str)
    /\ Harmless(Flatbuf(Empty, FALSE)) /\ Harmless(Delta(Empty, TRUE))
    /\ \A z : FiniteZ(z) => Harmless(Delta(z, FALSE))
  <1>1. \A kind, val : Rec(kind, val).is = "record" /\ Rec(kind, val).val = val
    BY DEF Rec
  <1>2. \A op, val, fits : /\ Cmd(op, val, fits).is = "cmd" /\ Cmd(op, val, fits).val = val
                           /\ Cmd(op, val, fits).op = op
    BY DEF Cmd
  <1>3. Str.is = "string"
    BY DEF Str
  <1>4. ASSUME NEW obj, obj.is \in {"delta", "flatbuf"}, FiniteZ(obj.z), obj.counts \in BOOLEAN,
               obj.counts => \A x : Weight(obj.z, x) = 0
        PROVE  Harmless(obj)
    BY <1>4 DEF Harmless, WellFormed, IsChange, Counts, Counted
  <1>5. \A x : Weight(Empty, x) = 0
    BY DEF Weight, Empty
  <1>6. \A kind : \A val \in Vals \cup {NotAValue} : Harmless(Rec(kind, val))
    BY <1>1 DEF Harmless, WellFormed, IsChange, Counts, Counted
  <1>7. \A op \in Ops : \A val \in Vals \cup {NotAValue}, fits \in BOOLEAN : Harmless(Cmd(op, val, fits))
    BY <1>2 DEF Harmless, WellFormed, IsChange, Counts, Counted
  <1>8. Harmless(Str)
    BY <1>3 DEF Harmless, WellFormed, IsChange, Counts, Counted
  <1>9. Harmless(Flatbuf(Empty, FALSE))
    <2>1. PICK obj : obj = Flatbuf(Empty, FALSE)
      OBVIOUS
    <2>2. obj.is = "flatbuf" /\ obj.z = Empty /\ obj.counts = FALSE
      BY <2>1 DEF Flatbuf
    <2>3. obj.counts \in BOOLEAN /\ (obj.counts => \A x : Weight(obj.z, x) = 0)
      BY <2>2
    <2>4. obj.is \in {"delta", "flatbuf"} /\ FiniteZ(obj.z)
      BY <2>2, EmptyFinite
    <2>5. Harmless(obj)
      BY <1>4, <2>3, <2>4
    <2> QED  BY <2>1, <2>5
  <1>10. Harmless(Delta(Empty, TRUE))
    <2>1. PICK obj : obj = Delta(Empty, TRUE)
      OBVIOUS
    <2>2. obj.is = "delta" /\ obj.z = Empty /\ obj.counts = TRUE
      BY <2>1 DEF Delta
    <2>3. obj.counts \in BOOLEAN /\ (obj.counts => \A x : Weight(obj.z, x) = 0)
      BY <1>5, <2>2
    <2>4. obj.is \in {"delta", "flatbuf"} /\ FiniteZ(obj.z)
      BY <2>2, EmptyFinite
    <2>5. Harmless(obj)
      BY <1>4, <2>3, <2>4
    <2> QED  BY <2>1, <2>5
  <1>11. ASSUME NEW z, FiniteZ(z) PROVE Harmless(Delta(z, FALSE))
    <2>1. PICK obj : obj = Delta(z, FALSE)
      OBVIOUS
    <2>2. obj.is = "delta" /\ obj.z = z /\ obj.counts = FALSE
      BY <2>1 DEF Delta
    <2>3. obj.counts \in BOOLEAN /\ (obj.counts => \A x : Weight(obj.z, x) = 0)
      BY <2>2
    <2>4. obj.is \in {"delta", "flatbuf"} /\ FiniteZ(obj.z)
      BY <2>2, <1>11
    <2>5. Harmless(obj)
      BY <1>4, <2>3, <2>4
    <2> QED  BY <2>1, <2>5
  <1> QED  BY <1>6, <1>7, <1>8, <1>9, <1>10, <1>11

LEMMA UncountedHandles ==
    /\ Uncounted({})
    /\ \A S \in SUBSET Records : Uncounted(S)
    /\ \A S \in SUBSET Owned("string") : Uncounted(S)
    /\ \A S \in SUBSET Owned("cmd") : Uncounted(S)
  BY DEF Uncounted, Records, Owned, IsChange

\* Calls that free records and return an object, or free some of them and return none.
LEMMA KeptRecords ==
  ASSUME CInv, DInv', OnlyHeap, NEW F \in SUBSET Records, NEW T
  PROVE  /\ \A obj : Harmless(obj) /\ Returns(F, T, obj) => Kept
         /\ \A code \in {0, -1} : Done(F, T, code) => Kept
  BY KeptReturns, KeptDone, OnlyHeapCommitted, UncountedHandles

\* Calls that free nothing.
LEMMA KeptNew ==
  ASSUME CInv, DInv', OnlyHeap
  PROVE  /\ \A obj : Harmless(obj) /\ Returns({}, {}, obj) => Kept
         /\ \A code \in {0, -1} : Done({}, {}, code) => Kept
  BY KeptReturns, KeptDone, OnlyHeapCommitted, UncountedHandles

LEMMA KeptText ==
  ASSUME CInv, DInv', NEW valid, TextRecord(valid)
  PROVE  Kept
  BY KeptNew, HarmlessObjects DEF TextRecord

LEMMA KeptMoves ==
  ASSUME CInv, DInv', NEW kind, NEW fields \in SUBSET Records, Moves(kind, fields)
  PROVE  Kept
  BY KeptRecords, HarmlessObjects DEF Moves

LEMMA KeptConsumes ==
  ASSUME CInv, DInv', NEW coll, NEW recs \in SUBSET Records, Consumes(coll, recs)
  PROVE  Kept
  BY KeptRecords DEF Consumes

LEMMA KeptStruct ==
  ASSUME CInv, DInv', NEW fields \in SUBSET Records
  PROVE  /\ \A valid : ddlog_struct(fields, valid) => Kept
         /\ \A name \in {"valid", "invalid", "null"} : ddlog_struct_with_length(fields, name) => Kept
         /\ \A takes \in SUBSET fields, valid \in BOOLEAN : ddlog_named_struct(fields, takes, valid) => Kept
  <1>1. ASSUME Returns(fields, fields, Rec("struct", NotAValue)), OnlyHeap
        PROVE  Kept
    BY <1>1, KeptRecords, HarmlessObjects
  <1>2. ASSUME NEW takes \in SUBSET fields, Done(takes, fields, -1), OnlyHeap
        PROVE  Kept
    <2>1. takes \in SUBSET Records /\ -1 \in {0, -1}
      OBVIOUS
    <2> QED  BY <1>2, <2>1, KeptRecords
  <1>3. ASSUME NEW valid, ddlog_struct(fields, valid)
        PROVE  Kept
    BY <1>1, <1>2, <1>3 DEF ddlog_struct
  <1>4. ASSUME NEW name \in {"valid", "invalid", "null"}, ddlog_struct_with_length(fields, name)
        PROVE  Kept
    <2>1. {} \in SUBSET fields /\ fields \in SUBSET fields
      OBVIOUS
    <2>2. OnlyHeap /\ \/ Returns(fields, fields, Rec("struct", NotAValue))
                      \/ Done(fields, fields, -1)
                      \/ Done({}, fields, -1)
      BY <1>4 DEF ddlog_struct_with_length
    <2> QED  BY <1>1, <1>2, <2>1, <2>2
  <1>5. ASSUME NEW takes \in SUBSET fields, NEW valid \in BOOLEAN,
               ddlog_named_struct(fields, takes, valid)
        PROVE  Kept
    BY <1>1, <1>2, <1>5 DEF ddlog_named_struct
  <1> QED  BY <1>3, <1>4, <1>5

LEMMA KeptCollections ==
  ASSUME CInv, DInv', build_collections
  PROVE  Kept
  <1>1. ASSUME NEW fields \in SUBSET Records,
               \/ ddlog_tuple(fields) \/ ddlog_vector(fields) \/ ddlog_set(fields)
               \/ ddlog_map(fields)
        PROVE  Kept
    BY <1>1, KeptMoves DEF ddlog_tuple, ddlog_vector, ddlog_set, ddlog_map
  <1>2. ASSUME NEW fields \in SUBSET Records,
               \/ \E valid \in BOOLEAN :
                    ddlog_struct(fields, valid) \/ ddlog_struct_static_cons(fields, valid)
               \/ \E name \in {"valid", "invalid", "null"} :
                    \/ ddlog_struct_with_length(fields, name)
                    \/ ddlog_struct_static_cons_with_length(fields, name)
               \/ \E takes \in SUBSET fields, valid \in BOOLEAN :
                    ddlog_named_struct(fields, takes, valid)
        PROVE  Kept
    BY <1>2, KeptStruct DEF ddlog_struct_static_cons, ddlog_struct_static_cons_with_length
  <1>3. ASSUME NEW coll \in Records, NEW rec \in Records,
               \/ ddlog_tuple_push(coll, rec) \/ ddlog_vector_push(coll, rec)
               \/ ddlog_set_push(coll, rec)
               \/ \E val \in Records : ddlog_map_push(coll, rec, val)
        PROVE  Kept
    BY <1>3, KeptConsumes DEF ddlog_tuple_push, ddlog_vector_push, ddlog_set_push, ddlog_map_push
  <1>4. ASSUME NEW v1 \in Records, NEW v2 \in Records, ddlog_pair(v1, v2)
        PROVE  Kept
    <2>1. {v1, v2} \in SUBSET Records
      OBVIOUS
    <2> QED  BY <1>4, <2>1, KeptRecords, HarmlessObjects DEF ddlog_pair
  <1> QED  BY <1>1, <1>2, <1>3, <1>4 DEF build_collections

LEMMA KeptTextOrNull ==
  ASSUME CInv, DInv', NEW ok, TextOrNull(ok)
  PROVE  Kept
  BY KeptNew, HarmlessObjects DEF TextOrNull

LEMMA KeptStringFree ==
  ASSUME CInv, DInv', NEW h \in Owned("string"), ddlog_string_free(h) \/ ddlog_free_json(h)
  PROVE  Kept
  <1>1. Uncounted({h}) /\ 0 \in {0, -1}
    BY UncountedHandles
  <1> QED  BY <1>1, KeptDone, OnlyHeapCommitted DEF ddlog_string_free, ddlog_free_json

\* A record of the client.
LEMMA OwnRecord ==
  ASSUME CInv, NEW h \in Records
  PROVE  h \in Allocated /\ heap[h].val \in Vals \cup {NotAValue} /\ Harmless(heap[h])
  <1>1. h \in Allocated /\ heap[h].is = "record"
    BY DEF Records, Owned, CInv, DInv, Ownership
  <1>2. WellFormed(heap[h])
    BY <1>1 DEF CInv, GInv, Objects
  <1> QED  BY <1>1, <1>2 DEF Harmless, WellFormed, Counts, Counted, IsChange

LEMMA KeptFreeRecord ==
  ASSUME CInv, DInv', NEW h \in Records, ddlog_free(h)
  PROVE  Kept
  <1>1. {h} \in SUBSET Records /\ 0 \in {0, -1}
    OBVIOUS
  <1> QED  BY <1>1, KeptRecords DEF ddlog_free

LEMMA KeptBuild ==
  ASSUME CInv, DInv', build_records
  PROVE  Kept
  <1>1. CASE ddlog_scalar(NotAValue)
    BY <1>1, KeptNew, HarmlessObjects DEF ddlog_scalar
  <1>2. ASSUME NEW valid \in BOOLEAN, NEW empty \in BOOLEAN, NEW format \in BOOLEAN,
               \/ ddlog_string(valid) \/ ddlog_string_with_length(empty, valid)
               \/ ddlog_serialized(format, valid)
               \/ ddlog_serialized_with_length(format, empty, valid)
        PROVE  Kept
    BY <1>2, KeptText DEF ddlog_string, ddlog_string_with_length, ddlog_serialized,
                          ddlog_serialized_with_length
  <1>3. ASSUME NEW h \in Records,
               \/ ddlog_clone(h) \/ ddlog_free(h)
               \/ \E ok \in BOOLEAN : \/ ddlog_dump_record(h, ~ok)
                                      \/ ddlog_into_ovsdb_insert_str(h, ok)
                                      \/ ddlog_into_osvdb_delete_str(h, ok)
                                      \/ ddlog_into_ovsdb_update_str(h, ok)
        PROVE  Kept
    <2>1. CASE ddlog_clone(h)
      BY <2>1, KeptNew, OwnRecord DEF ddlog_clone
    <2> QED  BY <1>3, <2>1, KeptFreeRecord, KeptTextOrNull
             DEF ddlog_dump_record, ddlog_into_ovsdb_insert_str, ddlog_into_osvdb_delete_str,
                 ddlog_into_ovsdb_update_str
  <1> QED  BY <1>1, <1>2, <1>3, KeptCollections, KeptStringFree DEF build_records

-----------------------------------------------------------------------------
(* Updates *)

\* Calls that read the program.
LEMMA KeptReads ==
  ASSUME CInv, DInv', NEW ok, Reads(ok)
  PROVE  Kept
  BY KeptNew DEF Reads

LEMMA KeptCmd ==
  ASSUME CInv, DInv', NEW F \in SUBSET Records, NEW op \in Ops, NEW h \in Records, NEW fits \in BOOLEAN,
         Returns(F, F, Cmd(op, heap[h].val, fits)), OnlyHeap
  PROVE  Kept
  <1>1. Harmless(Cmd(op, heap[h].val, fits))
    BY OwnRecord, HarmlessObjects
  <1> QED  BY <1>1, KeptRecords

\* A batch of commands of the client, one or two of them.
LEMMA BatchIs ==
  ASSUME NEW hs \in Batches
  PROVE  \E n \in {1, 2} : /\ DOMAIN hs = 1 .. n
                           /\ \A i \in 1 .. n : hs[i] \in Owned("cmd")
  <1>1. ASSUME NEW a \in Owned("cmd"), hs = <<a>>
        PROVE  DOMAIN hs = 1 .. 1 /\ \A i \in 1 .. 1 : hs[i] \in Owned("cmd")
    BY <1>1
  <1>2. ASSUME hs \in Owned("cmd") \X Owned("cmd")
        PROVE  DOMAIN hs = 1 .. 2 /\ \A i \in 1 .. 2 : hs[i] \in Owned("cmd")
    <2>1. PICK a \in Owned("cmd"), b \in Owned("cmd") : hs = <<a, b>>
      BY <1>2
    <2>2. DOMAIN hs = 1 .. 2 /\ hs[1] = a /\ hs[2] = b
      BY <2>1
    <2> QED  BY <2>2
  <1> QED  BY <1>1, <1>2 DEF Batches

LEMMA KeptApply ==
  ASSUME CInv, DInv', NEW hs \in Batches, ddlog_apply_updates(hs)
  PROVE  Kept
  <1> DEFINE cs == [i \in DOMAIN hs |-> heap[hs[i]]]
             all == {hs[i] : i \in DOMAIN hs}
             code == IF prog.txn /\ BatchOk(cs) THEN 0 ELSE -1
  <1>1. PICK n \in {1, 2} : DOMAIN hs = 1 .. n /\ \A i \in 1 .. n : hs[i] \in Owned("cmd")
    BY BatchIs
  <1>2. DOMAIN cs = 1 .. n /\ cs = [i \in 1 .. n |-> cs[i]]
    BY <1>1
  <1>3. /\ Done(Consumed(hs), all, code) /\ UNCHANGED <<role, missed>>
        /\ prog' = IF prog.txn THEN AfterBatch(cs) ELSE prog
    BY DEF ddlog_apply_updates
  <1>4. code \in {0, -1}
    OBVIOUS
  <1>5. Consumed(hs) = {hs[i] : i \in 1 .. Pulled(cs)}
    BY DEF Consumed
  <1>6. \A i \in DOMAIN cs : IsCmd(cs[i])
    <2> SUFFICES ASSUME NEW i \in DOMAIN cs PROVE IsCmd(cs[i])
      OBVIOUS
    <2>1. cs[i] = heap[hs[i]] /\ hs[i] \in owned /\ heap[hs[i]].is = "cmd"
      BY <1>1 DEF Owned
    <2>2. WellFormed(cs[i]) /\ cs[i].is = "cmd"
      BY <2>1 DEF CInv, DInv, Ownership, GInv, Objects
    <2> QED  BY <2>2 DEF WellFormed, IsCmd
  <1> HIDE DEF cs
  <1>7. Len(cs) = n /\ cs \in Seq({cs[i] : i \in 1 .. n})
    BY <1>1, <1>2, SeqOfLength
  <1>8. Pulled(cs) \in 0 .. n
    BY <1>7, PulledBound
  <1>9. Uncounted(Consumed(hs))
    <2>1. Consumed(hs) \in SUBSET Owned("cmd")
      BY <1>1, <1>5, <1>8
    <2> QED  BY <2>1, UncountedHandles
  <1>10. Program(prog') /\ Committed' = Committed
    <2>1. CASE prog.txn
      <3>1. /\ Program(AfterBatch(cs))
            /\ AfterBatch(cs).txn = prog.txn /\ AfterBatch(cs).start = prog.start
        BY <1>6, <1>7, BatchContents DEF CInv, GInv
      <3> QED  BY <1>3, <2>1, <3>1 DEF Committed
    <2>2. CASE ~prog.txn
      BY <1>3, <2>2 DEF Committed, CInv, GInv
    <2> QED  BY <2>1, <2>2
  <1> HIDE DEF code, all
  <1> QED  BY <1>3, <1>4, <1>9, <1>10, KeptDone

\* Changes of the program record that leave what is committed.
LEMMA ProgramSteps ==
  ASSUME CInv
  PROVE  /\ \A fd : Program([prog EXCEPT !.recorder = fd]) /\ [prog EXCEPT !.recorder = fd].txn = prog.txn
                    /\ [prog EXCEPT !.recorder = fd].start = prog.start
                    /\ [prog EXCEPT !.recorder = fd].rel = prog.rel
         /\ Program([prog EXCEPT !.rel = {}]) /\ [prog EXCEPT !.rel = {}].txn = prog.txn
         /\ [prog EXCEPT !.rel = {}].start = prog.start
  <1>1. Program(prog)
    BY DEF CInv, GInv
  <1>2. ASSUME NEW fd
        PROVE  [prog EXCEPT !.recorder = fd] =
                 [running |-> prog.running, txn |-> prog.txn, broken |-> prog.broken,
                  rel |-> prog.rel, start |-> prog.start, recorder |-> fd]
    BY <1>1 DEF Program
  <1>3. [prog EXCEPT !.rel = {}] =
          [running |-> prog.running, txn |-> prog.txn, broken |-> prog.broken,
           rel |-> {}, start |-> prog.start, recorder |-> prog.recorder]
    BY <1>1 DEF Program
  <1>4. Contents({})
    BY FS_EmptySet DEF Contents
  <1> QED  BY <1>1, <1>2, <1>3, <1>4 DEF Program

LEMMA KeptUpdates ==
  ASSUME CInv, DInv', send_updates
  PROVE  Kept
  <1>1. ASSUME NEW val \in Vals \cup {NotAValue}, ddlog_scalar(val)
        PROVE  Kept
    BY <1>1, KeptNew, HarmlessObjects DEF ddlog_scalar
  <1>2. ASSUME NEW h \in Records, ddlog_query_index(h)
        PROVE  Kept
    BY <1>2, KeptNew DEF ddlog_query_index
  <1>3. ASSUME NEW ok \in BOOLEAN,
               \/ ddlog_dump_index(ok) \/ ddlog_dump_table(ok)
               \/ ddlog_enable_cpu_profiling(ok) \/ ddlog_enable_change_profiling(ok)
               \/ ddlog_enable_timely_profiling(ok)
        PROVE  Kept
    BY <1>3, KeptReads DEF ddlog_dump_index, ddlog_dump_table, ddlog_enable_cpu_profiling,
                           ddlog_enable_change_profiling, ddlog_enable_timely_profiling
  <1>4. ASSUME NEW op \in {"insert", "insert_or_update", "delete", "delete_key"}, NEW h \in Records,
               ddlog_cmd(op, h)
        PROVE  Kept
    <2>1. {h} \in SUBSET Records /\ op \in Ops /\ TRUE \in BOOLEAN
      BY DEF Ops
    <2> QED  BY <1>4, <2>1, KeptCmd DEF ddlog_cmd
  <1>5. ASSUME NEW key \in Records, NEW values \in Records, ddlog_modify_cmd(key, values)
        PROVE  Kept
    <2> DEFINE fits == heap[values].val # NotAValue
    <2>1. {key, values} \in SUBSET Records /\ "modify" \in Ops /\ fits \in BOOLEAN
      BY DEF Ops
    <2>2. Returns({key, values}, {key, values}, Cmd("modify", heap[key].val, fits)) /\ OnlyHeap
      BY <1>5 DEF ddlog_modify_cmd
    <2> HIDE DEF fits
    <2> QED  BY <2>1, <2>2, KeptCmd
  <1>6. CASE ddlog_clear_relation
    <2>1. CASE prog.txn
      <3>1. /\ prog' = [prog EXCEPT !.rel = {}] /\ ret' = 0 /\ UNCHANGED <<role, heap, missed>>
        BY <1>6, <2>1 DEF ddlog_clear_relation, OnlyProgram
      <3>2. Program(prog') /\ Committed' = Committed
        BY <2>1, <3>1, ProgramSteps DEF Committed
      <3> QED  BY <3>1, <3>2, KeptProgram
    <2>2. CASE ~prog.txn
      <3>1. ret' = -1 /\ UNCHANGED <<role, heap, missed, prog>>
        BY <1>6, <2>2 DEF ddlog_clear_relation, OnlyProgram
      <3> QED  BY <3>1, KeptProgram DEF Committed, CInv, GInv
    <2> QED  BY <2>1, <2>2
  <1>7. ASSUME NEW fd, NEW sole \in BOOLEAN, ddlog_record_commands(fd, sole)
        PROVE  Kept
    <2>1. /\ prog' = [prog EXCEPT !.recorder = fd] \/ prog' = prog
          /\ ret' \in {0, -1} /\ UNCHANGED <<role, heap, missed>>
      BY <1>7 DEF ddlog_record_commands, record_to, OnlyProgram
    <2>2. Program(prog') /\ Committed' = Committed
      BY <2>1, ProgramSteps DEF Committed, CInv, GInv
    <2> QED  BY <2>1, <2>2, KeptProgram
  <1>8. ASSUME NEW fd, NEW written \in BOOLEAN, ddlog_dump_input_snapshot(fd, written)
        PROVE  Kept
    <2>1. ret' \in {0, -1} /\ UNCHANGED <<role, heap, missed, prog>>
      BY <1>8 DEF ddlog_dump_input_snapshot, OnlyProgram
    <2> QED  BY <2>1, KeptProgram DEF Committed, CInv, GInv
  <1> QED  BY <1>1, <1>2, <1>3, <1>4, <1>5, <1>6, <1>7, <1>8, KeptFreeRecord, KeptApply DEF send_updates

-----------------------------------------------------------------------------
(* Changes *)

\* A batch that comes as a buffer or as text.
LEMMA KeptBatch ==
  ASSUME CInv, NEW T, NEW cs \in Seq(T), \A i \in DOMAIN cs : IsCmd(cs[i]),
         prog' = prog \/ (prog.txn /\ prog' = AfterBatch(cs)),
         UNCHANGED <<role, heap, missed>>, ret' \in {0, -1}
  PROVE  Kept
  <1>1. CASE prog' = prog
    BY <1>1, KeptProgram DEF Committed, CInv, GInv
  <1>2. CASE prog.txn /\ prog' = AfterBatch(cs)
    <2>1. /\ Program(AfterBatch(cs))
          /\ AfterBatch(cs).txn = prog.txn /\ AfterBatch(cs).start = prog.start
      BY BatchContents DEF CInv, GInv
    <2>2. Program(prog') /\ Committed' = Committed
      BY <1>2, <2>1 DEF Committed
    <2> QED  BY <2>2, KeptProgram
  <1> QED  BY <1>1, <1>2

LEMMA CmdIs ==
  ASSUME NEW op \in Ops, NEW v \in Vals \cup {NotAValue}, NEW fits
  PROVE  IsCmd(Cmd(op, v, fits))
  BY DEF IsCmd, Cmd

\* Sequences of one and of two commands.
LEMMA ShortBatches ==
  ASSUME NEW c, IsCmd(c), NEW d, IsCmd(d)
  PROVE  /\ <<c>> \in Seq({c, d}) /\ \A i \in DOMAIN <<c>> : IsCmd(<<c>>[i])
         /\ <<c>> \o <<>> \in Seq({c, d}) /\ \A i \in DOMAIN (<<c>> \o <<>>) : IsCmd((<<c>> \o <<>>)[i])
         /\ <<c>> \o <<d>> \in Seq({c, d}) /\ \A i \in DOMAIN (<<c>> \o <<d>>) : IsCmd((<<c>> \o <<d>>)[i])
  <1>1. <<c>> \in Seq({c, d}) /\ DOMAIN <<c>> = 1 .. 1 /\ <<c>>[1] = c
    OBVIOUS
  <1>2. <<c>> \o <<>> = <<c>>
    BY <1>1, ConcatEmptySeq
  <1>3. PICK s : s = <<c>> \o <<d>>
    OBVIOUS
  <1>4. s \in Seq({c, d}) /\ DOMAIN s = 1 .. 2 /\ \A i \in 1 .. 2 : s[i] \in {c, d}
    <2>1. <<d>> \in Seq({c, d}) /\ Len(<<c>>) = 1 /\ Len(<<d>>) = 1
      OBVIOUS
    <2>2. s \in Seq({c, d}) /\ Len(s) = 1 + 1
      BY <1>1, <1>3, <2>1, ConcatProperties
    <2>3. Len(s) = 2 /\ DOMAIN s = 1 .. Len(s)
      BY <2>2, LenProperties
    <2>4. \A i \in 1 .. Len(s) : s[i] \in {c, d}
      BY <2>2, ElementOfSeq
    <2> QED  BY <2>2, <2>3, <2>4
  <1>5. \A i \in DOMAIN s : IsCmd(s[i])
    BY <1>4
  <1> QED  BY <1>1, <1>2, <1>3, <1>4, <1>5

LEMMA KeptImports ==
  ASSUME CInv, NEW op \in {"insert", "delete"}, NEW v \in Vals
  PROVE  \A rest \in {<<>>, <<Cmd("insert", NotAValue, TRUE)>>, <<Cmd("delete", v, TRUE)>>} :
           apply_converted(<<Cmd(op, v, TRUE)>> \o rest) => Kept
  <1>0. PICK c, d, e : /\ c = Cmd(op, v, TRUE) /\ d = Cmd("insert", NotAValue, TRUE)
                       /\ e = Cmd("delete", v, TRUE)
    OBVIOUS
  <1>1. IsCmd(c) /\ IsCmd(d) /\ IsCmd(e)
    <2>1. op \in Ops /\ "insert" \in Ops /\ "delete" \in Ops
      BY DEF Ops
    <2> QED  BY <1>0, <2>1, CmdIs
  <1>2. ASSUME NEW T, NEW cs \in Seq(T), \A i \in DOMAIN cs : IsCmd(cs[i]),
               apply_converted(cs)
        PROVE  Kept
    <2>1. /\ prog' = prog \/ (prog.txn /\ prog' = AfterBatch(cs))
          /\ UNCHANGED <<role, heap, missed>> /\ ret' \in {0, -1}
      BY <1>2 DEF apply_converted, OnlyProgram
    <2> QED  BY <1>2, <2>1, KeptBatch
  <1>3. ASSUME NEW rest \in {<<>>, <<d>>, <<e>>}, apply_converted(<<c>> \o rest)
        PROVE  Kept
    <2>1. CASE rest = <<>>
      <3>1. <<c>> \o <<>> \in Seq({c, d}) /\ \A i \in DOMAIN (<<c>> \o <<>>) : IsCmd((<<c>> \o <<>>)[i])
        BY <1>1, ShortBatches
      <3> QED  BY <1>2, <1>3, <2>1, <3>1
    <2>2. ASSUME NEW k, IsCmd(k), rest = <<k>> PROVE Kept
      <3>1. <<c>> \o <<k>> \in Seq({c, k}) /\ \A i \in DOMAIN (<<c>> \o <<k>>) : IsCmd((<<c>> \o <<k>>)[i])
        BY <1>1, <2>2, ShortBatches
      <3> QED  BY <1>2, <1>3, <2>2, <3>1
    <2> QED  BY <1>1, <1>3, <2>1, <2>2
  <1> QED  BY <1>0, <1>3

LEMMA KeptTexts ==
  ASSUME CInv, DInv', collect_texts
  PROVE  Kept
  <1>1. ASSUME NEW ok, Profile(ok)
        PROVE  Kept
    BY <1>1, KeptTextOrNull DEF Profile
  <1>2. ASSUME NEW h, NEW t, NEW ok,
               ddlog_dump_ovsdb_delta_tables(h, t, ok) \/ ddlog_dump_ovsdb_output_table(h, t, ok)
        PROVE  Kept
    BY <1>2, KeptTextOrNull DEF ddlog_dump_ovsdb_delta_tables, ddlog_dump_ovsdb_output_table
  <1> QED  BY <1>1, <1>2, KeptStringFree
           DEF collect_texts, ddlog_dump_profile, ddlog_arrangement_size_profile,
               ddlog_peak_arrangement_size_profile, ddlog_change_profile, ddlog_cpu_profile

LEMMA KeptCommits ==
  ASSUME CInv, DInv', NEW converts
  PROVE  /\ ddlog_transaction_commit_dump_changes => Kept
         /\ ddlog_transaction_commit_dump_changes_to_flatbuf(converts) => Kept
         /\ IndexValues(converts) => Kept
  <1>1. ASSUME ddlog_transaction_commit_dump_changes PROVE Kept
    <2>1. PICK obj : obj = Delta(TxnChanges, TRUE)
      OBVIOUS
    <2>2. obj.is = "delta" /\ obj.z = TxnChanges /\ obj.counts = TRUE
      BY <2>1 DEF Delta
    <2>3. prog.txn /\ EndTxn /\ UNCHANGED <<role, missed>> /\ Returns({}, {}, obj)
      BY <1>1, <2>1 DEF ddlog_transaction_commit_dump_changes
    <2> QED  BY <2>2, <2>3, KeptCommit
  <1>2. ASSUME ddlog_transaction_commit_dump_changes_to_flatbuf(converts) PROVE Kept
    <2>1. PICK obj : obj = Flatbuf(TxnChanges, TRUE)
      OBVIOUS
    <2>2. obj.is = "flatbuf" /\ obj.z = TxnChanges /\ obj.counts = TRUE
      BY <2>1 DEF Flatbuf
    <2>3. prog.txn /\ EndTxn /\ role' = role
      BY <1>2 DEF ddlog_transaction_commit_dump_changes_to_flatbuf
    <2>4. CASE converts
      <3>1. Returns({}, {}, obj) /\ missed' = missed
        BY <1>2, <2>1, <2>4 DEF ddlog_transaction_commit_dump_changes_to_flatbuf
      <3> QED  BY <2>2, <2>3, <3>1, KeptCommit
    <2>5. CASE ~converts
      <3>1. Done({}, {}, -1) /\ Miss(TxnChanges)
        BY <1>2, <2>5 DEF ddlog_transaction_commit_dump_changes_to_flatbuf
      <3>2. ret' \in {0, -1}
        BY <3>1 DEF Done
      <3> QED  BY <2>3, <3>1, <3>2, KeptMissed
    <2> QED  BY <2>4, <2>5
  <1>3. IndexValues(converts) => Kept
    BY KeptNew, HarmlessObjects DEF IndexValues
  <1> QED  BY <1>1, <1>2, <1>3

LEMMA KeptFreeChanges ==
  ASSUME CInv, DInv'
  PROVE  /\ \A h \in Owned("updates") : ddlog_free_record_updates(h) => Kept
         /\ \A h \in Owned("flatbuf") \cup Owned("delta") : FreeChanges(h) => Kept
  <1>1. ASSUME NEW h \in Owned("updates"), ddlog_free_record_updates(h)
        PROVE  Kept
    <2>1. h \in Allocated /\ heap[h].is = "updates"
      BY DEF Owned, CInv, DInv, Ownership
    <2>2. IsChange(heap[h])
      BY <2>1 DEF IsChange
    <2>3. \A g \in heap[h].recs : heap[g].is = "record"
      BY <2>1 DEF CInv, GInv, Objects, HeldBy
    <2>4. PICK F : F = {h} \cup heap[h].recs
      OBVIOUS
    <2>5. h \in F /\ Uncounted(F \ {h})
      BY <2>3, <2>4 DEF Uncounted, IsChange
    <2>6. Done(F, {h}, 0) /\ Discard(heap[h]) /\ UNCHANGED <<role, prog>>
      BY <1>1, <2>4 DEF ddlog_free_record_updates
    <2> QED  BY <2>1, <2>2, <2>5, <2>6, KeptFree
  <1>2. ASSUME NEW h \in Owned("flatbuf") \cup Owned("delta"), FreeChanges(h)
        PROVE  Kept
    <2>1. h \in Allocated /\ IsChange(heap[h])
      BY DEF Owned, CInv, DInv, Ownership, IsChange
    <2>2. h \in {h} /\ Uncounted({h} \ {h})
      BY DEF Uncounted
    <2>3. Done({h}, {h}, 0) /\ Discard(heap[h]) /\ UNCHANGED <<role, prog>>
      BY <1>2 DEF FreeChanges
    <2> QED  BY <2>1, <2>2, <2>3, KeptFree
  <1> QED  BY <1>1, <1>2

LEMMA KeptGetTable ==
  ASSUME CInv, DInv', NEW h \in Owned("delta"), NEW t, ddlog_delta_get_table(h, t)
  PROVE  Kept
  <1>0. PICK z, S : z = heap[h].z /\ S = {y \in DOMAIN z : y[1] = t}
    OBVIOUS
  <1>1. FiniteZ(z) /\ S \in SUBSET DOMAIN z
    BY <1>0, OwnDelta
  <1>2. FiniteZ(Part(z, S))
    BY <1>1, PartWeights
  <1>3. OfTable(heap[h].z, t) = Part(z, S)
    BY <1>0 DEF OfTable, Part
  <1> QED  BY <1>2, <1>3, KeptNew, HarmlessObjects DEF ddlog_delta_get_table

LEMMA KeptChanges ==
  ASSUME CInv, DInv', collect_changes
  PROVE  Kept
  <1>1. ASSUME NEW op \in {"insert", "delete"}, NEW v \in Vals,
               \E rest \in {<<>>, <<Cmd("insert", NotAValue, TRUE)>>, <<Cmd("delete", v, TRUE)>>} :
                 \/ ddlog_apply_updates_from_flatbuf(<<Cmd(op, v, TRUE)>> \o rest)
                 \/ ddlog_apply_ovsdb_updates(<<Cmd(op, v, TRUE)>> \o rest)
        PROVE  Kept
    BY <1>1, KeptImports DEF ddlog_apply_updates_from_flatbuf, ddlog_apply_ovsdb_updates
  <1>2. ASSUME NEW converts \in BOOLEAN,
               \/ ddlog_transaction_commit_dump_changes_to_flatbuf(converts)
               \/ ddlog_dump_index_to_flatbuf(converts)
               \/ ddlog_query_index_from_flatbuf(converts)
        PROVE  Kept
    BY <1>2, KeptCommits DEF ddlog_dump_index_to_flatbuf, ddlog_query_index_from_flatbuf
  <1>3. CASE ddlog_transaction_commit_dump_changes
    BY <1>3, KeptCommits
  <1>4. CASE ddlog_new_delta
    BY <1>4, KeptNew, HarmlessObjects DEF ddlog_new_delta
  <1>5. ASSUME NEW h \in Owned("delta"),
               \/ \E t \in Tables : \/ ddlog_delta_get_table(h, t)
                                    \/ ddlog_delta_remove_table(h, t)
                                    \/ ddlog_delta_clear(h, {t})
               \/ ddlog_delta_clear(h, Tables)
               \/ \E new \in Owned("delta") \ {h} : ddlog_delta_union(h, new)
        PROVE  Kept
    BY <1>5, KeptGetTable, KeptSplit, KeptClear, KeptUnion
  <1> QED  BY <1>1, <1>2, <1>3, <1>4, <1>5, KeptArray, KeptTexts, KeptFreeChanges
           DEF collect_changes, ddlog_free_delta, ddlog_flatbuf_free

LEMMA KeptTransactions ==
  ASSUME CInv, DInv', run_transactions
  PROVE  Kept
  <1>0. Program(prog)
    BY DEF CInv, GInv
  <1>1. CASE ddlog_transaction_start
    <2>1. CASE prog.txn
      <3>1. ret' = -1 /\ UNCHANGED <<role, heap, missed, prog>>
        BY <1>1, <2>1 DEF ddlog_transaction_start, OnlyProgram
      <3> QED  BY <1>0, <3>1, KeptProgram DEF Committed
    <2>2. CASE ~prog.txn
      <3>1. /\ prog' = [prog EXCEPT !.txn = TRUE, !.start = prog.rel]
            /\ ret' = 0 /\ UNCHANGED <<role, heap, missed>>
        BY <1>1, <2>2 DEF ddlog_transaction_start, OnlyProgram
      <3>2. prog' = [running |-> prog.running, txn |-> TRUE, broken |-> prog.broken, rel |-> prog.rel,
                     start |-> prog.rel, recorder |-> prog.recorder]
        BY <1>0, <3>1 DEF Program
      <3>3. Program(prog') /\ Committed' = Committed
        BY <1>0, <2>2, <3>2 DEF Program, Committed
      <3> QED  BY <3>1, <3>3, KeptProgram
    <2> QED  BY <2>1, <2>2
  <1>2. CASE ddlog_transaction_rollback
    <2>1. CASE ~prog.txn
      <3>1. ret' = -1 /\ UNCHANGED <<role, heap, missed, prog>>
        BY <1>2, <2>1 DEF ddlog_transaction_rollback, OnlyProgram
      <3> QED  BY <1>0, <3>1, KeptProgram DEF Committed
    <2>2. CASE prog.txn
      <3>1. /\ prog' = [prog EXCEPT !.txn = FALSE, !.rel = prog.start]
            /\ ret' = 0 /\ UNCHANGED <<role, heap, missed>>
        BY <1>2, <2>2 DEF ddlog_transaction_rollback, OnlyProgram
      <3>2. prog' = [running |-> prog.running, txn |-> FALSE, broken |-> prog.broken, rel |-> prog.start,
                     start |-> prog.start, recorder |-> prog.recorder]
        BY <1>0, <3>1 DEF Program
      <3>3. Program(prog') /\ Committed' = Committed
        BY <1>0, <2>2, <3>2 DEF Program, Committed
      <3> QED  BY <3>1, <3>3, KeptProgram
    <2> QED  BY <2>1, <2>2
  <1>3. CASE ddlog_transaction_commit
    <2>1. /\ prog.txn /\ EndTxn /\ Miss(TxnChanges) /\ ret' = 0
          /\ UNCHANGED <<role, heap>>
      BY <1>3 DEF ddlog_transaction_commit
    <2> QED  BY <2>1, KeptMissed
  <1>4. CASE CommitFails
    <2>1. ret' = -1 /\ UNCHANGED <<role, heap, missed, prog>>
      BY <1>4 DEF CommitFails
    <2> QED  BY <1>0, <2>1, KeptProgram DEF Committed
  <1>5. ASSUME NEW sole \in BOOLEAN, NEW ok \in BOOLEAN, ddlog_stop(sole, ok)
        PROVE  Kept
    <2>1. PICK fd : prog' = [[prog EXCEPT !.recorder = fd] EXCEPT !.running = FALSE]
      <3>1. [prog EXCEPT !.recorder = prog.recorder] = prog
        BY <1>0 DEF Program
      <3>2. record_to(NoFd, sole) = [prog EXCEPT !.recorder = IF sole THEN NoFd ELSE prog.recorder]
        BY <3>1 DEF record_to
      <3> QED  BY <1>5, <3>2 DEF ddlog_stop
    <2>2. ret' \in {0, -1} /\ UNCHANGED <<role, heap, missed>>
      BY <1>5 DEF ddlog_stop, OnlyProgram
    <2>3. prog' = [running |-> FALSE, txn |-> prog.txn, broken |-> prog.broken, rel |-> prog.rel,
                   start |-> prog.start, recorder |-> fd]
      BY <1>0, <2>1 DEF Program
    <2>4. Program(prog') /\ Committed' = Committed
      BY <1>0, <2>3 DEF Program, Committed
    <2> QED  BY <2>2, <2>4, KeptProgram
  <1> QED  BY <1>1, <1>2, <1>3, <1>4, <1>5 DEF run_transactions

-----------------------------------------------------------------------------
(* Theorems about the changes *)

LEMMA InitCInv == Init => CInv
  <1> SUFFICES ASSUME Init PROVE CInv
    OBVIOUS
  <1>1. Allocated = {} /\ DInv
    BY InitDInv DEF Init, Allocated
  <1>2. Contents({})
    BY FS_EmptySet DEF Contents
  <1>3. Program(prog) /\ Committed = {}
    BY <1>2 DEF Init, Program, Committed
  <1>4. GInv
    BY <1>1, <1>3, EmptyFinite DEF Init, GInv, Objects, FiniteZ
  <1>5. ASSUME NEW x
        PROVE  Weight(missed, x) + Total(heap, Handles, x) = Weight(Shown(Committed), x)
    <2>1. Weight(missed, x) = 0
      BY DEF Init, Weight, Empty
    <2>2. Weight(Shown(Committed), x) = 0
      BY <1>3 DEF Shown, Outputs, AsZSet, Weight
    <2>3. PICK e : e = Shares(heap, Handles, x)
      OBVIOUS
    <2>4. \A h \in Handles : e[h] = 0
      BY <1>1, <2>3 DEF Shares, Share, Allocated
    <2>5. SumOver(e, Handles) = 0
      BY <1>1, <2>4, HandlesFinite, SumZero DEF DInv
    <2> QED  BY <2>1, <2>2, <2>3, <2>5 DEF Total
  <1> QED  BY <1>1, <1>4, <1>5 DEF CInv, Balance

LEMMA NextKept ==
  ASSUME CInv, [Next]_vars
  PROVE  CInv'
  <1>1. DInv'
    BY NextSafe DEF CInv, Safe
  <1>2. CASE Next
    BY <1>1, <1>2, KeptBuild, KeptUpdates, KeptChanges, KeptTransactions DEF Next, CInv, Kept
  <1>3. CASE UNCHANGED vars
    <2>1. UNCHANGED <<role, heap, missed, prog>> /\ ret' = ret
      BY <1>3 DEF vars
    <2> QED  BY <1>1, <2>1, KeptProgram DEF CInv, GInv, Committed, Kept
  <1> QED  BY <1>2, <1>3

\* The account of the changes is balanced after every call.
THEOREM AccountInvariance == Spec => []CInv
  BY InitCInv, NextKept, PTL DEF Spec

\* Handles stay in their range, relations hold values, and no object of the client reports a
\* change of weight zero, whatever deltas were added to it.
THEOREM TypeCorrect == Spec => []TypeOK
  <1>1. CInv => TypeOK
    <2> SUFFICES ASSUME CInv PROVE TypeOK
      OBVIOUS
    <2>1. ASSUME NEW h \in Allocated, heap[h].is \in {"delta", "flatbuf", "updates"},
                 NEW x \in DOMAIN heap[h].z
          PROVE  heap[h].z[x] # 0
      <3>1. FiniteZ(heap[h].z)
        BY <2>1 DEF CInv, GInv, Objects, WellFormed, IsChange
      <3> QED  BY <3>1 DEF FiniteZ, IsZSet
    <2>2. Allocated \subseteq Handles /\ owned \subseteq Handles
      BY DEF CInv, DInv, Ownership
    <2> QED  BY <2>1, <2>2 DEF TypeOK, CInv, GInv, Program, Contents
  <1> QED  BY <1>1, AccountInvariance, PTL

\* The changes that the client was given and those that it missed add up to what the tables
\* show: the sum over the counted objects is the total of the account.
THEOREM NothingLost == Spec => []ChangesConserved
  <1>1. CInv => ChangesConserved
    <2> SUFFICES ASSUME CInv PROVE ChangesConserved
      OBVIOUS
    <2>1. PICK S, zs : /\ S = {h \in Allocated : heap[h].is \in {"delta", "flatbuf", "updates"} /\ heap[h].counts}
                       /\ zs = [h \in S |-> heap[h].z]
      OBVIOUS
    <2>2. S \in SUBSET Handles /\ IsFiniteSet(Handles) /\ IsFiniteSet(S)
      <3>1. S \in SUBSET Handles /\ IsFiniteSet(Handles)
        BY <2>1, HandlesFinite DEF CInv, DInv, Ownership
      <3> QED  BY <3>1, FS_Subset
    <2>3. DOMAIN zs = S /\ \A h \in S : IsZSet(zs[h])
      BY <2>1 DEF CInv, GInv, Objects, WellFormed, IsChange, FiniteZ
    <2>4. /\ IsZSet(Concatenate(zs))
          /\ \A x : Weight(Concatenate(zs), x) = SumOver(WeightsOf(zs, x), S)
      BY <2>2, <2>3, ConcatenateWeights
    <2>5. ASSUME NEW x PROVE SumOver(WeightsOf(zs, x), S) = Total(heap, Handles, x)
      <3>1. PICK e, w : e = Shares(heap, Handles, x) /\ w = WeightsOf(zs, x)
        OBVIOUS
      <3>2. \A h \in Handles : e[h] \in Int
        BY <3>1, ShareInt DEF Shares, CInv, GInv, Objects, Allocated
      <3>3. \A h \in Handles \ S : e[h] = 0
        BY <2>1, <3>1 DEF Shares, Share, Counted, IsChange, Allocated
      <3>4. \A h \in S : e[h] \in Int /\ w[h] = e[h]
        <4>1. \A h \in S : w[h] = Weight(heap[h].z, x)
          BY <2>1, <2>3, <3>1 DEF WeightsOf
        <4>2. \A h \in S : e[h] = Weight(heap[h].z, x)
          BY <2>1, <2>2, <3>1 DEF Shares, Share, Counted, IsChange, Allocated
        <4> QED  BY <2>2, <3>2, <4>1, <4>2
      <3>5. SumOver(e, Handles) = SumOver(e, S)
        BY <2>2, <3>2, <3>3, SumPart
      <3>6. SumOver(e, S) = SumOver(w, S)
        BY <2>2, <3>4, SumSame
      <3> QED  BY <3>1, <3>5, <3>6 DEF Total
    <2>6. PICK all : all = Concat(missed, Concatenate(zs))
      OBVIOUS
    <2>7. IsZSet(all) /\ \A x : Weight(all, x) = Weight(missed, x) + Weight(Concatenate(zs), x)
      BY <2>4, <2>6, ConcatWeights DEF CInv, GInv
    <2>8. \A x : Weight(all, x) = Weight(Shown(Committed), x)
      BY <2>4, <2>5, <2>7 DEF CInv, Balance
    <2>9. Contents(Committed)
      BY DEF Committed, CInv, GInv, Program
    <2>10. IsZSet(Shown(Committed))
      BY <2>9, ShownFinite DEF FiniteZ
    <2>11. all = Shown(Committed)
      BY <2>7, <2>8, <2>10, WeightsDetermine
    <2> QED  BY <2>1, <2>6, <2>11 DEF ChangesConserved, Shown
  <1> QED  BY <1>1, AccountInvariance, PTL
=============================================================================
