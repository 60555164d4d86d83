------------------------------ MODULE Records ------------------------------
(***************************************************************************)
(* Dynamically typed records and their conversion to and from typed        *)
(* values: the traits FromRecord, IntoRecord and Mutator for the built-in   *)
(* types (record/mod.rs, tuples.rs, arrays.rs), for the types of the        *)
(* standard library and for the structs and enums that the derive macros    *)
(* of ddlog_derive cover.                                                   *)
(*                                                                         *)
(* A record is a TLA+ record with a single field that names its variant.    *)
(* A typed value is an integer, a Boolean, a string, a sequence (vectors,   *)
(* arrays and tuples), a set, a function (maps), or [cons, args] (structs   *)
(* and enums).  A string is a sequence of characters, of which only the     *)
(* class matters (see CommandText).  A float counts quarters: doubles are   *)
(* multiples of a quarter, floats multiples of a half; so a double need not *)
(* be a float, which is all that the precision of floats is about here.     *)
(* NaN and infinity are two numbers that no other float counts.             *)
(***************************************************************************)
EXTENDS Integers, Sequences, FiniteSets

LOCAL INSTANCE SequencesExt

----------------------------------------------------------------------------
(* The variants of Record. *)

BoolRec(b) == [bool |-> b]
IntRec(i) == [int |-> i]
FloatRec(x) == [float |-> x]
DoubleRec(x) == [double |-> x]
StringRec(s) == [string |-> s]
SerializedRec(format, data) == [serialized |-> [format |-> format, data |-> data]]
TupleRec(rs) == [tuple |-> rs]
ArrayRec(kind, rs) == [array |-> rs, kind |-> kind]
PosStruct(c, rs) == [pos |-> rs, cons |-> c]
NamedStruct(c, fs) == [named |-> fs, cons |-> c]     \* fs: pairs of a name and a record

Is(r, variant) == variant \in DOMAIN r

NaN == 4000
Infinity == 4004

----------------------------------------------------------------------------
(* Types, and the results of conversions. *)

Unsigned(w) == [kind |-> "unsigned", width |-> w]
Signed(w) == [kind |-> "signed", width |-> w]
Big(k) == [kind |-> k]                     \* "BigInt" or "BigUint"
Scalar(k) == [kind |-> k]                  \* "bool", "string", "float", "double", "record"
VecTy(t) == [kind |-> "vec", elem |-> t]
ArrayTy(n, t) == [kind |-> "array", len |-> n, elem |-> t]
SetTy(t) == [kind |-> "set", elem |-> t]
MapTy(k, v) == [kind |-> "map", key |-> k, val |-> v]
TupleTy(ts) == [kind |-> "tuple", elems |-> ts]
RefTy(t) == [kind |-> "ref", elem |-> t]

\* One constructor of a struct or an enum: its name and its named, typed fields.  The
\* names are those in records, where #[ddlog(rename)] has its effect.  The types that the
\* compiler generates have braces around the fields of a struct, even when there are none,
\* and unit variants; tuple structs and unit structs are not among them.
Constructor(c, names, types) == [cons |-> c, names |-> names, types |-> types]
Struct(c) == [kind |-> "struct", conss |-> <<c>>]
Enum(cs) == [kind |-> "enum", conss |-> cs]
Option(t) ==
  [kind |-> "option",
   conss |-> <<Constructor("None", <<>>, <<>>), Constructor("Some", <<"x">>, <<t>>)>>]

Ok(v) == [ok |-> v]
Err == [err |-> TRUE]
IsOk(res) == "ok" \in DOMAIN res

\* Goes on with the value of a result, by a step that may fail or by one that does not.
AndThen(res, F(_)) == IF IsOk(res) THEN F(res.ok) ELSE Err
Wrap(res, F(_)) == IF IsOk(res) THEN Ok(F(res.ok)) ELSE Err

\* Collects a sequence of results into the result of a sequence.
Collect(rs) ==
  IF \A i \in DOMAIN rs : IsOk(rs[i]) THEN Ok([i \in DOMAIN rs |-> rs[i].ok]) ELSE Err

----------------------------------------------------------------------------
(* Which values a type has. *)

RECURSIVE HasType(_, _)

HasCons(c, v) == v.cons = c.cons /\ Len(v.args) = Len(c.types)
                 /\ \A i \in DOMAIN c.types : HasType(c.types[i], v.args[i])

HasType(ty, v) ==
  CASE ty.kind = "unsigned" -> v \in 0 .. 2^ty.width - 1
    [] ty.kind = "signed" -> v \in -(2^(ty.width - 1)) .. 2^(ty.width - 1) - 1
    [] ty.kind = "BigUint" -> v >= 0
    [] ty.kind = "bool" -> v \in BOOLEAN
    [] ty.kind = "float" -> v % 2 = 0
    [] ty.kind = "vec" -> \A i \in DOMAIN v : HasType(ty.elem, v[i])
    [] ty.kind = "array" -> Len(v) = ty.len /\ \A i \in DOMAIN v : HasType(ty.elem, v[i])
    [] ty.kind = "set" -> \A x \in v : HasType(ty.elem, x)
    [] ty.kind = "map" -> \A k \in DOMAIN v : HasType(ty.key, k) /\ HasType(ty.val, v[k])
    [] ty.kind = "tuple" -> /\ Len(v) = Len(ty.elems)
                            /\ \A i \in DOMAIN v : HasType(ty.elems[i], v[i])
    [] ty.kind = "ref" -> HasType(ty.elem, v)
    [] ty.kind \in {"struct", "enum", "option"} -> \E i \in DOMAIN ty.conss : HasCons(ty.conss[i], v)
    [] OTHER -> TRUE

\* The constructors without fields that the values of a type can have in them.
RECURSIVE Units(_)
Units(ty) ==
  CASE ty.kind \in {"vec", "array", "set", "ref"} -> Units(ty.elem)
    [] ty.kind = "map" -> Units(ty.key) \cup Units(ty.val)
    [] ty.kind = "tuple" -> UNION {Units(ty.elems[i]) : i \in DOMAIN ty.elems}
    [] ty.kind \in {"struct", "enum", "option"} ->
         UNION {LET c == ty.conss[i]
                IN IF c.types = <<>> THEN {c.cons}
                   ELSE UNION {Units(c.types[j]) : j \in DOMAIN c.types} : i \in DOMAIN ty.conss}
    [] OTHER -> {}

\* Default::default(), the value of a field that a named record leaves out.
RECURSIVE Default(_)
Default(ty) ==
  CASE ty.kind = "bool" -> FALSE
    [] ty.kind \in {"string", "vec", "map"} -> <<>>
    [] ty.kind = "set" -> {}
    [] ty.kind = "array" -> [i \in 1..ty.len |-> Default(ty.elem)]
    [] ty.kind = "tuple" -> [i \in DOMAIN ty.elems |-> Default(ty.elems[i])]
    [] ty.kind = "ref" -> Default(ty.elem)
    [] ty.kind \in {"struct", "enum", "option"} ->
         LET c == ty.conss[1]
         IN [cons |-> c.cons, args |-> [i \in DOMAIN c.types |-> Default(c.types[i])]]
    [] OTHER -> 0

----------------------------------------------------------------------------
(* FromRecord. *)

RECURSIVE from_record(_, _)

\* Serialized data, abstracted to the typed value that it encodes: it
\* deserializes to that value, at that type only.
Encoded(ty, v) == [ty |-> ty, val |-> v]
deserialize(ty, s) == IF s.format = "json" /\ s.data.ty = ty THEN Ok(s.data.val) ELSE Err

\* Mutant: the bound of the range is taken for a value of the type.
unsigned_up_to_bound(w, r) ==
  IF Is(r, "int") /\ r.int \in 0 .. 2^w THEN Ok(r.int) ELSE Err

unsigned_from_record(w, r) ==
  IF Is(r, "int") /\ r.int \in 0 .. 2^w - 1 THEN Ok(r.int) ELSE Err

signed_from_record(w, r) ==
  IF Is(r, "int") /\ r.int \in -(2^(w - 1)) .. 2^(w - 1) - 1 THEN Ok(r.int) ELSE Err

bigint_from_record(r) == IF Is(r, "int") THEN Ok(r.int) ELSE Err

biguint_from_record(r) == IF Is(r, "int") /\ r.int >= 0 THEN Ok(r.int) ELSE Err

\* The float nearest to a double; of two, the one with an even significand.
ToF32(x) == IF x % 2 = 0 THEN x ELSE 4 * ((x + 2) \div 4)

\* Mutant: only the variants that a typed float converts to are accepted.
float_from_own_record(r) ==
  IF Is(r, "float") THEN Ok(r.float) ELSE IF Is(r, "int") THEN Ok(ToF32(4 * r.int)) ELSE Err

float_from_record(r) ==
  CASE Is(r, "float") -> Ok(r.float)
    [] Is(r, "double") -> Ok(ToF32(r.double))
    [] Is(r, "int") -> Ok(ToF32(4 * r.int))
    [] OTHER -> Err

double_from_record(r) ==
  CASE Is(r, "double") -> Ok(r.double)
    [] Is(r, "int") -> Ok(4 * r.int)
    [] OTHER -> Err

bool_from_record(r) == IF Is(r, "bool") THEN Ok(r.bool) ELSE Err

string_from_record(r) == IF Is(r, "string") THEN Ok(r.string) ELSE Err

\* A record that is not an array stands for a vector of one element.
vec_from_record(elem, r) ==
  IF Is(r, "array") THEN Collect([i \in DOMAIN r.array |-> from_record(elem, r.array[i])])
  ELSE Collect(<<from_record(elem, r)>>)

array_from_record(ty, r) ==
  AndThen(from_record(VecTy(ty.elem), r), LAMBDA vec : IF Len(vec) = ty.len THEN Ok(vec) ELSE Err)

set_from_record(elem, r) ==
  Wrap(from_record(VecTy(elem), r), LAMBDA vec : {vec[i] : i \in DOMAIN vec})

\* Of several entries with the same key the last one stays, as BTreeMap::from_iter does.
FromEntries(vec) ==
  LET LastAt(k) == CHOOSE i \in DOMAIN vec :
                     vec[i][1] = k /\ \A j \in DOMAIN vec : vec[j][1] = k => j <= i
  IN [k \in {vec[i][1] : i \in DOMAIN vec} |-> vec[LastAt(k)][2]]

map_from_record(key, val, r) == Wrap(from_record(VecTy(TupleTy(<<key, val>>)), r), FromEntries)

\* Arc, Rc, Cell and RefCell have the records of what they point to.
ref_from_record(elem, r) == from_record(elem, r)

tuple_from_record(elems, r) ==
  IF Is(r, "tuple") /\ Len(r.tuple) = Len(elems)
  THEN Collect([i \in DOMAIN elems |-> from_record(elems[i], r.tuple[i])])
  ELSE Err

\* The record of the first field with this name.
HasField(fs, n) == \E i \in DOMAIN fs : fs[i][1] = n
arg_find(fs, n) ==
  fs[CHOOSE i \in DOMAIN fs : fs[i][1] = n /\ \A j \in 1 .. i - 1 : fs[j][1] # n][2]

arg_extract(ty, fs, n) ==
  IF HasField(fs, n) THEN from_record(ty, arg_find(fs, n)) ELSE Ok(Default(ty))

Build(c, args) == Wrap(args, LAMBDA vs : [cons |-> c.cons, args |-> vs])

\* A positional record has all the fields of the constructor.
pos_fields(c, rs) ==
  IF Len(rs) = Len(c.types)
  THEN Build(c, Collect([i \in DOMAIN c.types |-> from_record(c.types[i], rs[i])]))
  ELSE Err

named_fields(c, fs) ==
  Build(c, Collect([i \in DOMAIN c.types |-> arg_extract(c.types[i], fs, c.names[i])]))

ConsOf(ty, name) == {i \in DOMAIN ty.conss : ty.conss[i].cons = name}
TheCons(ty, name) == ty.conss[CHOOSE i \in ConsOf(ty, name) : TRUE]

\* The fields that a named record leaves out have their default values.
from_record_struct(ty, r) ==
  CASE Is(r, "pos") /\ ConsOf(ty, r.cons) # {} -> pos_fields(TheCons(ty, r.cons), r.pos)
    [] Is(r, "named") /\ ConsOf(ty, r.cons) # {} -> named_fields(TheCons(ty, r.cons), r.named)
    [] OTHER -> Err

\* The named record of a variant of an enum has as many fields as the variant.
from_record_enum(ty, r) ==
  IF Is(r, "named") /\ ConsOf(ty, r.cons) # {} /\ Len(r.named) # Len(TheCons(ty, r.cons).types)
  THEN Err
  ELSE from_record_struct(ty, r)

\* An option can also be an array of at most one element, or its bare contents.
option_from_record(ty, r) ==
  LET some == ty.conss[2]
  IN CASE Is(r, "pos") \/ Is(r, "named") -> from_record_struct(ty, r)
       [] Is(r, "array") ->
            IF Len(r.array) = 0 THEN Ok([cons |-> "None", args |-> <<>>])
            ELSE pos_fields(some, r.array)
       [] OTHER -> pos_fields(some, <<r>>)

\* Tuples and pointers do not look for serialized data; sets and arrays leave that to
\* the vector they convert.
Deserializes(ty) == ty.kind \notin {"tuple", "ref", "set", "array", "record"}

from_record(ty, r) ==
  CASE Is(r, "serialized") /\ Deserializes(ty) -> deserialize(ty, r.serialized)
    [] ty.kind = "unsigned" -> unsigned_from_record(ty.width, r)
    [] ty.kind = "signed" -> signed_from_record(ty.width, r)
    [] ty.kind = "BigInt" -> bigint_from_record(r)
    [] ty.kind = "BigUint" -> biguint_from_record(r)
    [] ty.kind = "float" -> float_from_record(r)
    [] ty.kind = "double" -> double_from_record(r)
    [] ty.kind = "bool" -> bool_from_record(r)
    [] ty.kind = "string" -> string_from_record(r)
    [] ty.kind = "record" -> Ok(r)
    [] ty.kind = "vec" -> vec_from_record(ty.elem, r)
    [] ty.kind = "array" -> array_from_record(ty, r)
    [] ty.kind = "set" -> set_from_record(ty.elem, r)
    [] ty.kind = "map" -> map_from_record(ty.key, ty.val, r)
    [] ty.kind = "tuple" -> tuple_from_record(ty.elems, r)
    [] ty.kind = "ref" -> ref_from_record(ty.elem, r)
    [] ty.kind = "struct" -> from_record_struct(ty, r)
    [] ty.kind = "enum" -> from_record_enum(ty, r)
    [] ty.kind = "option" -> option_from_record(ty, r)
    [] OTHER -> Err

----------------------------------------------------------------------------
(* IntoRecord. *)

RECURSIVE into_record(_, _)

\* The elements of a set and the keys of a map come out in their order.
Ordered(S) == SetToSortSeq(S, <)

sequence_into_record(elem, s) == [i \in DOMAIN s |-> into_record(elem, s[i])]

map_into_record(ty, m) ==
  LET ks == Ordered(DOMAIN m)
  IN [i \in DOMAIN ks |-> TupleRec(<<into_record(ty.key, ks[i]), into_record(ty.val, m[ks[i]])>>)]

into_record_struct(c, v) ==
  NamedStruct(c.cons, [i \in DOMAIN c.types |-> <<c.names[i], into_record(c.types[i], v.args[i])>>])

\* A pointer that is shared is copied first.
ref_into_record(elem, v) == into_record(elem, v)

scalar_into_record(ty, v) ==
  CASE ty.kind = "bool" -> BoolRec(v)
    [] ty.kind = "string" -> StringRec(v)
    [] ty.kind = "float" -> FloatRec(v)
    [] ty.kind = "double" -> DoubleRec(v)
    [] ty.kind = "record" -> v
    [] OTHER -> IntRec(v)

into_record(ty, v) ==
  CASE ty.kind \in {"vec", "array"} -> ArrayRec("Vector", sequence_into_record(ty.elem, v))
    [] ty.kind = "set" -> ArrayRec("Set", sequence_into_record(ty.elem, Ordered(v)))
    [] ty.kind = "map" -> ArrayRec("Map", map_into_record(ty, v))
    [] ty.kind = "tuple" -> TupleRec([i \in DOMAIN v |-> into_record(ty.elems[i], v[i])])
    [] ty.kind = "ref" -> ref_into_record(ty.elem, v)
    [] ty.kind \in {"struct", "enum", "option"} -> into_record_struct(TheCons(ty, v.cons), v)
    [] OTHER -> scalar_into_record(ty, v)

----------------------------------------------------------------------------
(* Mutator. *)

RECURSIVE mutate(_, _, _)

EmptyTuple == TupleRec(<<>>)

\* A key that the map lacks is inserted; for one that it has, an empty tuple deletes
\* it and any other record mutates its value.
map_update(ty, m, upd) ==
  LET Deleted == {k \in DOMAIN upd \cap DOMAIN m : upd[k] = EmptyTuple}
  IN Collect([k \in (DOMAIN m \cup DOMAIN upd) \ Deleted |->
                CASE k \notin DOMAIN upd -> Ok(m[k])
                  [] k \notin DOMAIN m -> from_record(ty.val, upd[k])
                  [] OTHER -> mutate(ty.val, m[k], upd[k])])

map_mutate(ty, m, r) ==
  AndThen(map_from_record(ty.key, Scalar("record"), r), LAMBDA upd : map_update(ty, m, upd))

\* Mutant: the elements of the update are only added.
set_insert(ty, s, r) ==
  Wrap(from_record(ty, r), LAMBDA upd : s \cup upd)

\* The update holds the values that are in one of the sets and not in the other.
set_mutate(ty, s, r) ==
  Wrap(from_record(ty, r), LAMBDA upd : (s \ upd) \cup (upd \ s))

\* Fields that the named record leaves out keep their values, and fields that the struct
\* does not have are passed over.  The name of its constructor is not looked at.
struct_mutate(c, v, r) ==
  CASE Is(r, "named") ->
         Build(c, Collect([i \in DOMAIN c.types |->
                    IF HasField(r.named, c.names[i])
                    THEN mutate(c.types[i], v.args[i], arg_find(r.named, c.names[i]))
                    ELSE Ok(v.args[i])]))
    [] Is(r, "pos") /\ Len(r.pos) = Len(c.types) ->
         Build(c, Collect([i \in DOMAIN c.types |-> mutate(c.types[i], v.args[i], r.pos[i])]))
    [] OTHER -> Err

\* The variants of an enum without fields are unit structs.
unit_struct_mutate(v, r) ==
  CASE Is(r, "named") /\ r.named = <<>> -> Ok(v)
    [] Is(r, "pos") /\ r.pos = <<>> -> Ok(v)
    [] OTHER -> Err

\* A record with another constructor than the value's replaces the value.
enum_mutate(ty, v, r) ==
  CASE (Is(r, "named") \/ Is(r, "pos")) /\ r.cons # v.cons -> from_record(ty, r)
    [] v.args = <<>> -> unit_struct_mutate(v, r)
    [] OTHER -> struct_mutate(TheCons(ty, v.cons), v, r)

\* A copy is mutated and replaces the old value, which others may share, if that succeeds.
ref_mutate(elem, v, r) == mutate(elem, v, r)

mutate(ty, v, r) ==
  CASE Is(r, "serialized") /\ ty.kind \in {"map", "struct", "enum", "option"} ->
         deserialize(ty, r.serialized)
    [] ty.kind = "map" -> map_mutate(ty, v, r)
    [] ty.kind = "set" -> set_mutate(ty, v, r)
    [] ty.kind = "ref" -> ref_mutate(ty.elem, v, r)
    [] ty.kind = "struct" -> struct_mutate(ty.conss[1], v, r)
    [] ty.kind \in {"enum", "option"} -> enum_mutate(ty, v, r)
    [] OTHER -> from_record(ty, r)
=============================================================================
