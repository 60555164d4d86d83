------------------------------- MODULE Ovsdb -------------------------------
(***************************************************************************)
(* The OVSDB adapter: update messages of an OVSDB server as commands on      *)
(* input relations, and records of output relations as OVSDB operations      *)
(* (ovsdb/lib.rs, ovsdb_api.rs).                                            *)
(*                                                                         *)
(* A JSON value has one field that names its kind.  A string is a sequence,  *)
(* as in Records; the words of the protocol are strings of one symbol, and   *)
(* UuidText(n) is the hexadecimal text of the number n.  An object is a      *)
(* function from the names of its members.  The messages are about one       *)
(* table, and its name is left out.                                         *)
(***************************************************************************)
EXTENDS Records

LOCAL INSTANCE SequencesExt

CONSTANTS
  NumberBits,     \* width of the numbers of JSON: 64
  UuidBits,       \* width of a uuid: 128
  Prefixed        \* the names that begin with two underscores, each with what follows them

ASSUME BitsAssumption == NumberBits \in Nat /\ UuidBits \in Nat /\ 0 < NumberBits /\ NumberBits < UuidBits

----------------------------------------------------------------------------
(* JSON. *)

JStr(s) == [str |-> s]
JNum(n) == [num |-> n]
JBool(b) == [bool |-> b]
JArr(js) == [arr |-> js]
JObj(f) == [obj |-> f]

Word(w) == JStr(<<w>>)
UuidText(n) == <<"hex", n>>
JUuid(n) == JArr(<<Word("uuid"), JStr(UuidText(n))>>)

Has(obj, name) == name \in DOMAIN obj.obj
Member(obj, name) == obj.obj[name]

----------------------------------------------------------------------------
(* From JSON to commands. *)

RECURSIVE record_from_val(_)

parse_uuid(s) == IF Len(s) = 2 /\ s[1] = "hex" THEN Ok(IntRec(s[2])) ELSE Err

pair_from_val(j) ==
  IF Is(j, "arr") /\ Len(j.arr) = 2
  THEN Wrap(Collect([i \in 1..2 |-> record_from_val(j.arr[i])]), TupleRec)
  ELSE Err

\* ["uuid", text], ["named-uuid", name], ["set", elements] or ["map", pairs].
record_from_array(js) ==
  LET tag == js[1].str
      val == js[2]
  IN CASE Len(js) # 2 \/ ~Is(js[1], "str") -> Err
       [] tag = <<"uuid">> /\ Is(val, "str") -> parse_uuid(val.str)
       [] tag = <<"named-uuid">> /\ Is(val, "str") -> Ok(StringRec(val.str))
       [] tag = <<"set">> /\ Is(val, "arr") ->
            Wrap(Collect([i \in DOMAIN val.arr |-> record_from_val(val.arr[i])]),
                 LAMBDA rs : ArrayRec("Set", rs))
       [] tag = <<"map">> /\ Is(val, "arr") ->
            Wrap(Collect([i \in DOMAIN val.arr |-> pair_from_val(val.arr[i])]),
                 LAMBDA rs : ArrayRec("Map", rs))
       [] OTHER -> Err

\* A negative number is an error, and so is one with a fraction.
record_from_val(j) ==
  CASE Is(j, "str") -> Ok(StringRec(j.str))
    [] Is(j, "num") -> IF j.num \in 0 .. 2^NumberBits - 1 THEN Ok(IntRec(j.num)) ELSE Err
    [] Is(j, "bool") -> Ok(BoolRec(j.bool))
    [] Is(j, "arr") -> record_from_array(j.arr)
    [] OTHER -> Err

\* The members of an object as named fields.
row_from_obj(j) ==
  LET names == SetToSeq(DOMAIN j.obj)
      field(n) == Wrap(record_from_val(Member(j, n)), LAMBDA r : <<n, r>>)
  IN IF Is(j, "obj") THEN Collect([i \in DOMAIN names |-> field(names[i])]) ELSE Err

\* The insertion of a row, with its uuid as one more field.
InsertRow(table, uuid, row) ==
  Wrap(row_from_obj(row),
       LAMBDA fs : <<[op |-> "insert", rec |-> NamedStruct(table, Append(fs, <<"_uuid", uuid>>))]>>)

ModifyRow(table, uuid, row) ==
  Wrap(row_from_obj(row), LAMBDA fs : <<[op |-> "modify", key |-> uuid, rec |-> NamedStruct(table, fs)]>>)

DeleteRow(uuid) == <<[op |-> "delete_key", rec |-> uuid]>>

\* Mutant: the row that "new" replaces is not deleted.
new_only(table, uuid, upd) ==
  CASE Has(upd, "new") -> InsertRow(table, uuid, Member(upd, "new"))
    [] Has(upd, "old") -> Ok(DeleteRow(uuid))
    [] OTHER -> Err

\* The first format: "old", "new" or both.  A row that is in the table is deleted first.
old_and_new(table, uuid, upd) ==
  LET new == InsertRow(table, uuid, Member(upd, "new"))
  IN CASE Has(upd, "new") /\ Has(upd, "old") -> Wrap(new, LAMBDA cmds : DeleteRow(uuid) \o cmds)
       [] Has(upd, "new") -> new
       [] Has(upd, "old") -> Ok(DeleteRow(uuid))
       [] OTHER -> Err

\* The second format is looked for first.
cmd_from_row_update(table, text, upd) ==
  LET uuid == parse_uuid(text)
  IN CASE ~IsOk(uuid) \/ ~Is(upd, "obj") -> Err
       [] Has(upd, "insert") -> InsertRow(table, uuid.ok, Member(upd, "insert"))
       [] Has(upd, "initial") -> InsertRow(table, uuid.ok, Member(upd, "initial"))
       [] Has(upd, "modify") -> ModifyRow(table, uuid.ok, Member(upd, "modify"))
       [] Has(upd, "delete") -> Ok(DeleteRow(uuid.ok))
       [] OTHER -> old_and_new(table, uuid.ok, upd)

\* The commands of all rows of a message; one row that fails makes the message fail.
cmds_from_table_update(table, upds) ==
  LET uuids == SetToSeq(DOMAIN upds.obj)
  IN IF Is(upds, "obj")
     THEN Wrap(Collect([i \in DOMAIN uuids |->
                         cmd_from_row_update(table, uuids[i], Member(upds, uuids[i]))]), FlattenSeq)
     ELSE Err

----------------------------------------------------------------------------
(* From records to JSON. *)

RECURSIVE record_into_field(_)

uuid_from_int(i) == IF i \in 0 .. 2^UuidBits - 1 THEN Ok(UuidText(i)) ELSE Err

\* A number that does not fit a JSON number is taken for a uuid.
int_into_field(i) ==
  LET uuid == uuid_from_int(i)
  IN CASE i > 0 /\ i < 2^NumberBits -> Ok(JNum(i))
       [] i > 0 -> IF IsOk(uuid) THEN Ok(JUuid(i)) ELSE Err
       [] i >= -(2^(NumberBits - 1)) -> Ok(JNum(i))
       [] OTHER -> Err

Tagged(tag, res) == Wrap(res, LAMBDA js : JArr(<<Word(tag), JArr(js)>>))

entry_into_pair(r) ==
  IF Is(r, "tuple") /\ Len(r.tuple) = 2
  THEN Wrap(Collect([i \in 1..2 |-> record_into_field(r.tuple[i])]), JArr)
  ELSE Err

\* An option is a set of at most one element.
record_into_field(r) ==
  CASE Is(r, "bool") -> Ok(JBool(r.bool))
    [] Is(r, "string") -> Ok(JStr(r.string))
    [] Is(r, "int") -> int_into_field(r.int)
    [] Is(r, "named") /\ r.cons = "None" -> Tagged("set", Ok(<<>>))
    [] Is(r, "named") /\ r.cons = "Some" -> Tagged("set", Collect(<<record_into_field(r.named[1][2])>>))
    [] Is(r, "array") /\ r.kind = "Set" ->
         Tagged("set", Collect([i \in DOMAIN r.array |-> record_into_field(r.array[i])]))
    [] Is(r, "array") /\ r.kind = "Map" ->
         Tagged("map", Collect([i \in DOMAIN r.array |-> entry_into_pair(r.array[i])]))
    [] OTHER -> Err

field_name(n) == IF n \in DOMAIN Prefixed THEN Prefixed[n] ELSE n

\* The row is without the fields that identify it.
struct_into_obj(fs) ==
  LET cols == SelectSeq(fs, LAMBDA f : f[1] \notin {"_uuid", "uuid_name"})
      member(f) == Wrap(record_into_field(f[2]), LAMBDA j : <<field_name(f[1]), j>>)
  IN Wrap(Collect([i \in DOMAIN cols |-> member(cols[i])]), LAMBDA ms : JObj(FromEntries(ms)))

record_into_row(r) == IF Is(r, "named") THEN struct_into_obj(r.named) ELSE Err

uuid_condition(r) == IF Is(r, "int") THEN uuid_from_int(r.int) ELSE Err

\* An operation on rows: the text of the uuid that it creates or selects, and the row.
Operation(op, uuid, row) ==
  IF IsOk(uuid) /\ IsOk(row) THEN Ok([op |-> op, uuid |-> uuid.ok, row |-> row.ok]) ELSE Err

\* A row without a uuid gets one from the server.
record_into_insert_str(r) ==
  LET named == Is(r, "named")
      uuid == CASE ~HasField(r.named, "_uuid") -> Ok(<<>>)
                [] OTHER -> uuid_condition(arg_find(r.named, "_uuid"))
      misnamed == HasField(r.named, "uuid_name") /\ ~Is(arg_find(r.named, "uuid_name"), "string")
  IN IF ~named \/ misnamed THEN Err ELSE Operation("insert", uuid, record_into_row(r))

record_into_delete_str(r) ==
  IF Is(r, "named") /\ HasField(r.named, "_uuid")
  THEN Operation("delete", uuid_condition(arg_find(r.named, "_uuid")), Ok(JObj(<<>>)))
  ELSE Err

record_into_update_str(r) ==
  IF Is(r, "named") /\ HasField(r.named, "_uuid")
  THEN Operation("update", uuid_condition(arg_find(r.named, "_uuid")), record_into_row(r))
  ELSE Err

\* The insertions, then the deletions, then the updates.  The three parts of the delta are
\* functions from records to weights; an assertion ends the call at a weight that is not 1.
dump_delta(plus, minus, upd) ==
  LET op(w, res) == IF w = 1 THEN res ELSE Err
      ops(d, Into(_)) == LET rs == SetToSeq(DOMAIN d) IN [i \in DOMAIN rs |-> op(d[rs[i]], Into(rs[i]))]
  IN Collect(ops(plus, record_into_insert_str) \o ops(minus, record_into_delete_str)
               \o ops(upd, record_into_update_str))
=============================================================================
