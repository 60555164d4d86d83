---------------------------- MODULE MCRecordStore ----------------------------
(***************************************************************************)
(* Instances of RecordStore and OvsdbSync.  A relation R has a key of type   *)
(* u8 and one more field; there is a relation for each of the types that     *)
(* this field may have.  The samples are the records that clients pass for   *)
(* the field: some fit, at the ends of the range of the type, and some do    *)
(* not.  A relation T mirrors a table of an OVSDB server.                    *)
(***************************************************************************)
EXTENDS OvsdbSync

u8 == Unsigned(8)
i8 == Signed(8)
Pair == TupleTy(<<u8, Scalar("bool")>>)
Shape == Enum(<<Constructor("Point", <<>>, <<>>),
                Constructor("Circle", <<"r">>, <<u8>>),
                Constructor("Box", <<"w", "tags">>, <<u8, SetTy(u8)>>)>>)
Port == Struct(Constructor("Port", <<"num", "vlans">>, <<u8, SetTy(u8)>>))

R(t) == Struct(Constructor("R", <<"id", "x">>, <<u8, t>>))
Field(t) == t.conss[1].types[2]

Ints(S) == {IntRec(i) : i \in S}
Vector(rs) == ArrayRec("Vector", rs)
Bytes(s) == Vector([i \in DOMAIN s |-> IntRec(s[i])])
Entry(k, r) == TupleRec(<<IntRec(k), r>>)
Json(t, v) == SerializedRec("json", Encoded(t, v))

Strings == {<<>>, <<"plain", "apostrophe", "quote">>, <<"newline", "backslash">>, <<"control">>}

IntSamples(t) ==
  CASE t = u8 -> Ints({-1, 0, 255, 256}) \cup {DoubleRec(4), StringRec(<<>>), Json(u8, 7)}
    [] t = i8 -> Ints({-129, -128, 127, 128}) \cup {Json(u8, 7)}
    [] t = Big("BigUint") -> Ints({-1, 0, 300})
    [] t = Big("BigInt") -> Ints({-300, 300}) \cup {BoolRec(TRUE)}

FloatSamples == {IntRec(1), FloatRec(2), DoubleRec(1), DoubleRec(-4), DoubleRec(NaN), FloatRec(Infinity)}

CollectionSamples(t) ==
  CASE t = VecTy(Pair) ->
         {Vector(<<>>), Entry(1, BoolRec(TRUE)), Vector(<<Entry(1, BoolRec(TRUE)), Entry(2, BoolRec(FALSE))>>),
          Vector(<<TupleRec(<<IntRec(1)>>)>>)}
    [] t = ArrayTy(2, u8) -> {Bytes(<<1, 2>>), Bytes(<<3, 3>>), Bytes(<<1>>), Bytes(<<1, 256>>)}
    [] t = SetTy(u8) ->
         {Bytes(<<>>), Bytes(<<1, 2, 1>>), IntRec(2), Bytes(<<256>>), Json(VecTy(u8), <<3>>)}
    [] t = MapTy(u8, u8) ->
         {Vector(<<>>), Entry(1, IntRec(5)), Vector(<<Entry(1, IntRec(5)), Entry(1, IntRec(6)), Entry(2, IntRec(5))>>)}
    [] t = MapTy(u8, SetTy(u8)) ->
         {Vector(<<>>), Entry(1, Bytes(<<1, 2>>)), Vector(<<Entry(1, Bytes(<<1>>)), Entry(2, Bytes(<<2>>))>>)}

StructSamples(t) ==
  CASE t = Shape ->
         {PosStruct("Point", <<>>), PosStruct("Circle", <<IntRec(3)>>), NamedStruct("Circle", <<>>),
          NamedStruct("Box", <<<<"tags", Bytes(<<1>>)>>, <<"w", IntRec(9)>>>>),
          PosStruct("Oval", <<IntRec(3)>>), PosStruct("Circle", <<IntRec(256)>>)}
    [] t = Option(u8) ->
         {PosStruct("None", <<>>), NamedStruct("Some", <<<<"x", IntRec(3)>>>>), Bytes(<<>>),
          Bytes(<<4>>), IntRec(5), Bytes(<<1, 2>>)}
    [] t = RefTy(Port) ->
         {PosStruct("Port", <<IntRec(1), Bytes(<<1>>)>>), NamedStruct("Port", <<<<"num", IntRec(2)>>>>),
          Json(Port, [cons |-> "Port", args |-> <<1, {}>>]), PosStruct("Port", <<IntRec(1)>>)}

Samples(t) ==
  CASE t.kind \in {"unsigned", "signed", "BigInt", "BigUint"} -> IntSamples(t)
    [] t.kind \in {"float", "double"} -> FloatSamples
    [] t.kind = "bool" -> {BoolRec(TRUE), BoolRec(FALSE), IntRec(1)}
    [] t.kind = "string" -> {StringRec(s) : s \in Strings} \cup Ints({1})
    [] t.kind \in {"vec", "array", "set", "map"} -> CollectionSamples(t)
    [] OTHER -> StructSamples(t)

\* What mutators have beyond whole values: deletions of keys, fields of fields.
Changes(t) ==
  CASE t = MapTy(u8, u8) -> {Entry(1, EmptyTuple), Vector(<<Entry(1, IntRec(256))>>)}
    [] t = MapTy(u8, SetTy(u8)) -> {Vector(<<Entry(1, Bytes(<<2>>)), Entry(2, EmptyTuple)>>)}
    [] t = Shape -> {NamedStruct("Box", <<<<"tags", Bytes(<<2>>)>>>>)}
    [] t = RefTy(Port) -> {NamedStruct("Port", <<<<"vlans", Bytes(<<2>>)>>>>)}
    [] OTHER -> {}

MCRelations ==
  {R(t) : t \in {u8, i8, Big("BigInt"), Big("BigUint"), Scalar("bool"), Scalar("string"),
                 Scalar("float"), Scalar("double"), VecTy(Pair), ArrayTy(2, u8), SetTy(u8),
                 MapTy(u8, u8), MapTy(u8, SetTy(u8)), Shape, Option(u8), RefTy(Port)}}

MCValues(t) ==
  IF t \in OvsdbTables THEN {} ELSE
  {PosStruct("R", <<IntRec(k), r>>) : k \in {1, 2}, r \in Samples(Field(t))}
    \cup {NamedStruct("R", <<<<"id", IntRec(1)>>>>), PosStruct("S", <<IntRec(1)>>)}

MCMutators(t) ==
  {NamedStruct("R", <<<<"x", r>>>>) : r \in Samples(Field(t)) \cup Changes(Field(t))}
    \cup {PosStruct("R", <<IntRec(2), r>>) : r \in Samples(Field(t))}
    \cup {NamedStruct("R", <<>>)}

\* Tables of a server with one or two columns.  Numbers have 8 bits, and uuids 16.
integer == Unsigned(8)
uuid == Unsigned(16)
T(t) == Struct(Constructor("T", <<"_uuid", "x">>, <<uuid, t>>))
T2(t1, t2) == Struct(Constructor("T", <<"_uuid", "x", "y">>, <<uuid, t1, t2>>))

\* A column whose name begins with two underscores.
Tprefixed == Struct(Constructor("T", <<"_uuid", "__x">>, <<uuid, Scalar("bool")>>))
MCPrefixed == [n \in {"__x"} |-> "x"]

MCOvsdbTables ==
  {T(t) : t \in {integer, uuid, Scalar("string"), SetTy(uuid), MapTy(integer, integer), Option(integer)}}
    \cup {T2(Scalar("bool"), SetTy(integer)), Tprefixed}

MCColumnValues(t) ==
  CASE t = integer -> {255, -1}
    [] t = uuid -> {5, 300}
    [] t.kind = "bool" -> BOOLEAN
    [] t.kind = "string" -> {<<>>, <<"plain">>}
    [] t = SetTy(uuid) -> {{}, {300}, {300, 301}}
    [] t = SetTy(integer) -> {{}, {1}}
    [] t.kind = "map" -> {<<>>, <<5>>, <<6, 5>>}     \* from 1 and from 2
    [] t.kind = "option" -> {[cons |-> "None", args |-> <<>>], [cons |-> "Some", args |-> <<3>>]}

MCRelationsAndTables == MCRelations \cup MCOvsdbTables

MCKeys(t) == Ints({1, 2, 256})
=============================================================================
