----------------------------- MODULE OvsdbSync -----------------------------
(***************************************************************************)
(* A program that controls a table of an OVSDB database.  It mirrors the     *)
(* rows of the server in an input relation, from the messages in which the   *)
(* server reports changes, and its rules compute the rows that the server    *)
(* should have.  The difference of the two goes to the server as operations, *)
(* and comes back as a message.                                             *)
(*                                                                         *)
(* The relation is the one of RecordStore, with its recorder.  The server,    *)
(* which encodes and reads JSON by the types of its columns, and the rules,   *)
(* whose result is any table, are not part of the repository.  Nor is the    *)
(* client that connects the two: when the server sends something that the     *)
(* adapter does not handle, or at any other time, it clears the relation and  *)
(* asks for all rows again.                                                 *)
(***************************************************************************)
EXTENDS RecordStore, Ovsdb

LOCAL INSTANCE SequencesExt

CONSTANTS
  OvsdbTables,       \* the types of the relations that mirror a table
  Uuids,             \* the uuids of rows
  ColumnValues(_)    \* the values that a column of a type has at the server

VARIABLES
  server,      \* the rows of the server: a function from uuids to values
  want,        \* the rows that the rules of the program compute
  monitoring,  \* TRUE once the server has sent its rows
  handled      \* FALSE once the server has sent a message beyond the adapter

syncvars == <<vars, server, want, monitoring, handled>>

Schema == ty.conss[1]
Columns == DOMAIN Schema.types \ {1}
Row(u, args) == [cons |-> Schema.cons, args |-> <<u>> \o args]
\* RowSets have one or two columns.
Rows(u) ==
  {Row(u, <<x>> \o rest) : x \in ColumnValues(Schema.types[2]),
     rest \in IF Len(Schema.types) = 2 THEN {<<>>} ELSE {<<y>> : y \in ColumnValues(Schema.types[3])}}
RowSets == UNION {{f \in [S -> UNION {Rows(u) : u \in S}] : \A u \in S : f[u].args[1] = u} : S \in SUBSET Uuids}

----------------------------------------------------------------------------
(* The server. *)

\* A set of one element is written as the element.
RECURSIVE Written(_, _)
Written(t, v) ==
  CASE t.kind = "bool" -> JBool(v)
    [] t.kind = "string" -> JStr(v)
    [] t.kind = "unsigned" -> IF t.width = UuidBits THEN JUuid(v) ELSE JNum(v)
    [] t.kind = "set" ->
         LET xs == Ordered(v)
         IN IF Len(xs) = 1 THEN Written(t.elem, xs[1])
            ELSE JArr(<<Word("set"), JArr([i \in DOMAIN xs |-> Written(t.elem, xs[i])])>>)
    [] t.kind = "option" ->
         IF v.args = <<>> THEN JArr(<<Word("set"), JArr(<<>>)>>) ELSE Written(t.conss[2].types[1], v.args[1])
    [] t.kind = "map" ->
         LET ks == Ordered(DOMAIN v)
         IN JArr(<<Word("map"),
                   JArr([i \in DOMAIN ks |-> JArr(<<Written(t.key, ks[i]), Written(t.val, v[ks[i]])>>)])>>)

\* The elements of a collection; a value alone is a set.
Elements(j) == IF Is(j, "arr") /\ j.arr[1].str \in {<<"set">>, <<"map">>} THEN j.arr[2].arr ELSE <<j>>

\* The value of a column that some JSON stands for.
RECURSIVE ReadAs(_, _)
ReadAs(t, j) ==
  LET parts == Elements(j)
      read(as) == Collect([i \in DOMAIN parts |-> ReadAs(as, parts[i])])
  IN CASE t.kind = "bool" -> IF Is(j, "bool") THEN Ok(j.bool) ELSE Err
       [] t.kind = "string" -> IF Is(j, "str") THEN Ok(j.str) ELSE Err
       [] t.kind = "unsigned" ->
            IF t.width # UuidBits THEN IF Is(j, "num") THEN Ok(j.num) ELSE Err
            ELSE IF Is(j, "arr") /\ j.arr[1] = Word("uuid") THEN Ok(j.arr[2].str[2]) ELSE Err
       [] t.kind = "set" -> Wrap(read(t.elem), LAMBDA xs : {xs[i] : i \in DOMAIN xs})
       [] t.kind = "option" ->
            Wrap(read(t.conss[2].types[1]),
                 LAMBDA xs : [cons |-> IF xs = <<>> THEN "None" ELSE "Some", args |-> xs])
       [] t.kind = "map" ->
            Wrap(Collect([i \in DOMAIN parts |-> Collect(<<ReadAs(t.key, parts[i].arr[1]),
                                                           ReadAs(t.val, parts[i].arr[2])>>)]),
                 FromEntries)

\* What a message says of a column that changes: the elements in one of two sets only, the
\* entries of a map that are new, gone or changed, otherwise the value.
Change(t, a, b) ==
  LET gone(k) == k \in DOMAIN a /\ k \notin DOMAIN b
      changed == {k \in DOMAIN a \cup DOMAIN b : k \in DOMAIN a \cap DOMAIN b => a[k] # b[k]}
  IN CASE t.kind = "set" -> Written(t, (a \ b) \cup (b \ a))
       [] t.kind = "map" -> Written(t, [k \in changed |-> IF gone(k) THEN a[k] ELSE b[k]])
       [] OTHER -> Written(t, b)

Written_row(v) == JObj([n \in {Schema.names[i] : i \in Columns} |->
                         LET i == CHOOSE j \in Columns : Schema.names[j] = n IN Written(Schema.types[i], v.args[i])])

Changed(a, b) == {i \in Columns : a.args[i] # b.args[i]}
Changed_row(a, b) ==
  JObj([n \in {Schema.names[i] : i \in Changed(a, b)} |->
         LET i == CHOOSE j \in Columns : Schema.names[j] = n IN Change(Schema.types[i], a.args[i], b.args[i])])

\* The change of one row, in one of the two formats.
RowUpdate(format, old, new, u) ==
  CASE format = "update2" /\ u \notin DOMAIN old -> JObj([insert |-> Written_row(new[u])])
    [] format = "update2" /\ u \notin DOMAIN new -> JObj([delete |-> Written_row(old[u])])
    [] format = "update2" -> JObj([modify |-> Changed_row(old[u], new[u])])
    [] u \notin DOMAIN old -> JObj([new |-> Written_row(new[u])])
    [] u \notin DOMAIN new -> JObj([old |-> Written_row(old[u])])
    [] OTHER -> JObj([old |-> Written_row(old[u]), new |-> Written_row(new[u])])

Differing(old, new) ==
  {u \in DOMAIN old \cup DOMAIN new : u \in DOMAIN old \cap DOMAIN new => old[u] # new[u]}

Message(RowUpd(_), us) == JObj([text \in {UuidText(u) : u \in us} |-> RowUpd(text[2])])

\* The rows after some operations, or an error that leaves them all as they were.
Execute(rows, ops) ==
  LET arg(o, i) == IF Has(o.row, Schema.names[i])
                   THEN ReadAs(Schema.types[i], Member(o.row, Schema.names[i])) ELSE Err
      args(o) == Collect([i \in 1 .. Cardinality(Columns) |-> arg(o, i + 1)])
      readable(o) == o.op # "delete" => IsOk(args(o))
      after(f, o) ==
        CASE o.op = "delete" -> Without(f, o.uuid[2])
          [] OTHER -> With(f, o.uuid[2], Row(o.uuid[2], args(o).ok))
      legal(f, o) == readable(o) /\ (o.op = "insert" <=> o.uuid[2] \notin DOMAIN f)
      step(res, o) == IF IsOk(res) THEN IF legal(res.ok, o) THEN Ok(after(res.ok, o)) ELSE Err ELSE Err
  IN IF IsOk(ops) THEN FoldLeft(step, Ok(rows), ops.ok) ELSE Err

----------------------------------------------------------------------------
(* The program. *)

\* All commands of a message are converted before the first is applied.
updates_from(msg) ==
  AndThen(cmds_from_table_update(Schema.cons, msg),
          LAMBDA cmds : Collect([i \in DOMAIN cmds |-> convert_update_command(cmds[i])]))

\* Applies one step after the other, up to the first that fails.
InTurn(Step(_, _), start, steps) ==
  FoldLeft(LAMBDA res, x : AndThen(res, LAMBDA s : Step(s, x)), Ok(start), steps)

\* Applies and records the updates of a message.  A client rolls back the transaction of a
\* message that fails.
apply_all(upds) ==
  \E lines \in {[i \in DOMAIN upds |-> record_val_upd(upds[i])]} :
    Outcome(InTurn(indexed_set_update, table, upds),
            InTurn(LAMBDA t, line : handle_cmd(t, record_upd_cmd(line)), copy, lines),
            \A i \in DOMAIN lines : PrintableCommand(lines[i]))

apply_updates(msg) ==
  \E upds \in {updates_from(msg)} :
    IF IsOk(upds) THEN apply_all(upds.ok) ELSE UNCHANGED <<table, copy, reading, clean>>

\* The rules for DeltaPlus, DeltaMinus and Update compare the rows that the server should
\* have with the mirror.
DeltaPlus == {into_record(ty, want[u]) : u \in DOMAIN want \ DOMAIN table}
DeltaMinus == {NamedStruct("DeltaMinus", <<<<"_uuid", IntRec(u)>>>>) : u \in DOMAIN table \ DOMAIN want}
Update == {into_record(ty, want[u]) : u \in {w \in DOMAIN want \cap DOMAIN table : want[w] # table[w]}}

\* The delta that a client passes has the latest contents of the three relations, as it asks
\* for: the sum of the changes of all transactions, which has each record once.
Snapshot(rel) == [r \in rel |-> 1]

ddlog_dump_ovsdb_delta_tables == dump_delta(Snapshot(DeltaPlus), Snapshot(DeltaMinus), Snapshot(Update))

----------------------------------------------------------------------------
(* What the adapter does not handle. *)

RECURSIVE Fits(_, _)
\* The adapter takes no negative numbers.
Fits(t, v) ==
  CASE t.kind = "set" -> \A x \in v : Fits(t.elem, x)
    [] t.kind = "map" -> \A k \in DOMAIN v : Fits(t.key, k) /\ Fits(t.val, v[k])
    [] t.kind = "option" -> v.args # <<>> => Fits(t.conss[2].types[1], v.args[1])
    [] t.kind = "unsigned" -> v >= 0
    [] OTHER -> TRUE

FitsRow(v) == \A i \in Columns : Fits(Schema.types[i], v.args[i])

\* The second format reports a changed option as an array or as its contents, and an entry
\* that is gone from a map with its old value; the mutators know neither.
FitsChange(t, a, b) ==
  /\ t.kind # "option"
  /\ t.kind = "map" => DOMAIN a \subseteq DOMAIN b

FitsUpdate(format, old, new, u) ==
  /\ u \in DOMAIN new => FitsRow(new[u])
  /\ (format = "update2" /\ u \in DOMAIN old \cap DOMAIN new) =>
       \A i \in Changed(old[u], new[u]) : FitsChange(Schema.types[i], old[u].args[i], new[u].args[i])

\* A reference to a row is written as a number if it is small enough for one, and a column
\* that begins with two underscores is written without them.
RECURSIVE Expressible(_, _)
Expressible(t, v) ==
  CASE t.kind = "set" -> \A x \in v : Expressible(t.elem, x)
    [] t.kind = "map" -> \A k \in DOMAIN v : Expressible(t.key, k) /\ Expressible(t.val, v[k])
    [] t.kind = "option" -> v.args # <<>> => Expressible(t.conss[2].types[1], v.args[1])
    [] t = Unsigned(UuidBits) -> v >= 2^NumberBits
    [] OTHER -> TRUE

ExpressibleRow(v) ==
  \A i \in Columns : Schema.names[i] \notin DOMAIN Prefixed /\ Expressible(Schema.types[i], v.args[i])

----------------------------------------------------------------------------
\* The mirror starts with a message that has all rows of the server.
SyncInit ==
  /\ Init
  /\ want = <<>>
  /\ monitoring = FALSE /\ handled = TRUE
  /\ IF ty \in OvsdbTables THEN server \in RowSets ELSE server = <<>>

\* The first message, in either format.
monitor(member) ==
  LET row(u) == JObj((member :> Written_row(server[u])))
  IN /\ ~monitoring /\ monitoring' = TRUE
     /\ apply_updates(Message(row, DOMAIN server))
     /\ handled' = (handled /\ \A u \in DOMAIN server : FitsRow(server[u]))
     /\ UNCHANGED <<ty, server, want>>

\* The server has new rows and reports the difference.
Report(format, new) ==
  LET upd(u) == RowUpdate(format, server, new, u)
      us == Differing(server, new)
  IN /\ server' = new
     /\ apply_updates(Message(upd, us))
     /\ handled' = (handled /\ \A u \in us : FitsUpdate(format, server, new, u))
     /\ UNCHANGED <<ty, want, monitoring>>

\* Another client of the server changes its rows.
server_changes(format, new) == monitoring /\ handled /\ new # server /\ Report(format, new)

\* The rules compute other rows.
rules_change(new) ==
  /\ monitoring /\ handled
  /\ \A u \in DOMAIN new : HasType(ty, new[u])
  /\ want' = new
  /\ UNCHANGED <<vars, server, monitoring, handled>>

\* The server executes the operations and reports what they changed.
control(format) ==
  LET res == Execute(server, ddlog_dump_ovsdb_delta_tables)
  IN IsOk(res) /\ monitoring /\ handled /\ Report(format, res.ok)

\* The client starts over with an empty relation; in the log there is a clear command.
reconnect ==
  /\ monitoring /\ monitoring' = FALSE
  /\ table' = <<>> /\ copy' = <<>>
  /\ handled' = TRUE
  /\ UNCHANGED <<ty, reading, clean, server, want>>

SyncNext ==
  \/ ty \notin OvsdbTables /\ Next /\ UNCHANGED <<server, want, monitoring, handled>>
  \/ /\ ty \in OvsdbTables
     /\ \/ reconnect
        \/ \E member \in {"initial", "insert", "new"} : monitor(member)
        \/ \E format \in {"update", "update2"} :
             \/ control(format)
             \/ \E new \in RowSets : server_changes(format, new)
        \/ \E new \in RowSets : rules_change(new)

SyncSpec == SyncInit /\ [][SyncNext]_syncvars

\* Whatever the server and the rules do, as long as the server sends nothing beyond the
\* adapter the mirror has the rows of the server, and the operations of the program make
\* the rows of the server what the rules want, unless these hold a reference that the
\* adapter would write as a number or a column whose name it would write differently.
ServersAgree ==
  (ty \in OvsdbTables /\ handled /\ monitoring) =>
    /\ table = server
    /\ (\A u \in DOMAIN want : ExpressibleRow(want[u])) =>
         Execute(server, ddlog_dump_ovsdb_delta_tables) = Ok(want)
=============================================================================
