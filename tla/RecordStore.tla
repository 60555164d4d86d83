---------------------------- MODULE RecordStore ----------------------------
(***************************************************************************)
(* An input relation with a primary key that is updated by commands, whose   *)
(* records are converted to typed values, and a second program that reads    *)
(* the commands which the first one records.                                *)
(*                                                                         *)
(* The relation holds structs, and the first field is the primary key.  A    *)
(* command is one call; calls with several updates, transactions and        *)
(* rollbacks are in RunningProgram and CommandRecorder.  As in main.rs, the   *)
(* command is converted first and the typed update is applied and recorded.  *)
(* The recorder prints it before it is applied, whether or not that will     *)
(* succeed.  The second program stops at the first line that fails.          *)
(***************************************************************************)
EXTENDS CommandText

LOCAL INSTANCE Functions

CONSTANTS
  Relations,        \* the types of the relation that are checked: structs
  Values(_),        \* the records that clients pass as values of a relation of a type
  Mutators(_),      \* the records that clients pass as mutators
  Keys(_)           \* the records that clients pass as keys

VARIABLES
  ty,         \* the type of the relation
  table,      \* its contents: a function from keys to values
  copy,       \* the contents of the relation in the program that replays the log
  reading,    \* FALSE once the replay has stopped, and that program with it
  clean       \* TRUE while every recorded command succeeded and was printable

vars == <<ty, table, copy, reading, clean>>

KeyType == ty.conss[1].types[1]
key_func(v) == v.args[1]

\* The commands on values, and the records that clients pass to them.
Commands ==
  [op : {"insert", "insert_or_update", "delete"}, rec : Values(ty)]
    \cup [op : {"delete_key"}, rec : Keys(ty)]
    \cup [op : {"modify"}, key : Keys(ty), rec : Mutators(ty)]

----------------------------------------------------------------------------
\* Converts a command to a typed update.  The mutator of modify stays a record.
convert_update_command(cmd) ==
  IF cmd.op = "modify"
  THEN Wrap(from_record(KeyType, cmd.key), LAMBDA k : [op |-> "modify", key |-> k, rec |-> cmd.rec])
  ELSE Wrap(from_record(IF cmd.op = "delete_key" THEN KeyType ELSE ty, cmd.rec),
            LAMBDA v : [op |-> cmd.op, val |-> v])

\* The typed update as a command whose records are those of its values.
record_val_upd(upd) ==
  CASE upd.op = "modify" -> [op |-> "modify", key |-> into_record(KeyType, upd.key), rec |-> upd.rec]
    [] upd.op = "delete_key" -> [op |-> "delete_key", rec |-> into_record(KeyType, upd.val)]
    [] OTHER -> [op |-> upd.op, rec |-> into_record(ty, upd.val)]

With(t, k, v) == [x \in DOMAIN t \cup {k} |-> IF x = k THEN v ELSE t[x]]
Without(t, k) == Restrict(t, DOMAIN t \ {k})

\* The result of an update on a table with a primary key.
indexed_set_update(t, upd) ==
  LET k == IF upd.op = "modify" THEN upd.key
           ELSE IF upd.op = "delete_key" THEN upd.val ELSE key_func(upd.val)
  IN CASE upd.op = "insert" -> IF k \in DOMAIN t THEN Err ELSE Ok(With(t, k, upd.val))
       [] upd.op = "insert_or_update" -> Ok(With(t, k, upd.val))
       [] k \notin DOMAIN t -> Err
       [] upd.op = "delete" -> IF t[k] = upd.val THEN Ok(Without(t, k)) ELSE Err
       [] upd.op = "delete_key" -> Ok(Without(t, k))
       [] upd.op = "modify" -> Wrap(mutate(ty, t[k], upd.rec), LAMBDA v : With(t, k, v))

\* A failed update leaves the table as it was.
Contents(t, res) == IF IsOk(res) THEN res.ok ELSE t

\* Reads a line of the log, converts it and applies it.
handle_cmd(t, text) ==
  AndThen(AndThen(update(text), convert_update_command), LAMBDA upd : indexed_set_update(t, upd))

PrintableCommand(cmd) == \A f \in DOMAIN cmd \ {"op"} : Printable(Units(ty), cmd[f])

----------------------------------------------------------------------------
Init ==
  /\ ty \in Relations
  /\ table = <<>> /\ copy = <<>>
  /\ reading = TRUE /\ clean = TRUE

\* A command that does not convert is not recorded.
convert_fails(cmd) ==
  /\ ~IsOk(convert_update_command(cmd))
  /\ UNCHANGED vars

\* The tables of the two programs, given what updates do to the one and lines to the other.
Outcome(res, replayed, printable) ==
  /\ table' = Contents(table, res)
  /\ reading' = (reading /\ IsOk(replayed))
  /\ copy' = IF reading' THEN replayed.ok ELSE <<>>
  /\ clean' = (clean /\ IsOk(res) /\ printable)

\* A mutator that changes the key leaves the value under its old key, in both programs.
apply_converted(upd) ==
  \E line \in {record_val_upd(upd)} :
    Outcome(indexed_set_update(table, upd), handle_cmd(copy, record_upd_cmd(line)), PrintableCommand(line))

apply_update(cmd) ==
  \E upd \in {convert_update_command(cmd)} : IsOk(upd) /\ apply_converted(upd.ok) /\ UNCHANGED ty

Next == \E cmd \in Commands : convert_fails(cmd) \/ apply_update(cmd)

Spec == Init /\ [][Next]_vars

----------------------------------------------------------------------------
(* Properties. *)

\* Every stored value is a value of the type of the relation, whatever records it was
\* built or mutated from: no conversion lets an integer, a float, an array or a variant
\* through that the type does not have.
TypeOK ==
  /\ ty \in Relations
  /\ \A k \in DOMAIN table : HasType(ty, table[k])
  /\ \A k \in DOMAIN copy : HasType(ty, copy[k])
  /\ reading \in BOOLEAN /\ clean \in BOOLEAN

\* While the recorded commands succeed and hold nothing that the parser cannot read,
\* the program that replays the log has the same table: what conversion, printing,
\* parsing and conversion again lose (the kind of a collection, the width of a float)
\* is nothing that the typed value depends on.
CopyFollows == clean => reading /\ copy = table

\* The difference of two values, as the comments on the mutators describe it: for a set
\* the elements in one of the two only, for a map the keys that are new, gone (with an
\* empty tuple) or changed, for a struct the fields that differ, and otherwise the value.
RECURSIVE Difference(_, _, _)

FieldDifferences(c, a, b) ==
  LET Differs(i) == a.args[i] # b.args[i]
      field(i) == <<c.names[i], Difference(c.types[i], a.args[i], b.args[i])>>
      changed == Ordered({i \in DOMAIN c.types : Differs(i)})
  IN NamedStruct(c.cons, [j \in DOMAIN changed |-> field(changed[j])])

MapDifference(t, a, b) ==
  LET changed == Ordered({k \in DOMAIN a \cup DOMAIN b :
                            k \notin DOMAIN a \cap DOMAIN b \/ a[k] # b[k]})
      change(k) == CASE k \notin DOMAIN b -> EmptyTuple
                     [] k \notin DOMAIN a -> into_record(t.val, b[k])
                     [] OTHER -> Difference(t.val, a[k], b[k])
  IN ArrayRec("Map", [i \in DOMAIN changed |->
                       TupleRec(<<into_record(t.key, changed[i]), change(changed[i])>>)])

Difference(t, a, b) ==
  CASE t.kind = "set" -> into_record(t, (a \ b) \cup (b \ a))
    [] t.kind = "map" -> MapDifference(t, a, b)
    [] t.kind = "ref" -> Difference(t.elem, a, b)
    [] t.kind \in {"struct", "enum", "option"} /\ a.cons = b.cons ->
         FieldDifferences(TheCons(t, a.cons), a, b)
    [] OTHER -> into_record(t, b)

\* A stored value mutated by its difference to another value becomes that value, and so
\* it does when the difference has been printed and read back.
DifferencesApply ==
  \A k \in DOMAIN table, r \in Values(ty) :
    LET a == table[k]
        b == from_record(ty, r)
        d == Difference(ty, a, b.ok)
    IN IsOk(b) => /\ mutate(ty, a, d) = b
                  /\ Printable(Units(ty), d) => mutate(ty, a, record(print(d)).ok) = b
=============================================================================
