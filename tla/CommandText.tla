---------------------------- MODULE CommandText ----------------------------
(***************************************************************************)
(* The text of update commands: how the command recorder prints records     *)
(* (Display for Record, record_val_upd) and how the parser of the command    *)
(* line reads them (parse.rs).                                              *)
(*                                                                         *)
(* A text is the tree of its tokens, and keeps what the printer writes and   *)
(* nothing else: digits do not say whether an integer or a float wrote       *)
(* them, brackets do not say which collection did, and a word may be a       *)
(* constructor or a number such as NaN.                                     *)
(***************************************************************************)
EXTENDS Records

----------------------------------------------------------------------------
(* Strings. *)

\* The characters that the printer escapes, with the escape.  Apostrophes and other
\* characters are written as they are; a control character as its code point.
Escapes == [quote |-> "quote", backslash |-> "backslash", newline |-> "n", tab |-> "t",
            control |-> "u"]

format_ddlog_str(s) ==
  [i \in DOMAIN s |-> IF s[i] \in DOMAIN Escapes THEN [escape |-> Escapes[s[i]]] ELSE [char |-> s[i]]]

\* The escapes that the parser knows; code points are not among them.
Unescapes == [quote |-> "quote", backslash |-> "backslash", apostrophe |-> "apostrophe",
              n |-> "newline", t |-> "tab"]

string_literal(t) ==
  Collect([i \in DOMAIN t |->
    CASE "char" \in DOMAIN t[i] -> Ok(t[i].char)
      [] t[i].escape \in DOMAIN Unescapes -> Ok(Unescapes[t[i].escape])
      [] OTHER -> Err])

----------------------------------------------------------------------------
(* Printing records. *)

\* A float without a fraction is printed without a decimal point.
float_text(x) ==
  CASE x = NaN -> [word |-> "NaN"]
    [] x = Infinity -> [word |-> "inf"]
    [] x % 4 = 0 -> [digits |-> x \div 4]
    [] OTHER -> [decimal |-> x]

RECURSIVE print(_)
print(r) ==
  CASE Is(r, "bool") -> [word |-> IF r.bool THEN "true" ELSE "false"]
    [] Is(r, "int") -> [digits |-> r.int]
    [] Is(r, "float") -> float_text(r.float)
    [] Is(r, "double") -> float_text(r.double)
    [] Is(r, "string") -> [quoted |-> format_ddlog_str(r.string)]
    [] Is(r, "serialized") -> [hash |-> r.serialized]
    [] Is(r, "tuple") -> [parens |-> [i \in DOMAIN r.tuple |-> print(r.tuple[i])]]
    [] Is(r, "array") -> [brackets |-> [i \in DOMAIN r.array |-> print(r.array[i])]]
    [] Is(r, "pos") -> [name |-> r.cons, braces |-> [i \in DOMAIN r.pos |-> print(r.pos[i])]]
    [] Is(r, "named") ->
         [name |-> r.cons,
          braces |-> [i \in DOMAIN r.named |->
                       [field |-> r.named[i][1], text |-> print(r.named[i][2])]]]

----------------------------------------------------------------------------
(* Reading records. *)

RECURSIVE record(_)

bool_val(t) == IF t.word \in {"true", "false"} THEN Ok(BoolRec(t.word = "true")) ELSE Err

records(ts) == Collect([i \in DOMAIN ts |-> record(ts[i])])

IsNamed(t) == "field" \in DOMAIN t

\* Named arguments if there is one and all are named; otherwise positional arguments,
\* of which there may be none.
constructor_args(c, ts) ==
  IF ts # <<>> /\ \A i \in DOMAIN ts : IsNamed(ts[i])
  THEN LET vals == records([i \in DOMAIN ts |-> ts[i].text])
       IN Wrap(vals, LAMBDA rs : NamedStruct(c, [i \in DOMAIN rs |-> <<ts[i].field, rs[i]>>]))
  ELSE IF \E i \in DOMAIN ts : IsNamed(ts[i]) THEN Err
       ELSE Wrap(records(ts), LAMBDA rs : PosStruct(c, rs))

\* A word that is no Boolean is a constructor without arguments.  Serialized data is
\* read after an at sign only, and printed after a hash.
struct_val(t) == Ok(PosStruct(t.word, <<>>))

\* All numbers with a decimal point are read as doubles, all others as integers.
float_val(t) == Ok(DoubleRec(t.decimal))
int_val(t) == Ok(IntRec(t.digits))
string_val(t) == Wrap(string_literal(t.quoted), StringRec)
tuple_val(t) == Wrap(records(t.parens), TupleRec)
array_val(t) == Wrap(records(t.brackets), LAMBDA rs : ArrayRec("Unknown", rs))

record(t) ==
  CASE "word" \in DOMAIN t -> IF IsOk(bool_val(t)) THEN bool_val(t) ELSE struct_val(t)
    [] "digits" \in DOMAIN t -> int_val(t)
    [] "decimal" \in DOMAIN t -> float_val(t)
    [] "quoted" \in DOMAIN t -> string_val(t)
    [] "parens" \in DOMAIN t -> tuple_val(t)
    [] "brackets" \in DOMAIN t -> array_val(t)
    [] "braces" \in DOMAIN t -> constructor_args(t.name, t.braces)
    [] "hash" \in DOMAIN t -> Err

----------------------------------------------------------------------------
(* Commands: an operation with its records, [op, rec] or [op, key, rec]. *)

\* The printed form of a command: the operation and the texts of its records.
record_upd_cmd(cmd) == [f \in DOMAIN cmd |-> IF f = "op" THEN cmd.op ELSE print(cmd[f])]

\* Reads a command back; a record that does not read back makes the whole line invalid.
update(text) ==
  Collect([f \in DOMAIN text |-> IF f = "op" THEN Ok(text.op) ELSE record(text[f])])

\* The records that the parser reads back as what they mean: no serialized data, no
\* NaN or infinity, no control characters, and no named record without fields, unless
\* its constructor is one of those that have none.
RECURSIVE Printable(_, _)
Printable(units, r) ==
  CASE Is(r, "serialized") -> FALSE
    [] Is(r, "float") -> r.float < NaN
    [] Is(r, "double") -> r.double < NaN
    [] Is(r, "string") -> \A i \in DOMAIN r.string : r.string[i] # "control"
    [] Is(r, "tuple") -> \A i \in DOMAIN r.tuple : Printable(units, r.tuple[i])
    [] Is(r, "array") -> \A i \in DOMAIN r.array : Printable(units, r.array[i])
    [] Is(r, "pos") -> \A i \in DOMAIN r.pos : Printable(units, r.pos[i])
    [] Is(r, "named") ->
         IF r.named = <<>> THEN r.cons \in units
         ELSE \A i \in DOMAIN r.named : Printable(units, r.named[i][2])
    [] OTHER -> TRUE
=============================================================================
