----------------------------- MODULE TestPrograms -----------------------------
(***************************************************************************)
(* The programs that the tests of differential_datalog declare, as values  *)
(* of the kind Dataflow runs: the relations with their rules and           *)
(* arrangements, the order of the nodes and the functions the rules apply. *)
(* The tests try one or two transactions with a thousand records; here the *)
(* records are few and the transactions any.                               *)
(***************************************************************************)
EXTENDS Integers, Sequences, FiniteSets, TLC

CONSTANTS Unit, NoFun

-----------------------------------------------------------------------------
(* Declarations.                                                           *)

Relation(rules, arrs) ==
    [input |-> FALSE, distinct |-> TRUE, fixpoint |-> FALSE, rules |-> rules, arrs |-> arrs]
InputSet(arrs) ==
    [input |-> TRUE, distinct |-> TRUE, fixpoint |-> FALSE, rules |-> <<>>, arrs |-> arrs]
InputStream ==
    [input |-> TRUE, distinct |-> FALSE, fixpoint |-> FALSE, rules |-> <<>>, arrs |-> <<>>]
Stream(rules) ==
    [input |-> FALSE, distinct |-> FALSE, fixpoint |-> FALSE, rules |-> rules, arrs |-> <<>>]
Recursive(rules, arrs) ==
    [input |-> FALSE, distinct |-> TRUE, fixpoint |-> TRUE, rules |-> rules, arrs |-> arrs]

MapArr(f, queryable) == [kind |-> "map", f |-> f, queryable |-> queryable]
SetArr(f, distinct) == [kind |-> "set", f |-> f, distinct |-> distinct, queryable |-> FALSE]

CollectionRule(r, xform) == [src |-> "rel", id |-> r, xform |-> xform]
ArrangementRule(a, xform) == [src |-> "arr", id |-> a, xform |-> xform]

Op(op, f) == [op |-> op, f |-> f]
JoinOp(op, a, jfun) == [op |-> op, arr |-> a, jfun |-> jfun, ffun |-> NoFun]
AggregateOp(f) == [op |-> "Aggregate", f |-> f, ffun |-> NoFun]
StreamArrOp(op, f, a, jfun) == [op |-> op, f |-> f, arr |-> a, jfun |-> jfun]
ArrStreamOp(op, r, kfun, jfun) ==
    [op |-> op, rel |-> r, kfun |-> kfun, jfun |-> jfun, ffun |-> NoFun]

RelNode(r) == [kind |-> "Rel", rels |-> <<r>>]
SccNode(rs) == [kind |-> "Scc", rels |-> rs]

NoDelay == [d \in {} |-> 0]
SetUpdates(r, vals) == {r} \X vals \X {1, -1}

-----------------------------------------------------------------------------
(* Functions of the tests.  A function returns the set of its results.     *)

TestFun(f, x) ==
    CASE f = "key_unit" -> {<<x[1], Unit>>}                 \* fmfun1, safun1
      [] f = "fst_snd" -> {<<x[1], x[2]>>}                  \* afun1, arrange_by_fst
      [] f = "snd_fst" -> {<<x[2], x[1]>>}                  \* arrange_by_snd
      [] f = "fst_self" -> {<<x[1], x>>}                    \* afun1 of test_antijoin
      [] f = "self_self" -> {<<x, x>>}                      \* gfun4, anti_arrange1
      [] f = "swap_self" -> {<<<<x[2], x[1]>>, x>>}         \* anti_arrange2
      [] f = "self_unit" -> {<<x, Unit>>}                   \* fmnull_fun of a set arrangement
      [] f = "unit_self" -> {<<Unit, x>>}                   \* gfun3
      [] f = "fst" -> {x[1]}                                \* mfun of test_antijoin, kfun
      [] f = "id" -> {x}                                    \* fmfun1 of test_delayed
      [] f = "join_values" -> {<<x[2], x[3]>>}              \* jfun, jfun2
      [] f = "twice_left" -> {<<x[2], x[2]>>}               \* jfun of test_semijoin
      [] f = "arr_and_snd" -> {<<x[1], x[2][2]>>}           \* jfun of test_streamjoin
      [] f = "both" -> {<<x[1], x[2]>>}                     \* jfun2 of test_streamjoin
      [] f = "twice" -> {<<x, x>>}                          \* sjfun, sjfun2
      [] f = "double" -> {2 * x}                            \* mfun
      [] f = "above_10" -> IF x > 10 THEN {x} ELSE {}       \* ffun
      [] f = "double_above_12" -> IF x > 12 THEN {2 * x} ELSE {}
      [] f = "negatives" -> IF x > 12 THEN {-x, -(2 * x)} ELSE {}
      [] f = "count" -> {Cardinality(x[2])}                 \* agfun3
      [] f = "agg_key" -> {x[1]}                            \* agfun4
      [] f = "differ" -> IF x[1] # x[2] THEN {x} ELSE {}    \* ffun of test_recursion

-----------------------------------------------------------------------------
(* Programs.                                                               *)

\* An input relation in a recursive component.
test_input_relation_nested ==
    [name |-> "nested_input",
     rels |-> 1 :> InputSet(<<>>) @@ 2 :> InputSet(<<>>),
     nodes |-> <<RelNode(1), SccNode(<<2>>)>>,
     delayed |-> NoDelay,
     updates |-> {}]

\* A table and a rule that copies it.
test_two_relations(vals) ==
    [name |-> "two_relations",
     rels |-> 1 :> InputSet(<<>>)
           @@ 2 :> Relation(<<CollectionRule(1, <<[op |-> "Inspect"]>>)>>, <<>>),
     nodes |-> <<RelNode(1), RelNode(2)>>,
     delayed |-> NoDelay,
     updates |-> SetUpdates(1, vals)]

\* T3 has <<v, v>> for every <<k, v>> in T1 whose k is a first field of T2.
test_semijoin(vals) ==
    [name |-> "semijoin",
     rels |-> 1 :> InputSet(<<>>)
           @@ 2 :> InputSet(<<SetArr("key_unit", FALSE)>>)
           @@ 3 :> Relation(<<CollectionRule(1, <<Op("Arrange", "fst_snd"),
                                  JoinOp("Semijoin", <<2, 1>>, "twice_left")>>)>>, <<>>),
     nodes |-> <<RelNode(1), RelNode(2), RelNode(3)>>,
     delayed |-> NoDelay,
     updates |-> SetUpdates(1, vals) \cup SetUpdates(2, vals)]

\* T3 joins T1 and T2 by a rule, T4 by a transformer.
test_join(vals) ==
    [name |-> "join",
     rels |-> 1 :> InputSet(<<>>)
           @@ 2 :> InputSet(<<MapArr("fst_snd", TRUE)>>)
           @@ 3 :> Relation(<<CollectionRule(1, <<Op("Arrange", "fst_snd"),
                                  JoinOp("Join", <<2, 1>>, "join_values")>>)>>, <<>>)
           @@ 4 :> Relation(<<>>, <<>>),
     nodes |-> <<RelNode(1), RelNode(2), RelNode(3),
                 [kind |-> "Apply", rels |-> <<4>>,
                  tfun |-> [left |-> 1, right |-> 2, key |-> "fst_snd", jfun |-> "join_values"]],
                 RelNode(4)>>,
     delayed |-> NoDelay,
     updates |-> SetUpdates(1, vals) \cup SetUpdates(2, vals)]

\* T2 as a stream against arrangements of T1, in the four forms of a stream join.
test_streamjoin(vals) ==
    [name |-> "streamjoin",
     rels |-> 1 :> InputSet(<<MapArr("fst_snd", FALSE), SetArr("key_unit", FALSE)>>)
           @@ 2 :> InputSet(<<>>)
           @@ 3 :> Stream(<<CollectionRule(1, <<Op("Arrange", "fst_snd"),
                        ArrStreamOp("ArrStreamJoin", 2, "fst", "arr_and_snd")>>)>>)
           @@ 4 :> Stream(<<CollectionRule(2, <<
                        StreamArrOp("StreamJoin", "fst_snd", <<1, 1>>, "both")>>)>>)
           @@ 5 :> Stream(<<CollectionRule(1, <<Op("Arrange", "fst_snd"),
                        ArrStreamOp("ArrStreamSemijoin", 2, "fst", "twice")>>)>>)
           @@ 6 :> Stream(<<CollectionRule(2, <<
                        StreamArrOp("StreamSemijoin", "fst_snd", <<1, 2>>, "twice")>>)>>),
     nodes |-> [i \in 1 .. 6 |-> RelNode(i)],
     delayed |-> NoDelay,
     updates |-> SetUpdates(1, vals) \cup SetUpdates(2, vals)]

\* T3 has the records of T1 whose first field is not in T21, the first fields of T2.
test_antijoin(vals) ==
    [name |-> "antijoin",
     rels |-> 1 :> InputSet(<<>>)
           @@ 2 :> InputSet(<<>>)
           @@ 21 :> Relation(<<CollectionRule(2, <<Op("Map", "fst")>>)>>,
                             <<SetArr("self_unit", TRUE)>>)
           @@ 3 :> Relation(<<CollectionRule(1, <<Op("Arrange", "fst_self"),
                                  JoinOp("Antijoin", <<21, 1>>, NoFun)>>)>>, <<>>),
     nodes |-> <<RelNode(1), RelNode(2), RelNode(21), RelNode(3)>>,
     delayed |-> NoDelay,
     updates |-> SetUpdates(1, vals) \cup SetUpdates(2, vals)]

\* A chain of map, filter, filter_map and flat_map, and two aggregates of it.
test_map(vals) ==
    [name |-> "map",
     rels |-> 1 :> InputSet(<<>>)
           @@ 2 :> Relation(<<CollectionRule(1, <<Op("Map", "double"),
                        Op("Filter", "above_10"), Op("FilterMap", "double_above_12"),
                        Op("FlatMap", "negatives")>>)>>, <<>>)
           @@ 3 :> Relation(<<CollectionRule(2, <<Op("Arrange", "unit_self"),
                                  AggregateOp("count")>>)>>, <<>>)
           @@ 4 :> Relation(<<CollectionRule(2, <<Op("Arrange", "self_self"),
                                  AggregateOp("agg_key")>>)>>, <<>>),
     nodes |-> [i \in 1 .. 4 |-> RelNode(i)],
     delayed |-> NoDelay,
     updates |-> SetUpdates(1, vals)]

\* Streams: T2 and T4 see T1 one epoch late, T5 transforms the changes of T1.
test_delayed(vals) ==
    [name |-> "delayed",
     rels |-> 1 :> InputStream
           @@ 2 :> Stream(<<CollectionRule(11, <<>>), CollectionRule(3, <<>>)>>)
           @@ 3 :> InputStream
           @@ 4 :> Stream(<<CollectionRule(1, <<>>), CollectionRule(11, <<>>)>>)
           @@ 5 :> Stream(<<CollectionRule(1, <<[op |-> "StreamXForm",
                        xform |-> <<Op("Arrange", "self_self"),
                            [op |-> "ArrFlatMap", f |-> "id", ffun |-> NoFun]>>]>>)>>),
     nodes |-> <<RelNode(1), RelNode(3), RelNode(2), RelNode(4), RelNode(5)>>,
     delayed |-> 11 :> [rel |-> 1, delay |-> 1],
     updates |-> SetUpdates(1, vals)]

\* ancestor is recursive; common_ancestor joins it with itself and has two
\* negations of it.
test_recursion(vals) ==
    [name |-> "recursion",
     rels |-> 1 :> InputSet(<<MapArr("fst_snd", FALSE)>>)
           @@ 2 :> Recursive(<<CollectionRule(1, <<>>),
                        ArrangementRule(<<2, 3>>, <<JoinOp("Join", <<1, 1>>, "join_values")>>)>>,
                        <<MapArr("fst_snd", FALSE), SetArr("self_unit", TRUE),
                          MapArr("snd_fst", FALSE)>>)
           @@ 3 :> Relation(<<ArrangementRule(<<2, 1>>,
                        <<JoinOp("Join", <<2, 1>>, "join_values"),
                          Op("Arrange", "self_self"), JoinOp("Antijoin", <<2, 2>>, NoFun),
                          Op("Arrange", "swap_self"), JoinOp("Antijoin", <<2, 2>>, NoFun),
                          Op("Filter", "differ")>>)>>, <<>>),
     nodes |-> <<RelNode(1), SccNode(<<2>>), RelNode(3)>>,
     delayed |-> NoDelay,
     updates |-> SetUpdates(1, vals)]

=============================================================================
