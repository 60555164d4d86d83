------------------------------ MODULE MCDataflow ------------------------------
(***************************************************************************)
(* The programs of TestPrograms, and three of the shapes the compiler      *)
(* generates that no test has, on a few records, checked against what the  *)
(* rules mean: sets and sums that mention no operator of the dataflow.     *)
(***************************************************************************)
EXTENDS Dataflow

CONSTANT MCPrograms     \* names of the programs to run

T == INSTANCE TestPrograms

Pairs == {<<1, 1>>, <<1, 2>>, <<2, 1>>}
Edges == {<<"A", "B">>, <<"B", "C">>, <<"C", "A">>, <<"A", "C">>}
Vertices == {"A", "B", "C"}

\* Negation over a projection, filters of arrangements, differences of epochs:
\* 3: <<x, y>> in 1 with no <<x, z>> in 2; 4: the number of y > 1 under every x
\* of 1; 5: values of 2 with the same x and y > 1 of 1; 6: the changes of 1.
Negation ==
    [name |-> "negation",
     rels |-> 1 :> T!InputSet(<<>>)
           @@ 2 :> T!InputSet(<<T!SetArr("key_unit", TRUE), T!MapArr("fst_snd", TRUE)>>)
           @@ 3 :> T!Stream(<<T!CollectionRule(1, <<T!Op("Arrange", "fst_self"),
                                  T!JoinOp("Antijoin", <<2, 1>>, NoFun)>>)>>)
           @@ 4 :> T!Relation(<<T!CollectionRule(1, <<T!Op("Arrange", "fst_snd"),
                        [op |-> "Aggregate", f |-> "key_count", ffun |-> "above_1"]>>)>>, <<>>)
           @@ 5 :> T!Relation(<<T!CollectionRule(1, <<T!Op("Arrange", "fst_snd"),
                        [op |-> "Join", arr |-> <<2, 2>>, jfun |-> "join_values",
                         ffun |-> "above_1"]>>)>>, <<>>)
           @@ 6 :> T!Stream(<<T!CollectionRule(1, <<[op |-> "Differentiate"]>>)>>),
     nodes |-> [i \in 1 .. 6 |-> T!RelNode(i)],
     delayed |-> T!NoDelay,
     updates |-> T!SetUpdates(1, Pairs) \cup T!SetUpdates(2, Pairs)]

\* Mutual recursion with one distinct variable: 2 has the pairs joined by a path
\* of odd length, 3 those of even length; 4 reads an arrangement of 2.
Mutual ==
    [name |-> "mutual",
     rels |-> 1 :> T!InputSet(<<T!MapArr("fst_snd", FALSE)>>)
           @@ 2 :> T!Recursive(<<T!CollectionRule(1, <<>>),
                        T!CollectionRule(3, <<T!Op("Arrange", "snd_fst"),
                            T!JoinOp("Join", <<1, 1>>, "join_values")>>)>>,
                        <<T!MapArr("snd_fst", FALSE)>>)
           @@ 3 :> T!Relation(<<T!ArrangementRule(<<2, 1>>,
                        <<T!JoinOp("Join", <<1, 1>>, "join_values")>>)>>, <<>>)
           @@ 4 :> T!Relation(<<T!ArrangementRule(<<2, 1>>,
                        <<[op |-> "ArrFlatMap", f |-> "id", ffun |-> NoFun]>>)>>, <<>>),
     nodes |-> <<T!RelNode(1), T!SccNode(<<2, 3>>), T!RelNode(4)>>,
     delayed |-> T!NoDelay,
     updates |-> T!SetUpdates(1, Edges)]

\* A relation fed by its own past: without Enabled it would never come to rest.
Counter ==
    [name |-> "counter",
     rels |-> 1 :> T!InputStream
           @@ 2 :> T!Stream(<<T!CollectionRule(1, <<>>),
                              T!CollectionRule(12, <<T!Op("Map", "next_mod_3")>>)>>),
     nodes |-> <<T!RelNode(1), T!RelNode(2)>>,
     delayed |-> 12 :> [rel |-> 2, delay |-> 2],
     updates |-> T!SetUpdates(1, {0, 1})]

AllPrograms ==
    {T!test_input_relation_nested, T!test_two_relations({1, 2}), T!test_semijoin(Pairs),
     T!test_join(Pairs), T!test_streamjoin(Pairs), T!test_antijoin(Pairs),
     T!test_map({6, 7, 14}), T!test_delayed({1, 2}), T!test_recursion(Edges),
     Negation, Mutual, Counter}

MCProgramSet == {p \in AllPrograms : p.name \in MCPrograms}

\* Three transactions where few records can change, two elsewhere.
MCEpochs(p) == IF Cardinality(p.updates) <= 8 THEN 3 ELSE 2

MCFun(f, x) ==
    CASE f = "above_1" -> IF x > 1 THEN {x} ELSE {}
      [] f = "key_count" -> {<<x[1], Cardinality(x[2])>>}
      [] f = "next_mod_3" -> {(x + 1) % 3}
      [] OTHER -> T!TestFun(f, x)

-----------------------------------------------------------------------------
(* What the rules mean.                                                    *)

AsSet(S) == [x \in S |-> 1]
At(r, t) == IF t > 0 THEN sessions[r][t] ELSE Empty
Now(r) == DOMAIN At(r, Epoch)

PathOfLength(E, n, x, y) ==
    \E p \in [0 .. n -> Vertices] :
        p[0] = x /\ p[n] = y /\ \A i \in 1 .. n : <<p[i - 1], p[i]>> \in E

Ancestors(E) ==
    {<<x, y>> \in Vertices \X Vertices : \E n \in 1 .. 3 : PathOfLength(E, n, x, y)}

OddPaths(E) ==
    {<<x, y>> \in Vertices \X Vertices : \E n \in {1, 3, 5} : PathOfLength(E, n, x, y)}
EvenPaths(E) ==
    {<<x, y>> \in Vertices \X Vertices : \E n \in {2, 4, 6} : PathOfLength(E, n, x, y)}

CommonAncestors(E) ==
    LET anc == Ancestors(E)
    IN  {<<x, y>> \in Vertices \X Vertices :
            /\ x # y /\ <<x, y>> \notin anc /\ <<y, x>> \notin anc
            /\ \E a \in Vertices : <<a, x>> \in anc /\ <<a, y>> \in anc}

\* The sum of W over the epochs so far, as a Z-set over S.
SumOverEpochs(S, W(_, _)) ==
    Consolidate(S, LAMBDA x : MapThenSumSet(LAMBDA t : W(t, x), 1 .. Epoch))

DeltaAt(r, t, x) == Weight(At(r, t), x) - Weight(At(r, t - 1), x)

\* Stream joins: what was streamed in an epoch meets what relation 1 had then.
StreamPairs(Result(_, _)) ==
    LET matches == {m \in Pairs \X Pairs : m[1][1] = m[2][1]}
    IN  SumOverEpochs({Result(m[1], m[2]) : m \in matches}, LAMBDA t, y :
            MapThenSumSet(LAMBDA m : Weight(At(1, t), m[1]) * DeltaAt(2, t, m[2]),
                          {m \in matches : Result(m[1], m[2]) = y}))

Negatives(x) == IF 2 * x > 12 THEN {-(4 * x), -(8 * x)} ELSE {}

Expected ==
    CASE prog.name = "two_relations" -> 2 :> AsSet(Now(1))
      [] prog.name = "semijoin" ->
            3 :> AsSet({<<a[2], a[2]>> : a \in {b \in Now(1) : \E c \in Now(2) : c[1] = b[1]}})
      [] prog.name = "join" ->
            LET joined == {<<ab[1][2], ab[2][2]>> :
                              ab \in {m \in Now(1) \X Now(2) : m[1][1] = m[2][1]}}
            IN  3 :> AsSet(joined) @@ 4 :> AsSet(joined)
      [] prog.name = "streamjoin" ->
               3 :> StreamPairs(LAMBDA a, s : <<a[2], s[2]>>)
            @@ 4 :> StreamPairs(LAMBDA a, s : <<s[2], a[2]>>)
            @@ 5 :> StreamPairs(LAMBDA a, s : <<a[2], a[2]>>)
            @@ 6 :> StreamPairs(LAMBDA a, s : <<s[2], s[2]>>)
      [] prog.name = "antijoin" ->
            3 :> AsSet({a \in Now(1) : \A b \in Now(2) : a[1] # b[1]})
      [] prog.name = "map" ->
            LET mapped == UNION {Negatives(x) : x \in Now(1)}
            IN  2 :> AsSet(mapped) @@ 4 :> AsSet(mapped)
                @@ 3 :> AsSet({Cardinality(mapped)} \ {0})
      [] prog.name = "delayed" ->
            2 :> At(1, Epoch - 1) @@ 4 :> Concat(At(1, Epoch), At(1, Epoch - 1))
            @@ 5 :> At(1, Epoch)
      [] prog.name = "recursion" ->
            2 :> AsSet(Ancestors(Now(1))) @@ 3 :> AsSet(CommonAncestors(Now(1)))
      [] prog.name = "negation" ->
               3 :> AsSet({a \in Now(1) : \A b \in Now(2) : a[1] # b[1]})
            @@ 4 :> AsSet({<<k, Cardinality({a \in Now(1) : a[1] = k /\ a[2] > 1})>> :
                           k \in {a[1] : a \in {b \in Now(1) : b[2] > 1}}})
            @@ 5 :> AsSet({<<ab[1][2], ab[2][2]>> :
                           ab \in {m \in Now(1) \X Now(2) : m[1][1] = m[2][1] /\ m[1][2] > 1}})
            @@ 6 :> Consolidate(Pairs, LAMBDA x : DeltaAt(1, Epoch, x))
      [] prog.name = "mutual" ->
            2 :> AsSet(OddPaths(Now(1))) @@ 3 :> AsSet(EvenPaths(Now(1)))
            @@ 4 :> AsSet({e[1] : e \in OddPaths(Now(1))})
      [] prog.name = "counter" ->
            2 :> Consolidate(0 .. 2, LAMBDA x :
                     MapThenSumSet(LAMBDA j : Weight(At(1, Epoch - 2 * j), (x - j) % 3),
                                   0 .. Epoch \div 2))

-----------------------------------------------------------------------------
(* Properties.                                                             *)

\* Rules over streams, whose records may be retracted before they are there.
UsesStreams(rule) ==
    \/ prog.name \in {"streamjoin", "delayed", "counter"}
    \/ \E op \in ToSet(rule.xform) : op.op = "Differentiate"

Committed == phase = "idle" /\ Epoch > 0

\* After every transaction the changes that the callbacks reported over all
\* epochs add up to what the rules mean for the present input: joins, negation,
\* aggregates, recursion with insertions and deletions, streams and delays.
OutputsExact ==
    Committed => \A r \in DOMAIN Expected : relset[r] = Expected[r]

\* No rule of a program without streams derives a record with a negative weight,
\* which threshold_total and diff_distinct would turn into a record that is
\* there ("FIXME: If `diff` is negative, this will promote it to `1`").
NoNegativeWeight ==
    Committed => \A n \in DOMAIN prog.nodes :
        prog.nodes[n].kind = "Rel" => \A rule \in NodeRules(prog, n) :
            \/ UsesStreams(rule)
            \/ LET last == Last(mk_rule(rule, OuterEnv))
               IN  \A x \in DOMAIN last : last[x] > 0

\* The nested scope reaches its fixpoint, also when facts are deleted: every iteration
\* but the last adds a fact to some variable.
ConvergesInTime ==
    iter <= 1 + Cardinality(Vertices \X Vertices) * 2

\* Once Enabled is retracted the longest delay is as long as data stays in flight.
DrainsInTime ==
    \A d \in DOMAIN prog.delayed : drained <= prog.delayed[d].delay

\* A stream join looks at the streamed changes only: an epoch in which nothing
\* is streamed leaves its output alone, whatever happens to the arranged side.
StreamsForget ==
    [][(prog.name = "streamjoin" /\ phase = "nodes" /\ phase' = "idle"
            /\ Changes(sessions[2])[Epoch] = Empty)
        => \A r \in 3 .. 6 : relset'[r] = relset[r]]_dfvars

\* Every transaction is evaluated to the end, and a stopped program comes to rest.
EvaluationEnds ==
    /\ phase = "nodes" ~> phase \in {"idle", "draining"}
    /\ phase = "draining" ~> phase = "stopped"

=============================================================================
