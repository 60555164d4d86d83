------------------------------- MODULE Dataflow -------------------------------
(***************************************************************************)
(* How a program computes its relations: the nodes of the program, rendered *)
(* by session_dataflow, turn the input of every epoch into collections and *)
(* arrangements, and the changes of the output relations are reported to   *)
(* the client.                                                             *)
(*                                                                         *)
(* Differential dataflow is incremental; what it promises is that a        *)
(* collection accumulated up to an epoch is the operator applied to the    *)
(* accumulated inputs.  A collection is therefore modelled by its trace,   *)
(* the Z-set it accumulates to in every epoch so far, and the operators    *)
(* that look at changes (streams, Differentiate, delayed relations) are    *)
(* functions of traces.  A nested scope computes one epoch: its variables  *)
(* are stepped until they no longer change.                                *)
(*                                                                         *)
(* A program is a record:                                                  *)
(*   rels     id -> [input, distinct, fixpoint, rules, arrs]               *)
(*   nodes    sequence of [kind |-> "Rel", rels |-> <<id>>],               *)
(*            [kind |-> "Scc", rels |-> <<id, ...>>] and                   *)
(*            [kind |-> "Apply", rels |-> <<id>>, tfun |-> ...]            *)
(*   delayed  id -> [rel, delay]                                           *)
(*   updates  what a client may change: set of <<id, record, weight>>      *)
(* A rule starts at a relation (src = "rel") or an arrangement and has a   *)
(* chain of operators; an operator names the functions it applies, which   *)
(* Fun evaluates.                                                          *)
(***************************************************************************)
EXTENDS ZSets, SequencesExt

CONSTANTS
    Programs,       \* the programs that may be run
    Fun(_, _),      \* Fun(f, x): the set of results of the function named f
    NoFun,          \* an operator without filter
    MaxEpochs(_),   \* number of transactions of a behaviour of a program
    MaxUpdates,     \* number of updates of a transaction
    DrainBound      \* number of epochs followed after stop

ASSUME DataflowAssumption ==
    /\ {MaxUpdates, DrainBound} \subseteq Nat
    /\ \A p \in Programs : MaxEpochs(p) \in Nat
    /\ \A p \in Programs : \A d \in DOMAIN p.delayed : p.delayed[d].delay > 0

VARIABLES
    prog,           \* the program that runs
    phase,          \* what the dataflow is doing
    sessions,       \* input relation -> trace of its input session
    enabled,        \* trace of the arrangement of the Enabled relation
    collections,    \* relation -> trace of its collection
    arrangements,   \* <<relation, number>> -> trace of a shared arrangement
    node,           \* the node that is evaluated next
    vars,           \* recursive relation -> value of its variable
    iter,           \* iterations of the nested scope so far
    relset,         \* relation -> what the client accumulated from callbacks
    drained         \* epochs since Enabled was retracted

dfvars == <<prog, phase, sessions, enabled, collections, arrangements, node,
            vars, iter, relset, drained>>

Epoch == Len(enabled)
RelIds == DOMAIN prog.rels
Inputs == {r \in RelIds : prog.rels[r].input}
Rel(r) == prog.rels[r]
ArrsOf(p, r) == {<<r, i>> : i \in DOMAIN p.rels[r].arrs}
AllArrs(p) == UNION {ArrsOf(p, r) : r \in DOMAIN p.rels}
Arr(p, a) == p.rels[a[1]].arrs[a[2]]
NodeRels(p, n) == ToSet(p.nodes[n].rels)

-----------------------------------------------------------------------------
(* Operators of rules.                                                     *)

Apply(f, z) == FlatMap(z, LAMBDA v : Fun(f, v))

\* A filter of an arrangement looks at the values.
Keep(f, arr) ==
    IF f = NoFun THEN arr
    ELSE Lift(arr, LAMBDA z : FlatMap(z, LAMBDA kv : IF Fun(f, kv[2]) = {} THEN {} ELSE {kv}))

Values(z) == FlatMap(z, LAMBDA kv : {kv[2]})

\* lookup_map: the changes of an epoch are joined with the arrangement as it
\* is in that epoch; later changes of the arrangement do not matter.
StreamLookup(stream, arr, J(_, _, _)) ==
    LET delta == Changes(stream)
    IN  Accumulate(Eager([t \in DOMAIN stream |-> Join(delta[t], arr[t], J)]))

\* Operators that take an arrangement.
ArrFlatMap(op, c) ==
    Lift(Keep(op.ffun, c), LAMBDA z : Apply(op.f, Values(z)))

Aggregate(op, c) ==
    Lift(Keep(op.ffun, c), LAMBDA z : Values(Reduce(z, LAMBDA k, g : Fun(op.f, <<k, g>>))))

ArrJoin(op, c, arr) ==
    LET kept == Keep(op.ffun, c)
    IN  Eager([t \in DOMAIN c |->
            Join(kept[t], arr[t], LAMBDA k, v1, v2 : Fun(op.jfun, <<k, v1, v2>>))])

Antijoin(op, c, arr) ==
    LET kept == Keep(op.ffun, c)
    IN  Eager([t \in DOMAIN c |-> Values(antijoin_arranged(kept[t], arr[t]))])

\* Mutant of ArrStreamJoin: a full join instead of a lookup of the changes.
ArrStreamJoinFull(op, c, stream) ==
    LET keyed == Lift(stream, LAMBDA z :
                     FlatMap(z, LAMBDA v : {<<k, v>> : k \in Fun(op.kfun, v)}))
    IN  Eager([t \in DOMAIN c |->
            Join(keyed[t], c[t], LAMBDA k, v, a : Fun(op.jfun, <<a, v>>))])

ArrStreamJoin(op, c, stream) ==
    LET Keyed(v) == {<<k, v>> : k \in Fun(op.kfun, v)}
    IN  StreamLookup(Lift(stream, LAMBDA z : FlatMap(z, Keyed)), Keep(op.ffun, c),
                     LAMBDA k, v, a : Fun(op.jfun, <<a, v>>))

ArrStreamSemijoin(op, c, stream) ==
    LET Keys(v) == {<<k, Unit>> : k \in Fun(op.kfun, v)}
    IN  StreamLookup(Lift(stream, LAMBDA z : FlatMap(z, Keys)), Keep(op.ffun, c),
                     LAMBDA k, v, a : Fun(op.jfun, a))

xform_arrangement(op, c, env) ==
    CASE op.op = "ArrFlatMap" -> ArrFlatMap(op, c)
      [] op.op = "Aggregate" -> Aggregate(op, c)
      [] op.op \in {"Join", "Semijoin"} -> ArrJoin(op, c, env.arr[op.arr])
      [] op.op = "Antijoin" -> Antijoin(op, c, env.arr[op.arr])
      [] op.op = "ArrStreamJoin" -> ArrStreamJoin(op, c, env.coll[op.rel])
      [] op.op = "ArrStreamSemijoin" -> ArrStreamSemijoin(op, c, env.coll[op.rel])

ArrangementOps == {"ArrFlatMap", "Aggregate", "Join", "Semijoin", "Antijoin",
                   "ArrStreamJoin", "ArrStreamSemijoin"}

\* Operators that take a collection; Inspect changes nothing.
MapCollection(op, c) == Lift(c, LAMBDA z : Apply(op.f, z))

StreamJoin(op, c, arr) ==
    StreamLookup(MapCollection(op, c), arr, LAMBDA k, v, a : Fun(op.jfun, <<v, a>>))

StreamSemijoin(op, c, arr) ==
    StreamLookup(MapCollection(op, c), arr, LAMBDA k, v, u : Fun(op.jfun, v))

streamless_xform_collection(op, c, env) ==
    CASE op.op \in {"Arrange", "Map", "FlatMap", "Filter", "FilterMap"} -> MapCollection(op, c)
      [] op.op = "Inspect" -> c
      [] op.op = "Differentiate" -> Changes(c)
      [] op.op = "StreamJoin" -> StreamJoin(op, c, env.arr[op.arr])
      [] op.op = "StreamSemijoin" -> StreamSemijoin(op, c, env.arr[op.arr])
      [] op.op \in ArrangementOps -> xform_arrangement(op, c, env)

StreamlessChain(chain, c, env) ==
    FoldLeft(LAMBDA acc, op : streamless_xform_collection(op, acc, env), c, chain)

\* StreamXForm: the changes of every epoch are transformed on their own and the
\* results added up.  Its operators see no other collection or arrangement.
xform_collection(op, c, env) ==
    IF op.op = "StreamXForm"
    THEN Accumulate(StreamlessChain(op.xform, Changes(c), [coll |-> Empty, arr |-> Empty]))
    ELSE streamless_xform_collection(op, c, env)

mk_rule(rule, env) ==
    FoldLeft(LAMBDA acc, op : Eager(xform_collection(op, acc, env)),
             IF rule.src = "rel" THEN env.coll[rule.id] ELSE env.arr[rule.id],
             rule.xform)

-----------------------------------------------------------------------------
(* Arrangements of relations.                                              *)

\* Mutant of build_arrangement: a set arrangement is never made distinct.
build_arrangement_multi(arng, z) ==
    Apply(arng.f, z)

\* A map arrangement has pairs <<key, value>>, a set arrangement keys only;
\* a distinct set arrangement has every key once.
build_arrangement(arng, z) ==
    IF arng.kind = "set" /\ arng.distinct THEN diff_distinct(Apply(arng.f, z))
    ELSE Apply(arng.f, z)

\* Mutant of build_arrangement_root: a set arrangement is never made distinct.
build_arrangement_root_multi(arng, z) ==
    Apply(arng.f, z)

\* The same in the top-level scope, where timestamps are totally ordered.
build_arrangement_root(arng, z) ==
    IF arng.kind = "set" /\ arng.distinct THEN Threshold(Apply(arng.f, z))
    ELSE Apply(arng.f, z)

-----------------------------------------------------------------------------
(* What a program depends on, and whether it can be rendered.              *)

OpDeps(op) ==
    CASE op.op \in {"Join", "Semijoin", "Antijoin", "StreamJoin", "StreamSemijoin"} ->
            {<<"arr", op.arr>>}
      [] op.op \in {"ArrStreamJoin", "ArrStreamSemijoin"} -> {<<"rel", op.rel>>}
      [] OTHER -> {}

RuleDeps(rule) ==
    {<<rule.src, rule.id>>} \cup UNION {OpDeps(op) : op \in ToSet(rule.xform)}

NodeRules(p, n) ==
    IF p.nodes[n].kind = "Apply" THEN {}
    ELSE UNION {ToSet(p.rels[r].rules) : r \in NodeRels(p, n)}

NodeDeps(p, n) == UNION {RuleDeps(rule) : rule \in NodeRules(p, n)}

arrangement_used_by_nodes(p, a) ==
    {n \in DOMAIN p.nodes : <<"arr", a>> \in NodeDeps(p, n)}

\* Arrangements of a recursive component that are built inside its scope.
InnerArrs(p, n) ==
    {a \in UNION {ArrsOf(p, r) : r \in NodeRels(p, n)} :
        n \in arrangement_used_by_nodes(p, a)}

\* Mutant of OuterArrs: arrangements that are used inside are not built again.
OuterArrsUnused(p, n) ==
    {a \in UNION {ArrsOf(p, r) : r \in NodeRels(p, n)} :
        \/ Arr(p, a).queryable
        \/ n \notin arrangement_used_by_nodes(p, a)}

\* Arrangements of a recursive component that are built outside its scope.
OuterArrs(p, n) ==
    {a \in UNION {ArrsOf(p, r) : r \in NodeRels(p, n)} :
        \/ Arr(p, a).queryable
        \/ \E m \in arrangement_used_by_nodes(p, a) : m # n}

\* Arrangements that exist when node n is rendered.
GlobalArrs(p, n) ==
    UNION {CASE p.nodes[m].kind = "Rel" -> UNION {ArrsOf(p, r) : r \in NodeRels(p, m)}
             [] p.nodes[m].kind = "Scc" -> OuterArrs(p, m)
             [] OTHER -> {} : m \in 1 .. n - 1}

\* lookup_arr: where a rule of node n finds an arrangement.
Flavor(p, n, a) ==
    CASE p.nodes[n].kind = "Scc" /\ a \in InnerArrs(p, n) -> "Local"
      [] p.nodes[n].kind = "Rel" /\ a \in GlobalArrs(p, n) -> "Local"
      [] p.nodes[n].kind = "Scc" /\ a \in GlobalArrs(p, n) /\ a[1] \notin NodeRels(p, n) -> "Foreign"
      [] OTHER -> "Unknown"

\* Relations whose collection a rule of node n finds.  render_relation has taken its own
\* out of the map, even if a transformer made it.
KnownRels(p, n) ==
    LET earlier == UNION {NodeRels(p, m) : m \in 1 .. n - 1}
    IN  IF p.nodes[n].kind = "Scc" THEN earlier \cup NodeRels(p, n)
        ELSE (earlier \ NodeRels(p, n)) \cup DOMAIN p.delayed

Kind(p, a) == IF a \in AllArrs(p) THEN Arr(p, a).kind ELSE "Unknown"

\* No panic while rendering an operator of node n.
OpRenders(p, n, op) ==
    /\ op.op = "Join" => Flavor(p, n, op.arr) # "Unknown" /\ Kind(p, op.arr) = "map"
    /\ op.op \in {"Semijoin", "Antijoin"} =>
            Flavor(p, n, op.arr) # "Unknown" /\ Kind(p, op.arr) = "set"
    /\ op.op = "StreamJoin" => Flavor(p, n, op.arr) = "Local" /\ Kind(p, op.arr) = "map"
    /\ op.op = "StreamSemijoin" => Flavor(p, n, op.arr) = "Local" /\ Kind(p, op.arr) = "set"
    /\ op.op \in {"ArrStreamJoin", "ArrStreamSemijoin"} => op.rel \in KnownRels(p, n)
    /\ op.op = "Differentiate" => p.nodes[n].kind = "Rel"

RuleRenders(p, n, rule) ==
    /\ rule.src = "rel" => rule.id \in KnownRels(p, n)
    /\ rule.src = "arr" => Flavor(p, n, rule.id) # "Unknown" /\ Kind(p, rule.id) = "map"
    /\ \A op \in ToSet(rule.xform) : OpRenders(p, n, op)
    /\ \A i, j \in DOMAIN rule.xform :
            i < j /\ rule.xform[i].op \in ArrangementOps => rule.xform[j].op # "StreamXForm"

\* input_relations and render_scc refuse input relations in a recursive component.
NoRecursiveInput(p) ==
    \A n \in DOMAIN p.nodes :
        p.nodes[n].kind = "Scc" => \A r \in NodeRels(p, n) : ~p.rels[r].input

Renders(p) ==
    /\ NoRecursiveInput(p)
    /\ \A n \in DOMAIN p.nodes : \A rule \in NodeRules(p, n) : RuleRenders(p, n, rule)
    /\ \A d \in DOMAIN p.delayed :
            \E n \in DOMAIN p.nodes : p.delayed[d].rel \in NodeRels(p, n)

-----------------------------------------------------------------------------
(* What the compiler guarantees of a program.                              *)

\* Every relation has a node of its own or belongs to one recursive component, also one
\* that a transformer makes (get_relation panics otherwise); a transformer reads
\* relations of earlier nodes.
WellFormed(p) ==
    /\ Len(p.nodes) \in Nat /\ DOMAIN p.nodes = 1 .. Len(p.nodes)
    /\ \A n \in DOMAIN p.nodes :
            /\ p.nodes[n].kind \in {"Rel", "Scc", "Apply"}
            /\ NodeRels(p, n) \subseteq DOMAIN p.rels
            /\ p.nodes[n].kind # "Scc" => NodeRels(p, n) = {p.nodes[n].rels[1]}
    /\ \A r \in DOMAIN p.rels : \E n \in DOMAIN p.nodes :
            r \in NodeRels(p, n) /\ p.nodes[n].kind # "Apply"
    /\ \A m, n \in DOMAIN p.nodes :
            p.nodes[m].kind = "Scc" /\ NodeRels(p, m) \cap NodeRels(p, n) # {} => m = n
    /\ \A n \in DOMAIN p.nodes : p.nodes[n].kind = "Apply" =>
            \E m \in 1 .. n - 1 : p.nodes[n].tfun.left \in NodeRels(p, m)
    /\ \A d \in DOMAIN p.delayed :
            d \notin DOMAIN p.rels /\ p.delayed[d].rel \in DOMAIN p.rels

\* An operator of node n is given the kind of arrangement it takes; streams and
\* delayed relations are not used in recursive components.
OpKinds(p, n, op) ==
    /\ op.op \in {"Join", "StreamJoin"} => Kind(p, op.arr) = "map"
    /\ op.op \in {"Semijoin", "Antijoin", "StreamSemijoin"} => Kind(p, op.arr) = "set"
    /\ op.op \in {"StreamJoin", "StreamSemijoin", "Differentiate"} => p.nodes[n].kind = "Rel"
    /\ op.op \in {"ArrStreamJoin", "ArrStreamSemijoin"} /\ p.nodes[n].kind = "Scc" =>
            op.rel \notin DOMAIN p.delayed

RuleKinds(p, n, rule) ==
    /\ rule.src \in {"rel", "arr"}
    /\ rule.src = "arr" => Kind(p, rule.id) = "map"
    /\ rule.src = "rel" /\ p.nodes[n].kind = "Scc" => rule.id \notin DOMAIN p.delayed
    /\ \A op \in ToSet(rule.xform) : OpKinds(p, n, op)
    /\ \A i, j \in DOMAIN rule.xform :
            i < j /\ rule.xform[i].op \in ArrangementOps => rule.xform[j].op # "StreamXForm"

WellKinded(p) ==
    \A n \in DOMAIN p.nodes : \A rule \in NodeRules(p, n) : RuleKinds(p, n, rule)

ASSUME ProgramsAssumption == \A p \in Programs : WellFormed(p) /\ WellKinded(p)

-----------------------------------------------------------------------------
(* Epochs.                                                                 *)

\* Mutant of Delayed: the delayed relation is not joined with Enabled.
DelayedAlways(d) ==
    LET base == collections[prog.delayed[d].rel]
        k == prog.delayed[d].delay
    IN  Eager([t \in 1 .. Epoch |-> IF t > k THEN base[t - k] ELSE Empty])

\* A delayed relation: the changes of the base relation reappear delay epochs
\* later, for as long as Enabled has its record.
Delayed(d) ==
    LET base == collections[prog.delayed[d].rel]
        k == prog.delayed[d].delay
        v == Eager([t \in 1 .. Epoch |-> IF t > k THEN base[t - k] ELSE Empty])
    IN  StreamLookup(Lift(v, LAMBDA z : FlatMap(z, LAMBDA x : {<<Unit, x>>})),
                     enabled, LAMBDA u, x, w : {x})

\* What the rules of a top-level relation can refer to.
OuterEnv ==
    [coll |-> Eager([r \in RelIds \cup DOMAIN prog.delayed |->
                         IF r \in RelIds THEN collections[r] ELSE Delayed(r)]),
     arr |-> arrangements]

\* A relation starts from its input session unless a transformer made it.
Source(r) ==
    CASE r \in Inputs -> sessions[r]
      [] \E n \in 1 .. node - 1 : prog.nodes[n].kind = "Apply" /\ r \in NodeRels(prog, n) ->
            collections[r]
      [] OTHER -> [t \in 1 .. Epoch |-> Empty]

RuleResults(r) ==
    LET env == OuterEnv
    IN  Eager([i \in DOMAIN Rel(r).rules |-> mk_rule(Rel(r).rules[i], env)])

AddUp(source, results) ==
    Eager([t \in DOMAIN source |->
        Concatenate(<<source[t]>> \o [i \in DOMAIN results |-> results[i][t]])])

\* Rules are added up, and the result made distinct unless the set_update of
\* the input has done so.
RelationTrace(r) ==
    LET c == AddUp(Source(r), RuleResults(r))
    IN  IF ~Rel(r).input /\ Rel(r).distinct THEN Lift(c, Threshold) ELSE c

Node == prog.nodes[node]

render_relation ==
    /\ phase = "nodes" /\ node <= Len(prog.nodes) /\ Node.kind = "Rel"
    /\ \E r \in NodeRels(prog, node) : \E c \in {RelationTrace(r)} :
           /\ collections' = [collections EXCEPT ![r] = c]
           /\ arrangements' = [a \in AllArrs(prog) |->
                    IF a[1] = r
                    THEN Lift(c, LAMBDA z : build_arrangement_root(Arr(prog, a), z))
                    ELSE arrangements[a]]
    /\ node' = node + 1
    /\ UNCHANGED <<prog, phase, sessions, enabled, vars, iter, relset, drained>>

\* The transformer of the tests: a join of two relations.
join_transformer(f, x, y) ==
    Join(Apply(f.key, x), Apply(f.key, y), LAMBDA k, v1, v2 : Fun(f.jfun, <<k, v1, v2>>))

\* An Apply node runs a transformer on the collections.
apply_transformer ==
    /\ phase = "nodes" /\ node <= Len(prog.nodes) /\ Node.kind = "Apply"
    /\ LET left == collections[Node.tfun.left]
           right == collections[Node.tfun.right]
       IN  collections' = [collections EXCEPT ![Node.rels[1]] =
               [t \in DOMAIN left |-> join_transformer(Node.tfun, left[t], right[t])]]
    /\ node' = node + 1
    /\ UNCHANGED <<prog, phase, sessions, enabled, arrangements, vars, iter, relset, drained>>

-----------------------------------------------------------------------------
(* Recursive components.                                                   *)

\* The variables start empty: the loop feeds results back one iteration later.
enter_scc ==
    /\ phase = "nodes" /\ node <= Len(prog.nodes) /\ Node.kind = "Scc"
    /\ vars' = [r \in NodeRels(prog, node) |-> Empty]
    /\ iter' = 0
    /\ phase' = "scc"
    /\ UNCHANGED <<prog, sessions, enabled, collections, arrangements, node, relset, drained>>

\* What the rules of a recursive component refer to: its variables and their
\* arrangements, and what has entered the scope.
InnerEnv ==
    LET own == NodeRels(prog, node)
        entered == {r \in RelIds \ own : <<"rel", r>> \in NodeDeps(prog, node)}
        foreign == {a \in AllArrs(prog) : a[1] \notin own /\ <<"arr", a>> \in NodeDeps(prog, node)}
    IN  [coll |-> Eager([r \in own \cup entered |->
                       <<IF r \in own THEN vars[r] ELSE Last(collections[r])>>]),
         arr |-> Eager([a \in InnerArrs(prog, node) \cup foreign |->
                       <<IF a[1] \in own THEN build_arrangement(Arr(prog, a), vars[a[1]])
                         ELSE Last(arrangements[a])>>])]

\* Mutant of Feedback: the variable is not made distinct.
FeedbackRaw(r, env) ==
    Concatenate(Eager([i \in DOMAIN Rel(r).rules |-> mk_rule(Rel(r).rules[i], env)[1]]))

\* Variable: the rules are added up, made distinct if the fixpoint needs it, and
\* fed back.
Feedback(r, env) ==
    LET current == Concatenate(Eager([i \in DOMAIN Rel(r).rules |->
                                          mk_rule(Rel(r).rules[i], env)[1]]))
    IN  IF Rel(r).fixpoint THEN diff_distinct(current) ELSE current

\* Mutant of NextVars: only the first relation has a variable.
NextVarsFirst ==
    LET env == InnerEnv
    IN  Eager([r \in {Node.rels[1]} |-> Feedback(r, env)])

NextVars ==
    LET env == InnerEnv
    IN  Eager([r \in NodeRels(prog, node) |-> Feedback(r, env)])

iterate_scc ==
    /\ phase = "scc"
    /\ \E nv \in {NextVars} : nv # vars /\ vars' = nv
    /\ iter' = iter + 1
    /\ UNCHANGED <<prog, phase, sessions, enabled, collections, arrangements, node,
                   relset, drained>>

Leave(r) ==
    IF Rel(r).distinct /\ ~Rel(r).fixpoint THEN Threshold(vars[r]) ELSE vars[r]

leave_scc ==
    /\ phase = "scc"
    /\ NextVars = vars
    /\ collections' = [r \in RelIds |->
            IF r \in NodeRels(prog, node) THEN Append(collections[r], Leave(r))
            ELSE collections[r]]
    /\ arrangements' = [a \in AllArrs(prog) |->
            IF a \in OuterArrs(prog, node)
            THEN Append(arrangements[a], build_arrangement(Arr(prog, a), Leave(a[1])))
            ELSE arrangements[a]]
    /\ phase' = "nodes"
    /\ node' = node + 1
    /\ vars' = Empty
    /\ UNCHANGED <<prog, sessions, enabled, iter, relset, drained>>

-----------------------------------------------------------------------------
(* Transactions, callbacks and shutdown.                                   *)

Advance(upd, enabledNow) ==
    /\ sessions' = [r \in Inputs |->
            LET now == IF sessions[r] = <<>> THEN Empty ELSE Last(sessions[r])
                mine == {u \in upd : u[1] = r}
            IN  Append(sessions[r],
                       Concat(now, Consolidate({u[2] : u \in mine}, LAMBDA x :
                           MapThenSumSet(LAMBDA u : u[3], {u \in mine : u[2] = x}))))]
    /\ enabled' = Append(enabled, enabledNow)
    /\ node' = 1
    /\ phase' = "nodes"
    /\ UNCHANGED <<prog, collections, arrangements, vars, iter, relset>>

\* The updates that reach a session: a set holds a record at most once.
Effective(u) ==
    Rel(u[1]).distinct =>
        LET w == IF sessions[u[1]] = <<>> THEN 0 ELSE Weight(Last(sessions[u[1]]), u[2])
        IN  w + u[3] \in 0 .. 1

EnabledRecord == [x \in {<<Unit, Unit>>} |-> 1]

transaction_commit ==
    /\ phase = "idle" /\ Epoch < MaxEpochs(prog)
    /\ \E upd \in SUBSET {u \in prog.updates : Effective(u)} :
        /\ Cardinality(upd) <= MaxUpdates
        /\ Advance(upd, EnabledRecord)
    /\ UNCHANGED drained

\* The client's callback adds the weight of a change to what it has.
set_update(acc, change) == Concat(acc, change)

\* The consolidated changes of the epoch reach the callback of every relation.
report_changes ==
    /\ phase = "nodes" /\ node > Len(prog.nodes)
    /\ relset' = [r \in RelIds |-> set_update(relset[r], Changes(collections[r])[Epoch])]
    /\ phase' = IF Last(enabled) = Empty THEN "draining" ELSE "idle"
    /\ UNCHANGED <<prog, sessions, enabled, collections, arrangements, node, vars, iter, drained>>

\* Stopping retracts the record of Enabled in an epoch of its own.
stop ==
    /\ phase = "idle"
    /\ Advance({}, Empty)
    /\ UNCHANGED drained

\* Changes of a base relation that a delayed relation has yet to show.
InFlight ==
    \E d \in DOMAIN prog.delayed :
        \E t \in 1 .. Epoch :
            /\ t + prog.delayed[d].delay > Epoch
            /\ Changes(collections[prog.delayed[d].rel])[t] # Empty

\* The workers step on until no data is in flight.
drain ==
    /\ phase = "draining" /\ InFlight
    /\ drained < DrainBound
    /\ Advance({}, Empty)
    /\ drained' = drained + 1

terminate ==
    /\ phase = "draining" /\ ~InFlight
    /\ phase' = "stopped"
    /\ UNCHANGED <<prog, sessions, enabled, collections, arrangements, node, vars, iter,
                   relset, drained>>

-----------------------------------------------------------------------------
Init ==
    /\ prog \in Programs
    /\ phase = "build"
    /\ sessions = [r \in Inputs |-> <<>>]
    /\ enabled = <<>>
    /\ collections = [r \in RelIds |-> <<>>]
    /\ arrangements = [a \in AllArrs(prog) |-> <<>>]
    /\ node = 1
    /\ vars = Empty
    /\ iter = 0
    /\ relset = [r \in RelIds |-> Empty]
    /\ drained = 0

\* The dataflow is rendered once; a panic there is the end of the program.
session_dataflow ==
    /\ phase = "build"
    /\ phase' = IF Renders(prog) THEN "idle" ELSE "failed"
    /\ UNCHANGED <<prog, sessions, enabled, collections, arrangements, node, vars, iter,
                   relset, drained>>

Ended == phase \in {"failed", "stopped"} /\ UNCHANGED dfvars

Evaluate ==
    render_relation \/ apply_transformer \/ enter_scc \/ iterate_scc \/ leave_scc
    \/ report_changes

Next ==
    \/ session_dataflow \/ transaction_commit \/ stop \/ Evaluate
    \/ drain \/ terminate \/ Ended

\* Weak fairness of Evaluate, drain and terminate: workers step for as long as
\* there is work.  Working is when one of them is enabled.
Working ==
    \/ phase \in {"nodes", "scc"}
    \/ phase = "draining" /\ (InFlight => drained < DrainBound)

Fairness == []<>~Working \/ []<><<Evaluate \/ drain \/ terminate>>_dfvars

Spec == Init /\ [][Next]_dfvars /\ Fairness

-----------------------------------------------------------------------------
(* Properties.                                                             *)

\* TypeOK: traces of collections are as long as there are epochs once a
\* transaction is done, variables exist only inside a recursive component.
TypeOK ==
    /\ prog \in Programs
    /\ phase \in {"build", "idle", "nodes", "scc", "draining", "stopped", "failed"}
    /\ node \in 1 .. Len(prog.nodes) + 1
    /\ phase \in {"idle", "draining", "stopped"} =>
            \A r \in RelIds : Len(collections[r]) = Epoch
    /\ DOMAIN vars = IF phase = "scc" THEN NodeRels(prog, node) ELSE {}

\* The nodes of a program are in dependency order: what a rule refers to is delayed,
\* or comes from an earlier node or from the recursive component of the rule.  A
\* transformer makes no arrangements, and only a recursive component refers to itself.
InOrder(p, n, dep) ==
    LET r == IF dep[1] = "arr" THEN dep[2][1] ELSE dep[2]
    IN  \/ r \in DOMAIN p.delayed
        \/ p.nodes[n].kind = "Scc" /\ r \in NodeRels(p, n)
        \/ \E m \in DOMAIN p.nodes :
                /\ m < n /\ r \in NodeRels(p, m)
                /\ IF dep[1] = "arr" THEN p.nodes[m].kind # "Apply" ELSE r \notin NodeRels(p, n)

WellOrdered(p) ==
    /\ NoRecursiveInput(p)
    /\ \A n \in DOMAIN p.nodes : \A dep \in NodeDeps(p, n) : InOrder(p, n, dep)

\* A program is rendered without a panic exactly if its nodes are in dependency
\* order: every arrangement a rule looks up has then been built, inside or outside
\* the recursive component, and nothing is found that is evaluated later.
RendersWellOrdered == phase = "failed" <=> phase # "build" /\ ~WellOrdered(prog)

=============================================================================
