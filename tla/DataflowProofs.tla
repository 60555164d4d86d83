---------------------------- MODULE DataflowProofs ----------------------------
(***************************************************************************)
(* Proofs about Dataflow for all programs, functions and inputs: which     *)
(* programs are rendered, how long the traces of collections are, and that *)
(* the operators that the code has in two forms agree.                     *)
(***************************************************************************)
EXTENDS Dataflow, ZSetsProofs, SequenceTheorems

-----------------------------------------------------------------------------
(* Rendering *)

\* An arrangement of a relation of the program is found by the relation in it.
LEMMA ArrRelation ==
  ASSUME NEW p, NEW a, Kind(p, a) # "Unknown"
  PROVE  a \in ArrsOf(p, a[1]) /\ a[1] \in DOMAIN p.rels
  BY DEF Kind, AllArrs, ArrsOf

\* The arrangements of a relation are built when its node is rendered, if the node asks for them.
LEMMA BuiltEarlier ==
  ASSUME NEW p, WellFormed(p), NEW n \in DOMAIN p.nodes, NEW a, <<"arr", a>> \in NodeDeps(p, n),
         a \in ArrsOf(p, a[1]), NEW m \in DOMAIN p.nodes, m < n, a[1] \in NodeRels(p, m),
         p.nodes[m].kind # "Apply"
  PROVE  a \in GlobalArrs(p, n)
  <1>1. m \in 1 .. n - 1 /\ m # n
    BY DEF WellFormed
  <1>2. a \in UNION {ArrsOf(p, r) : r \in NodeRels(p, m)}
    OBVIOUS
  <1>3. CASE p.nodes[m].kind = "Rel"
    BY <1>1, <1>2, <1>3 DEF GlobalArrs
  <1>4. CASE p.nodes[m].kind = "Scc"
    <2>1. n \in arrangement_used_by_nodes(p, a)
      BY DEF arrangement_used_by_nodes
    <2>2. a \in OuterArrs(p, m)
      BY <1>1, <1>2, <2>1 DEF OuterArrs
    <2> QED  BY <1>1, <1>4, <2>2 DEF GlobalArrs
  <1> QED  BY <1>3, <1>4 DEF WellFormed

\* What exists when node n is rendered was built by an earlier node that is no transformer.
LEMMA BuiltBy ==
  ASSUME NEW p, WellFormed(p), NEW n \in DOMAIN p.nodes, NEW a, a \in GlobalArrs(p, n)
  PROVE  \E m \in DOMAIN p.nodes : m < n /\ a[1] \in NodeRels(p, m) /\ p.nodes[m].kind # "Apply"
  <1>1. PICK m \in 1 .. n - 1 :
              a \in CASE p.nodes[m].kind = "Rel" -> UNION {ArrsOf(p, r) : r \in NodeRels(p, m)}
                      [] p.nodes[m].kind = "Scc" -> OuterArrs(p, m)
                      [] OTHER -> {}
    BY DEF GlobalArrs
  <1>2. m \in DOMAIN p.nodes /\ m < n
    BY <1>1 DEF WellFormed
  <1>3. p.nodes[m].kind # "Apply" /\ a \in UNION {ArrsOf(p, r) : r \in NodeRels(p, m)}
    BY <1>1, <1>2 DEF WellFormed, OuterArrs
  <1>4. a[1] \in NodeRels(p, m)
    BY <1>3 DEF ArrsOf
  <1> QED  BY <1>2, <1>3, <1>4

\* A rule finds an arrangement exactly if its relation is in order.
LEMMA FindsArrangement ==
  ASSUME NEW p, WellFormed(p), NEW n \in DOMAIN p.nodes, NEW a, <<"arr", a>> \in NodeDeps(p, n),
         Kind(p, a) # "Unknown"
  PROVE  /\ Flavor(p, n, a) # "Unknown" <=> InOrder(p, n, <<"arr", a>>)
         /\ p.nodes[n].kind = "Rel" => (Flavor(p, n, a) = "Local" <=> InOrder(p, n, <<"arr", a>>))
  <1>1. a \in ArrsOf(p, a[1]) /\ a[1] \notin DOMAIN p.delayed
    BY ArrRelation DEF WellFormed
  <1>2. p.nodes[n].kind \in {"Rel", "Scc"}
    BY DEF NodeDeps, NodeRules, WellFormed
  <1> DEFINE Earlier == \E m \in DOMAIN p.nodes :
                           m < n /\ a[1] \in NodeRels(p, m) /\ p.nodes[m].kind # "Apply"
             Own == p.nodes[n].kind = "Scc" /\ a[1] \in NodeRels(p, n)
  <1>3. InOrder(p, n, <<"arr", a>>) <=> Earlier \/ Own
    BY <1>1 DEF InOrder
  <1>4. a \in GlobalArrs(p, n) <=> Earlier
    <2>1. ASSUME Earlier PROVE a \in GlobalArrs(p, n)
      BY <1>1, <2>1, BuiltEarlier
    <2>2. ASSUME a \in GlobalArrs(p, n) PROVE Earlier
      BY <2>2, BuiltBy
    <2> QED  BY <2>1, <2>2
  <1>5. a \in InnerArrs(p, n) <=> a[1] \in NodeRels(p, n)
    <2>1. n \in arrangement_used_by_nodes(p, a)
      BY DEF arrangement_used_by_nodes
    <2>2. ASSUME a \in InnerArrs(p, n) PROVE a[1] \in NodeRels(p, n)
      BY <2>2 DEF InnerArrs, ArrsOf
    <2>3. ASSUME a[1] \in NodeRels(p, n) PROVE a \in InnerArrs(p, n)
      BY <1>1, <2>1, <2>3 DEF InnerArrs
    <2> QED  BY <2>2, <2>3
  <1> HIDE DEF Earlier
  <1>6. CASE p.nodes[n].kind = "Rel"
    BY <1>3, <1>4, <1>6 DEF Flavor
  <1>7. CASE p.nodes[n].kind = "Scc"
    BY <1>3, <1>4, <1>5, <1>7 DEF Flavor
  <1> QED  BY <1>2, <1>6, <1>7

\* A rule finds a collection exactly if its relation is in order.
LEMMA FindsCollection ==
  ASSUME NEW p, WellFormed(p), NEW n \in DOMAIN p.nodes, NEW r, <<"rel", r>> \in NodeDeps(p, n),
         p.nodes[n].kind = "Scc" => r \notin DOMAIN p.delayed
  PROVE  r \in KnownRels(p, n) <=> InOrder(p, n, <<"rel", r>>)
  <1>1. p.nodes[n].kind \in {"Rel", "Scc"}
    BY DEF NodeDeps, NodeRules, WellFormed
  <1> DEFINE Earlier == \E m \in DOMAIN p.nodes : m < n /\ r \in NodeRels(p, m)
  <1>2. InOrder(p, n, <<"rel", r>>) <=>
            \/ r \in DOMAIN p.delayed
            \/ Earlier /\ r \notin NodeRels(p, n)
            \/ p.nodes[n].kind = "Scc" /\ r \in NodeRels(p, n)
    BY DEF InOrder
  <1>3. r \in UNION {NodeRels(p, m) : m \in 1 .. n - 1} <=> Earlier
    BY DEF WellFormed
  <1> HIDE DEF Earlier
  <1> QED  BY <1>1, <1>2, <1>3 DEF KnownRels

\* What the operators and the source of a rule refer to, among the dependencies of the node.
LEMMA DepsOf ==
  ASSUME NEW p, NEW n \in DOMAIN p.nodes, NEW rule \in NodeRules(p, n)
  PROVE  /\ <<rule.src, rule.id>> \in NodeDeps(p, n)
         /\ \A op \in ToSet(rule.xform) : OpDeps(op) \subseteq NodeDeps(p, n)
  BY DEF NodeDeps, RuleDeps

\* An operator is rendered exactly if what it refers to is in order.
LEMMA OperatorRenders ==
  ASSUME NEW p, WellFormed(p), NEW n \in DOMAIN p.nodes, NEW rule \in NodeRules(p, n),
         NEW op \in ToSet(rule.xform), OpKinds(p, n, op)
  PROVE  OpRenders(p, n, op) <=> \A dep \in OpDeps(op) : InOrder(p, n, dep)
  <1>1. OpDeps(op) \subseteq NodeDeps(p, n)
    BY DepsOf
  <1>2. CASE op.op \in {"Join", "Semijoin", "Antijoin", "StreamJoin", "StreamSemijoin"}
    <2>1. OpDeps(op) = {<<"arr", op.arr>>}
      BY <1>2 DEF OpDeps
    <2>2. Kind(p, op.arr) # "Unknown"
      BY <1>2 DEF OpKinds
    <2>3. /\ Flavor(p, n, op.arr) # "Unknown" <=> InOrder(p, n, <<"arr", op.arr>>)
          /\ p.nodes[n].kind = "Rel" =>
                (Flavor(p, n, op.arr) = "Local" <=> InOrder(p, n, <<"arr", op.arr>>))
      BY <1>1, <2>1, <2>2, FindsArrangement
    <2> QED  BY <1>2, <2>1, <2>3 DEF OpRenders, OpKinds
  <1>3. CASE op.op \in {"ArrStreamJoin", "ArrStreamSemijoin"}
    <2>1. OpDeps(op) = {<<"rel", op.rel>>}
      BY <1>3 DEF OpDeps
    <2>2. op.rel \in KnownRels(p, n) <=> InOrder(p, n, <<"rel", op.rel>>)
      BY <1>1, <1>3, <2>1, FindsCollection DEF OpKinds
    <2> QED  BY <1>3, <2>1, <2>2 DEF OpRenders, OpKinds
  <1>4. CASE op.op \notin {"Join", "Semijoin", "Antijoin", "StreamJoin", "StreamSemijoin",
                           "ArrStreamJoin", "ArrStreamSemijoin"}
    BY <1>4 DEF OpDeps, OpRenders, OpKinds
  <1> QED  BY <1>2, <1>3, <1>4

\* A rule is rendered exactly if what it refers to is in order.
LEMMA RuleIsRendered ==
  ASSUME NEW p, WellFormed(p), NEW n \in DOMAIN p.nodes, NEW rule \in NodeRules(p, n),
         RuleKinds(p, n, rule)
  PROVE  RuleRenders(p, n, rule) <=> \A dep \in RuleDeps(rule) : InOrder(p, n, dep)
  <1>1. \A op \in ToSet(rule.xform) : OpRenders(p, n, op) <=> \A dep \in OpDeps(op) : InOrder(p, n, dep)
    BY OperatorRenders DEF RuleKinds
  <1>2. <<rule.src, rule.id>> \in NodeDeps(p, n)
    BY DepsOf
  <1> DEFINE Start == /\ rule.src = "rel" => rule.id \in KnownRels(p, n)
                      /\ rule.src = "arr" => Flavor(p, n, rule.id) # "Unknown" /\ Kind(p, rule.id) = "map"
  <1>3. Start <=> InOrder(p, n, <<rule.src, rule.id>>)
    <2>1. CASE rule.src = "rel"
      BY <1>2, <2>1, FindsCollection DEF RuleKinds
    <2>2. CASE rule.src = "arr"
      BY <1>2, <2>2, FindsArrangement DEF RuleKinds
    <2> QED  BY <2>1, <2>2 DEF RuleKinds
  <1>4. RuleRenders(p, n, rule) <=> Start /\ \A op \in ToSet(rule.xform) : OpRenders(p, n, op)
    BY DEF RuleRenders, RuleKinds
  <1>5. (\A dep \in RuleDeps(rule) : InOrder(p, n, dep)) <=>
            /\ InOrder(p, n, <<rule.src, rule.id>>)
            /\ \A op \in ToSet(rule.xform) : \A dep \in OpDeps(op) : InOrder(p, n, dep)
    BY DEF RuleDeps
  <1> HIDE DEF Start
  <1> QED  BY <1>1, <1>3, <1>4, <1>5

\* Rendering goes through exactly for the programs whose nodes are in dependency order.
LEMMA RendersExactly ==
  ASSUME NEW p \in Programs
  PROVE  Renders(p) <=> WellOrdered(p)
  <1>1. WellFormed(p) /\ WellKinded(p)
    BY ProgramsAssumption
  <1>2. ASSUME NEW n \in DOMAIN p.nodes
        PROVE  (\A rule \in NodeRules(p, n) : RuleRenders(p, n, rule)) <=>
                    \A dep \in NodeDeps(p, n) : InOrder(p, n, dep)
    <2>1. \A rule \in NodeRules(p, n) :
            RuleRenders(p, n, rule) <=> \A dep \in RuleDeps(rule) : InOrder(p, n, dep)
      BY <1>1, RuleIsRendered DEF WellKinded
    <2>2. (\A dep \in NodeDeps(p, n) : InOrder(p, n, dep)) <=>
            \A rule \in NodeRules(p, n) : \A dep \in RuleDeps(rule) : InOrder(p, n, dep)
      BY DEF NodeDeps
    <2> QED  BY <2>1, <2>2
  <1>3. \A d \in DOMAIN p.delayed :
            \E n \in DOMAIN p.nodes : p.delayed[d].rel \in NodeRels(p, n)
    BY <1>1 DEF WellFormed
  <1> QED  BY <1>2, <1>3 DEF Renders, WellOrdered

\* The program never changes.
RInv == prog \in Programs /\ RendersWellOrdered

\* session_dataflow panics on the programs whose nodes are not in dependency order, and on no
\* others, for every program that the compiler can declare: render_scc builds inside and outside
\* of the nested scope all arrangements that its own rules and later nodes look up.
THEOREM RenderingIsComplete == Spec => []RendersWellOrdered
  <1> USE DEF RInv
  <1>1. Init => RInv
    BY DEF Init, RendersWellOrdered
  <1>2. RInv => RendersWellOrdered
    OBVIOUS
  <1>3. RInv /\ [Next]_dfvars => RInv'
    <2> SUFFICES ASSUME prog \in Programs, RendersWellOrdered, [Next]_dfvars
                 PROVE  prog' \in Programs /\ RendersWellOrdered'
      OBVIOUS
    <2>1. prog' = prog
      BY DEF Next, dfvars, session_dataflow, transaction_commit, stop, Evaluate, drain, terminate,
                  Ended, render_relation, apply_transformer, enter_scc, iterate_scc, leave_scc,
                  report_changes, Advance
    <2>2. CASE session_dataflow
      <3>1. Renders(prog) <=> WellOrdered(prog)
        BY RendersExactly
      <3>2. phase' = IF Renders(prog) THEN "idle" ELSE "failed"
        BY <2>2 DEF session_dataflow
      <3> QED  BY <2>1, <3>1, <3>2 DEF RendersWellOrdered
    <2>3. CASE Ended \/ UNCHANGED dfvars
      BY <2>3 DEF Ended, dfvars, RendersWellOrdered
    <2>4. CASE transaction_commit \/ stop \/ Evaluate \/ drain \/ terminate
      <3>1. phase \notin {"build", "failed"} /\ phase' \notin {"build", "failed"}
        BY <2>4 DEF transaction_commit, stop, Evaluate, drain, terminate, render_relation,
                    apply_transformer, enter_scc, iterate_scc, leave_scc, report_changes, Advance
      <3> QED  BY <2>1, <3>1 DEF RendersWellOrdered
    <2> QED  BY <2>2, <2>3, <2>4 DEF Next
  <1> HIDE DEF RInv
  <1> QED  BY <1>1, <1>2, <1>3, PTL DEF Spec

-----------------------------------------------------------------------------
(* Lengths of traces *)

\* s has one value for each of n epochs.
IsTrace(s, n) == n \in Nat /\ s = [t \in 1 .. n |-> s[t]]

\* A trace is a sequence.
LEMMA TraceIsSequence ==
  ASSUME NEW s, NEW n, IsTrace(s, n)
  PROVE  /\ \E S : s \in Seq(S)
         /\ Len(s) = n /\ DOMAIN s = 1 .. n
  <1>1. n \in Nat /\ DOMAIN s = 1 .. n
    BY DEF IsTrace
  <1> DEFINE S == {s[t] : t \in 1 .. n}
  <1>2. s \in [1 .. n -> S]
    BY DEF IsTrace
  <1>3. s \in Seq(S) /\ Len(s) = n
    BY <1>1, <1>2, SeqDef, LenProperties
  <1> QED  BY <1>1, <1>3

\* A trace of n + 1 epochs extends one of n epochs.
LEMMA TraceAppend ==
  ASSUME NEW s, NEW n, IsTrace(s, n), NEW x
  PROVE  IsTrace(Append(s, x), n + 1)
  <1>1. PICK S : s \in Seq(S)
    BY TraceIsSequence
  <1>2. Len(s) = n /\ n \in Nat
    BY TraceIsSequence DEF IsTrace
  <1>3. s \in Seq(S \cup {x}) /\ x \in S \cup {x}
    <2>1. s \in [1 .. n -> S]
      BY <1>1, <1>2, LenProperties
    <2>2. s \in [1 .. n -> S \cup {x}]
      BY <2>1
    <2> QED  BY <1>2, <2>2, SeqDef
  <1>4. /\ Append(s, x) \in Seq(S \cup {x})
        /\ Len(Append(s, x)) = n + 1
    BY <1>2, <1>3, AppendProperties
  <1>5. Append(s, x) \in [1 .. n + 1 -> S \cup {x}]
    BY <1>4, LenProperties
  <1> QED  BY <1>2, <1>5 DEF IsTrace

\* The node of a relation, or a transformer that makes it, has been evaluated in this epoch.
Evaluated(r) == \E m \in 1 .. node - 1 : r \in NodeRels(prog, m)

\* The number of epochs that the trace of a collection covers.
Covers(r) == IF phase \in {"nodes", "scc"} /\ ~Evaluated(r) THEN Epoch - 1 ELSE Epoch

\* Inductive: every collection covers the epochs before, and the present one as soon as its node
\* has been evaluated.
LInv ==
    /\ prog \in Programs
    /\ phase \in {"build", "idle", "nodes", "scc", "draining", "stopped", "failed"}
    /\ node \in 1 .. Len(prog.nodes) + 1
    /\ IsTrace(enabled, Epoch)
    /\ DOMAIN sessions = Inputs /\ \A r \in Inputs : IsTrace(sessions[r], Epoch)
    /\ DOMAIN collections = RelIds /\ \A r \in RelIds : IsTrace(collections[r], Covers(r))
    /\ phase \in {"nodes", "scc"} => Epoch > 0
    /\ phase = "scc" => node <= Len(prog.nodes) /\ Node.kind = "Scc"
    /\ DOMAIN vars = IF phase = "scc" THEN NodeRels(prog, node) ELSE {}

\* The relations of the program, and where they are evaluated.
LEMMA Nodes ==
  ASSUME LInv
  PROVE  /\ Len(prog.nodes) \in Nat /\ DOMAIN prog.nodes = 1 .. Len(prog.nodes)
         /\ Epoch \in Nat /\ node \in Nat /\ node >= 1
         /\ WellFormed(prog)
  BY ProgramsAssumption DEF LInv, WellFormed, IsTrace

\* Evaluating a node adds its relations to those that cover the epoch.
LEMMA EvaluatedNext ==
  ASSUME LInv, prog' = prog, node' = node + 1, NEW r
  PROVE  Evaluated(r)' <=> Evaluated(r) \/ r \in NodeRels(prog, node)
  <1>1. node \in Nat /\ node >= 1
    BY Nodes
  <1>2. 1 .. node' - 1 = (1 .. node - 1) \cup {node}
    BY <1>1
  <1>3. \A m : NodeRels(prog, m)' = NodeRels(prog, m)
    BY DEF NodeRels
  <1> QED  BY <1>2, <1>3 DEF Evaluated, NodeRels

\* A relation covers the epochs that its source covers.
LEMMA RelationCovers ==
  ASSUME LInv, phase = "nodes", NEW r \in RelIds
  PROVE  IsTrace(RelationTrace(r), Epoch)
  <1>1. Epoch \in Nat
    BY Nodes
  <1>2. IsTrace(Source(r), Epoch)
    <2>1. CASE r \in Inputs
      <3>1. IsTrace(sessions[r], Epoch)
        BY <2>1 DEF LInv
      <3>2. (\E n \in 1 .. node - 1 : prog.nodes[n].kind = "Apply" /\ r \in NodeRels(prog, n)) =>
                IsTrace(collections[r], Epoch)
        BY DEF LInv, Covers, Evaluated
      <3> QED  BY <2>1, <3>1, <3>2 DEF Source
    <2>2. CASE r \notin Inputs /\ \E n \in 1 .. node - 1 :
                                       prog.nodes[n].kind = "Apply" /\ r \in NodeRels(prog, n)
      <3>1. Covers(r) = Epoch
        BY <2>2 DEF Covers, Evaluated
      <3>2. IsTrace(collections[r], Epoch)
        BY <3>1 DEF LInv
      <3> QED  BY <2>2, <3>2 DEF Source
    <2>3. CASE r \notin Inputs /\ ~\E n \in 1 .. node - 1 :
                                       prog.nodes[n].kind = "Apply" /\ r \in NodeRels(prog, n)
      BY <1>1, <2>3 DEF Source, IsTrace
    <2> QED  BY <2>1, <2>2, <2>3
  <1>3. PICK src, res : src = Source(r) /\ res = RuleResults(r)
    OBVIOUS
  <1>4. IsTrace(AddUp(src, res), Epoch)
    <2>1. DOMAIN src = 1 .. Epoch
      BY <1>2, <1>3 DEF IsTrace
    <2> QED  BY <1>1, <2>1, EagerIs DEF AddUp, IsTrace
  <1>5. PICK c : c = AddUp(src, res)
    OBVIOUS
  <1>6. IsTrace(Lift(c, Threshold), Epoch)
    <2>1. DOMAIN c = 1 .. Epoch
      BY <1>4, <1>5 DEF IsTrace
    <2> QED  BY <1>1, <2>1, EagerIs DEF Lift, IsTrace
  <1> QED  BY <1>3, <1>4, <1>5, <1>6 DEF RelationTrace

\* Nothing that a step leaves alone changes what is covered.
LEMMA SameCovers ==
  ASSUME LInv, UNCHANGED <<prog, sessions, enabled, collections, node, vars>>,
         phase' \in {"build", "idle", "nodes", "scc", "draining", "stopped", "failed"},
         phase \in {"nodes", "scc"} <=> phase' \in {"nodes", "scc"},
         phase = "scc" <=> phase' = "scc"
  PROVE  LInv'
  <1>1. \A r : Covers(r)' = Covers(r)
    BY DEF Covers, Evaluated, Epoch, NodeRels
  <1> QED  BY <1>1 DEF LInv, Epoch, Inputs, RelIds, Rel, Node, NodeRels

\* A transaction, stop and drain start an epoch.
LEMMA AdvanceCovers ==
  ASSUME LInv, phase \in {"idle", "draining"}, NEW upd, NEW now, Advance(upd, now)
  PROVE  LInv'
  <1>1. /\ enabled' = Append(enabled, now) /\ node' = 1 /\ phase' = "nodes"
        /\ UNCHANGED <<prog, collections, vars>>
        /\ DOMAIN sessions' = Inputs
        /\ \A r \in Inputs : \E z : sessions'[r] = Append(sessions[r], z)
    BY DEF Advance
  <1>2. Epoch \in Nat /\ Len(prog.nodes) \in Nat
    BY Nodes
  <1>3. IsTrace(enabled', Epoch + 1) /\ Epoch' = Epoch + 1
    <2>1. PICK e, n : e = enabled /\ n = Epoch
      OBVIOUS
    <2>2. IsTrace(e, n)
      BY <2>1 DEF LInv
    <2>3. IsTrace(Append(e, now), n + 1)
      BY <2>2, TraceAppend
    <2>4. Len(Append(e, now)) = n + 1
      BY <2>3, TraceIsSequence
    <2>5. Epoch' = Len(Append(e, now))
      BY <1>1, <2>1 DEF Epoch
    <2> QED  BY <1>1, <2>1, <2>3, <2>4, <2>5
  <1>4. ASSUME NEW r \in Inputs PROVE IsTrace(sessions'[r], Epoch + 1)
    <2>1. PICK s, z : s = sessions[r] /\ sessions'[r] = Append(s, z)
      BY <1>1
    <2>2. IsTrace(s, Epoch)
      BY <2>1 DEF LInv
    <2>3. IsTrace(Append(s, z), Epoch + 1)
      BY <2>2, TraceAppend
    <2> QED  BY <2>1, <2>3
  <1>5. ASSUME NEW r \in RelIds PROVE Covers(r)' = Epoch /\ Covers(r) = Epoch
    <2>1. ~Evaluated(r)'
      BY <1>1 DEF Evaluated
    <2> QED  BY <1>1, <1>2, <1>3, <2>1 DEF Covers
  <1>6. \A r \in RelIds : IsTrace(collections'[r], Covers(r)')
    BY <1>1, <1>5 DEF LInv
  <1>7. Inputs' = Inputs /\ RelIds' = RelIds
    BY <1>1 DEF Inputs, RelIds, Rel
  <1> QED  BY <1>1, <1>2, <1>3, <1>4, <1>6, <1>7 DEF LInv

\* A node of one relation is evaluated: its collection covers the epoch.
LEMMA NodeCovers ==
  ASSUME LInv, phase = "nodes", node <= Len(prog.nodes), NEW r \in RelIds, NEW c,
         NodeRels(prog, node) = {r}, IsTrace(c, Epoch),
         collections' = [collections EXCEPT ![r] = c], node' = node + 1,
         UNCHANGED <<prog, phase, sessions, enabled, vars>>
  PROVE  LInv'
  <1>1. Epoch \in Nat /\ Len(prog.nodes) \in Nat /\ node \in Nat
    BY Nodes
  <1>2. Epoch' = Epoch /\ Inputs' = Inputs /\ RelIds' = RelIds
    BY DEF Epoch, Inputs, RelIds, Rel
  <1>3. ASSUME NEW q \in RelIds PROVE IsTrace(collections'[q], Covers(q)')
    <2>1. Evaluated(q)' <=> Evaluated(q) \/ q = r
      BY EvaluatedNext
    <2>2. CASE q = r
      BY <1>2, <2>1, <2>2 DEF Covers, LInv
    <2>3. CASE q # r
      <3>1. Covers(q)' = Covers(q)
        BY <1>2, <2>1, <2>3 DEF Covers
      <3> QED  BY <2>3, <3>1 DEF LInv
    <2> QED  BY <2>2, <2>3
  <1>4. node' \in 1 .. Len(prog.nodes) + 1
    BY <1>1
  <1> QED  BY <1>2, <1>3, <1>4 DEF LInv

\* The nodes that are evaluated one at a time.
LEMMA RelationLInv ==
  ASSUME LInv, render_relation
  PROVE  LInv'
  <1>1. /\ phase = "nodes" /\ node <= Len(prog.nodes) /\ Node.kind = "Rel" /\ node' = node + 1
        /\ UNCHANGED <<prog, phase, sessions, enabled, vars>>
    BY DEF render_relation
  <1>2. PICK r \in NodeRels(prog, node) :
              collections' = [collections EXCEPT ![r] = RelationTrace(r)]
    BY DEF render_relation
  <1>3. NodeRels(prog, node) = {r} /\ r \in RelIds
    BY <1>1, <1>2, Nodes DEF WellFormed, Node, RelIds
  <1>4. IsTrace(RelationTrace(r), Epoch)
    BY <1>1, <1>3, RelationCovers
  <1>5. PICK c : c = RelationTrace(r)
    OBVIOUS
  <1> QED  BY <1>1, <1>2, <1>3, <1>4, <1>5, NodeCovers

LEMMA ApplyLInv ==
  ASSUME LInv, apply_transformer
  PROVE  LInv'
  <1>1. /\ phase = "nodes" /\ node <= Len(prog.nodes) /\ Node.kind = "Apply" /\ node' = node + 1
        /\ UNCHANGED <<prog, phase, sessions, enabled, vars>>
    BY DEF apply_transformer
  <1> DEFINE left == collections[Node.tfun.left]
             r == Node.rels[1]
             c == [t \in DOMAIN left |-> join_transformer(Node.tfun, left[t], collections[Node.tfun.right][t])]
  <1>2. collections' = [collections EXCEPT ![r] = c]
    BY DEF apply_transformer
  <1>3. node \in DOMAIN prog.nodes
    BY <1>1, Nodes
  <1>4. NodeRels(prog, node) = {r} /\ r \in RelIds
    BY <1>1, <1>3, Nodes DEF WellFormed, Node, RelIds
  <1>5. PICK m \in 1 .. node - 1 : Node.tfun.left \in NodeRels(prog, m)
    BY <1>1, <1>3, Nodes DEF WellFormed, Node
  <1>6. Node.tfun.left \in RelIds /\ Covers(Node.tfun.left) = Epoch
    BY <1>1, <1>3, <1>5, Nodes DEF WellFormed, Covers, Evaluated, RelIds
  <1>7. IsTrace(left, Epoch)
    BY <1>6 DEF LInv
  <1>8. IsTrace(c, Epoch)
    BY <1>7 DEF IsTrace
  <1> HIDE DEF r, c
  <1> QED  BY <1>1, <1>2, <1>4, <1>8, NodeCovers

\* A recursive component: its variables exist from when it is entered until it is left.
LEMMA EnterLInv ==
  ASSUME LInv, enter_scc
  PROVE  LInv'
  <1>1. /\ phase = "nodes" /\ phase' = "scc" /\ node <= Len(prog.nodes) /\ Node.kind = "Scc"
        /\ vars' = [r \in NodeRels(prog, node) |-> Empty]
        /\ UNCHANGED <<prog, sessions, enabled, collections, node>>
    BY DEF enter_scc
  <1>2. \A r : Covers(r)' = Covers(r)
    BY <1>1 DEF Covers, Evaluated, Epoch, NodeRels
  <1> QED  BY <1>1, <1>2 DEF LInv, Epoch, Inputs, RelIds, Rel, Node, NodeRels

LEMMA IterateLInv ==
  ASSUME LInv, iterate_scc
  PROVE  LInv'
  <1>1. /\ phase = "scc" /\ vars' = NextVars
        /\ UNCHANGED <<prog, phase, sessions, enabled, collections, node>>
    BY DEF iterate_scc
  <1>2. DOMAIN NextVars = NodeRels(prog, node)
    BY EagerIs DEF NextVars
  <1>3. \A r : Covers(r)' = Covers(r)
    BY <1>1 DEF Covers, Evaluated, Epoch, NodeRels
  <1> HIDE DEF NextVars
  <1>4. DOMAIN vars' = NodeRels(prog, node)
    BY <1>1, <1>2
  <1> QED  BY <1>1, <1>3, <1>4 DEF LInv, Epoch, Inputs, RelIds, Rel, Node, NodeRels

LEMMA LeaveLInv ==
  ASSUME LInv, leave_scc
  PROVE  LInv'
  <1>1. /\ phase = "scc" /\ phase' = "nodes" /\ node' = node + 1 /\ vars' = Empty
        /\ UNCHANGED <<prog, sessions, enabled>>
        /\ DOMAIN collections' = RelIds
        /\ \A r \in NodeRels(prog, node) : r \in RelIds =>
                collections'[r] = Append(collections[r], Leave(r))
        /\ \A r \in RelIds \ NodeRels(prog, node) : collections'[r] = collections[r]
    BY DEF leave_scc
  <1>2. Epoch \in Nat /\ Epoch > 0 /\ Len(prog.nodes) \in Nat /\ node \in Nat /\ node >= 1
        /\ node <= Len(prog.nodes) /\ node \in DOMAIN prog.nodes
        /\ prog.nodes[node].kind = "Scc"
    BY <1>1, Nodes DEF LInv, Node
  <1>3. Epoch' = Epoch /\ Inputs' = Inputs /\ RelIds' = RelIds
    BY <1>1 DEF Epoch, Inputs, RelIds, Rel
  <1>4. ASSUME NEW r \in RelIds PROVE IsTrace(collections'[r], Covers(r)')
    <2>1. Evaluated(r)' <=> Evaluated(r) \/ r \in NodeRels(prog, node)
      BY <1>1, EvaluatedNext
    <2>2. CASE r \in NodeRels(prog, node)
      <3>1. ~Evaluated(r)
        <4>1. ASSUME NEW m \in 1 .. node - 1, r \in NodeRels(prog, m) PROVE FALSE
          <5>1. m \in DOMAIN prog.nodes /\ m # node
            BY <1>2, Nodes
          <5> QED  BY <1>2, <2>2, <4>1, <5>1, Nodes DEF WellFormed
        <4> QED  BY <4>1 DEF Evaluated
      <3>2. PICK s, x : s = collections[r] /\ x = Leave(r)
        OBVIOUS
      <3>3. IsTrace(s, Epoch - 1)
        BY <1>1, <3>1, <3>2 DEF LInv, Covers
      <3>4. IsTrace(Append(s, x), Epoch - 1 + 1)
        BY <3>3, TraceAppend
      <3>5. Covers(r)' = Epoch
        BY <1>3, <2>1, <2>2 DEF Covers
      <3>6. Epoch - 1 + 1 = Epoch
        BY <1>2
      <3> QED  BY <1>1, <2>2, <3>2, <3>4, <3>5, <3>6
    <2>3. CASE r \notin NodeRels(prog, node)
      <3>1. Covers(r)' = Covers(r)
        BY <1>1, <1>3, <2>1, <2>3 DEF Covers
      <3> QED  BY <1>1, <2>3, <3>1 DEF LInv
    <2> QED  BY <2>2, <2>3
  <1>5. node' \in 1 .. Len(prog.nodes) + 1 /\ DOMAIN vars' = {}
    BY <1>1, <1>2 DEF Empty
  <1> QED  BY <1>1, <1>2, <1>3, <1>4, <1>5 DEF LInv

\* Once all nodes are evaluated every relation covers the epoch.
LEMMA ReportLInv ==
  ASSUME LInv, report_changes
  PROVE  LInv'
  <1>1. /\ phase = "nodes" /\ node > Len(prog.nodes) /\ phase' \in {"idle", "draining"}
        /\ UNCHANGED <<prog, sessions, enabled, collections, node, vars>>
    BY DEF report_changes
  <1>2. ASSUME NEW r \in RelIds PROVE Covers(r)' = Covers(r)
    <2>1. PICK n \in DOMAIN prog.nodes : r \in NodeRels(prog, n)
      BY Nodes DEF WellFormed, RelIds
    <2>2. n \in 1 .. node - 1
      BY <1>1, Nodes
    <2>3. Evaluated(r)
      BY <2>1, <2>2 DEF Evaluated
    <2> QED  BY <1>1, <2>3 DEF Covers, Epoch
  <1> QED  BY <1>1, <1>2 DEF LInv, Epoch, Inputs, RelIds, Rel, Node, NodeRels

\* Every collection has a value for every epoch once the epoch is over, and variables exist exactly
\* inside a recursive component, whatever the nodes of the program are and however often a component
\* iterates.
THEOREM TracesComplete == Spec => []TypeOK
  <1>1. Init => LInv
    <2> SUFFICES ASSUME Init PROVE LInv
      OBVIOUS
    <2> USE DEF Init
    <2>1. IsTrace(<<>>, 0) /\ Len(<<>>) = 0
      BY DEF IsTrace
    <2>2. Epoch = 0 /\ \A r : Covers(r) = 0
      BY <2>1 DEF Epoch, Covers
    <2>3. Len(prog.nodes) \in Nat
      BY ProgramsAssumption DEF WellFormed
    <2> QED  BY <2>1, <2>2, <2>3 DEF LInv, Empty
  <1>2. LInv /\ [Next]_dfvars => LInv'
    <2> SUFFICES ASSUME LInv, [Next]_dfvars PROVE LInv'
      OBVIOUS
    <2>1. CASE session_dataflow \/ terminate \/ Ended \/ UNCHANGED dfvars
      BY <2>1, SameCovers DEF session_dataflow, terminate, Ended, dfvars, LInv
    <2>2. CASE transaction_commit
      BY <2>2, AdvanceCovers DEF transaction_commit
    <2>3. CASE stop \/ drain
      BY <2>3, AdvanceCovers DEF stop, drain
    <2>4. CASE Evaluate
      BY <2>4, RelationLInv, ApplyLInv, EnterLInv, IterateLInv, LeaveLInv, ReportLInv DEF Evaluate
    <2> QED  BY <2>1, <2>2, <2>3, <2>4 DEF Next
  <1>3. LInv => TypeOK
    <2> SUFFICES ASSUME LInv, phase \in {"idle", "draining", "stopped"}, NEW r \in RelIds
                 PROVE  Len(collections[r]) = Epoch
      BY DEF LInv, TypeOK
    <2>1. IsTrace(collections[r], Epoch)
      BY DEF LInv, Covers
    <2> QED  BY <2>1, TraceIsSequence
  <1> QED  BY <1>1, <1>2, <1>3, PTL DEF Spec

-----------------------------------------------------------------------------
(* Operators *)

\* The sum that a map, filter or flat_map forms for a result.
MapWeight(z, f, y) == SumOver(z, {x \in DOMAIN z : y \in Fun(f, x)})

\* Applying a function to a finite Z-set gives a Z-set.
LEMMA ApplyWeights ==
  ASSUME NEW z, IsZSet(z), IsFiniteSet(DOMAIN z), NEW f
  PROVE  /\ IsZSet(Apply(f, z))
         /\ \A y : Weight(Apply(f, z), y) = MapWeight(z, f, y) /\ MapWeight(z, f, y) \in Int
  <1> DEFINE U == UNION {Fun(f, x) : x \in DOMAIN z}
             N == {y \in U : MapWeight(z, f, y) # 0}
             c == [y \in N |-> MapWeight(z, f, y)]
  <1>1. Apply(f, z) = c
    <2>1. Apply(f, z) = Eager(c)
      BY Zenon DEF Apply, FlatMap, Consolidate, MapWeight, SumOver
    <2> HIDE DEF c
    <2> QED  BY <2>1, EagerIs
  <1>2. ASSUME NEW y PROVE MapWeight(z, f, y) \in Int /\ (y \notin U => MapWeight(z, f, y) = 0)
    <2> DEFINE T == {x \in DOMAIN z : y \in Fun(f, x)}
    <2>1. IsFiniteSet(T) /\ \A x \in T : z[x] \in Int
      BY FS_Subset DEF IsZSet
    <2>2. SumOver(z, T) \in Int
      <3> HIDE DEF T
      <3> QED  BY <2>1, SumRemove
    <2>3. y \notin U => T = {}
      OBVIOUS
    <2>4. SumOver(z, {}) = 0
      BY SumEmpty
    <2> HIDE DEF U
    <2> QED  BY <2>2, <2>3, <2>4 DEF MapWeight
  <1> HIDE DEF U
  <1>3. IsZSet(c) /\ \A y : Weight(c, y) = MapWeight(z, f, y)
    BY <1>2 DEF IsZSet, Weight
  <1> HIDE DEF c
  <1> QED  BY <1>1, <1>2, <1>3

\* An arrangement is the same whether it is built inside a recursive component (diff_distinct) or at
\* the top level (threshold_total): a rule does not see which of the two it is joined with.
THEOREM ArrangementsAgree ==
  ASSUME NEW z, IsZSet(z), IsFiniteSet(DOMAIN z), NEW arng
  PROVE  build_arrangement(arng, z) = build_arrangement_root(arng, z)
  <1>1. IsZSet(Apply(arng.f, z))
    BY ApplyWeights
  <1>2. diff_distinct(Apply(arng.f, z)) = Threshold(Apply(arng.f, z))
    BY <1>1, DistinctExact
  <1> QED  BY <1>2 DEF build_arrangement, build_arrangement_root

\* The join of a stream with an arrangement in one epoch.
Matches(a, b, jf) == Join(a, b, LAMBDA k, v, x : Fun(jf, <<v, x>>))

\* A join is a Z-set.
LEMMA MatchesIsZSet ==
  ASSUME NEW a, IsZSet(a), IsFiniteSet(DOMAIN a), NEW b, IsZSet(b), IsFiniteSet(DOMAIN b), NEW jf
  PROVE  IsZSet(Matches(a, b, jf)) /\ (a = Empty => Matches(a, b, jf) = Empty)
  <1> DEFINE pairs == {p \in (DOMAIN a) \X (DOMAIN b) : p[1][1] = p[2][1]}
             R(p) == Fun(jf, <<p[1][2], p[2][2]>>)
             T(y) == {p \in pairs : y \in R(p)}
             W(y) == JoinWeight(a, b, T(y))
             U == UNION {R(p) : p \in pairs}
             c == [x \in {y \in U : W(y) # 0} |-> W(x)]
  <1>1. Matches(a, b, jf) = c
    <2>1. Matches(a, b, jf) = Eager(c)
      BY Zenon DEF Matches, Join, Consolidate, JoinWeight
    <2> HIDE DEF c
    <2> QED  BY <2>1, EagerIs
  <1>2. ASSUME NEW y PROVE W(y) \in Int
    <2>1. IsFiniteSet((DOMAIN a) \X (DOMAIN b))
      BY FS_Product
    <2>2. T(y) \subseteq (DOMAIN a) \X (DOMAIN b)
      OBVIOUS
    <2>3. \A p \in T(y) : a[p[1]] \in Int /\ b[p[2]] \in Int
      BY DEF IsZSet
    <2>4. PICK S : S = T(y)
      OBVIOUS
    <2>5. IsFiniteSet(S) /\ \A p \in S : a[p[1]] \in Int /\ b[p[2]] \in Int
      <3> HIDE DEF T
      <3> QED  BY <2>1, <2>2, <2>3, <2>4, FS_Subset
    <2>6. PICK f : f = Products(a, b, S)
      OBVIOUS
    <2>7. \A p \in S : f[p] \in Int
      BY <2>5, <2>6 DEF Products
    <2>8. SumOver(f, S) \in Int
      BY <2>5, <2>7, SumRemove
    <2>9. JoinWeight(a, b, S) = SumOver(f, S)
      BY <2>5, <2>6, JoinSum
    <2> HIDE DEF T
    <2> QED  BY <2>4, <2>8, <2>9
  <1>3. a = Empty => U = {}
    BY DEF Empty
  <1> HIDE DEF W, U
  <1>4. IsZSet(c)
    BY <1>2 DEF IsZSet
  <1>5. a = Empty => c = Empty
    BY <1>3 DEF Empty
  <1> HIDE DEF c
  <1> QED  BY <1>1, <1>4, <1>5

\* The equation of the accumulated changes d of the first m epochs.
Accumulates(a, d, m) == a = [t \in 1 .. m |-> IF t = 1 THEN d[1] ELSE Concat(a[t - 1], d[t])]

\* It has a solution.
LEMMA AccumulatesExists ==
  ASSUME NEW n \in Nat, NEW d
  PROVE  \E a : Accumulates(a, d, n)
  <1> DEFINE Bad == {m \in 0 .. n : ~\E a : Accumulates(a, d, m)}
  <1>1. Accumulates([t \in {} |-> d], d, 0)
    BY DEF Accumulates
  <1>2. SUFFICES ASSUME n \in Bad PROVE FALSE
    OBVIOUS
  <1>3. PICK m \in Bad : \A k \in Bad : m <= k
    <2>1. Bad \in SUBSET Nat /\ Bad # {}
      BY <1>2
    <2> HIDE DEF Bad
    <2> QED  BY <2>1, LeastNat
  <1>4. m \in 0 .. n /\ m # 0
    BY <1>1, <1>3
  <1>5. m - 1 \in 0 .. n /\ m - 1 \notin Bad
    BY <1>3, <1>4
  <1>6. PICK a : Accumulates(a, d, m - 1)
    BY <1>5
  <1> DEFINE b == [t \in 1 .. m |-> IF t < m THEN a[t]
                                    ELSE IF m = 1 THEN d[1] ELSE Concat(a[m - 1], d[m])]
  <1>7. ASSUME NEW t \in 1 .. m
        PROVE  b[t] = IF t = 1 THEN d[1] ELSE Concat(b[t - 1], d[t])
    <2>1. CASE t < m
      <3>1. t \in 1 .. m - 1
        BY <1>4, <2>1
      <3>2. a[t] = IF t = 1 THEN d[1] ELSE Concat(a[t - 1], d[t])
        BY <1>6, <3>1 DEF Accumulates
      <3>3. t # 1 => b[t - 1] = a[t - 1]
        BY <2>1, <1>4
      <3> QED  BY <2>1, <3>2, <3>3
    <2>2. CASE ~(t < m)
      <3>1. t = m
        BY <1>4, <2>2
      <3>2. m # 1 => b[m - 1] = a[m - 1]
        BY <1>4
      <3> QED  BY <3>1, <3>2
    <2> QED  BY <2>1, <2>2
  <1>8. Accumulates(b, d, m)
    BY <1>7 DEF Accumulates
  <1> HIDE DEF b
  <1> QED  BY <1>3, <1>8

\* Accumulate adds one change after the other, and the sums are Z-sets.
LEMMA AccumulateSteps ==
  ASSUME NEW n \in Nat, NEW d, DOMAIN d = 1 .. n, \A t \in 1 .. n : IsZSet(d[t])
  PROVE  \A t \in 1 .. n :
            /\ IsZSet(Accumulate(d)[t])
            /\ t # 1 => Accumulate(d)[t] = Concat(Accumulate(d)[t - 1], d[t])
  <1> DEFINE Eq(a) == a = [t \in DOMAIN d |-> IF t = 1 THEN d[1] ELSE Concat(a[t - 1], d[t])]
             acc == CHOOSE a : Eq(a)
  <1>1. Accumulate(d) = acc
    BY EagerIs DEF Accumulate
  <1>2. Accumulates(acc, d, n)
    <2>1. \A a : Accumulates(a, d, n) <=> Eq(a)
      BY DEF Accumulates
    <2>2. \E a : Eq(a)
      BY <2>1, AccumulatesExists
    <2> HIDE DEF Eq
    <2>3. Eq(acc)
      BY <2>2
    <2> QED  BY <2>1, <2>3
  <1> HIDE DEF acc
  <1>3. \A t \in 1 .. n : acc[t] = IF t = 1 THEN d[1] ELSE Concat(acc[t - 1], d[t])
    BY <1>2 DEF Accumulates
  <1> DEFINE Bad == {t \in 1 .. n : ~IsZSet(acc[t])}
  <1>4. Bad = {}
    <2> SUFFICES ASSUME Bad # {} PROVE FALSE
      OBVIOUS
    <2>1. PICK t \in Bad : \A u \in Bad : t <= u
      <3>1. Bad \in SUBSET Nat
        OBVIOUS
      <3> HIDE DEF Bad
      <3> QED  BY <3>1, LeastNat
    <2>2. t # 1
      BY <1>3, <2>1
    <2>3. t \in 1 .. n /\ t - 1 \in 1 .. n /\ t - 1 \notin Bad
      BY <2>1, <2>2
    <2>4. IsZSet(acc[t - 1]) /\ IsZSet(d[t])
      BY <2>3
    <2>5. IsZSet(Concat(acc[t - 1], d[t]))
      BY <2>4, ConcatWeights
    <2> QED  BY <1>3, <2>1, <2>2, <2>5
  <1> QED  BY <1>1, <1>3, <1>4

\* Nothing changes where nothing is added.
LEMMA ConcatEmpty ==
  ASSUME NEW z, IsZSet(z)
  PROVE  Concat(z, Empty) = z /\ Minus(z, z) = Empty
  <1>1. IsZSet(Empty) /\ \A x : Weight(Empty, x) = 0
    BY DEF Empty, IsZSet, Weight
  <1>2. \A x : Weight(z, x) \in Int
    BY WeightType
  <1>3. PICK e : e = Empty
    OBVIOUS
  <1>4. IsZSet(Concat(z, e)) /\ \A x : Weight(Concat(z, e), x) = Weight(z, x)
    BY <1>1, <1>2, <1>3, ConcatWeights
  <1>5. IsZSet(Minus(z, z)) /\ \A x : Weight(Minus(z, z), x) = Weight(e, x)
    BY <1>1, <1>2, <1>3, MinusWeights
  <1> QED  BY <1>1, <1>3, <1>4, <1>5, WeightsDetermine

\* Traces of finite Z-sets.
IsFiniteTrace(s, n) == IsTrace(s, n) /\ \A t \in 1 .. n : IsZSet(s[t]) /\ IsFiniteSet(DOMAIN s[t])

\* A difference of finite Z-sets is finite.
LEMMA MinusFinite ==
  ASSUME NEW a, IsFiniteSet(DOMAIN a), NEW b, IsFiniteSet(DOMAIN b)
  PROVE  IsFiniteSet(DOMAIN Minus(a, b))
  <1>1. DOMAIN Minus(a, b) \subseteq DOMAIN a \cup DOMAIN b
    <2> DEFINE n == [x \in DOMAIN b |-> -b[x]]
               N == {x \in DOMAIN a \cup DOMAIN n : Weight(a, x) + Weight(n, x) # 0}
    <2>1. Minus(a, b) = [x \in N |-> Weight(a, x) + Weight(n, x)]
      BY EagerIs DEF Minus, Negate, Concat, Consolidate
    <2> QED  BY <2>1
  <1> QED  BY <1>1, FS_Union, FS_Subset

\* A stream is joined with what the arrangement has when the record is streamed: an epoch in which the
\* streamed relation does not change leaves the result of the join alone, whatever happens to the
\* arrangement in it.
THEOREM StreamJoinForgets ==
  ASSUME NEW n \in Nat, NEW c, NEW arr, NEW op, IsFiniteTrace(MapCollection(op, c), n),
         IsFiniteTrace(arr, n), NEW t \in 2 .. n, c[t] = c[t - 1], DOMAIN c = 1 .. n
  PROVE  StreamJoin(op, c, arr)[t] = StreamJoin(op, c, arr)[t - 1]
  <1>1. PICK s : s = MapCollection(op, c)
    OBVIOUS
  <1> DEFINE ch == Changes(s)
             d == [u \in DOMAIN s |-> Matches(ch[u], arr[u], op.jfun)]
  <1>2. StreamJoin(op, c, arr) = Accumulate(d)
    <2>1. StreamJoin(op, c, arr) = Accumulate(Eager(d))
      BY <1>1, Zenon DEF StreamJoin, StreamLookup, Matches
    <2> HIDE DEF d
    <2> QED  BY <2>1, EagerIs
  <1>3. DOMAIN s = 1 .. n /\ \A u \in 1 .. n : IsZSet(s[u]) /\ IsFiniteSet(DOMAIN s[u])
    BY <1>1 DEF IsFiniteTrace, IsTrace
  <1>4. \A u \in 1 .. n : ch[u] = IF u = 1 THEN s[1] ELSE Minus(s[u], s[u - 1])
    BY <1>3, EagerIs DEF Changes
  <1>5. t \in 1 .. n /\ t - 1 \in 1 .. n /\ t # 1
    OBVIOUS
  <1>6. s[t] = s[t - 1]
    <2>1. s = [u \in 1 .. n |-> Apply(op.f, c[u])]
      BY <1>1, EagerIs DEF MapCollection, Lift
    <2> QED  BY <1>5, <2>1
  <1>7. ch[t] = Empty
    BY <1>3, <1>4, <1>5, <1>6, ConcatEmpty
  <1>8. ASSUME NEW u \in 1 .. n PROVE IsZSet(ch[u]) /\ IsFiniteSet(DOMAIN ch[u])
    <2>1. CASE u = 1
      BY <1>3, <1>4, <2>1
    <2>2. CASE u # 1
      <3>1. u - 1 \in 1 .. n
        BY <2>2
      <3>2. IsZSet(Minus(s[u], s[u - 1])) /\ IsFiniteSet(DOMAIN Minus(s[u], s[u - 1]))
        BY <1>3, <3>1, MinusWeights, MinusFinite
      <3> QED  BY <1>4, <2>2, <3>2
    <2> QED  BY <2>1, <2>2
  <1> HIDE DEF ch
  <1>9. ASSUME NEW u \in 1 .. n
        PROVE  IsZSet(d[u]) /\ (ch[u] = Empty => d[u] = Empty)
    <2>1. PICK a, b, jf : a = ch[u] /\ b = arr[u] /\ jf = op.jfun
      OBVIOUS
    <2>2. IsZSet(b) /\ IsFiniteSet(DOMAIN b)
      BY <2>1 DEF IsFiniteTrace
    <2>3. IsZSet(Matches(a, b, jf)) /\ (a = Empty => Matches(a, b, jf) = Empty)
      BY <1>8, <2>1, <2>2, MatchesIsZSet
    <2>4. d[u] = Matches(a, b, jf)
      BY <1>3, <2>1
    <2> QED  BY <2>1, <2>3, <2>4
  <1>10. DOMAIN d = 1 .. n
    BY <1>3
  <1> HIDE DEF d
  <1>11. /\ IsZSet(Accumulate(d)[t - 1])
         /\ Accumulate(d)[t] = Concat(Accumulate(d)[t - 1], d[t])
    BY <1>5, <1>9, <1>10, AccumulateSteps
  <1>12. d[t] = Empty
    BY <1>5, <1>7, <1>9
  <1>13. Concat(Accumulate(d)[t - 1], Empty) = Accumulate(d)[t - 1]
    BY <1>11, ConcatEmpty
  <1> QED  BY <1>2, <1>11, <1>12, <1>13
=============================================================================
