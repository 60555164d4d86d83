-------------------------------- MODULE ZSets --------------------------------
(***************************************************************************)
(* Collections of differential dataflow as Z-sets: functions from records  *)
(* to weights that are not zero.  A record that is not in the domain has   *)
(* weight zero.  The operators are the ones the rules of a program are     *)
(* built from.  A function applied to a record returns the SET of results: *)
(* no result for a filtered record, one for a map, any number for a        *)
(* flat_map.  An arrangement is a Z-set of pairs <<key, value>>; the value *)
(* is Unit when it is arranged as a set of keys.                           *)
(***************************************************************************)
EXTENDS Integers, FiniteSets, FiniteSetsExt, Sequences, TLC

CONSTANTS Unit

Empty == [x \in {} |-> 0]

\* The identity on functions.  TLC evaluates the values of a function each time
\* they are used; those of one that has been compared are evaluated once.
Eager(f) == IF f = Empty THEN Empty ELSE f

Weight(z, x) == IF x \in DOMAIN z THEN z[x] ELSE 0

\* consolidate: equal records are added up and records of weight zero vanish.
Consolidate(S, W(_)) ==
    LET nonzero == {x \in S : W(x) # 0}
    IN  Eager([x \in nonzero |-> W(x)])

Concat(a, b) ==
    Consolidate(DOMAIN a \cup DOMAIN b, LAMBDA x : Weight(a, x) + Weight(b, x))

Concatenate(zs) ==
    Consolidate(UNION {DOMAIN zs[i] : i \in DOMAIN zs},
                LAMBDA x : MapThenSumSet(LAMBDA i : Weight(zs[i], x), DOMAIN zs))

Negate(a) == Eager([x \in DOMAIN a |-> -a[x]])

Minus(a, b) == Concat(a, Negate(b))

\* map, filter, filter_map and flat_map.  F gives the set of the results for a record: a
\* flat_map whose iterator repeats a result, and so multiplies its weight, is not modelled.
FlatMap(z, F(_)) ==
    Consolidate(UNION {F(x) : x \in DOMAIN z},
                LAMBDA y : MapThenSumSet(LAMBDA x : z[x],
                                         {x \in DOMAIN z : y \in F(x)}))

-----------------------------------------------------------------------------
(* Distinct.                                                               *)

\* threshold_total: every record that is there at all gets weight one.
Threshold(z) == Eager([x \in DOMAIN z |-> 1])

\* Mutant of diff_distinct: only surplus copies are taken away.
diff_distinct_surplus(z) ==
    Concat(z, Eager([x \in {y \in DOMAIN z : z[y] > 2} |-> 1 - z[x]]))

\* The adjustment 1 - w is added for every record whose weight w is not one.
diff_distinct(z) ==
    Concat(z, Eager([x \in {y \in DOMAIN z : z[y] # 1} |-> 1 - z[x]]))

-----------------------------------------------------------------------------
(* Joins of arrangements.                                                  *)

\* join_core: the results of J(key, left value, right value) for every pair
\* of entries under the same key, weights multiplied.
Join(a, b, J(_, _, _)) ==
    LET pairs == {p \in (DOMAIN a) \X (DOMAIN b) : p[1][1] = p[2][1]}
        Results(p) == J(p[1][1], p[1][2], p[2][2])
    IN  Consolidate(UNION {Results(p) : p \in pairs},
                    LAMBDA y : MapThenSumSet(LAMBDA p : a[p[1]] * b[p[2]],
                                             {p \in pairs : y \in Results(p)}))

semijoin_arranged(a, b) == Join(a, b, LAMBDA k, v, u : {<<k, v>>})

antijoin_arranged(a, b) == Minus(a, semijoin_arranged(a, b))

\* reduce: one result of weight one, or none, for every key that has entries.
Reduce(a, Agg(_, _)) ==
    LET keys == {p[1] : p \in DOMAIN a}
        Group(k) == {<<p[2], a[p]>> : p \in {q \in DOMAIN a : q[1] = k}}
    IN  Eager([kx \in UNION {{k} \X Agg(k, Group(k)) : k \in keys} |-> 1])

-----------------------------------------------------------------------------
(* Collections over time: a trace has one Z-set for every epoch.           *)

Lift(tr, F(_)) == Eager([t \in DOMAIN tr |-> F(tr[t])])

\* The changes of an epoch.
Changes(tr) ==
    Eager([t \in DOMAIN tr |-> IF t = 1 THEN tr[1] ELSE Minus(tr[t], tr[t - 1])])

\* The accumulated changes.
Accumulate(tr) ==
    LET acc[t \in DOMAIN tr] == IF t = 1 THEN tr[1] ELSE Concat(acc[t - 1], tr[t])
    IN  Eager(acc)

=============================================================================
