-------------------------- MODULE MCQueryProcessor --------------------------
(* Instances of QueryProcessor for TLC: three query variables, two         *)
(* conditions, and queries of up to two or three clauses drawn from a pool *)
(* that has every form of clause.                                          *)
EXTENDS QueryProcessor, TLC

CONSTANTS x, y, z, a, b

XYZ == {x, y, z}
AB  == {a, b}
XYZRank == x :> 1 @@ y :> 2 @@ z :> 3

Same  == {<<a, a>>, <<b, b>>}
Swap  == {<<a, b>>, <<b, a>>}
OnlyA == {<<a, a>>}
ToA   == {<<a, a>>, <<b, a>>}
Never == {}

Links == { Clause(Same, Var(x), Var(y)), Clause(Swap, Var(z), Var(y)),
           Clause(OnlyA, Var(y), Var(x)), Clause(ToA, Var(x), Var(y)),
           Clause(Swap, Var(z), Var(x)), Clause(Never, Var(y), Var(z)) }

Filters == { Clause(Swap, Var(x), Given(a)), Clause(ToA, Given(b), Var(y)),
             Clause(OnlyA, Var(x), Var(x)), Clause(OnlyA, Var(z), Wildcard),
             Clause(OnlyA, Wildcard, Var(y)) }

Tests == { Clause(OnlyA, Given(a), Given(b)), Clause(OnlyA, Given(a), Wildcard),
           Clause(OnlyA, Wildcard, Given(b)), Clause(Never, Wildcard, Wildcard),
           Clause(OnlyA, Wildcard, Wildcard) }

UpTo(n, pool) == {cls \in SUBSET pool : Cardinality(cls) <= n}

ClauseSets == UpTo(3, Links \cup Filters)
                \cup {{l, t} : l \in Links, t \in Tests}

AllFull    == x :> AB @@ y :> AB @@ z :> AB
YNotGiven  == x :> AB @@ z :> {b}

Selectors == { [kind |-> "boolean"], [kind |-> "variable", q |-> x, fits |-> TRUE],
               [kind |-> "variable", q |-> y, fits |-> FALSE],
               [kind |-> "tuple", qs |-> <<y, x, z>>] }

SomeQueries == [domains : {AllFull, YNotGiven}, clauses : ClauseSets, select : Selectors]

(* A predicate the program has no member of, such as "while w" in a        *)
(* program without loops.                                                  *)
EmptyX == x :> {} @@ y :> AB @@ z :> AB
EmptyQueries ==
    [domains : {EmptyX}, clauses : UpTo(2, Filters), select : {[kind |-> "boolean"]}]

NoSets == {}
=============================================================================
