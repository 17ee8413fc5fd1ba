----------------------------- MODULE ClauseOrder -----------------------------
(***************************************************************************)
(* The clauses of a PQL query and the order in which a ClauseSet keeps     *)
(* them (simple/query.h, simple/query.cpp, simple/util/query_utils.cpp,    *)
(* simple/util/condition_utils.cpp).  A ClauseSet is a std::set, which     *)
(* takes two clauses of which neither is less than the other for one and   *)
(* drops the second: the query then means less than its text.              *)
(*                                                                         *)
(* A condition is a pair of its type and of what comparisons look at: a    *)
(* variable's name, a constant's value, an operator's character, the text  *)
(* of a pattern, and the address of a statement or a procedure.            *)
(***************************************************************************)
EXTENDS Naturals

CONSTANTS
  Names,      \* of procedures, program variables and query variables
  NameRank,   \* their order as strings
  Solvers,    \* the names in the solver table
  Address     \* of the solver objects

ASSUME OrderAssumption ==
  /\ NameRank \in [Names -> Nat]
  /\ \A n, m \in Names : NameRank[n] = NameRank[m] => n = m
  /\ Address \in [Solvers -> Nat]
  /\ \A s, t \in Solvers : Address[s] = Address[t] => s = t

Conditions ==
  ({"operator", "const", "pattern", "stmt", "proc"} \X Nat) \cup ({"var"} \X Names)

QVar(q)  == [kind |-> "variable", q |-> q]
Given(c) == [kind |-> "condition", c |-> c]
Wildcard == [kind |-> "wildcard"]

Terms ==
  [kind : {"condition"}, c : Conditions] \cup [kind : {"variable"}, q : Names]
  \cup [kind : {"wildcard"}]

Clause(solver, left, right) == [solver |-> solver, left |-> left, right |-> right]

Clauses == [solver : Solvers, left : Terms, right : Terms]

------------------------------------------------------------------------------
Key(c) == IF c[1] = "var" THEN NameRank[c[2]] ELSE c[2]

is_same_condition(c, d) == c[1] = d[1] /\ Key(c) = Key(d)

is_same_term(t, u) ==
  \/ t.kind = "condition" /\ u.kind = "condition" /\ is_same_condition(t.c, u.c)
  \/ t.kind = "variable" /\ u.kind = "variable" /\ t.q = u.q
  \/ t.kind = "wildcard" /\ u.kind = "wildcard"

\* The pairs of types for which is_less_than_condition is specialised to
\* return true; every other pair of distinct types has the default, false.
LessTypes ==
  ({"operator"} \X {"const", "pattern", "var", "stmt", "proc"})
  \cup ({"const"} \X {"pattern", "var", "stmt", "proc"})
  \cup ({"pattern"} \X {"var", "stmt", "proc"})
  \cup ({"var"} \X {"stmt", "proc"})
  \cup ({"stmt"} \X {"proc"})

is_less_than_condition(c, d) ==
  \/ <<c[1], d[1]>> \in LessTypes
  \/ c[1] = d[1] /\ Key(c) < Key(d)

\* Mutant: wildcards and variables are not ordered.
is_less_than_term_partly(t, u) ==
  \/ t.kind = "condition" /\ u.kind \in {"wildcard", "variable"}
  \/ t.kind = "condition" /\ u.kind = "condition" /\ is_less_than_condition(t.c, u.c)
  \/ t.kind = "variable" /\ u.kind = "variable" /\ NameRank[t.q] < NameRank[u.q]

is_less_than_term(t, u) ==
  \/ t.kind = "condition" /\ u.kind \in {"wildcard", "variable"}
  \/ t.kind = "wildcard" /\ u.kind = "variable"
  \/ t.kind = "condition" /\ u.kind = "condition" /\ is_less_than_condition(t.c, u.c)
  \/ t.kind = "variable" /\ u.kind = "variable" /\ NameRank[t.q] < NameRank[u.q]

\* ClausePtr::operator <.
is_less_than_clause(cl, dl) ==
  IF ~is_same_term(cl.left, dl.left) THEN is_less_than_term(cl.left, dl.left)
  ELSE IF ~is_same_term(cl.right, dl.right) THEN is_less_than_term(cl.right, dl.right)
  ELSE Address[cl.solver] < Address[dl.solver]

Equivalent(cl, dl) == ~is_less_than_clause(cl, dl) /\ ~is_less_than_clause(dl, cl)

\* std::set::insert.
Insert(clauses, cl) ==
  IF \E dl \in clauses : Equivalent(cl, dl) THEN clauses ELSE clauses \cup {cl}
==============================================================================
