------------------------------ MODULE Predicates -----------------------------
(***************************************************************************)
(* The predicates a query variable can be declared with                    *)
(* (impl/predicate.cpp, impl/predicate_table.cpp).  PredicateGenerator     *)
(* walks the program once and keeps the conditions its predicate accepts:  *)
(* the values a variable starts with.  Operators and patterns, which only  *)
(* occur in assigned expressions, are left out.                            *)
(***************************************************************************)
EXTENDS TreeSolvers

\* evaluate, for a condition described by the word it is declared with.
evaluate(pred, what) ==
  \/ pred = "wildcard"
  \/ pred = what
  \/ pred = "statement" /\ what \in Kinds

Accepted(pred, what, C) == IF evaluate(pred, what) THEN C ELSE {}

\* Mutant: visit_while and visit_if do not look at the control variable.
visit_statement_inner(p, pred, s) ==
  Accepted(pred, kind(p, s), {Stmt(s)})
  \cup Accepted(pred, "var", {Var(v) : v \in get_expr_vars(p, s)
                                \cup (IF kind(p, s) = "assign" THEN {get_variable(p, s)} ELSE {})})
  \cup Accepted(pred, "const", {<<"const", i>> : i \in get_expr_consts(p, s)})

\* visit_assignment, visit_if, visit_while and visit_call with the visits of
\* the expression.
visit_statement(p, pred, s) ==
  Accepted(pred, kind(p, s), {Stmt(s)})
  \cup Accepted(pred, "var", {Var(v) : v \in get_expr_vars(p, s)
                                \cup ({get_variable(p, s)} \ {NoVar})})
  \cup Accepted(pred, "const", {<<"const", i>> : i \in get_expr_consts(p, s)})

global_set(p, pred) ==
  Accepted(pred, "procedure", {Proc(n) : n \in Procs(p)})
  \cup UNION {visit_statement(p, pred, s) : s \in Walked(p)}
==============================================================================
