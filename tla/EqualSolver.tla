----------------------------- MODULE EqualSolver -----------------------------
(***************************************************************************)
(* EqualSolver (impl/solvers/equal.cpp), which decides the comparisons of  *)
(* `with' clauses on conditions instead of attributes: two conditions are  *)
(* equal that share a name, or a number.                                   *)
(***************************************************************************)
EXTENDS TreeSolvers

CONSTANT ProcNames   \* the names of the procedures as text, as variables have

Const(i) == <<"const", i>>

VariablesOf(p, s) == get_expr_vars(p, s) \cup ({get_variable(p, s)} \ {NoVar})

\* A call is found under the name of its procedure.
name_index(p) ==
  {<<ProcNames[n], Proc(n)>> : n \in Procs(p)}
  \cup (UNION {{<<v, Var(v)>> : v \in VariablesOf(p, s)} : s \in Walked(p)})
  \cup {<<ProcNames[get_proc_called(p, s)], Stmt(s)>> :
          s \in {t \in Walked(p) : kind(p, t) = "call"}}

number_index(p) ==
  {<<s, Stmt(s)>> : s \in Walked(p)}
  \cup UNION {{<<i, Const(i)>> : i \in get_expr_consts(p, s)} : s \in Walked(p)}

has_name(c)   == c[1] \in {"proc", "var"}
has_number(c) == c[1] \in {"stmt", "const"}
get_name(c)   == IF c[1] = "proc" THEN ProcNames[c[2]] ELSE c[2]
get_number(c) == c[2]

\* solve_left and solve_right.  Dispatch gives a call as a statement, with
\* its line.
solve_equal(p, c) ==
  CASE has_name(c)   -> {e[2] : e \in {i \in name_index(p) : i[1] = get_name(c)}}
    [] has_number(c) -> {e[2] : e \in {i \in number_index(p) : i[1] = get_number(c)}}
    [] OTHER         -> {}

\* validate joins the two numbers with && where it means ==.
validate_equal(p, c, d) ==
  \/ has_name(c) /\ has_name(d) /\ get_name(c) = get_name(d)
  \/ has_number(c) /\ has_number(d) /\ get_number(c) # 0 /\ get_number(d) # 0
==============================================================================
