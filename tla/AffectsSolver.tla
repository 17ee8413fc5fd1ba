---------------------------- MODULE AffectsSolver ----------------------------
(***************************************************************************)
(* impl/solvers/affects.cpp and iaffects.cpp: the steps of the searches    *)
(* for Affects, Affects* and their inter-procedural forms.  A search       *)
(* visits points <<var, statement, callstack>>: at the statement, the      *)
(* value the search is about is (forward), or will have to be (backward),  *)
(* in var.                                                                 *)
(*                                                                         *)
(* bip  the flow is NextBip instead of Next (AffectsBip);                  *)
(* star the solver is IAffectsSolver, which overrides the two assignment   *)
(*      steps.                                                             *)
(***************************************************************************)
EXTENDS NextBipSolver, AssignmentSolver

\* NextBipQuerySolver: NextSolver inherits the forms that ignore the stack.
NextPoints(p, bip, s, callstack) ==
  IF bip THEN solve_next_bip_statement(p, s, callstack)
  ELSE {<<t, <<>>>> : t \in solve_next(p, s)}

PrevPoints(p, bip, s, callstack) ==
  IF bip THEN solve_prev_bip_statement(p, s, callstack)
  ELSE {<<t, <<>>>> : t \in solve_previous(p, s)}

\* A call kills a variable its procedure modifies, unless the search goes
\* through the called procedure itself.
CallKills(p, bip, s, var) ==
  ~bip /\ var \in index_proc_variables(p, "modifies", get_proc_called(p, s))

(***************************************************************************)
(* Forward.                                                                *)
(***************************************************************************)
solve_next_affected_by_var(p, bip, vars, s, callstack) ==
  {<<v, n[1], n[2]>> : v \in vars, n \in NextPoints(p, bip, s, callstack)}

\* Mutant: an assignment does not end the value.
affected_by_var_unkilled(p, star, var, s) ==
  {var} \cup (IF star /\ var \in get_expr_vars(p, s)
              THEN {get_variable(p, s)} ELSE {})

\* The variables that carry the value past an assignment.
affected_by_var_assignment(p, star, var, s) ==
  ({var} \ {get_variable(p, s)})
  \cup (IF star /\ var \in get_expr_vars(p, s)
        THEN {get_variable(p, s)} ELSE {})

solve_affected_by_var(p, bip, star, var, s, callstack) ==
  LET vars == CASE kind(p, s) = "assign" ->
                     affected_by_var_assignment(p, star, var, s)
                [] kind(p, s) = "call" /\ CallKills(p, bip, s, var) -> {}
                [] OTHER -> {var}
  IN  solve_next_affected_by_var(p, bip, vars, s, callstack)

IsAffected(p, var, s) ==
  kind(p, s) = "assign" /\ var \in get_expr_vars(p, s)

solve_affected_statements(p, bip, s) ==
  IF kind(p, s) # "assign" THEN {}
  ELSE solve_next_affected_by_var(p, bip, {get_variable(p, s)}, s, <<>>)

(***************************************************************************)
(* Backward.                                                               *)
(***************************************************************************)
solve_prev_affecting_with_var(p, bip, vars, s, callstack) ==
  {<<v, n[1], n[2]>> : v \in vars, n \in PrevPoints(p, bip, s, callstack)}

affecting_with_var_assignment(p, star, var, s) ==
  IF get_variable(p, s) # var THEN {var}
  ELSE IF star THEN get_expr_vars(p, s) ELSE {}

solve_affecting_with_var(p, bip, star, var, s, callstack) ==
  LET vars == CASE kind(p, s) = "assign" ->
                     affecting_with_var_assignment(p, star, var, s)
                [] kind(p, s) = "call" /\ CallKills(p, bip, s, var) -> {}
                [] OTHER -> {var}
  IN  solve_prev_affecting_with_var(p, bip, vars, s, callstack)

IsAffecting(p, var, s) ==
  kind(p, s) = "assign" /\ get_variable(p, s) = var

solve_affecting_statements(p, bip, s) ==
  IF kind(p, s) # "assign" THEN {}
  ELSE solve_prev_affecting_with_var(p, bip, get_expr_vars(p, s), s, <<>>)

==============================================================================
