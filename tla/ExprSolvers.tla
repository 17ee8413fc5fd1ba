----------------------------- MODULE ExprSolvers -----------------------------
(***************************************************************************)
(* Assigned expressions and what the solvers ask of them: comparison,      *)
(* sub-expressions and text keys (simple/util/expr_util.cpp), the pattern  *)
(* relations Expr and IExpr (expr.cpp, iexpr.cpp), and the expression      *)
(* parts of Contains and Sibling (contains.cpp, sibling.cpp).              *)
(*                                                                         *)
(* The expressions are those that ExprParser makes of a text.              *)
(***************************************************************************)
EXTENDS ExprParser

CONSTANT
  Patterns          \* expressions that the result is compared with

IsBinary(e) == e.type = "BinaryOpET"

RECURSIVE same_expr(_, _), get_expr_vars(_), expr_to_string(_),
          get_sub_exprs(_), is_sub_expr(_, _), handed_up(_, _),
          expr_contains(_, _), expr_siblings(_)

same_expr(e, f) ==
  /\ e.type = f.type
  /\ IF IsBinary(e)
     THEN e.op = f.op /\ same_expr(e.lhs, f.lhs) /\ same_expr(e.rhs, f.rhs)
     ELSE e.token = f.token

get_expr_vars(e) ==
  IF IsBinary(e) THEN get_expr_vars(e.lhs) \cup get_expr_vars(e.rhs)
  ELSE IF e.type = "VariableET" THEN {e.token} ELSE {}

RECURSIVE expr_to_string_flat(_)

\* Mutant: no brackets.
expr_to_string_flat(e) ==
  IF IsBinary(e)
  THEN expr_to_string_flat(e.lhs) \o <<" ">> \o e.op \o <<" ">>
         \o expr_to_string_flat(e.rhs)
  ELSE e.token

\* The key of an expression in the pattern indexes.
expr_to_string(e) ==
  IF IsBinary(e)
  THEN <<"(">> \o expr_to_string(e.lhs) \o <<" ">> \o e.op \o <<" ">>
         \o expr_to_string(e.rhs) \o <<")">>
  ELSE e.token

get_sub_exprs(e) ==
  {e} \cup (IF IsBinary(e) THEN get_sub_exprs(e.lhs) \cup get_sub_exprs(e.rhs)
            ELSE {})

is_sub_expr(e, f) ==
  \/ same_expr(e, f)
  \/ IsBinary(e) /\ (is_sub_expr(e.lhs, f) \/ is_sub_expr(e.rhs, f))

(***************************************************************************)
(* ExprSolver and IExprSolver about an assignment of e: validate compares  *)
(* trees, solve_left looks a key up in the index of the keys of e or of    *)
(* its sub-expressions, solve_right returns the trees.                     *)
(***************************************************************************)
index_keys(e, indirect) ==
  {expr_to_string(s) : s \in IF indirect THEN get_sub_exprs(e) ELSE {e}}

solve_left_finds(e, indirect, pattern) ==
  expr_to_string(pattern) \in index_keys(e, indirect)

validate_assign_expr(e, indirect, pattern) ==
  IF indirect THEN is_sub_expr(e, pattern) ELSE same_expr(e, pattern)

solve_right_assign_expr(e, indirect) ==
  IF indirect THEN get_sub_exprs(e) ELSE {e}

(***************************************************************************)
(* ContainsSolver::index_expr: what an expression hands up to its parent,  *)
(* and the pairs entered on the way.  Operators are conditions like        *)
(* variables and constants; equal ones are one condition.                  *)
(***************************************************************************)
Top(e) == IF IsBinary(e) THEN e.op ELSE e.token

handed_up(e, indirect) ==
  {Top(e)} \cup (IF indirect /\ IsBinary(e)
                 THEN handed_up(e.lhs, indirect) \cup handed_up(e.rhs, indirect)
                 ELSE {})

expr_contains(e, indirect) ==
  IF ~IsBinary(e) THEN {}
  ELSE ({e.op} \X (handed_up(e.lhs, indirect) \cup handed_up(e.rhs, indirect)))
       \cup expr_contains(e.lhs, indirect) \cup expr_contains(e.rhs, indirect)

\* SiblingSolver::index_expr: the two operands of each operation.
expr_siblings(e) ==
  IF ~IsBinary(e) THEN {}
  ELSE {<<Top(e.lhs), Top(e.rhs)>>, <<Top(e.rhs), Top(e.lhs)>>}
       \cup expr_siblings(e.lhs) \cup expr_siblings(e.rhs)

------------------------------------------------------------------------------
(***************************************************************************)
(* Nothing of the text is dropped on the way to the indexes: the variables *)
(* that Uses and Affects see, and all that Contains* has inside the        *)
(* assignment, are the tokens read; and what an operation contains is what *)
(* has a sibling (expr_util.cpp, contains.cpp, sibling.cpp).               *)
(***************************************************************************)
NothingDropped ==
  status = "done" =>
    LET tokens == {read[i] : i \in DOMAIN read} \ {Open, Close}
    IN  /\ get_expr_vars(value) = tokens \cap Vars
        /\ handed_up(value, TRUE) = tokens
        /\ {e[1] : e \in expr_siblings(value)}
             = {e[2] : e \in expr_contains(value, FALSE)}

(***************************************************************************)
(* validate, solve_left and solve_right of both pattern relations decide   *)
(* one relation, although one compares trees, one compares texts and one   *)
(* enumerates (expr.cpp, iexpr.cpp).                                       *)
(***************************************************************************)
PatternsAgree ==
  status = "done" =>
    \A indirect \in BOOLEAN : \A pattern \in Patterns \cup get_sub_exprs(value) :
      LET valid == validate_assign_expr(value, indirect, pattern)
      IN  /\ valid <=> solve_left_finds(value, indirect, pattern)
          /\ valid <=> pattern \in solve_right_assign_expr(value, indirect)
==============================================================================
