------------------------------ MODULE NextSolver -----------------------------
(***************************************************************************)
(* impl/solvers/next.cpp: the control flow relation Next between the       *)
(* statements of one procedure, in the three forms a solver offers.  The   *)
(* result caches of the solver hold what these operators return: the tree  *)
(* never changes.                                                          *)
(***************************************************************************)
EXTENDS SimpleAst

(***************************************************************************)
(* solve_right: where control goes after a statement.  At the end of a     *)
(* list it goes to the loop that holds the list, or to whatever comes      *)
(* after the if that holds it.                                             *)
(***************************************************************************)
solve_container_next(p, container) ==
  LET after[c \in Statements(p)] ==
        IF kind(p, c) = "while" THEN {c}
        ELSE IF next(p, c) # NoStmt THEN {next(p, c)}
        ELSE IF get_parent(p, c) # NoStmt THEN after[get_parent(p, c)]
        ELSE {}
  IN  after[container]

Following(p, s) ==
  IF next(p, s) # NoStmt THEN {next(p, s)}
  ELSE IF get_parent(p, s) # NoStmt
       THEN solve_container_next(p, get_parent(p, s))
       ELSE {}

solve_next(p, s) ==
  CASE kind(p, s) = "if" -> {get_then_branch(p, s), get_else_branch(p, s)}
    [] kind(p, s) = "while" -> {get_body(p, s)} \cup Following(p, s)
    [] OTHER -> Following(p, s)

\* Mutant: the first statements of the branches.
solve_last_previous_first(p, s) ==
  LET ends[t \in Statements(p)] ==
        IF kind(p, t) = "if"
        THEN ends[get_then_branch(p, t)] \cup ends[get_else_branch(p, t)]
        ELSE {t}
  IN  ends[s]

(***************************************************************************)
(* solve_left: the statements control may come from.  Leaving an if means  *)
(* leaving one of its branches (solve_preceeding_previous and              *)
(* solve_last_previous, the same recursion twice in the code).             *)
(***************************************************************************)
solve_last_previous(p, s) ==
  LET ends[t \in Statements(p)] ==
        IF kind(p, t) = "if"
        THEN ends[LastOf(p, get_then_branch(p, t))]
               \cup ends[LastOf(p, get_else_branch(p, t))]
        ELSE {t}
  IN  ends[s]

solve_previous(p, s) ==
  (IF prev(p, s) # NoStmt THEN solve_last_previous(p, prev(p, s))
   ELSE IF get_parent(p, s) # NoStmt THEN {get_parent(p, s)}
   ELSE {})
  \cup
  (IF kind(p, s) = "while"
   THEN solve_last_previous(p, LastOf(p, get_body(p, s)))
   ELSE {})

(***************************************************************************)
(* validate: the same walk as solve_right, comparing as it goes.           *)
(***************************************************************************)
validate_container_next(p, container, t) ==
  LET leads[c \in Statements(p)] ==
        IF kind(p, c) = "while" THEN c = t
        ELSE IF next(p, c) # NoStmt THEN next(p, c) = t
        ELSE /\ get_parent(p, c) # NoStmt
             /\ leads[get_parent(p, c)]
  IN  leads[container]

validate_next(p, s, t) ==
  CASE kind(p, s) = "if" ->
         t \in {get_then_branch(p, s), get_else_branch(p, s)}
    [] kind(p, s) = "while" ->
         \/ get_body(p, s) = t
         \/ next(p, s) = t
         \/ /\ next(p, s) = NoStmt
            /\ get_parent(p, s) # NoStmt
            /\ validate_container_next(p, get_parent(p, s), t)
    [] OTHER ->
         IF next(p, s) # NoStmt THEN next(p, s) = t
         ELSE /\ get_parent(p, s) # NoStmt
              /\ validate_container_next(p, get_parent(p, s), t)

==============================================================================
