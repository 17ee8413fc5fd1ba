--------------------------- MODULE AssignmentSolver --------------------------
(***************************************************************************)
(* What a statement contributes by itself to Modifies and Uses             *)
(* (impl/solvers/modifies.cpp, uses.cpp), and what the walk of assign.cpp  *)
(* computes from it, for the solvers that build on it: the variables a     *)
(* statement or a procedure modifies or uses, those of contained           *)
(* statements and of called procedures included.  EffectsIndex has the     *)
(* walk itself and its tables.                                             *)
(***************************************************************************)
EXTENDS SimpleAst

Effects == {"modifies", "uses"}

Variables(p) ==
  UNION {get_expr_vars(p, s) \cup ({get_variable(p, s)} \ {NoVar}) :
           s \in Statements(p)}

\* ModifiesVariableExtractor and UsesVariableExtractor; a call has none.
extract(p, effect, s) ==
  CASE kind(p, s) = "assign" /\ effect = "modifies" -> {get_variable(p, s)}
    [] kind(p, s) = "assign" /\ effect = "uses" -> get_expr_vars(p, s)
    [] kind(p, s) \in {"while", "if"} /\ effect = "uses" ->
         {get_variable(p, s)}
    [] OTHER -> {}

index_variables(p, effect, s) ==
  LET from[t \in Statements(p)] ==
        LET index_statement_list(first) ==
              UNION {from[u] : u \in ListFrom(p, first)}
        IN  extract(p, effect, t)
            \cup (UNION {index_statement_list(b) : b \in Branches(p, t)})
            \cup (IF kind(p, t) = "call"
                  THEN index_statement_list(
                         get_statement(p, get_proc_called(p, t)))
                  ELSE {})
  IN  from[s]

index_proc_variables(p, effect, proc) ==
  UNION {index_variables(p, effect, s) :
           s \in ListFrom(p, get_statement(p, proc))}
==============================================================================
