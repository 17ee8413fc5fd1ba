----------------------------- MODULE TreeSolvers -----------------------------
(***************************************************************************)
(* The solvers that read the syntax tree alone: Follows, Parent and their  *)
(* closures (follows.cpp, ifollows.cpp, parent.cpp, iparent.cpp), Calls    *)
(* (call.cpp), Contains and Contains* (contains.cpp), Sibling              *)
(* (sibling.cpp) and the condition or target of a statement that patterns  *)
(* ask for (direct_uses.cpp).                                              *)
(*                                                                         *)
(* The last four build an index in their constructor, by one walk over     *)
(* every procedure; an index is given here as the set of pairs inserted.   *)
(* Contains and Sibling relate conditions: tree nodes, tagged by kind.     *)
(* Equal variables are one condition, wherever they occur.  Assigned       *)
(* expressions are taken to be single variables here; ExprSolvers has the  *)
(* others.                                                                 *)
(***************************************************************************)
EXTENDS SimpleAst

Proc(n) == <<"proc", n>>
Stmt(s) == <<"stmt", s>>
Var(v)  == <<"var", v>>

------------------------------------------------------------------------------
\* FollowSolver and IFollowSolver.
solve_follows_right(p, s) == {next(p, s)} \ {NoStmt}
solve_follows_left(p, s)  == {prev(p, s)} \ {NoStmt}
validate_follows(p, s, t) == next(p, s) = t

solve_ifollows_right(p, s) == ListFrom(p, next(p, s))

solve_ifollows_left(p, s) ==
  LET before[t \in Statements(p)] ==
        IF prev(p, t) = NoStmt THEN {} ELSE {prev(p, t)} \cup before[prev(p, t)]
  IN  before[s]

validate_ifollows(p, s, t) ==
  LET leads[u \in Statements(p)] ==
        /\ next(p, u) # NoStmt
        /\ next(p, u) = t \/ leads[next(p, u)]
  IN  leads[s]

\* ParentSolver and IParentSolver.
solve_parent_right(p, s)  == UNION {ListFrom(p, b) : b \in Branches(p, s)}
solve_parent_left(p, s)   == {get_parent(p, s)} \ {NoStmt}
validate_parent(p, s, t)  == kind(p, s) \in {"while", "if"} /\ get_parent(p, t) = s

solve_iparent_right(p, s) ==
  LET inside[t \in Statements(p)] ==
        UNION {{u} \cup inside[u] : u \in solve_parent_right(p, t)}
  IN  inside[s]

solve_iparent_left(p, s) ==
  LET around[t \in Statements(p)] ==
        IF get_parent(p, t) = NoStmt THEN {}
        ELSE {get_parent(p, t)} \cup around[get_parent(p, t)]
  IN  around[s]

validate_iparent(p, s, t) ==
  LET within[u \in Statements(p)] ==
        /\ get_parent(p, u) # NoStmt
        /\ get_parent(p, u) = s \/ within[get_parent(p, u)]
  IN  kind(p, s) \in {"while", "if"} /\ within[t]

------------------------------------------------------------------------------
(***************************************************************************)
(* The statements below a first statement, in the order-free form of the   *)
(* walk index_proc, index_statement_list, index_statement that the         *)
(* indexing solvers share.                                                 *)
(***************************************************************************)
WalkFrom(p, first) ==
  UNION {{s} \cup solve_iparent_right(p, s) : s \in ListFrom(p, first)}

Walked(p) == UNION {WalkFrom(p, get_statement(p, n)) : n \in Procs(p)}

\* CallSolver: _called_table with its inverse _calling_table.
called_pairs(p) ==
  {<<get_proc(p, c), get_proc_called(p, c)>> :
     c \in {s \in Walked(p) : kind(p, s) = "call"}}

solve_called_procs(p, n)  == {m \in Procs(p) : <<n, m>> \in called_pairs(p)}
solve_calling_procs(p, n) == {m \in Procs(p) : <<m, n>> \in called_pairs(p)}

\* DirectUsesSolver: solve_left reads an index by variable, solve_right the
\* statement.  An assignment counts by the variable it assigns.
direct_uses_index(p) ==
  {<<get_variable(p, s), s>> :
     s \in {t \in Walked(p) : kind(p, t) # "call"}}

solve_direct_uses_left(p, v) == {e[2] : e \in {i \in direct_uses_index(p) : i[1] = v}}

solve_direct_uses_right(p, s) ==
  IF kind(p, s) = "call" THEN {} ELSE {get_variable(p, s)}

------------------------------------------------------------------------------
(***************************************************************************)
(* ContainsSolver.  index_contains_set enters what a statement contains,   *)
(* and hands up to the container the statement itself (Contains) or the    *)
(* statement with all of it (IContains).  A call hands up nothing.         *)
(***************************************************************************)
HandedUp(p, indirect, s, inside) ==
  IF kind(p, s) = "call" THEN {}
  ELSE {Stmt(s)} \cup (IF indirect THEN inside ELSE {})

\* Mutant: Contains* hands up what Contains does, from branches.
contained_direct(p, indirect, s) ==
  LET inside[t \in Statements(p)] ==
        {Var(v) : v \in get_expr_vars(p, t) \cup ({get_variable(p, t)} \ {NoVar})}
        \cup UNION {HandedUp(p, FALSE, u, inside[u]) : u \in solve_parent_right(p, t)}
  IN  inside[s]

contained(p, indirect, s) ==
  LET inside[t \in Statements(p)] ==
        {Var(v) : v \in get_expr_vars(p, t) \cup ({get_variable(p, t)} \ {NoVar})}
        \cup UNION {HandedUp(p, indirect, u, inside[u]) :
                      u \in solve_parent_right(p, t)}
  IN  inside[s]

contains_index(p, indirect) ==
  (UNION {{Proc(n)} \X (UNION {HandedUp(p, indirect, s, contained(p, indirect, s)) :
                                 s \in ListFrom(p, get_statement(p, n))}) :
            n \in Procs(p)})
  \cup
  (UNION {{Stmt(s)} \X contained(p, indirect, s) :
            s \in {t \in Walked(p) : kind(p, t) # "call"}})

solve_contains_right(p, indirect, c) ==
  {e[2] : e \in {i \in contains_index(p, indirect) : i[1] = c}}

solve_contains_left(p, indirect, d) ==
  {e[1] : e \in {i \in contains_index(p, indirect) : i[2] = d}}

\* validate swaps its arguments before it looks them up.
validate_contains(p, indirect, c, d) == <<d, c>> \in contains_index(p, indirect)

(***************************************************************************)
(* SiblingSolver: procedures among each other, the statements of a list,   *)
(* and the children of a statement, where a list is represented by its     *)
(* first statement.  index_siblings enters a pair in both directions.      *)
(***************************************************************************)
Among(C) == {e \in C \X C : e[1] # e[2]}

\* Mutant: the second insertion is missing.
index_siblings_once(c, d) == {<<c, d>>}

index_siblings(c, d) == {<<c, d>>, <<d, c>>}

sibling_statement(p, s) ==
  LET var == Var(get_variable(p, s))
  IN  CASE kind(p, s) = "assign" ->
             UNION {index_siblings(var, Var(v)) : v \in get_expr_vars(p, s)}
        [] kind(p, s) = "while" -> index_siblings(var, Stmt(get_body(p, s)))
        [] kind(p, s) = "if" ->
             index_siblings(var, Stmt(get_then_branch(p, s)))
             \cup index_siblings(var, Stmt(get_else_branch(p, s)))
             \cup index_siblings(Stmt(get_then_branch(p, s)),
                                 Stmt(get_else_branch(p, s)))
        [] OTHER -> {}

sibling_index(p) ==
  Among({Proc(n) : n \in Procs(p)})
  \cup (UNION {Among({Stmt(s) : s \in ListFrom(p, h)}) : h \in Heads(p)})
  \cup UNION {sibling_statement(p, s) : s \in Walked(p)}

validate_sibling(p, c, d)  == <<d, c>> \in sibling_index(p)
solve_sibling_right(p, c)  == {e[2] : e \in {i \in sibling_index(p) : i[1] = c}}
solve_sibling_left(p, d)   == {e[2] : e \in {i \in sibling_index(p) : i[1] = d}}
==============================================================================
