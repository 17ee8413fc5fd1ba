---------------------------- MODULE NextBipSolver ----------------------------
(***************************************************************************)
(* impl/solvers/next_bip.cpp: control flow across calls.  A point of the   *)
(* flow is a statement with the stack of call statements it was reached    *)
(* through, innermost first; with an empty stack the callers are unknown,  *)
(* and leaving the procedure leads behind every call of it.                *)
(*                                                                         *)
(* solve_next_bip follows the callers of a call that ends its procedure,   *)
(* with the n outermost calls of the stack left; on a recursive program    *)
(* that recursion does not end, so the operators are used on programs      *)
(* without recursion (Acyclic).                                            *)
(***************************************************************************)
EXTENDS NextSolver

\* CallSolver::solve_calling_statements: the calls of a procedure.
solve_calling_statements(p, proc) ==
  {c \in OfKind(p, "call") : get_proc_called(p, c) = proc}

is_first_statement(p, s) ==
  prev(p, s) = NoStmt /\ get_parent(p, s) = NoStmt

\* No list that holds s, directly or through containers, goes on behind it.
is_last_container_statement(p, s) ==
  LET last[t \in Statements(p)] ==
        /\ next(p, t) = NoStmt
        /\ get_parent(p, t) # NoStmt => last[get_parent(p, t)]
  IN  last[s]

is_last_statement(p, s) ==
  kind(p, s) # "if" /\ is_last_container_statement(p, s)

solve_next_bip(p, s, callstack) ==
  LET top == Len(callstack)
      from[t \in Statements(p), n \in 0 .. top] ==
        {<<u, SubSeq(callstack, top - n + 1, top)>> : u \in solve_next(p, t)}
        \cup
        (IF ~is_last_statement(p, t) THEN {}
         ELSE IF n = 0
              THEN UNION {from[c, 0] :
                            c \in solve_calling_statements(p, get_proc(p, t))}
              ELSE from[callstack[top - n + 1], n - 1])
  IN  from[s, top]

solve_next_bip_statement(p, s, callstack) ==
  IF kind(p, s) = "call"
  THEN {<<get_statement(p, get_proc_called(p, s)), <<s>> \o callstack>>}
  ELSE solve_next_bip(p, s, callstack)

(***************************************************************************)
(* The statements that may run last in a procedure, as indexed by the      *)
(* constructor: of a loop or a branch it looks at the first statement, not *)
(* at the last one.                                                        *)
(***************************************************************************)
last_statements_in_statement(p, s) ==
  LET lasts[t \in Statements(p)] ==
        CASE kind(p, t) = "while" -> lasts[get_body(p, t)] \cup {t}
          [] kind(p, t) = "if" -> lasts[get_then_branch(p, t)]
                                    \cup lasts[get_else_branch(p, t)]
          [] OTHER -> {t}
  IN  lasts[s]

last_proc_statements(p, proc) ==
  last_statements_in_statement(p, LastOf(p, get_statement(p, proc)))

solve_prev_bip_statement(p, s, callstack) ==
  UNION {IF kind(p, t) = "call"
         THEN {<<u, <<t>> \o callstack>> :
                 u \in last_proc_statements(p, get_proc_called(p, t))}
         ELSE {<<t, callstack>>} : t \in solve_previous(p, s)}
  \cup
  (IF ~is_first_statement(p, s) THEN {}
   ELSE IF callstack = <<>>
        THEN {<<c, <<>>>> :
                c \in solve_calling_statements(p, get_proc(p, s))}
        ELSE {<<Head(callstack), Tail(callstack)>>})

==============================================================================
