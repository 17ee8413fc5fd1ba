------------------------------ MODULE MCPrograms -----------------------------
(***************************************************************************)
(* All SIMPLE programs of a given size, as syntax trees.  A program grows  *)
(* by one statement at a time, in line order, at the places where a parser *)
(* could read one: behind the last statement or a container that ends      *)
(* there, or at the head of a branch that is still open.                   *)
(***************************************************************************)
EXTENDS SimpleAst, FiniteSets

\* What a statement says, without its place.
Assign(var, uses) == [kind |-> "assign", var |-> var, uses |-> uses,
                      consts |-> {}, callee |-> NoProc]
Call(proc)  == [kind |-> "call", var |-> NoVar, uses |-> {}, consts |-> {}, callee |-> proc]
While(var)  == [kind |-> "while", var |-> var, uses |-> {}, consts |-> {}, callee |-> NoProc]
If(var)     == [kind |-> "if", var |-> var, uses |-> {}, consts |-> {}, callee |-> NoProc]

Place(says, proc, parent, before) ==
  [kind |-> says.kind, var |-> says.var, uses |-> says.uses,
   consts |-> says.consts, callee |-> says.callee, proc |-> proc, parent |-> parent,
   prev |-> before, next |-> NoStmt, first |-> NoStmt, second |-> NoStmt]

NoProgram == [stmts |-> <<>>, procs |-> <<>>]

\* Every branch of s has a statement.
Closable(p, s) == /\ kind(p, s) \in {"while", "if"} => p.stmts[s].first # NoStmt
                  /\ kind(p, s) = "if" => p.stmts[s].second # NoStmt

\* The statements that end with the last one: itself and its containers.
RECURSIVE Spine(_, _)
Spine(p, s) == IF s = NoStmt THEN {} ELSE {s} \cup Spine(p, get_parent(p, s))

\* The containers inside s that end with the last statement are complete.
ClosedBelow(p, s) ==
  \A c \in Spine(p, Len(p.stmts)) : c > s => Closable(p, c)

Complete(p) == \A s \in Spine(p, Len(p.stmts)) : Closable(p, s)

Behind(p, says, s) ==
  LET n == Len(p.stmts) + 1 IN
  [p EXCEPT !.stmts = Append([@ EXCEPT ![s].next = n],
                             Place(says, get_proc(p, s), get_parent(p, s), s))]

Within(p, says, s, branch) ==
  LET n == Len(p.stmts) + 1 IN
  [p EXCEPT !.stmts = Append([@ EXCEPT ![s][branch] = n],
                             Place(says, get_proc(p, s), s, NoStmt))]

Grow(p, says) ==
  LET last == Len(p.stmts) IN
  IF kind(p, last) \in {"while", "if"} /\ p.stmts[last].first = NoStmt
  THEN {Within(p, says, last, "first")}
  ELSE {Behind(p, says, s) : s \in
          {c \in Spine(p, last) : ClosedBelow(p, c) /\ Closable(p, c)}}
       \cup
       {Within(p, says, s, "second") : s \in
          {c \in Spine(p, last) : /\ ClosedBelow(p, c)
                                  /\ kind(p, c) = "if"
                                  /\ p.stmts[c].second = NoStmt}}

\* p with a further procedure that starts with a statement.
Declare(p, says) ==
  LET proc == Len(p.procs) + 1
      n    == Len(p.stmts) + 1
  IN  [stmts |-> Append(p.stmts, Place(says, proc, NoStmt, NoStmt)),
       procs |-> Append(p.procs, n)]

\* p with a procedure of n statements, each of which says one of says.
RECURSIVE Growing(_, _, _)
Growing(p, says, n) ==
  IF n = 1 THEN {Declare(p, w) : w \in says}
  ELSE UNION {UNION {Grow(g, w) : w \in says} : g \in Growing(p, says, n - 1)}

WithProc(p, says, n) == {g \in Growing(p, says, n) : Complete(g)}
==============================================================================
