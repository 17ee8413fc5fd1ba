----------------------------- MODULE MCPqlParser -----------------------------
(***************************************************************************)
(* An instance of PqlMeaning and Clients for TLC: sessions of two texts,   *)
(* each of up to two clauses over two query variables, about one program:  *)
(*                                                                         *)
(*     procedure p { x = y; while y { y = 2 + 0; } call x; }               *)
(*     procedure x { y = x + 5; }                                          *)
(*                                                                         *)
(* x is a procedure and a variable, 2 and 5 are lines and constants.       *)
(***************************************************************************)
EXTENDS PqlMeaning, Clients, TLC

Statement(kd, proc, var, uses, consts) ==
  [kind |-> kd, var |-> var, uses |-> uses, consts |-> consts, callee |-> NoProc,
   proc |-> proc, parent |-> NoStmt, prev |-> NoStmt, next |-> NoStmt,
   first |-> NoStmt, second |-> NoStmt]

MCProgram ==
  [stmts |-> <<[Statement("assign", 1, "x", {"y"}, {}) EXCEPT !.next = 2],
               [Statement("while", 1, "y", {}, {}) EXCEPT !.prev = 1, !.next = 4, !.first = 3],
               [Statement("assign", 1, "y", {}, {2, 0}) EXCEPT !.parent = 2],
               [Statement("call", 1, NoVar, {}, {}) EXCEPT !.prev = 2, !.callee = 2],
               Statement("assign", 2, "y", {"x"}, {5})>>,
   procs |-> <<1, 5>>]

ASSUME WellFormed(MCProgram)

\* Patterns by number: 1 is "y", 2 is "2 + 0", 3 is "x + 5", 4 is "x".
MCMatches ==
  [expr  |-> {<<Stmt(1), <<"pattern", 1>>>>, <<Stmt(3), <<"pattern", 2>>>>,
              <<Stmt(5), <<"pattern", 3>>>>},
   iexpr |-> {<<Stmt(1), <<"pattern", 1>>>>, <<Stmt(3), <<"pattern", 2>>>>,
              <<Stmt(5), <<"pattern", 3>>>>, <<Stmt(5), <<"pattern", 4>>>>}]

MCProcNames == <<"p", "x">>
MCProcTable == "p" :> 1 @@ "x" :> 2
MCQvars     == {"a", "b"}
MCNames     == {"a", "b", "p", "x", "y"}
MCNameRank  == "a" :> 1 @@ "b" :> 2 @@ "p" :> 3 @@ "x" :> 4 @@ "y" :> 5

MCSolvers == {"follows", "ifollows", "parent", "calls", "direct_uses", "expr", "iexpr", "equal"}
MCAddress == "follows" :> 8 @@ "ifollows" :> 7 @@ "parent" :> 6 @@ "calls" :> 5
             @@ "direct_uses" :> 3 @@ "expr" :> 4 @@ "iexpr" :> 2 @@ "equal" :> 1

MCKeywords == {"prog_line", "assign", "call", "procedure", "variable", "constant", "line"}

Lit(n)    == [kind |-> "literal", name |-> n]
Int(i)    == [kind |-> "integer", i |-> i]
Qv(q)     == [kind |-> "variable", q |-> q]
Wild      == [kind |-> "wildcard"]
Of(q, f)  == [kind |-> "variable", q |-> q, field |-> f]
Text(e)   == [kind |-> "pattern", expr |-> e]

MCSelectors == {[kind |-> "boolean"], [kind |-> "variable", q |-> "a", field |-> "line"]}

St(rel, star, l, r) == [rel |-> rel, star |-> star, left |-> l, right |-> r]
MCSuchThats ==
  {St("follows", FALSE, Qv("a"), Qv("b")), St("follows", FALSE, Wild, Qv("b")),
   St("follows", TRUE, Int(1), Qv("a")), St("follows", TRUE, Qv("b"), Qv("a")),
   St("parent", FALSE, Int(2), Wild), St("calls", FALSE, Qv("a"), Lit("x")),
   St("calls", FALSE, Wild, Qv("a")), St("contains", TRUE, Qv("a"), Lit("y"))}

Wi(l, r) == [left |-> l, right |-> r]
MCWiths ==
  {Wi(Of("a", "stmt#"), Int(2)), Wi(Int(5), Of("b", "value")), Wi(Of("a", ""), Int(0)),
   Wi(Of("a", "varname"), Lit("x")), Wi(Lit("x"), Of("a", "procname")),
   Wi(Of("a", "stmt#"), Of("b", "value")), Wi(Of("b", ""), Of("a", "varname")),
   Wi(Of("b", "procname"), Of("a", "procname")), Wi(Of("a", ""), Of("a", "")),
   Wi(Lit("x"), Lit("x")), Wi(Lit("p"), Lit("y")), Wi(Int(1), Int(2)),
   Wi(Of("b", "line"), Int(1)), Wi(Of("a", "value"), Int(30))}

Pa(s, v, e, i) == [stmt |-> s, var |-> v, expr |-> e, indirect |-> i]
MCPatterns ==
  {Pa(Qv("a"), Lit("y"), Wild, FALSE), Pa(Qv("a"), Qv("b"), Text(3), FALSE),
   Pa(Qv("a"), Wild, Text(4), TRUE), Pa(Wild, Wild, Wild, FALSE),
   Pa(Int(1), Qv("b"), Wild, FALSE), Pa(Wild, Qv("b"), Text(1), FALSE),
   Pa(Qv("b"), Lit("y"), Text(2), TRUE), Pa(Qv("a"), Lit("x"), Wild, FALSE)}
==============================================================================
