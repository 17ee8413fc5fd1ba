----------------------------- MODULE SimpleParser ----------------------------
(***************************************************************************)
(* impl/parser/parser.cpp: how SimpleParser builds the syntax tree of a    *)
(* program from its text.  A step reads what one call of parse_proc or     *)
(* parse_statement reads before the next nested call: the head of a        *)
(* procedure or a container, a whole assignment or call, a closing brace.  *)
(* The text is arbitrary: any step the syntax allows may come next, and    *)
(* any other token makes the parser throw.                                 *)
(*                                                                         *)
(* `open' is the recursion of parse_proc, parse_while and parse_if,        *)
(* innermost first: the statement lists being read.  A statement gets its  *)
(* line when its first token is read and its pointers when it is complete, *)
(* as in the code.                                                         *)
(***************************************************************************)
EXTENDS SimpleAst, FiniteSets

CONSTANTS
  Names,            \* procedure names, numbers
  Vars,             \* variable names
  MaxStatements     \* bound: statements of a program

\* NoVar is what a statement without a variable has.
ASSUME NamesAssumption == NoVar \notin Vars

VARIABLES
  stmts,            \* the statements by line, _statement_line_table
  table,            \* the names in _procs_table
  firsts,           \* first statement of each procedure, NoStmt if not set
  parsed,           \* _procs: the procedures parsed completely, in order
  open,             \* the statement lists being read
  status            \* "reading", "rejected" by an exception, or "accepted"

vars == <<stmts, table, firsts, parsed, open, status>>

Init ==
  /\ stmts = <<>>
  /\ table = {}
  /\ firsts = [n \in Names |-> NoStmt]
  /\ parsed = <<>>
  /\ open = <<>>
  /\ status = "reading"

\* A list: of a container's branch, or of a procedure, up to its last
\* complete statement.
List(proc, container, branch) ==
  [proc |-> proc, container |-> container, branch |-> branch, last |-> NoStmt]

\* A statement before anything points to it or from it.
NewStatement(k, var, uses, callee) ==
  [kind |-> k, var |-> var, uses |-> uses, consts |-> {}, callee |-> callee,
   proc |-> NoProc, parent |-> NoStmt, prev |-> NoStmt, next |-> NoStmt,
   first |-> NoStmt, second |-> NoStmt]

\* The end of parse_statement and what its caller does with the statement s:
\* set_next and set_prev, or the first statement of the branch.
Linked(lines, s, list) ==
  LET own == [lines EXCEPT ![s].proc = list.proc, ![s].parent = list.container,
                           ![s].prev = list.last]
  IN  IF list.last # NoStmt THEN [own EXCEPT ![list.last].next = s]
      ELSE IF list.container # NoStmt
           THEN [own EXCEPT ![list.container][list.branch] = s]
           ELSE own

\* Mutant: a second definition replaces the first.
SetFirstAgain(s, list) ==
  /\ firsts' = IF list.container = NoStmt /\ list.last = NoStmt
               THEN [firsts EXCEPT ![list.proc] = s] ELSE firsts
  /\ UNCHANGED status

\* ProcAst::set_first_statement throws if the procedure has one.
SetFirstStatement(s, list) ==
  IF list.container = NoStmt /\ list.last = NoStmt
  THEN /\ firsts' = [firsts EXCEPT ![list.proc] = s]
       /\ status' = IF firsts[list.proc] # NoStmt THEN "rejected" ELSE status
  ELSE UNCHANGED <<firsts, status>>

\* Statement s of `lines' is complete; the lists around it are `lists'.
Complete(lines, s, lists) ==
  /\ stmts' = Linked(lines, s, Head(lists))
  /\ SetFirstStatement(s, Head(lists))
  /\ open' = <<[Head(lists) EXCEPT !.last = s]>> \o Tail(lists)

InList == status = "reading" /\ open # <<>> /\ Len(stmts) < MaxStatements

ThisLine == Len(stmts) + 1

parse_assignment(var, uses) ==
  /\ InList
  /\ Complete(Append(stmts, NewStatement("assign", var, uses, NoProc)),
              ThisLine, open)
  /\ UNCHANGED <<table, parsed>>

parse_call(name) ==
  /\ InList
  /\ table' = table \cup {name}
  /\ Complete(Append(stmts, NewStatement("call", NoVar, {}, name)),
              ThisLine, open)
  /\ UNCHANGED parsed

\* The heads of parse_while and parse_if.
parse_container(k, var) ==
  /\ InList
  /\ stmts' = Append(stmts, NewStatement(k, var, {}, NoProc))
  /\ open' = <<List(Head(open).proc, ThisLine, "first")>> \o open
  /\ UNCHANGED <<table, firsts, parsed, status>>

\* The head of parse_proc, with get_or_create_proc.
parse_proc(name) ==
  /\ status = "reading"
  /\ open = <<>>
  /\ Len(stmts) < MaxStatements
  /\ table' = table \cup {name}
  /\ open' = <<List(name, NoStmt, "first")>>
  /\ UNCHANGED <<stmts, firsts, parsed, status>>

\* `} else {': every list has a statement, or parse_statement throws.
ElseBranch ==
  /\ status = "reading"
  /\ open # <<>>
  /\ LET list == Head(open) IN
       /\ list.last # NoStmt
       /\ list.container # NoStmt
       /\ kind([stmts |-> stmts], list.container) = "if"
       /\ list.branch = "first"
       /\ open' = <<List(list.proc, list.container, "second")>> \o Tail(open)
  /\ UNCHANGED <<stmts, table, firsts, parsed, status>>

\* `}' of a loop or of an else branch: the container is complete.
CloseContainer ==
  /\ status = "reading"
  /\ open # <<>>
  /\ LET list == Head(open) IN
       /\ list.last # NoStmt
       /\ list.container # NoStmt
       /\ kind([stmts |-> stmts], list.container) = "if"
            => list.branch = "second"
       /\ Complete(stmts, list.container, Tail(open))
  /\ UNCHANGED <<table, parsed>>

\* `}' of a procedure.
CloseProc ==
  /\ status = "reading"
  /\ open # <<>>
  /\ Head(open).container = NoStmt
  /\ Head(open).last # NoStmt
  /\ parsed' = Append(parsed, Head(open).proc)
  /\ open' = <<>>
  /\ UNCHANGED <<stmts, table, firsts, status>>

\* The end of the text: validate_all_procs_exist.  The comparison of the
\* entries it also makes never fails, as both come from get_or_create_proc.
EndOfText ==
  /\ status = "reading"
  /\ open = <<>>
  /\ status' = IF Len(parsed) = Cardinality(table) THEN "accepted" ELSE "rejected"
  /\ UNCHANGED <<stmts, table, firsts, parsed, open>>

\* Any other token: a ParseError or a token of the wrong kind.
WrongToken ==
  /\ status = "reading"
  /\ status' = "rejected"
  /\ UNCHANGED <<stmts, table, firsts, parsed, open>>

parse_statement ==
  \/ \E var \in Vars, uses \in SUBSET Vars : parse_assignment(var, uses)
  \/ \E name \in Names : parse_call(name)
  \/ \E k \in {"while", "if"}, var \in Vars : parse_container(k, var)

Next ==
  \/ \E name \in Names : parse_proc(name)
  \/ parse_statement
  \/ ElseBranch
  \/ CloseContainer
  \/ CloseProc
  \/ EndOfText
  \/ WrongToken

Spec == Init /\ [][Next]_vars

\* The SimpleRoot that parse_program returns.
Root == [stmts |-> stmts, procs |-> [n \in table |-> firsts[n]]]

------------------------------------------------------------------------------
(***************************************************************************)
(* Properties                                                              *)
(***************************************************************************)

\* Every procedure that a call names was parsed, and none twice, although
\* validate_all_procs_exist only compares two counts (parser.cpp:362-377).
CalleesDefined ==
  /\ {parsed[i] : i \in DOMAIN parsed} = table
  /\ \A c \in OfKind(Root, "call") :
       \E i \in DOMAIN parsed : parsed[i] = get_proc_called(Root, c)

\* What lies between a statement and the next one is inside it, a branch comes
\* right behind its container's head, the else branch after the then branch
\* (parser.cpp:56, although pointers are set bottom up).
LinesInTextOrder ==
  \A s \in Statements(Root) :
    /\ next(Root, s) # NoStmt =>
         /\ s < next(Root, s)
         /\ \A u \in (s + 1) .. (next(Root, s) - 1) :
              get_parent(Root, u) \in s .. (next(Root, s) - 1)
    /\ stmts[s].first # NoStmt => stmts[s].first = s + 1
    /\ stmts[s].second # NoStmt => stmts[s].first < stmts[s].second

(***************************************************************************)
(* A program that is accepted is the tree the solvers assume: one tree per *)
(* procedure, lists linked both ways, no statement outside (the solvers    *)
(* follow these pointers without a test), no call of a procedure that the  *)
(* text does not define, and lines that number the statements in the order *)
(* of the text.                                                            *)
(***************************************************************************)
AcceptedWellFormed ==
  status = "accepted" => WellFormed(Root) /\ CalleesDefined /\ LinesInTextOrder
==============================================================================
