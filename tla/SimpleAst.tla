------------------------------ MODULE SimpleAst ------------------------------
(***************************************************************************)
(* The syntax tree of a SIMPLE program as the solvers read it              *)
(* (simple/ast.h, impl/ast.h): statements with pointers to their           *)
(* neighbours, their container and the first statements of their lists.    *)
(*                                                                         *)
(* A program is a record with                                              *)
(*   stmts  the sequence of its statements, indexed by statement line;     *)
(*   procs  the first statement of each procedure, by its name.            *)
(* Names of procedures are numbers, in the order SimpleRoot iterates them. *)
(* A statement is a record; `first' is the body of a while and the then    *)
(* branch of an if, `second' the else branch, `var' the variable that is   *)
(* assigned or tested, `uses' and `consts' the variables and constants of  *)
(* the assigned expression, `callee' the called procedure.  Fields a kind  *)
(* lacks are NoStmt, NoVar, {} or NoProc.                                  *)
(***************************************************************************)
EXTENDS Naturals, Sequences

NoStmt == 0
NoProc == 0
NoVar  == "none"

Kinds == {"assign", "call", "while", "if"}

Statements(p) == DOMAIN p.stmts
Procs(p)      == DOMAIN p.procs

kind(p, s)               == p.stmts[s].kind
next(p, s)               == p.stmts[s].next
prev(p, s)               == p.stmts[s].prev
get_parent(p, s)         == p.stmts[s].parent
get_proc(p, s)           == p.stmts[s].proc
get_body(p, s)           == p.stmts[s].first
get_then_branch(p, s)    == p.stmts[s].first
get_else_branch(p, s)    == p.stmts[s].second
get_variable(p, s)       == p.stmts[s].var
get_expr_vars(p, s)      == p.stmts[s].uses
get_expr_consts(p, s)    == p.stmts[s].consts
get_proc_called(p, s)    == p.stmts[s].callee
get_statement(p, proc)   == p.procs[proc]

OfKind(p, k) == {s \in Statements(p) : kind(p, s) = k}

(***************************************************************************)
(* Loops over a statement list: `while(s != NULL) s = s->next()' from a    *)
(* first statement, and the last statement such a loop reaches.            *)
(***************************************************************************)
ListFrom(p, s) ==
  LET rest[t \in Statements(p)] ==
        {t} \cup (IF next(p, t) = NoStmt THEN {} ELSE rest[next(p, t)])
  IN  IF s = NoStmt THEN {} ELSE rest[s]

LastOf(p, s) ==
  LET last[t \in Statements(p)] ==
        IF next(p, t) = NoStmt THEN t ELSE last[next(p, t)]
  IN  last[s]

\* The first statements of the lists a container holds.
Branches(p, s) ==
  {b \in {p.stmts[s].first, p.stmts[s].second} : b # NoStmt}

(***************************************************************************)
(* The shape every solver relies on: the pointers describe one tree, whose *)
(* lists are doubly linked, whose containers have their branches, and      *)
(* whose calls name defined procedures.                                    *)
(***************************************************************************)
Heads(p) == {get_statement(p, proc) : proc \in Procs(p)}
            \cup UNION {Branches(p, s) : s \in Statements(p)}

WellFormed(p) ==
  /\ \A proc \in Procs(p) : /\ get_statement(p, proc) \in Statements(p)
                            /\ get_proc(p, get_statement(p, proc)) = proc
                            /\ get_parent(p, get_statement(p, proc)) = NoStmt
  /\ \A s \in Statements(p) :
       /\ get_proc(p, s) \in Procs(p)
       /\ (prev(p, s) = NoStmt) <=> (s \in Heads(p))
       /\ next(p, s) # NoStmt =>
            /\ prev(p, next(p, s)) = s
            /\ get_parent(p, next(p, s)) = get_parent(p, s)
            /\ get_proc(p, next(p, s)) = get_proc(p, s)
       /\ prev(p, s) # NoStmt => next(p, prev(p, s)) = s
       /\ \A b \in Branches(p, s) : /\ get_parent(p, b) = s
                                    /\ get_proc(p, b) = get_proc(p, s)
       /\ (kind(p, s) \in {"while", "if"}) <=> (p.stmts[s].first # NoStmt)
       /\ (kind(p, s) = "if") <=> (p.stmts[s].second # NoStmt)
       /\ kind(p, s) = "call" => get_proc_called(p, s) \in Procs(p)

\* The pointers lead to statements, and forwards in the text.
InTextOrder(p) ==
  \A s \in Statements(p) :
    /\ {next(p, s), prev(p, s), get_parent(p, s)} \subseteq Statements(p) \cup {NoStmt}
    /\ Branches(p, s) \subseteq Statements(p)
    /\ next(p, s) # NoStmt => s < next(p, s)
    /\ \A b \in Branches(p, s) : s < b
    /\ kind(p, s) = "if" => get_then_branch(p, s) < get_else_branch(p, s)

\* The programs that the parser accepts, as SimpleParser_proofs shows.
IsProgram(p) ==
  /\ Len(p.stmts) \in Nat /\ Statements(p) = 1 .. Len(p.stmts)
  /\ WellFormed(p) /\ InTextOrder(p)
  /\ \A s \in Statements(p) : /\ kind(p, s) \in Kinds
                              /\ kind(p, s) # "call" => get_variable(p, s) # NoVar
==============================================================================
