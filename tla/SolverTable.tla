----------------------------- MODULE SolverTable -----------------------------
(***************************************************************************)
(* impl/solver_table.cpp: create_solver_table constructs the solvers of a  *)
(* program, of which ICallSolver and then ModifiesSolver and UsesSolver    *)
(* fill their tables by walks that follow calls; the other constructors    *)
(* read the tree in one pass (TreeSolvers, EqualSolver).  After that,      *)
(* SimpleSolverGenerator (simple/util/solver_generator.h) takes a          *)
(* condition of any kind to the specialisation of the solver's function    *)
(* for it, or to the default, which finds nothing.                         *)
(*                                                                         *)
(* The solvers that search are FlowSolvers, those of expressions           *)
(* ExprSolvers.                                                            *)
(***************************************************************************)
EXTENDS ICallSolver, EffectsIndex, NextSolver, AssignmentSolver, EqualSolver, ProgramMeaning

\* The programs are those the parser accepts, of these procedures.
ASSUME ProgramsAssumption ==
  \A p \in Programs : IsProgram(p) /\ Procs(p) = Procedures

\* SimpleRoot iterates all of them.
ASSUME IteratesAll == \A n \in Procedures : \E i \in DOMAIN Order : Order[i] = n

\* The procedures a procedure calls, in the order the walk meets the calls.
CallsIn(p, proc) ==
  LET from[s \in Statements(p)] ==
        LET From(t) == IF t = NoStmt THEN <<>> ELSE from[t]
        IN  (IF kind(p, s) = "call" THEN <<get_proc_called(p, s)>>
             ELSE From(get_then_branch(p, s))
                  \o From(get_else_branch(p, s)))
            \o From(next(p, s))
  IN  from[get_statement(p, proc)]

CallsOfProgram(p) == [proc \in Procedures |-> CallsIn(p, proc)]

TableInit ==
  /\ IndexInit
  /\ calls = CallsOfProgram(program)
  /\ Init

TableVars == <<vars, ivars>>

\* The constructors run one after the other.
TableNext ==
  \/ Next /\ UNCHANGED ivars
  \/ Constructed /\ IndexNext /\ UNCHANGED vars

\* The only thread runs the constructors until they return.
TableSpec == TableInit /\ [][TableNext]_TableVars /\ WF_TableVars(TableNext)

TableBuilt == Constructed /\ Indexed

------------------------------------------------------------------------------
(***************************************************************************)
(* SimpleSolverGenerator.  A solver's functions have specialisations for   *)
(* some kinds of conditions; the solvers of Contains, Sibling and          *)
(* direct uses take conditions themselves.                                 *)
(***************************************************************************)
IsStmt(c) == c[1] = "stmt"
IsProc(c) == c[1] = "proc"
IsVar(c)  == c[1] = "var"

Of(Cond(_), values) == {Cond(value) : value \in values}

\* SolverRightVisitor, and the solve_right it takes a condition to.
solve_right(name, c) ==
  CASE name = "follows" /\ IsStmt(c) ->
         Of(Stmt, solve_follows_right(program, c[2]))
    [] name = "ifollows" /\ IsStmt(c) ->
         Of(Stmt, solve_ifollows_right(program, c[2]))
    [] name = "parent" /\ IsStmt(c) ->
         Of(Stmt, solve_parent_right(program, c[2]))
    [] name = "iparent" /\ IsStmt(c) ->
         Of(Stmt, solve_iparent_right(program, c[2]))
    [] name = "next" /\ IsStmt(c) ->
         Of(Stmt, solve_next(program, c[2]))
    [] name = "calls" /\ IsProc(c) ->
         Of(Proc, solve_called_procs(program, c[2]))
    [] name = "icalls" /\ IsProc(c) -> Of(Proc, solve_icalls_right(c[2]))
    [] name \in Effects /\ (IsStmt(c) \/ IsProc(c)) ->
         Of(Var, get_right_vars(name, c))
    [] name = "equal" -> solve_equal(program, c)
    [] name = "direct_uses" /\ IsStmt(c) ->
         Of(Var, solve_direct_uses_right(program, c[2]))
    [] name \in {"contains", "icontains"} ->
         solve_contains_right(program, name = "icontains", c)
    [] name = "sibling" -> solve_sibling_right(program, c)
    [] OTHER -> {}

\* SolverLeftVisitor, and the solve_left it takes a condition to.
solve_left(name, d) ==
  CASE name = "follows" /\ IsStmt(d) ->
         Of(Stmt, solve_follows_left(program, d[2]))
    [] name = "ifollows" /\ IsStmt(d) ->
         Of(Stmt, solve_ifollows_left(program, d[2]))
    [] name = "parent" /\ IsStmt(d) ->
         Of(Stmt, solve_parent_left(program, d[2]))
    [] name = "iparent" /\ IsStmt(d) ->
         Of(Stmt, solve_iparent_left(program, d[2]))
    [] name = "next" /\ IsStmt(d) ->
         Of(Stmt, solve_previous(program, d[2]))
    [] name = "calls" /\ IsProc(d) ->
         Of(Proc, solve_calling_procs(program, d[2]))
    [] name = "icalls" /\ IsProc(d) -> Of(Proc, solve_icalls_left(d[2]))
    [] name \in Effects /\ IsVar(d) -> solve_effect_left(name, d[2])
    [] name = "equal" -> solve_equal(program, d)
    [] name = "direct_uses" /\ IsVar(d) ->
         Of(Stmt, solve_direct_uses_left(program, d[2]))
    [] name \in {"contains", "icontains"} ->
         solve_contains_left(program, name = "icontains", d)
    [] name = "sibling" -> solve_sibling_left(program, d)
    [] OTHER -> {}

\* FirstSolverVisitor and SecondSolverVisitor: two dispatches.  That of direct
\* uses compares a pointer into the tree with one to a copy: it is false.
validate(name, c, d) ==
  CASE name = "follows" /\ IsStmt(c) /\ IsStmt(d) ->
         validate_follows(program, c[2], d[2])
    [] name = "ifollows" /\ IsStmt(c) /\ IsStmt(d) ->
         validate_ifollows(program, c[2], d[2])
    [] name = "parent" /\ IsStmt(c) /\ IsStmt(d) ->
         validate_parent(program, c[2], d[2])
    [] name = "iparent" /\ IsStmt(c) /\ IsStmt(d) ->
         validate_iparent(program, c[2], d[2])
    [] name = "next" /\ IsStmt(c) /\ IsStmt(d) ->
         validate_next(program, c[2], d[2])
    [] name = "calls" /\ IsProc(c) /\ IsProc(d) ->
         d[2] \in solve_called_procs(program, c[2])
    [] name = "icalls" /\ IsProc(c) /\ IsProc(d) -> validate_icalls(c[2], d[2])
    [] name \in Effects /\ (IsStmt(c) \/ IsProc(c)) /\ IsVar(d) ->
         d[2] \in get_right_vars(name, c)
    [] name = "equal" -> validate_equal(program, c, d)
    [] name \in {"contains", "icontains"} ->
         validate_contains(program, name = "icontains", c, d)
    [] name = "sibling" -> validate_sibling(program, c, d)
    [] OTHER -> FALSE

Names == {"follows", "ifollows", "parent", "iparent", "next", "calls", "icalls",
          "modifies", "uses", "equal", "direct_uses", "contains", "icontains",
          "sibling"}

\* Conditions of every kind.
Conditions ==
  Nodes(program)
  \cup Of(Var, Variables(program))
  \cup Of(Const,
          UNION {get_expr_consts(program, s) : s \in Statements(program)})
  \cup {<<"operator", "+">>, <<"pattern", "x">>}

------------------------------------------------------------------------------
(***************************************************************************)
(* Properties                                                              *)
(***************************************************************************)
Related(name) == {e \in Conditions \X Conditions : e[2] \in solve_right(name, e[1])}

(***************************************************************************)
(* solve_right, solve_left and validate decide one relation, whatever the  *)
(* kinds of the conditions they are given (solver_generator.h:33-233),     *)
(* with these deviations of the code: validate of Contains decides the     *)
(* converse (contains.cpp:27-32), validate of direct uses nothing, and in  *)
(* Equal, a call answers to its name on one side only, and validate takes  *)
(* any two numbers but zero for equal (equal.h:171).                       *)
(***************************************************************************)
Decides(name, c, d) ==
  LET holds == d \in solve_right(name, c)
  IN  CASE name \in {"contains", "icontains"} ->
             /\ holds <=> c \in solve_left(name, d)
             /\ holds <=> validate(name, d, c)
        [] name = "direct_uses" -> holds <=> c \in solve_left(name, d)
        [] name = "equal" /\ (has_name(c) <=> has_name(d)) ->
             /\ holds <=> c \in solve_left(name, d)
             /\ holds => validate(name, c, d) \/ c = Const(0)
             /\ has_name(c) => (holds <=> validate(name, c, d))
        [] name = "equal" /\ ~(has_name(c) <=> has_name(d)) ->
             ~validate(name, c, d)
        [] OTHER -> /\ holds <=> c \in solve_left(name, d)
                    /\ holds <=> validate(name, c, d)

SolversDecide ==
  TableBuilt =>
    \A name \in Names : \A c, d \in Conditions : Decides(name, c, d)

(***************************************************************************)
(* Calls is the call graph, and the starred relations are the closures of  *)
(* the plain ones, although each is computed by its own loops              *)
(* (ifollows.cpp, iparent.cpp, icall.cpp, contains.cpp:51-66).             *)
(***************************************************************************)
StarsAreClosures ==
  TableBuilt =>
    /\ Related("calls") = {<<Proc(e[1]), Proc(e[2])>> :
                             e \in CallGraph(program)}
    /\ \A pair \in {<<"follows", "ifollows">>, <<"parent", "iparent">>,
                    <<"calls", "icalls">>, <<"contains", "icontains">>} :
         Related(pair[2]) = Closure(Related(pair[1]))
    /\ \A e \in Related("sibling") : e[1] = e[2] => IsVar(e[1])

(***************************************************************************)
(* Modifies and Uses of a statement or a procedure are those of everything *)
(* that runs when it does, and Uses counts the conditions                  *)
(* (assign.cpp:103-186); the walk and the form of it Affects rests on      *)
(* agree.                                                                  *)
(***************************************************************************)
EffectsOfAllThatRuns ==
  TableBuilt =>
    \A effect \in Effects :
      /\ \A s \in Statements(program) :
           /\ get_right_vars(effect, Stmt(s))
                = UNION {extract(program, effect, t) :
                           t \in RunBy(program, s)}
           /\ get_right_vars(effect, Stmt(s))
                = index_variables(program, effect, s)
      /\ \A proc \in Procedures :
           get_right_vars(effect, Proc(proc))
             = UNION {extract(program, effect, t) : t \in
                        {u \in Statements(program) :
                           get_proc(program, u)
                             \in Running(program, proc)}}

(***************************************************************************)
(* The walk of Calls* ends although the calls may be cyclic (icall.cpp:    *)
(* 104); that of Modifies and Uses ends, and with it the construction of   *)
(* the table, just for the programs without recursion: assign.cpp:171-177  *)
(* follows every call.                                                     *)
(***************************************************************************)
ConstructorsEnd ==
  /\ <>Constructed
  /\ Acyclic(program) => <>TableBuilt
  /\ ~Acyclic(program) => []~TableBuilt
==============================================================================
