----------------------------- MODULE FlowSolvers -----------------------------
(***************************************************************************)
(* The solvers that search, as set up by create_solver_table: INextSolver  *)
(* decides Next* over NextSolver and NextBip* over NextBipSolver;          *)
(* AffectsSolver and IAffectsSolver decide Affects, Affects* and their bip *)
(* forms.  Each is a GraphSearch whose points and steps come               *)
(* from the flow of the program; this module defines them, and states what *)
(* the relations mean.                                                     *)
(*                                                                         *)
(* Each solver object has its own caches and _visit_cache.  Nothing here   *)
(* runs concurrently and a search clears the _visit_cache it uses, so one  *)
(* search at a time and one cache keyed by the relation stand for all.     *)
(***************************************************************************)
EXTENDS GraphSearch, AffectsSolver, Predicates, ProgramMeaning

(***************************************************************************)
(* A relation: which solver, over which flow, and whether the query fixes  *)
(* the left argument (solve_right, and validate, which looks into it) or   *)
(* the right one (solve_left).                                             *)
(***************************************************************************)
Relations ==
  [solver : {"inext", "affects", "iaffects"},
   bip    : BOOLEAN,
   fixed  : {"left", "right"}]

FlowQueries(p) == [rel : Relations, of : Statements(p)]

\* The stacks a search can be in: calls that lead to one another.
CallStacks(p) ==
  {<<>>} \cup UNION
    {{c \in [1..n -> OfKind(p, "call")] :
        \A i \in 1..(n - 1) :
          get_proc_called(p, c[i + 1]) = get_proc(p, c[i])} :
       n \in 1..Cardinality(Procs(p))}

\* The points of a flow: the innermost call called the statement's procedure.
Places(p, bip) ==
  {n \in Statements(p) \X (IF bip THEN CallStacks(p) ELSE {<<>>}) :
     n[2] # <<>> => get_proc_called(p, Head(n[2])) = get_proc(p, n[1])}

FlowPoints(p, q) ==
  IF q.rel.solver = "inext" THEN Places(p, q.rel.bip)
  ELSE {<<v, n[1], n[2]>> : v \in Variables(p), n \in Places(p, q.rel.bip)}

FlowStart(p, q) ==
  CASE q.rel.solver = "inext" -> {<<q.of, <<>>>>}
    [] q.rel.solver # "inext" /\ q.rel.fixed = "left" ->
         solve_affected_statements(p, q.rel.bip, q.of)
    [] OTHER -> solve_affecting_statements(p, q.rel.bip, q.of)

\* The direct steps of solve_inext and solve_iprev.
DirectPoints(p, rel, s, callstack) ==
  IF rel.fixed = "left" THEN NextPoints(p, rel.bip, s, callstack)
                        ELSE PrevPoints(p, rel.bip, s, callstack)

FlowSucc(p, q, n) ==
  LET star == q.rel.solver = "iaffects"
  IN  CASE q.rel.solver = "inext" -> DirectPoints(p, q.rel, n[1], n[2])
        [] q.rel.solver # "inext" /\ q.rel.fixed = "left" ->
             solve_affected_by_var(p, q.rel.bip, star, n[1], n[2], n[3])
        [] OTHER ->
             solve_affecting_with_var(p, q.rel.bip, star, n[1], n[2], n[3])

\* Statements only: to_statement_set drops the stacks of the result.
FlowEmit(p, q, n) ==
  IF q.rel.solver = "inext"
  THEN {d[1] : d \in DirectPoints(p, q.rel, n[1], n[2])}
  ELSE IF IF q.rel.fixed = "left" THEN IsAffected(p, n[1], n[2])
                                  ELSE IsAffecting(p, n[1], n[2])
       THEN {n[2]} ELSE {}

(***************************************************************************)
(* The search is one of these, of programs that the parser accepts; with   *)
(* recursion the walk for Modifies would not end.                          *)
(***************************************************************************)
ASSUME SolversAssumption ==
  \A p \in Program :
    /\ IsProgram(p) /\ Acyclic(p)
    /\ \A q \in Queries(p) :
         /\ q \in FlowQueries(p)
         /\ Start(p, q) = FlowStart(p, q)
         /\ \A n \in Points(p, q) : /\ Succ(p, q, n) = FlowSucc(p, q, n)
                                  /\ Emit(p, q, n) = FlowEmit(p, q, n)

------------------------------------------------------------------------------
(***************************************************************************)
(* What the relations mean, defined from the program text downwards and    *)
(* without the solvers' walks.                                             *)
(***************************************************************************)

ModifiedByProc(p, proc) ==
  {get_variable(p, s) : s \in
     {a \in OfKind(p, "assign") : get_proc(p, a) \in Running(p, proc)}}

Kills(p, s, v) ==
  \/ kind(p, s) = "assign" /\ get_variable(p, s) = v
  \/ kind(p, s) = "call" /\ v \in ModifiedByProc(p, get_proc_called(p, s))

\* a Affects b: a path leads from a to b on which the variable a modifies and
\* b uses is not modified in between.
AffectsPairs(p) ==
  LET Through(v) == Closure({e \in Flow(p) : ~Kills(p, e[1], v)})
      Leads(a, b, v) == \E e \in Flow(p) :
                          /\ e[1] = a
                          /\ e[2] = b \/ <<e[2], b>> \in Through(v)
  IN  {e \in OfKind(p, "assign") \X OfKind(p, "assign") :
         /\ get_variable(p, e[1]) \in get_expr_vars(p, e[2])
         /\ Leads(e[1], e[2], get_variable(p, e[1]))}

Meaning(p, solver) ==
  CASE solver = "inext" -> Closure(Flow(p))
    [] solver = "affects" -> AffectsPairs(p)
    [] solver = "iaffects" -> Closure(AffectsPairs(p))

------------------------------------------------------------------------------
(***************************************************************************)
(* Properties                                                              *)
(***************************************************************************)

(***************************************************************************)
(* Every answer given is the relation's: Next* is the closure of the flow, *)
(* Affects follows it without a modification in between, Affects* is the   *)
(* closure of Affects, whichever argument is fixed (inext.cpp, affects.cpp *)
(* and iaffects.cpp over next.cpp).                                        *)
(***************************************************************************)
AnswersMeanRelations ==
  \A q \in DOMAIN cache :
    ~q.rel.bip =>
      cache[q] = {s \in Statements(ast) :
                    (IF q.rel.fixed = "left" THEN <<q.of, s>> ELSE <<s, q.of>>)
                      \in Meaning(ast, q.rel.solver)}

(***************************************************************************)
(* validate, solve_right and solve_left of Next decide one relation, and   *)
(* it is the control flow (next.cpp, three separate walks over the tree).  *)
(***************************************************************************)
NextSolversAgree ==
  Idle /\ cache = <<>> =>
    \A s, t \in Statements(ast) :
      /\ (<<s, t>> \in Flow(ast)) <=> (t \in solve_next(ast, s))
      /\ (<<s, t>> \in Flow(ast)) <=> (s \in solve_previous(ast, t))
      /\ (<<s, t>> \in Flow(ast)) <=> validate_next(ast, s, t)

(***************************************************************************)
(* Whatever a solver answers is in the set of the predicate a variable for *)
(* it is declared with, and in the wildcard's: the linker intersects the   *)
(* two (linker.cpp:83-90), and what one of the walks of contains.cpp,      *)
(* sibling.cpp, direct_uses.cpp and assign.cpp finds and the walk of       *)
(* predicate.cpp does not would be lost from every reply.                  *)
(***************************************************************************)
WordFor(c) ==
  CASE c[1] = "stmt" -> kind(ast, c[2])
    [] c[1] = "proc" -> "procedure"
    [] c[1] = "var"  -> "var"

Answered ==
  (UNION {{e[1], e[2]} : e \in contains_index(ast, TRUE) \cup sibling_index(ast)})
  \cup (UNION {{Stmt(e[2]), Var(e[1])} : e \in direct_uses_index(ast)})
  \cup {Var(v) : v \in UNION {index_variables(ast, effect, s) :
                               effect \in Effects, s \in Statements(ast)}}

AnswersWithinPredicates ==
  Idle /\ cache = <<>> =>
    \A c \in Answered : /\ c \in global_set(ast, WordFor(c))
                       /\ c \in global_set(ast, "wildcard")

(***************************************************************************)
(* docs/architecture.md: solve_right is "given the left part of a PQL      *)
(* clause and need to solve the right part", solve_left is "similar to     *)
(* solve right": for NextBip they are to decide one relation.              *)
(***************************************************************************)
NextBipSolversAgree ==
  Idle /\ cache = <<>> =>
    \A s, t \in Statements(ast) :
      (\E n \in solve_next_bip_statement(ast, s, <<>>) : n[1] = t)
        <=> (\E n \in solve_prev_bip_statement(ast, t, <<>>) : n[1] = s)
==============================================================================
