--------------------------- MODULE QueryProcessor ---------------------------
(***************************************************************************)
(* The evaluation of one parsed PQL query: SimplePqlFrontEnd::process_query*)
(* builds a linker from the declared predicates, hands the clauses to      *)
(* QueryProcessor (impl/processor.cpp) in the order of a ClauseSet         *)
(* (simple/query.cpp), and formats the selection (impl/selector.cpp).  The *)
(* linker is either of the two of QueryLinkers; a clause is solved only    *)
(* when the previous call of the linker has returned.                      *)
(*                                                                         *)
(* A solver is the relation it decides (simple/solver.h): the set of       *)
(* condition pairs that validate accepts and solve_left and solve_right    *)
(* enumerate.                                                              *)
(***************************************************************************)
EXTENDS QueryLinkers

CONSTANTS
    Queries,  \* [domains: a predicate table, clauses: a set, select: a selector]
    None      \* no answer yet

VARIABLES
    query,    \* the parsed query
    pending,  \* its clauses not solved yet
    answer    \* what format_result returned

queryVars == <<query, pending, answer>>
vars == <<buildVars, queryVars>>

-----------------------------------------------------------------------------
Var(q)   == [kind |-> "variable", q |-> q]
Given(c) == [kind |-> "condition", c |-> c]
Wildcard == [kind |-> "wildcard"]
Clause(rel, left, right) == [rel |-> rel, left |-> left, right |-> right]

IsVar(t) == t.kind = "variable"
IsGiven(t) == t.kind = "condition"
IsWildcard(t) == t.kind = "wildcard"

(* The conditions a variable can take are those the wildcard predicate     *)
(* collects from the program; one that a clause gives need not be among    *)
(* them.  A program has some condition (each of its procedures is one), and *)
(* a selected list of variables is not empty.                              *)
ASSUME QueriesAssumption ==
    /\ GlobalSet = Conds /\ Conds # {}
    /\ \A k \in Queries :
          /\ DOMAIN k.domains \subseteq Qvars
          /\ \A q \in DOMAIN k.domains : k.domains[q] \subseteq Conds
          /\ \A cl \in k.clauses : \A t \in {cl.left, cl.right} : IsVar(t) => t.q \in Qvars
          /\ k.select.kind \in {"boolean", "variable", "tuple"}
          /\ k.select.kind = "variable" => k.select.q \in Qvars
          /\ k.select.kind = "tuple" => k.select.qs \in Seq(Qvars) \ {<<>>}

SolveRight(rel, c) == {d \in Conds : <<c, d>> \in rel}
SolveLeft(rel, d)  == {c \in Conds : <<c, d>> \in rel}

(* is_less_than_term: conditions, then the wildcard, then the variables by *)
(* name.  Conditions compare by address among themselves: any order.       *)
TermBefore(t, u) ==
    \/ IsGiven(t) /\ ~IsGiven(u)
    \/ IsWildcard(t) /\ IsVar(u)
    \/ IsVar(t) /\ IsVar(u) /\ Rank[t.q] < Rank[u.q]

(* ClausePtr::operator <, up to the order of solver addresses.             *)
ClauseBefore(cl, dl) ==
    \/ TermBefore(cl.left, dl.left)
    \/ cl.left = dl.left /\ TermBefore(cl.right, dl.right)

(* A clause the iteration over the ClauseSet may reach next.               *)
Foremost(cl) == cl \in pending /\ \A dl \in pending : ~ClauseBefore(dl, cl)

-----------------------------------------------------------------------------
QueryInit ==
    /\ query \in Queries
    /\ pending = query.clauses
    /\ answer = None
    /\ build \in Builds
    /\ InitWith(query.domains)
    /\ Cluster!InitWith(query.domains)

(* The query variables whose conditions a clause reads through get_qvar.   *)
Reads(cl) ==
    { t.q : t \in { u \in {cl.left, cl.right} :
                      IsVar(u) /\ ~IsGiven(cl.left) /\ ~IsGiven(cl.right) } }

(* The query variables whose conditions a selector reads.                  *)
Selected(sel) ==
    CASE sel.kind = "boolean" -> {}
      [] sel.kind = "variable" -> {sel.q}
      [] sel.kind = "tuple" -> {sel.qs[i] : i \in DOMAIN sel.qs}

(* Mutant: the selector does not initialise its variables.                 *)
FetchForClauses ==
    /\ answer = None
    /\ \E cl \in pending : Foremost(cl) /\ \E q \in Reads(cl) : CallGetConditions(q)
    /\ UNCHANGED queryVars

(* get_conditions on a variable the query did not declare, on behalf of    *)
(* the clause or the selector about to be evaluated.                       *)
Fetch ==
    /\ answer = None
    /\ \/ \E cl \in pending : Foremost(cl) /\ \E q \in Reads(cl) : CallGetConditions(q)
       \/ pending = {} /\ \E q \in Selected(query.select) : CallGetConditions(q)
    /\ UNCHANGED queryVars

(* A clause whose truth does not depend on a query variable.               *)
Require(holds) == IF holds THEN Idle /\ UNCHANGED buildVars ELSE CallInvalidateState

(* Solver(condition, condition).                                           *)
GivenGiven(cl) ==
    /\ IsGiven(cl.left) /\ IsGiven(cl.right)
    /\ Require(<<cl.left.c, cl.right.c>> \in cl.rel)

(* Solver(q, q), one variable on both sides.                               *)
SameVariable(cl) ==
    /\ IsVar(cl.left) /\ cl.left = cl.right
    /\ CallUpdateResults(cl.left.q, {c \in Candidates(cl.left.q) : <<c, c>> \in cl.rel})

(* Mutant: asks the solver from the left side for both orientations.       *)
TwoVariablesLeft(cl) ==
    LET q == cl.left.q
        p == cl.right.q
        links == IF Cardinality(Candidates(q)) <= Cardinality(Candidates(p))
                 THEN UNION { {c} \X (SolveRight(cl.rel, c) \cap Candidates(p)) : c \in Candidates(q) }
                 ELSE UNION { (SolveRight(cl.rel, d) \cap Candidates(q)) \X {d} : d \in Candidates(p) }
    IN  /\ IsVar(cl.left) /\ IsVar(cl.right) /\ q # p
        /\ CallUpdateLinks(q, p, links)

(* Solver(q, p): the smaller set is enumerated, the solver queried from    *)
(* its side, and the result cut down to the other set.                     *)
TwoVariables(cl) ==
    LET q == cl.left.q
        p == cl.right.q
        links == IF Cardinality(Candidates(q)) <= Cardinality(Candidates(p))
                 THEN UNION { {c} \X (SolveRight(cl.rel, c) \cap Candidates(p)) : c \in Candidates(q) }
                 ELSE UNION { (SolveLeft(cl.rel, d) \cap Candidates(q)) \X {d} : d \in Candidates(p) }
    IN  /\ IsVar(cl.left) /\ IsVar(cl.right) /\ q # p
        /\ CallUpdateLinks(q, p, links)

(* Solver(_, _).                                                           *)
WildcardWildcard(cl) ==
    /\ IsWildcard(cl.left) /\ IsWildcard(cl.right)
    /\ Require(\E d \in GlobalSet : SolveLeft(cl.rel, d) # {})

(* Mutant: solves the left side for both orientations.                     *)
VariableGivenLeft(cl) ==
    \/ /\ IsVar(cl.left) /\ IsGiven(cl.right)
       /\ CallUpdateResults(cl.left.q, SolveLeft(cl.rel, cl.right.c))
    \/ /\ IsGiven(cl.left) /\ IsVar(cl.right)
       /\ CallUpdateResults(cl.right.q, SolveLeft(cl.rel, cl.left.c))

(* Solver(q, condition) and Solver(condition, q).                          *)
VariableGiven(cl) ==
    \/ /\ IsVar(cl.left) /\ IsGiven(cl.right)
       /\ CallUpdateResults(cl.left.q, SolveLeft(cl.rel, cl.right.c))
    \/ /\ IsGiven(cl.left) /\ IsVar(cl.right)
       /\ CallUpdateResults(cl.right.q, SolveRight(cl.rel, cl.left.c))

(* Solver(q, _) and Solver(_, q).                                          *)
VariableWildcard(cl) ==
    \/ /\ IsVar(cl.left) /\ IsWildcard(cl.right)
       /\ CallUpdateResults(cl.left.q, {c \in Candidates(cl.left.q) : SolveRight(cl.rel, c) # {}})
    \/ /\ IsWildcard(cl.left) /\ IsVar(cl.right)
       /\ CallUpdateResults(cl.right.q, {d \in Candidates(cl.right.q) : SolveLeft(cl.rel, d) # {}})

(* Solver(condition, _) and Solver(_, condition).                          *)
GivenWildcard(cl) ==
    \/ /\ IsGiven(cl.left) /\ IsWildcard(cl.right)
       /\ Require(SolveRight(cl.rel, cl.left.c) # {})
    \/ /\ IsWildcard(cl.left) /\ IsGiven(cl.right)
       /\ Require(SolveLeft(cl.rel, cl.right.c) # {})

SolveClause(cl) ==
    /\ Foremost(cl)
    /\ Reads(cl) \subseteq Known
    /\ pending' = pending \ {cl}
    /\ UNCHANGED <<query, answer>>
    /\ \/ GivenGiven(cl)
       \/ SameVariable(cl)
       \/ TwoVariables(cl)
       \/ WildcardWildcard(cl)
       \/ VariableGiven(cl)
       \/ VariableWildcard(cl)
       \/ GivenWildcard(cl)

(* Mutant: answers from the variable of an invalid state.                  *)
FormattedAlways(sel, made) ==
    CASE sel.kind = "boolean"  -> IF IsValid THEN {"true"} ELSE {"false"}
      [] sel.kind = "variable" -> IF sel.fits THEN Candidates(sel.q) ELSE {}
      [] sel.kind = "tuple"    -> IF IsValid THEN made ELSE {}

(* format_result, one format_selector per kind of selector.  fits says     *)
(* whether the selected attribute (stmt#, varName ...) is one of the       *)
(* variable's predicate; made is what make_tuples returns.                 *)
Formatted(sel, made) ==
    CASE sel.kind = "boolean"  -> IF IsValid THEN {"true"} ELSE {"false"}
      [] sel.kind = "variable" -> IF IsValid /\ sel.fits THEN Candidates(sel.q) ELSE {}
      [] sel.kind = "tuple"    -> IF IsValid THEN made ELSE {}

(* make_tuples of the cluster build adds columns for the unlinked variables*)
(* of the selection; that of the graph build changes nothing.              *)
FormatResult ==
    LET sel == query.select
        made == IF build = "graph" THEN MakeTuples(sel.qs) ELSE reply'
    IN  /\ Idle
        /\ pending = {}
        /\ answer = None
        /\ Selected(sel) \subseteq Known
        /\ IF build = "cluster" /\ IsValid /\ sel.kind = "tuple"
           THEN Cluster!MakeTuples(sel.qs) /\ UNCHANGED <<build, linkerVars>>
           ELSE UNCHANGED buildVars
        /\ answer' = Formatted(sel, made)
        /\ UNCHANGED <<query, pending>>

Solve == \E cl \in pending : SolveClause(cl)
RunLinker == RunCascade /\ UNCHANGED queryVars

QueryNext == Fetch \/ Solve \/ RunLinker \/ FormatResult

(* process_query runs in one thread until it has an answer.                *)
QuerySpec == QueryInit /\ [][QueryNext]_vars /\ WF_vars(QueryNext)
-----------------------------------------------------------------------------
(* What a clause says of an assignment: a wildcard stands for some         *)
(* condition.                                                              *)
Denotes(t, s) ==
    CASE t.kind = "variable"  -> {s[t.q]}
      [] t.kind = "condition" -> {t.c}
      [] t.kind = "wildcard"  -> Conds

Holds(cl, s) ==
    \E c \in Denotes(cl.left, s) : \E d \in Denotes(cl.right, s) : <<c, d>> \in cl.rel

(* The assignments within the declared predicates that satisfy the clauses.*)
Satisfying(clauses) ==
    { s \in Assignments :
        /\ \A q \in DOMAIN query.domains : s[q] \in query.domains[q]
        /\ \A cl \in clauses : Holds(cl, s) }

(* The answer PQL gives a selector over a set of assignments.              *)
Meant(sel, sols) ==
    CASE sel.kind = "boolean"  -> {IF sols # {} THEN "true" ELSE "false"}
      [] sel.kind = "variable" -> IF sel.fits THEN {s[sel.q] : s \in sols} ELSE {}
      [] sel.kind = "tuple"    -> {[i \in DOMAIN sel.qs |-> s[sel.qs[i]]] : s \in sols}

Edges == { {cl.left.q, cl.right.q} :
             cl \in {k \in query.clauses : IsVar(k.left) /\ IsVar(k.right) /\ k.left # k.right} }

(* The variables related by the query's clauses form a forest.             *)
IsForest ==
    \A S \in (SUBSET Qvars) \ {{}} : Cardinality({e \in Edges : e \subseteq S}) < Cardinality(S)

(* Where the linker of the build promises exact answers.  The graph: the   *)
(* variables form a forest and are declared, with predicates that have some*)
(* member.  The cluster: no unlinked variable is left empty, which no code *)
(* of linker-cluster.cpp makes an invalid state.                           *)
Exacting ==
    IF build = "graph"
    THEN IsForest /\ \A q \in Qvars : q \in DOMAIN query.domains /\ query.domains[q] # {}
    ELSE \A q \in Cluster!Unlinked : single_values[q] # {}

(* The assignments the requests made so far leave.                         *)
Requested == IF build = "graph" THEN solutions ELSE Cluster!Solutions

(* The nine forms of solve_clause make of each clause the request it means:*)
(* the assignments compatible with all requests are, at every moment, those*)
(* that satisfy the clauses solved so far, whatever had already been       *)
(* removed when a clause read the sets of its variables.  In the cluster   *)
(* build they are what the tables hold.                                    *)
RequestsMeanClauses == Requested = Satisfying(query.clauses \ pending)

(* No right answer is missing from a reply, whatever the clauses, cycles   *)
(* among them included; and a query that has a solution is never answered  *)
(* "false".                                                                *)
AnswerComplete ==
    LET sols == Satisfying(query.clauses)
    IN  answer # None /\ sols # {} => Meant(query.select, sols) \subseteq answer

(* Where the linker promises it, the reply is exactly what the query means,*)
(* in whatever order the clauses were solved: in the cluster build on      *)
(* cyclic graphs of variables, too.                                        *)
AnswerExact ==
    answer # None /\ Exacting => answer = Meant(query.select, Satisfying(query.clauses))

(* "If one of the query variables yield empty set result, the linker state *)
(* becomes invalid ... If the Select BOOLEAN clause is used in the PQL,    *)
(* this will cause the result to be false" (simple/linker.h).              *)
EmptyMeansFalse ==
    answer # None /\ query.select.kind = "boolean"
        /\ (\E cl \in query.clauses : \E t \in {cl.left, cl.right} :
                IsVar(t) /\ Candidates(t.q) = {}) => answer = {"false"}

(* Every query is answered: no clause order, cascade or selector leaves    *)
(* process_query without a next step.                                      *)
EveryQueryAnswered == <>(answer # None)
=============================================================================
