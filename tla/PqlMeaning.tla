----------------------------- MODULE PqlMeaning ------------------------------
(***************************************************************************)
(* What the text of a query says, against what the clauses say that        *)
(* PqlParser makes of it once the processor hands them to the solvers.     *)
(* The text is about attributes: s.stmt#, v.varName, p.procName, c.value.  *)
(* The clauses are about conditions, and EqualSolver stands in for all     *)
(* comparisons of attributes.                                              *)
(***************************************************************************)
EXTENDS PqlParser, EqualSolver, Predicates

CONSTANTS
  Program,    \* the syntax tree
  Matches     \* the pairs of expr and iexpr (ExprSolvers has them), and of
              \* what other solvers the table has, if not about constants

\* The tables of the tree have its procedures and statements.
ASSUME TablesAssumption ==
  /\ IsProgram(Program)
  /\ DOMAIN ProcNames = Procs(Program)
  /\ \A name \in DOMAIN ProcTable : /\ ProcTable[name] \in Procs(Program)
                                    /\ ProcNames[ProcTable[name]] = name
  /\ \A n \in Procs(Program) : /\ ProcNames[n] \in DOMAIN ProcTable
                               /\ ProcTable[ProcNames[n]] = n
  /\ LineTable = Statements(Program)

Everything == global_set(Program, "wildcard")
Nodes      == {c \in Everything : c[1] # "const"}

\* expr and iexpr relate assignments with patterns.
ASSUME MatchesAssumption ==
  /\ {"expr", "iexpr"} \subseteq DOMAIN Matches
  /\ "equal" \notin DOMAIN Matches
  /\ \A solver \in DOMAIN Matches : \A m \in Matches[solver] :
       m = <<m[1], m[2]>> /\ m[1] \in Nodes /\ (m[2] \in Nodes \/ m[2][1] = "pattern")
  /\ \A m \in Matches["expr"] \cup Matches["iexpr"] :
       \E s \in OfKind(Program, "assign") : m[1] = Stmt(s)

AllConditions == Everything \cup {m[2] : m \in Matches["expr"] \cup Matches["iexpr"]}

Ambiguous == {name \in DOMAIN ProcTable : Var(name) \in Everything}

------------------------------------------------------------------------------
\* The clauses, under a choice a of a condition for each variable.
StatementPairs(R(_, _, _)) ==
  {<<Stmt(e[1]), Stmt(e[2])>> :
     e \in {d \in Statements(Program) \X Statements(Program) : R(Program, d[1], d[2])}}

Relation ==
  [solver \in {"follows", "ifollows", "parent", "calls", "direct_uses"} \cup DOMAIN Matches |->
     CASE solver = "follows"     -> StatementPairs(validate_follows)
       [] solver = "ifollows"    -> StatementPairs(validate_ifollows)
       [] solver = "parent"      -> StatementPairs(validate_parent)
       [] solver = "calls"       -> {<<Proc(e[1]), Proc(e[2])>> : e \in called_pairs(Program)}
       [] solver = "direct_uses" -> {<<Stmt(e[2]), Var(e[1])>> : e \in direct_uses_index(Program)}
       [] OTHER                  -> Matches[solver]]

EqualTo == [c \in AllConditions |-> solve_equal(Program, c)]
SolvedEqual(c) == IF c \in AllConditions THEN EqualTo[c] ELSE solve_equal(Program, c)

Values(t, a) ==
  CASE t.kind = "condition" -> {t.c}
    [] t.kind = "variable"  -> {a[t.q]}
    [] t.kind = "wildcard"  -> AllConditions

\* The processor validates two given conditions and one variable on both
\* sides, and otherwise solves from one side: from a given condition, or
\* from the variable with the smaller set, which may be either.
ComparesEqual(l, r, a, from) ==
  \E c \in Values(l, a), d \in Values(r, a) :
    IF l = r \/ (l.kind = "condition" /\ r.kind = "condition")
    THEN validate_equal(Program, c, d)
    ELSE IF l.kind = "condition" \/ (r.kind = "variable" /\ from = "left")
         THEN d \in SolvedEqual(c)
         ELSE c \in SolvedEqual(d)

ClauseHolds(cl, a, from) ==
  IF cl.solver = "equal" THEN ComparesEqual(cl.left, cl.right, a, from)
  ELSE \E c \in Values(cl.left, a), d \in Values(cl.right, a) : <<c, d>> \in Relation[cl.solver]

------------------------------------------------------------------------------
\* The text.  A literal is whatever has that name, an integer the statement
\* of that line or the constant.
Said(t, a) ==
  CASE t.kind = "literal"  -> {c \in Everything : has_name(c) /\ get_name(c) = t.name}
    [] t.kind = "integer"  -> {c \in Everything : has_number(c) /\ get_number(c) = t.i}
    [] t.kind = "variable" -> {a[t.q]}
    [] t.kind = "pattern"  -> {<<"pattern", t.expr>>}
    [] t.kind = "wildcard" -> AllConditions

\* The value of an attribute: a number or a name.  Without a field, a
\* statement is its line and everything else its only attribute.
NameOf(c) == IF c[1] = "stmt" THEN ProcNames[get_proc_called(Program, c[2])] ELSE get_name(c)

Attribute(c, field) ==
  IF field \in {"varname", "procname"} \/ (field = "" /\ has_name(c))
  THEN <<"name", NameOf(c)>> ELSE <<"number", c[2]>>

AttributeOf(t, a) ==
  CASE t.kind = "literal"  -> <<"name", t.name>>
    [] t.kind = "integer"  -> <<"number", t.i>>
    [] t.kind = "variable" -> Attribute(a[t.q], t.field)

PhraseHolds(ph, a) ==
  CASE ph.of = "such that" ->
         \E c \in Said(ph.text.left, a), d \in Said(ph.text.right, a) :
           <<c, d>> \in Relation[SolverName(ph.text)]
    [] ph.of = "with" ->
         LET l == AttributeOf(ph.text.left, a)
             r == AttributeOf(ph.text.right, a)
         IN  l[1] = r[1] /\ l[2] = r[2]
    [] ph.of = "pattern" ->
         \E s \in Said(ph.text.stmt, a) :
           /\ \E v \in Said(ph.text.var, a) : <<s, v>> \in Relation["direct_uses"]
           /\ \/ ph.text.expr.kind = "wildcard"
              \/ \E e \in Said(ph.text.expr, a) :
                   <<s, e>> \in Matches[IF ph.text.indirect THEN "iexpr" ELSE "expr"]

------------------------------------------------------------------------------
\* The sort of a side of a comparison, when the declarations fix it.
NameSort(t) ==
  t.field \in {"varname", "procname"}
  \/ (t.field = "" /\ PredicateOf(t.q) \in {"var", "procedure"})
NumberSort(t) ==
  t.field \in {"stmt#", "value"}
  \/ (t.field = "" /\ PredicateOf(t.q) \in StatementPredicates \cup {"const"})

Sort(t) ==
  CASE t.kind = "literal"  -> "name"
    [] t.kind = "integer"  -> "number"
    [] t.kind = "variable" ->
         IF NameSort(t) THEN "name" ELSE IF NumberSort(t) THEN "number" ELSE "open"

IsVariable(t) == t.kind = "variable"
CalledName(t) == IsVariable(t) /\ t.field = "procname" /\ PredicateOf(t.q) = "call"

(***************************************************************************)
(* The phrases whose clauses mean what they say.  Left out are             *)
(*  - `such that' with a solver that has no relation here: equal, and what  *)
(*    relates constants, which an integer means only if it is no line;      *)
(*  - comparisons of a name with a number, of two integers (validate joins *)
(*    the numbers with && instead of ==), of a constant with itself (0     *)
(*    fails that test), and of the procName of a call with another         *)
(*    variable (the field is forgotten, and the call compared by its line);*)
(*  - literals that name both a procedure and a variable, where a variable *)
(*    is meant (parse_condition takes the procedure);                      *)
(*  - patterns about a wildcard with a variable and an expression: the two *)
(*    clauses may then speak of different statements.                      *)
(***************************************************************************)
AsMeant(ph) ==
  CASE ph.of = "such that" ->
         /\ SolverName(ph.text) \in DOMAIN Relation
         /\ \A t \in {ph.text.left, ph.text.right} :
              t.kind = "literal" => t.name \notin Ambiguous \/ SolverName(ph.text) = "calls"
    [] ph.of = "with" ->
         LET l == ph.text.left
             r == ph.text.right
         IN  /\ Sort(l) = Sort(r) /\ Sort(l) # "open"
             /\ l.kind = "integer" => r.kind # "integer"
             /\ IsVariable(l) /\ IsVariable(r) =>
                  /\ ~CalledName(l) /\ ~CalledName(r)
                  /\ l.q = r.q => PredicateOf(l.q) # "const"
    [] ph.of = "pattern" ->
         /\ ph.text.stmt.kind = "wildcard" =>
              ph.text.var.kind = "wildcard" \/ ph.text.expr.kind = "wildcard"
         /\ ph.text.var.kind = "literal" => ph.text.var.name \notin Ambiguous

TextsOf(ph) ==
  IF ph.of = "pattern" THEN {ph.text.stmt, ph.text.var, ph.text.expr}
  ELSE {ph.text.left, ph.text.right}

Mentioned == {t.q : t \in {u \in UNION {TextsOf(ph) : ph \in asked} : IsVariable(u)}}

\* A variable stands for a condition its predicate accepts, an undeclared
\* one for any.
DomainOf == [pred \in PredicateTable |-> global_set(Program, pred)]

Choices ==
  {a \in [Mentioned -> AllConditions] :
     \A q \in Mentioned : a[q] \in IF q \in DOMAIN predicates THEN DomainOf[predicates[q]]
                                   ELSE AllConditions}

(***************************************************************************)
(* The clauses of a parsed query hold for the same conditions as its text, *)
(* from whichever side the processor solves a comparison: parse_clause,    *)
(* parse_with with its field tests, parse_pattern, EqualSolver and the     *)
(* ClauseSet together.                                                     *)
(***************************************************************************)
ClausesMeanText ==
  mode = "parsed" /\ (\A ph \in asked : AsMeant(ph)) =>
    \A a \in Choices : \A from \in {"left", "right"} :
      (\A cl \in clauses : ClauseHolds(cl, a, from)) <=> (\A ph \in asked : PhraseHolds(ph, a))
==============================================================================
