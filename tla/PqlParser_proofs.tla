--------------------------- MODULE PqlParser_proofs ---------------------------
(***************************************************************************)
(* Theorems about PqlParser, the order of its ClauseSet and the sessions   *)
(* of Clients, for every set of names, solvers and texts and every table   *)
(* of procedures and lines; and about PqlMeaning, for every program and    *)
(* whatever its other solvers relate: the clauses mean what the text says. *)
(***************************************************************************)
EXTENDS Clients, PqlMeaning, ProgramLemmas

(***************************************************************************)
(* The types of conditions are ordered: LessTypes is a strict order that   *)
(* leaves no two types apart, although it is a list of specialisations.    *)
(***************************************************************************)
Types == {"operator", "const", "pattern", "var", "stmt", "proc"}

LEMMA TypesOrdered ==
  /\ \A s \in Types : <<s, s>> \notin LessTypes
  /\ \A s, t \in Types : s = t \/ <<s, t>> \in LessTypes \/ <<t, s>> \in LessTypes
  /\ \A s, t, u \in Types :
       <<s, t>> \in LessTypes /\ <<t, u>> \in LessTypes => <<s, u>> \in LessTypes
BY DEF Types, LessTypes

\* A condition is determined by its type and its key.
LEMMA ConditionKeys ==
  /\ \A c \in Conditions : c[1] \in Types /\ Key(c) \in Nat
  /\ \A c, d \in Conditions : is_same_condition(c, d) <=> c = d
<1>1. ASSUME NEW c \in Conditions
      PROVE  /\ c[1] \in Types
             /\ c = <<c[1], c[2]>>
             /\ Key(c) \in Nat
             /\ c[1] = "var" => c[2] \in Names /\ Key(c) = NameRank[c[2]]
             /\ c[1] # "var" => Key(c) = c[2]
  BY OrderAssumption DEF Conditions, Types, Key
<1>2. ASSUME NEW c \in Conditions, NEW d \in Conditions, is_same_condition(c, d)
      PROVE  c = d
  <2>1. c[1] = d[1] /\ Key(c) = Key(d)
    BY <1>2 DEF is_same_condition
  <2>2. c[2] = d[2]
    BY <2>1, <1>1, OrderAssumption
  <2> QED
    BY <2>1, <2>2, <1>1
<1>3. \A c \in Conditions : is_same_condition(c, c)
  BY DEF is_same_condition
<1> QED
  BY <1>1, <1>2, <1>3

\* is_less_than_condition is a strict total order.
LEMMA ConditionsOrdered ==
  /\ \A c \in Conditions : ~is_less_than_condition(c, c)
  /\ \A c, d \in Conditions :
       c = d \/ is_less_than_condition(c, d) \/ is_less_than_condition(d, c)
  /\ \A c, d, e \in Conditions :
       is_less_than_condition(c, d) /\ is_less_than_condition(d, e)
         => is_less_than_condition(c, e)
<1>1. \A c \in Conditions : ~is_less_than_condition(c, c)
  BY TypesOrdered, ConditionKeys DEF is_less_than_condition
<1>2. ASSUME NEW c \in Conditions, NEW d \in Conditions, c # d
      PROVE  is_less_than_condition(c, d) \/ is_less_than_condition(d, c)
  <2>1. CASE c[1] # d[1]
    BY <2>1, TypesOrdered, ConditionKeys DEF is_less_than_condition
  <2>2. CASE c[1] = d[1]
    <3>1. Key(c) # Key(d)
      BY <1>2, <2>2, ConditionKeys DEF is_same_condition
    <3>2. Key(c) < Key(d) \/ Key(d) < Key(c)
      BY <3>1, ConditionKeys
    <3> QED
      BY <3>2, <2>2 DEF is_less_than_condition
  <2> QED
    BY <2>1, <2>2
<1>3. ASSUME NEW c \in Conditions, NEW d \in Conditions, NEW e \in Conditions,
             is_less_than_condition(c, d), is_less_than_condition(d, e)
      PROVE  is_less_than_condition(c, e)
  <2>1. CASE c[1] = d[1] /\ d[1] = e[1]
    <3>1. Key(c) < Key(d) /\ Key(d) < Key(e)
      BY <1>3, <2>1, TypesOrdered, ConditionKeys DEF is_less_than_condition
    <3>2. Key(c) < Key(e)
      BY <3>1, ConditionKeys
    <3> QED
      BY <3>2, <2>1 DEF is_less_than_condition
  <2>2. CASE ~(c[1] = d[1] /\ d[1] = e[1])
    BY <1>3, <2>2, TypesOrdered, ConditionKeys DEF is_less_than_condition
  <2> QED
    BY <2>1, <2>2
<1> QED
  BY <1>1, <1>2, <1>3

\* is_same_term is equality, and is_less_than_term a strict total order.
LEMMA TermsOrdered ==
  /\ \A t, u \in Terms : is_same_term(t, u) <=> t = u
  /\ \A t \in Terms : ~is_less_than_term(t, t)
  /\ \A t, u \in Terms : t = u \/ is_less_than_term(t, u) \/ is_less_than_term(u, t)
  /\ \A t, u, v \in Terms :
       is_less_than_term(t, u) /\ is_less_than_term(u, v) => is_less_than_term(t, v)
<1>1. ASSUME NEW t \in Terms
      PROVE  \/ t.kind = "condition" /\ t.c \in Conditions /\ t = Given(t.c)
             \/ t.kind = "variable" /\ t.q \in Names /\ t = QVar(t.q)
             \/ t.kind = "wildcard" /\ t = Wildcard
  BY DEF Terms, Given, QVar, Wildcard
<1>2. \A q, r, s \in Names :
        /\ NameRank[q] \in Nat
        /\ ~(NameRank[q] < NameRank[q])
        /\ q = r \/ NameRank[q] < NameRank[r] \/ NameRank[r] < NameRank[q]
        /\ NameRank[q] < NameRank[r] /\ NameRank[r] < NameRank[s] => NameRank[q] < NameRank[s]
  BY OrderAssumption
<1>3. ASSUME NEW t \in Terms, NEW u \in Terms
      PROVE  is_same_term(t, u) <=> t = u
  BY <1>1, ConditionKeys DEF is_same_term
<1>4. ASSUME NEW t \in Terms
      PROVE  ~is_less_than_term(t, t)
  BY <1>1, <1>2, ConditionsOrdered DEF is_less_than_term
<1>5. ASSUME NEW t \in Terms, NEW u \in Terms, t # u
      PROVE  is_less_than_term(t, u) \/ is_less_than_term(u, t)
  BY <1>1, <1>2, <1>5, ConditionsOrdered DEF is_less_than_term
<1>6. ASSUME NEW t \in Terms, NEW u \in Terms, NEW v \in Terms,
             is_less_than_term(t, u), is_less_than_term(u, v)
      PROVE  is_less_than_term(t, v)
  BY <1>1, <1>2, <1>6, ConditionsOrdered DEF is_less_than_term
<1> QED
  BY <1>3, <1>4, <1>5, <1>6

(***************************************************************************)
(* ClausePtr::operator < is a strict total order of clauses: a std::set    *)
(* ordered by it is a set of clauses, and takes no two of them for one     *)
(* (query.cpp:30-45 with query_utils.cpp and condition_utils.cpp).         *)
(***************************************************************************)
THEOREM ClausesOrdered ==
  /\ \A cl \in Clauses : ~is_less_than_clause(cl, cl)
  /\ \A cl, dl \in Clauses : cl = dl \/ is_less_than_clause(cl, dl) \/ is_less_than_clause(dl, cl)
  /\ \A cl, dl, el \in Clauses :
       is_less_than_clause(cl, dl) /\ is_less_than_clause(dl, el) => is_less_than_clause(cl, el)
<1> USE DEF is_less_than_clause
<1>1. \A cl \in Clauses : /\ cl.left \in Terms /\ cl.right \in Terms
                          /\ cl.solver \in Solvers /\ Address[cl.solver] \in Nat
                          /\ cl = [solver |-> cl.solver, left |-> cl.left, right |-> cl.right]
  BY OrderAssumption DEF Clauses
<1>2. \A cl \in Clauses : ~is_less_than_clause(cl, cl)
  BY <1>1, TermsOrdered
<1>3. ASSUME NEW cl \in Clauses, NEW dl \in Clauses, cl # dl
      PROVE  is_less_than_clause(cl, dl) \/ is_less_than_clause(dl, cl)
  <2>1. CASE cl.left # dl.left
    BY <1>1, <2>1, TermsOrdered
  <2>2. CASE cl.left = dl.left /\ cl.right # dl.right
    BY <1>1, <2>2, TermsOrdered
  <2>3. CASE cl.left = dl.left /\ cl.right = dl.right
    <3>1. cl.solver # dl.solver
      BY <1>1, <1>3, <2>3
    <3>2. Address[cl.solver] < Address[dl.solver] \/ Address[dl.solver] < Address[cl.solver]
      BY <1>1, <3>1, OrderAssumption
    <3> QED
      BY <1>1, <2>3, <3>2, TermsOrdered
  <2> QED
    BY <2>1, <2>2, <2>3
<1>4. ASSUME NEW cl \in Clauses, NEW dl \in Clauses, NEW el \in Clauses,
             is_less_than_clause(cl, dl), is_less_than_clause(dl, el)
      PROVE  is_less_than_clause(cl, el)
  <2>1. CASE ~(cl.left = dl.left /\ dl.left = el.left)
    BY <1>1, <1>4, <2>1, TermsOrdered
  <2>2. CASE cl.left = dl.left /\ dl.left = el.left /\ ~(cl.right = dl.right /\ dl.right = el.right)
    BY <1>1, <1>4, <2>2, TermsOrdered
  <2>3. CASE cl.left = dl.left /\ dl.left = el.left /\ cl.right = dl.right /\ dl.right = el.right
    BY <1>1, <1>4, <2>3, TermsOrdered
  <2> QED
    BY <2>1, <2>2, <2>3
<1> QED
  BY <1>2, <1>3, <1>4

\* Inserting a clause adds it.
LEMMA InsertAdds ==
  ASSUME NEW S, NEW cl \in Clauses, \A dl \in S : dl \in Clauses
  PROVE  /\ Insert(S, cl) = S \cup {cl}
         /\ \A dl \in Insert(S, cl) : dl \in Clauses
BY ClausesOrdered DEF Insert, Equivalent

-------------------------------------------------------------------------------
\* What the parse functions return.
LEMMA TermsParsed ==
  /\ \A t \in TermTexts : parse_term(t) \in Terms
  /\ \A t \in FieldTexts : parse_with_term(t) \in Terms
  /\ \A t \in ExprTexts : parse_expr_term(t) \in Terms
<1> USE TextAssumption DEF Terms, Conditions, Given, QVar, Wildcard
<1>1. \A name \in Names : parse_condition(name) \in Conditions
  BY DEF parse_condition
<1>2. \A i \in Nat : ParseInteger(i) \in Conditions
  BY DEF ParseInteger
<1>3. \A t \in TermTexts : parse_term(t) \in Terms
  BY <1>1, <1>2 DEF TermTexts, parse_term
<1>4. \A t \in FieldTexts : parse_with_term(t) \in Terms
  BY <1>1, <1>2 DEF FieldTexts, parse_with_term, parse_term
<1>5. \A t \in ExprTexts : parse_expr_term(t) \in Terms
  BY DEF ExprTexts, parse_expr_term
<1> QED
  BY <1>3, <1>4, <1>5

LEMMA ClausesParsed ==
  /\ \A ph \in SuchThats : SolverName(ph) \in Solvers => parse_clause(ph) \in Clauses
  /\ \A ph \in Withs : parse_with(ph) \in Clauses
  /\ \A ph \in Patterns : uses_clause(ph) \in Clauses /\ expr_clause(ph) \in Clauses
<1>1. ASSUME NEW ph \in SuchThats, SolverName(ph) \in Solvers
      PROVE  parse_clause(ph) \in Clauses
  BY <1>1, TermsParsed, TextAssumption DEF parse_clause, Clause, Clauses
<1>2. ASSUME NEW ph \in Withs
      PROVE  parse_with(ph) \in Clauses
  BY TermsParsed, TextAssumption DEF parse_with, Clause, Clauses
<1>3. ASSUME NEW ph \in Patterns
      PROVE  uses_clause(ph) \in Clauses /\ expr_clause(ph) \in Clauses
  BY TermsParsed, TextAssumption DEF uses_clause, expr_clause, Clause, Clauses
<1> QED
  BY <1>1, <1>2, <1>3

\* The clauses a phrase adds are those it stands for.
LEMMA PhraseAdds ==
  ASSUME NEW S, \A dl \in S : dl \in Clauses
  PROVE  /\ \A ph \in SuchThats : SolverName(ph) \in Solvers =>
              Insert(S, parse_clause(ph)) = S \cup ClausesOf([of |-> "such that", text |-> ph])
         /\ \A ph \in Withs :
              Insert(S, parse_with(ph)) = S \cup ClausesOf([of |-> "with", text |-> ph])
         /\ \A ph \in Patterns :
              parse_pattern(S, ph) = S \cup ClausesOf([of |-> "pattern", text |-> ph])
<1>1. ASSUME NEW ph \in SuchThats, SolverName(ph) \in Solvers
      PROVE  Insert(S, parse_clause(ph)) = S \cup ClausesOf([of |-> "such that", text |-> ph])
  BY <1>1, ClausesParsed, InsertAdds DEF ClausesOf
<1>2. ASSUME NEW ph \in Withs
      PROVE  Insert(S, parse_with(ph)) = S \cup ClausesOf([of |-> "with", text |-> ph])
  BY ClausesParsed, InsertAdds DEF ClausesOf
<1>3. ASSUME NEW ph \in Patterns
      PROVE  parse_pattern(S, ph) = S \cup ClausesOf([of |-> "pattern", text |-> ph])
  <2>1. uses_clause(ph) \in Clauses /\ expr_clause(ph) \in Clauses
    BY ClausesParsed
  <2>2. /\ Insert(S, uses_clause(ph)) = S \cup {uses_clause(ph)}
        /\ Insert(S, expr_clause(ph)) = S \cup {expr_clause(ph)}
        /\ \A dl \in Insert(S, uses_clause(ph)) : dl \in Clauses
    BY <2>1, InsertAdds
  <2>3. Insert(Insert(S, uses_clause(ph)), expr_clause(ph))
          = S \cup {uses_clause(ph), expr_clause(ph)}
    <3>1. Insert(Insert(S, uses_clause(ph)), expr_clause(ph))
            = Insert(S, uses_clause(ph)) \cup {expr_clause(ph)}
      BY <2>1, <2>2, InsertAdds
    <3> QED
      BY <3>1, <2>2
  <2>4. ClausesOf([of |-> "pattern", text |-> ph])
          = (IF ph.expr.kind = "wildcard" THEN {} ELSE {expr_clause(ph)})
            \cup (IF ph.var.kind = "wildcard" /\ ph.expr.kind # "wildcard" THEN {}
                  ELSE {uses_clause(ph)})
    BY DEF ClausesOf
  <2> QED
    BY <2>2, <2>3, <2>4 DEF parse_pattern
<1> QED
  BY <1>1, <1>2, <1>3

-------------------------------------------------------------------------------
\* Reading a phrase keeps the set of clauses what the text says.
LEMMA PhraseRead ==
  ASSUME NEW ph \in Phrases, ParserTypeOK, ClausesKept,
         clauses' = clauses \cup ClausesOf(ph), asked' = asked \cup {ph}
  PROVE  /\ ClausesKept'
         /\ \A cl \in clauses' : cl \in Clauses
         /\ asked' \subseteq Phrases
<1>1. UNION {ClausesOf(x) : x \in asked \cup {ph}}
        = (UNION {ClausesOf(x) : x \in asked}) \cup ClausesOf(ph)
  OBVIOUS
<1>2. ClausesKept'
  BY <1>1 DEF ClausesKept
<1>3. \A cl \in ClausesOf(ph) : cl \in Clauses
  <2>1. CASE ph.of = "such that"
    BY <2>1, ClausesParsed DEF ClausesOf, Phrases
  <2>2. CASE ph.of = "with"
    BY <2>2, ClausesParsed DEF ClausesOf, Phrases
  <2>3. CASE ph.of = "pattern"
    <3>1. ph.text \in Patterns
      BY <2>3 DEF Phrases
    <3> QED
      BY <2>3, <3>1, ClausesParsed DEF ClausesOf
  <2> QED
    BY <2>1, <2>2, <2>3 DEF Phrases
<1> QED
  BY <1>2, <1>3 DEF ParserTypeOK

ParserInv == ParserTypeOK /\ ClausesKept

LEMMA ParserStep == ParserInv /\ [Next]_vars => ParserInv'
<1> SUFFICES ASSUME ParserInv, [Next]_vars
             PROVE  ParserInv'
  OBVIOUS
<1> USE DEF ParserInv, ParserTypeOK
<1>1. CASE parse_predicate
  <2>1. UNCHANGED <<predicates, selector, clauses, asked>>
    BY <1>1 DEF parse_predicate
  <2>2. /\ mode' \in {"names", "rejected"}
        /\ declaring' \in PredicateTable \cup {Nothing}
        /\ mode' = "names" => declaring' \in PredicateTable
    BY <1>1 DEF parse_predicate
  <2>3. Nothing \notin PredicateTable
    BY DEF Nothing, PredicateTable
  <2> QED
    BY <2>1, <2>2, <2>3 DEF ClausesKept, Reading
<1>2. CASE DeclareName
  <2>1. UNCHANGED <<selector, clauses, asked>>
    BY <1>2 DEF DeclareName
  <2>2. declaring \in PredicateTable
    BY <1>2 DEF DeclareName
  <2>3. PICK q \in Qvars :
          predicates' = [n \in DOMAIN predicates \cup {q} |->
                           IF n = q THEN declaring ELSE predicates[n]]
    BY <1>2 DEF DeclareName
  <2>4. /\ DOMAIN predicates' \subseteq Qvars
        /\ \A n \in DOMAIN predicates' : predicates'[n] \in PredicateTable
    BY <2>2, <2>3
  <2>5. /\ mode' \in {"names", "query"}
        /\ declaring' = IF mode' = "query" THEN Nothing ELSE declaring
    BY <1>2 DEF DeclareName
  <2>6. declaring # Nothing
    BY <1>2 DEF DeclareName
  <2> QED
    BY <2>1, <2>2, <2>4, <2>5, <2>6 DEF ClausesKept, Reading
<1>3. CASE EndBeforeSelect
  BY <1>3 DEF EndBeforeSelect, ClausesKept
<1>4. CASE parse_selector
  BY <1>4 DEF parse_selector, ClausesKept, Reading
<1>5. CASE parse_main_query
  BY <1>5 DEF parse_main_query, ClausesKept, Reading
<1>6. CASE SuchThatClause
  <2>1. UNCHANGED <<predicates, selector, declaring>>
    BY <1>6 DEF SuchThatClause
  <2>2. PICK ph \in SuchThats :
          IF SolverName(ph) \in Solvers
          THEN /\ clauses' = Insert(clauses, parse_clause(ph))
               /\ asked' = asked \cup {[of |-> "such that", text |-> ph]}
               /\ Behind("such that")
          ELSE /\ mode' = "rejected"
               /\ UNCHANGED <<clauses, asked>>
    BY <1>6 DEF SuchThatClause
  <2>3. CASE SolverName(ph) \in Solvers
    <3>1. [of |-> "such that", text |-> ph] \in Phrases
      BY <2>3 DEF Phrases
    <3>2. clauses' = clauses \cup ClausesOf([of |-> "such that", text |-> ph])
      BY <2>2, <2>3, PhraseAdds
    <3>3. mode' \in {"such that", "phrases"}
      BY <2>2, <2>3 DEF Behind
    <3> QED
      BY <2>1, <2>2, <2>3, <3>1, <3>2, <3>3, PhraseRead DEF Reading
  <2>4. CASE SolverName(ph) \notin Solvers
    BY <2>1, <2>2, <2>4 DEF ClausesKept
  <2> QED
    BY <2>3, <2>4
<1>7. CASE WithClause
  <2>1. UNCHANGED <<predicates, selector, declaring>>
    BY <1>7 DEF WithClause
  <2>2. PICK ph \in Withs :
          \/ /\ clauses' = Insert(clauses, parse_with(ph))
             /\ asked' = asked \cup {[of |-> "with", text |-> ph]}
             /\ Behind("with")
          \/ /\ mode' = "escaped"
             /\ UNCHANGED <<clauses, asked>>
    BY <1>7 DEF WithClause
  <2>3. CASE /\ clauses' = Insert(clauses, parse_with(ph))
             /\ asked' = asked \cup {[of |-> "with", text |-> ph]}
             /\ Behind("with")
    <3>1. [of |-> "with", text |-> ph] \in Phrases
      BY DEF Phrases
    <3>2. clauses' = clauses \cup ClausesOf([of |-> "with", text |-> ph])
      BY <2>3, PhraseAdds
    <3>3. mode' \in {"with", "phrases"}
      BY <2>3 DEF Behind
    <3> QED
      BY <2>1, <2>3, <3>1, <3>2, <3>3, PhraseRead DEF Reading
  <2>4. CASE mode' = "escaped" /\ UNCHANGED <<clauses, asked>>
    BY <2>1, <2>4 DEF ClausesKept
  <2> QED
    BY <2>2, <2>3, <2>4
<1>8. CASE PatternClause
  <2>1. UNCHANGED <<predicates, selector, declaring>> /\ mode' \in {"pattern", "phrases"}
    BY <1>8 DEF PatternClause, Behind
  <2>2. PICK ph \in Patterns : /\ clauses' = parse_pattern(clauses, ph)
                               /\ asked' = asked \cup {[of |-> "pattern", text |-> ph]}
    BY <1>8 DEF PatternClause
  <2>3. [of |-> "pattern", text |-> ph] \in Phrases
    BY DEF Phrases
  <2>4. clauses' = clauses \cup ClausesOf([of |-> "pattern", text |-> ph])
    BY <2>2, PhraseAdds
  <2> QED
    BY <2>1, <2>2, <2>3, <2>4, PhraseRead DEF Reading
<1>9. CASE EndOfQuery
  BY <1>9 DEF EndOfQuery, ClausesKept
<1>10. CASE WrongToken
  BY <1>10 DEF WrongToken, ClausesKept
<1>11. CASE UNCHANGED vars
  BY <1>11 DEF vars, ClausesKept
<1> QED
  BY <1>1, <1>2, <1>3, <1>4, <1>5, <1>6, <1>7, <1>8, <1>9, <1>10, <1>11 DEF Next

LEMMA ParserInvariant == Spec => []ParserInv
<1>1. Init => ParserInv
  BY DEF Init, ParserInv, ParserTypeOK, ClausesKept, Reading
<1> QED
  BY <1>1, ParserStep, PTL DEF Spec

(***************************************************************************)
(* Whatever the text, a clause of the query set names a solver of the      *)
(* table and has terms that can be ordered, and every declared name has a  *)
(* predicate of the table (pql_parser.cpp).                                *)
(***************************************************************************)
THEOREM ParserTypeCorrect == Spec => []ParserTypeOK
BY ParserInvariant, PTL DEF ParserInv

(***************************************************************************)
(* Whatever the text, however long, the ClauseSet holds the clauses of the *)
(* text and no others: none is lost to another one that the order of       *)
(* clauses does not tell from it (pql_parser.cpp:135-175, query.cpp:30).   *)
(***************************************************************************)
THEOREM NoClauseDropped == Spec => []ClausesKept
BY ParserInvariant, PTL DEF ParserInv

-------------------------------------------------------------------------------
\* The declarations collected are a predicate table, and the names typed are
\* those of the collected lines or of the text being parsed.
SessionInv ==
  /\ ParserInv
  /\ DOMAIN line \subseteq Qvars
  /\ \A q \in DOMAIN line : line[q] \in PredicateTable
  /\ at \in {"start", "prompt"} => DOMAIN line = typed
  /\ at = "evaluating" => DOMAIN predicates = typed
  /\ at = "ended" /\ mode # "escaped" => client = "batch"

\* No step of the parser forgets a declaration.
LEMMA DeclarationsStay == Next => DOMAIN predicates \subseteq DOMAIN predicates'
<1> SUFFICES ASSUME Next PROVE DOMAIN predicates \subseteq DOMAIN predicates'
  OBVIOUS
<1>1. CASE DeclareName
  <2>1. PICK q \in Qvars :
          predicates' = [n \in DOMAIN predicates \cup {q} |->
                           IF n = q THEN declaring ELSE predicates[n]]
    BY <1>1 DEF DeclareName
  <2> QED
    BY <2>1
<1>2. CASE predicates' = predicates
  BY <1>2
<1> QED
  BY <1>1, <1>2 DEF Next, parse_predicate, EndBeforeSelect, parse_selector,
     parse_main_query, SuchThatClause, WithClause, PatternClause, EndOfQuery,
     WrongToken

\* Without a phrase there is no clause: a parser that has just been made.
LEMMA FreshParser ==
  ASSUME predicates' = <<>>, selector' = NoSelector, clauses' = {},
         mode' = "query", declaring' = Nothing, asked' = {}
  PROVE  ParserInv'
<1>1. DOMAIN predicates' = {}
  OBVIOUS
<1>2. UNION {ClausesOf(ph)' : ph \in {}} = {}
  OBVIOUS
<1>3. ClausesKept'
  BY <1>2 DEF ClausesKept
<1>4. ParserTypeOK'
  BY <1>1 DEF ParserTypeOK, Reading
<1> QED
  BY <1>3, <1>4 DEF ParserInv

LEMMA SessionStep == SessionInv /\ [SessionNext]_<<vars, sessionVars>> => SessionInv'
<1> SUFFICES ASSUME SessionInv, [SessionNext]_<<vars, sessionVars>>
             PROVE  SessionInv'
  OBVIOUS
<1>1. ParserInv /\ ParserTypeOK
  BY DEF SessionInv, ParserInv
<1>2. ASSUME UNCHANGED vars PROVE ParserInv'
  BY <1>1, <1>2, ParserStep
<1>3. CASE Start
  BY <1>2, <1>3 DEF Start, SessionInv, vars
<1>4. CASE Evaluate
  <2>1. ParserInv'
    BY <1>1, <1>4 DEF Evaluate, SessionInv, ParserInv, ParserTypeOK, ClausesKept
  <2> QED
    BY <2>1, <1>4 DEF Evaluate, SessionInv
<1>5. CASE Parse
  <2>1. ParserInv'
    BY <1>1, <1>5, ParserStep DEF Parse
  <2>2. DOMAIN predicates' = typed'
    BY <1>5, DeclarationsStay DEF Parse, SessionInv
  <2> QED
    BY <2>1, <2>2, <1>5 DEF Parse, SessionInv
<1>6. ASSUME Finish, NextQuery PROVE SessionInv'
  BY <1>1, <1>6, FreshParser DEF Finish, NextQuery, SessionInv
<1>7. CASE Answer
  BY <1>6, <1>7 DEF Answer
<1>8. CASE Report
  BY <1>6, <1>8 DEF Report
<1>9. CASE AskForMore
  <2>1. ParserInv'
    BY <1>1, <1>9, FreshParser DEF AskForMore, Finish
  <2>2. /\ DOMAIN predicates = typed
        /\ DOMAIN predicates \subseteq Qvars
        /\ \A q \in DOMAIN predicates : predicates[q] \in PredicateTable
    BY <1>1, <1>9 DEF AskForMore, Finish, SessionInv, ParserTypeOK
  <2> QED
    BY <2>1, <2>2, <1>9 DEF AskForMore, Finish, SessionInv
<1>10. CASE Terminate
  BY <1>2, <1>10 DEF Terminate, SessionInv, vars
<1>11. CASE EndOfBatch
  BY <1>2, <1>11 DEF EndOfBatch, SessionInv, vars
<1>12. CASE UNCHANGED <<vars, sessionVars>>
  BY <1>2, <1>12 DEF SessionInv, vars, sessionVars
<1> QED
  BY <1>3, <1>4, <1>5, <1>7, <1>8, <1>9, <1>10, <1>11, <1>12 DEF SessionNext

LEMMA SessionInvariant == SessionSpec => []SessionInv
<1>1. Init => ParserInv
  BY DEF Init, ParserInv, ParserTypeOK, ClausesKept, Reading
<1>2. line = <<>> => DOMAIN line = {}
  OBVIOUS
<1>3. SessionInit => SessionInv
  BY <1>1, <1>2 DEF SessionInit, SessionInv
<1> QED
  BY <1>3, SessionStep, PTL DEF SessionSpec

(***************************************************************************)
(* In a session of any length, whatever its texts and however each of them *)
(* ends, a text is parsed with just the declarations since the last query  *)
(* ended and with no clause of another one (command_line.cpp:60-91), and   *)
(* nothing but an exception that escapes ends the command line.            *)
(***************************************************************************)
THEOREM QueriesStayApart == SessionSpec => []QueriesApart
<1>1. SessionInv => QueriesApart
  BY DEF SessionInv, ParserInv, ClausesKept, QueriesApart
<1> QED
  BY <1>1, SessionInvariant, PTL

(***************************************************************************)
(* In a session, too, the clause set of a query is that of its text and    *)
(* typed: no parser starts from what another one left.                     *)
(***************************************************************************)
THEOREM SessionKeepsClauses == SessionSpec => [](ParserTypeOK /\ ClausesKept)
<1>1. SessionInv => ParserTypeOK /\ ClausesKept
  BY DEF SessionInv, ParserInv
<1> QED
  BY <1>1, SessionInvariant, PTL

------------------------------------------------------------------------------
(* The conditions of the program, and what a declaration leaves of them.   *)
LEMMA EverythingIs ==
    ASSUME NEW c
    PROVE  c \in Everything
             <=> \/ \E n \in Procs(Program) : c = Proc(n)
                 \/ \E s \in Statements(Program) : c = Stmt(s)
                 \/ \E s \in Statements(Program) :
                      \E v \in VariablesOf(Program, s) : c = Var(v)
                 \/ \E s \in Statements(Program) :
                      \E i \in get_expr_consts(Program, s) : c = Const(i)
<1>1. Walked(Program) = Statements(Program)
  BY AllWalked, TablesAssumption
<1>2. ASSUME NEW s
      PROVE  c \in visit_statement(Program, "wildcard", s)
               <=> \/ c = Stmt(s)
                   \/ \E v \in VariablesOf(Program, s) : c = Var(v)
                   \/ \E i \in get_expr_consts(Program, s) : c = Const(i)
  BY DEF visit_statement, Accepted, evaluate, VariablesOf, Const
<1>3. c \in Everything
        <=> \/ \E n \in Procs(Program) : c = Proc(n)
            \/ \E s \in Statements(Program) : c \in visit_statement(Program, "wildcard", s)
  BY <1>1 DEF Everything, global_set, Accepted, evaluate
<1>4. QED  BY <1>2, <1>3

LEMMA DomainIs ==
    ASSUME NEW pred, NEW c \in global_set(Program, pred)
    PROVE  /\ c \in Everything
           /\ pred = "var" => \E v : c = Var(v)
           /\ pred = "procedure" => \E n \in Procs(Program) : c = Proc(n)
           /\ pred \in StatementPredicates => \E s \in Statements(Program) : c = Stmt(s)
           /\ pred = "call" => \E s \in OfKind(Program, "call") : c = Stmt(s)
           /\ pred = "const" => \E i : c = Const(i)
<1>1. Walked(Program) = Statements(Program)
  BY AllWalked, TablesAssumption
<1>2. \/ /\ evaluate(pred, "procedure")
         /\ \E n \in Procs(Program) : c = Proc(n)
      \/ \E s \in Statements(Program) : c \in visit_statement(Program, pred, s)
  BY <1>1 DEF global_set, Accepted
<1>3. ASSUME NEW s \in Statements(Program), c \in visit_statement(Program, pred, s)
      PROVE  \/ evaluate(pred, kind(Program, s)) /\ c = Stmt(s)
             \/ evaluate(pred, "var") /\ \E v \in VariablesOf(Program, s) : c = Var(v)
             \/ evaluate(pred, "const") /\ \E i \in get_expr_consts(Program, s) : c = Const(i)
  BY <1>3 DEF visit_statement, Accepted, VariablesOf, Const
<1>4. c \in Everything
  BY <1>2, <1>3, EverythingIs
<1>5. ASSUME NEW s \in Statements(Program)
      PROVE  kind(Program, s) \notin {"var", "procedure", "const", "wildcard", "statement"}
  <2>1. kind(Program, s) \in Kinds
    BY <1>5, TablesAssumption DEF IsProgram
  <2>2. QED  BY <2>1 DEF Kinds
<1>6. QED  BY <1>2, <1>3, <1>4, <1>5 DEF evaluate, Kinds, StatementPredicates, OfKind

------------------------------------------------------------------------------
(* What a `such that' clause or a pattern can speak of: the tree's nodes,  *)
(* and patterns.                                                           *)
Relatable(c) == c \in Nodes \/ c[1] = "pattern"

LEMMA NodesAre ==
    ASSUME NEW c
    PROVE  c \in Nodes <=> /\ c \in Everything
                           /\ \/ \E n \in Procs(Program) : c = Proc(n)
                              \/ \E s \in Statements(Program) : c = Stmt(s)
                              \/ \E v : c = Var(v)
BY EverythingIs DEF Nodes, Proc, Stmt, Var, Const

LEMMA RelationPairs ==
    ASSUME NEW solver \in DOMAIN Relation, NEW e \in Relation[solver]
    PROVE  e = <<e[1], e[2]>> /\ e[1] \in Nodes /\ Relatable(e[2])
<1>1. ASSUME NEW s \in Statements(Program) PROVE Stmt(s) \in Nodes
  BY <1>1, EverythingIs, NodesAre
<1>2. ASSUME NEW n \in Procs(Program) PROVE Proc(n) \in Nodes
  BY <1>2, EverythingIs, NodesAre
<1>3. Walked(Program) = Statements(Program) /\ IsProgram(Program)
  BY AllWalked, TablesAssumption
<1>5. CASE solver = "follows"
  <2>1. Relation[solver] = StatementPairs(validate_follows)
    BY <1>5 DEF Relation
  <2>2. QED  BY <1>1, <2>1 DEF StatementPairs, Relatable
<1>6. CASE solver = "ifollows"
  <2>1. Relation[solver] = StatementPairs(validate_ifollows)
    BY <1>6 DEF Relation
  <2>2. QED  BY <1>1, <2>1 DEF StatementPairs, Relatable
<1>7. CASE solver = "parent"
  <2>1. Relation[solver] = StatementPairs(validate_parent)
    BY <1>7 DEF Relation
  <2>2. QED  BY <1>1, <2>1 DEF StatementPairs, Relatable
<1>8. CASE solver = "calls"
  <2>1. Relation[solver] = {<<Proc(d[1]), Proc(d[2])>> : d \in called_pairs(Program)}
    BY <1>8 DEF Relation
  <2>2. ASSUME NEW d \in called_pairs(Program)
        PROVE  d[1] \in Procs(Program) /\ d[2] \in Procs(Program)
    BY <1>3 DEF called_pairs, IsProgram, WellFormed
  <2>3. QED  BY <1>2, <2>1, <2>2 DEF Relatable
<1>9. CASE solver = "direct_uses"
  <2>1. Relation[solver] = {<<Stmt(d[2]), Var(d[1])>> : d \in direct_uses_index(Program)}
    BY <1>9 DEF Relation
  <2>2. ASSUME NEW d \in direct_uses_index(Program)
        PROVE  d[2] \in Statements(Program) /\ Var(d[1]) \in Nodes
    <3>1. PICK s \in Statements(Program) : d = <<get_variable(Program, s), s>> /\ kind(Program, s) # "call"
      BY <1>3 DEF direct_uses_index
    <3>2. d[1] \in VariablesOf(Program, s)
      BY <1>3, <3>1 DEF VariablesOf, IsProgram
    <3>3. QED  BY <3>1, <3>2, EverythingIs, NodesAre
  <2>3. QED  BY <1>1, <2>1, <2>2 DEF Relatable
<1>10. CASE solver \notin {"follows", "ifollows", "parent", "calls", "direct_uses"}
  <2>1. solver \in DOMAIN Matches /\ Relation[solver] = Matches[solver]
    BY <1>10 DEF Relation
  <2>2. QED  BY <2>1, MatchesAssumption DEF Relatable
<1>11. QED  BY <1>5, <1>6, <1>7, <1>8, <1>9, <1>10

\* A literal is a procedure if one has its name; that is no restriction for
\* one that only a procedure or only a variable has.
LEMMA LiteralMeans ==
    ASSUME NEW name, NEW c, Relatable(c), name \notin Ambiguous \/ \E n : c = Proc(n)
    PROVE  c = parse_condition(name) <=> c \in Everything /\ has_name(c) /\ get_name(c) = name
<1>1. CASE c[1] = "pattern"
  BY <1>1 DEF parse_condition, has_name
<1>2. CASE \E n \in Procs(Program) : c = Proc(n) /\ c \in Everything
  <2>1. PICK n \in Procs(Program) : c = Proc(n)
    BY <1>2
  <2>2. has_name(c) /\ get_name(c) = ProcNames[n]
    BY <2>1 DEF has_name, get_name, Proc
  <2>3. c = parse_condition(name) <=> name \in DOMAIN ProcTable /\ ProcTable[name] = n
    BY <2>1 DEF parse_condition, Proc
  <2>4. QED  BY <1>2, <2>2, <2>3, TablesAssumption
<1>3. CASE \E s \in Statements(Program) : c = Stmt(s)
  BY <1>3 DEF parse_condition, has_name, Stmt
<1>4. CASE \E v : c = Var(v) /\ c \in Everything
  <2>1. PICK v : c = Var(v)
    BY <1>4
  <2>2. has_name(c) /\ get_name(c) = v
    BY <2>1 DEF has_name, get_name, Var
  <2>3. name \notin Ambiguous
    BY <2>1 DEF Proc, Var
  <2>4. v = name => name \notin DOMAIN ProcTable
    BY <1>4, <2>1, <2>3 DEF Ambiguous
  <2>5. c = parse_condition(name) <=> name \notin DOMAIN ProcTable /\ v = name
    BY <2>1 DEF parse_condition, Var
  <2>6. QED  BY <1>4, <2>2, <2>4, <2>5
<1>5. QED  BY <1>1, <1>2, <1>3, <1>4, NodesAre DEF Relatable

LEMMA IntegerMeans ==
    ASSUME NEW i, NEW c, Relatable(c)
    PROVE  c = ParseInteger(i) <=> c \in Everything /\ has_number(c) /\ get_number(c) = i
<1>1. CASE c[1] = "pattern"
  BY <1>1 DEF ParseInteger, has_number
<1>2. CASE \E s \in Statements(Program) : c = Stmt(s) /\ c \in Everything
  BY <1>2, TablesAssumption DEF ParseInteger, has_number, get_number, Stmt
<1>3. CASE \E n \in Procs(Program) : c = Proc(n)
  BY <1>3 DEF ParseInteger, has_number, Proc
<1>4. CASE \E v : c = Var(v)
  BY <1>4 DEF ParseInteger, has_number, Var
<1>5. QED  BY <1>1, <1>2, <1>3, <1>4, NodesAre DEF Relatable

LEMMA TermMeans ==
    ASSUME NEW t \in TermTexts, NEW a, NEW c, Relatable(c),
           t.kind = "literal" => t.name \notin Ambiguous \/ \E n : c = Proc(n)
    PROVE  c \in Values(parse_term(t), a) <=> c \in Said(t, a)
<1>1. CASE t.kind = "literal"
  BY <1>1, LiteralMeans DEF Values, Said, parse_term, Given
<1>2. CASE t.kind = "integer"
  BY <1>2, IntegerMeans DEF Values, Said, parse_term, Given
<1>3. CASE t.kind = "variable"
  BY <1>3 DEF Values, Said, parse_term, QVar
<1>4. CASE t.kind = "wildcard"
  BY <1>4 DEF Values, Said, parse_term, Wildcard
<1>5. QED  BY <1>1, <1>2, <1>3, <1>4 DEF TermTexts

Means(ph, a, from) ==
  (\A cl \in ClausesOf(ph) : ClauseHolds(cl, a, from)) <=> PhraseHolds(ph, a)

LEMMA SuchThatMeans ==
    ASSUME NEW ph \in Phrases, NEW a, NEW from, ph.of = "such that", AsMeant(ph)
    PROVE  Means(ph, a, from)
<1> DEFINE text   == ph.text
           solver == SolverName(text)
           l      == text.left
           r      == text.right
<1>1. /\ l \in TermTexts /\ r \in TermTexts
      /\ ClausesOf(ph) = {parse_clause(text)}
  BY TextAssumption DEF Phrases, ClausesOf
<1>2. /\ solver \in DOMAIN Relation /\ solver # "equal"
      /\ \A t \in {l, r} : t.kind = "literal" => t.name \notin Ambiguous \/ solver = "calls"
  BY MatchesAssumption DEF AsMeant, Relation
<1>3. ClauseHolds(parse_clause(text), a, from)
        <=> \E c \in Values(parse_term(l), a), d \in Values(parse_term(r), a) :
              <<c, d>> \in Relation[solver]
  BY <1>2 DEF ClauseHolds, parse_clause, Clause
<1>4. PhraseHolds(ph, a)
        <=> \E c \in Said(l, a), d \in Said(r, a) : <<c, d>> \in Relation[solver]
  BY DEF PhraseHolds
<1>5. ASSUME NEW c, NEW d, <<c, d>> \in Relation[solver]
      PROVE  /\ c \in Values(parse_term(l), a) <=> c \in Said(l, a)
             /\ d \in Values(parse_term(r), a) <=> d \in Said(r, a)
  <2>1. Relatable(c) /\ Relatable(d)
    BY <1>2, <1>5, RelationPairs DEF Relatable
  <2>2. solver = "calls" => (\E n : c = Proc(n)) /\ (\E n : d = Proc(n))
    <3>1. SUFFICES ASSUME solver = "calls" PROVE (\E n : c = Proc(n)) /\ (\E n : d = Proc(n))
      OBVIOUS
    <3>2. Relation[solver] = {<<Proc(e[1]), Proc(e[2])>> : e \in called_pairs(Program)}
      BY <3>1 DEF Relation
    <3>3. PICK e \in called_pairs(Program) : <<c, d>> = <<Proc(e[1]), Proc(e[2])>>
      BY <1>5, <3>2
    <3>4. QED  BY <3>3
  <2>3. QED  BY <1>1, <1>2, <2>1, <2>2, TermMeans
<1>6. QED  BY <1>1, <1>3, <1>4, <1>5 DEF Means

\* A pattern is two clauses about one statement, unless one of them says
\* nothing; that a statement uses something says nothing of an assignment.
LEMMA PatternMeans ==
    ASSUME NEW ph \in Phrases, NEW a, NEW from, ph.of = "pattern", AsMeant(ph)
    PROVE  Means(ph, a, from)
<1> DEFINE text    == ph.text
           st      == text.stmt
           v       == text.var
           ex      == text.expr
           matcher == IF text.indirect THEN "iexpr" ELSE "expr"
           Uses(s)    == \E d \in Said(v, a) : <<s, d>> \in Relation["direct_uses"]
           Matched(s) == \E e \in Said(ex, a) : <<s, e>> \in Matches[matcher]
<1>1. /\ st \in TermTexts /\ v \in TermTexts /\ ex \in ExprTexts
      /\ ClausesOf(ph) =
           (IF ex.kind = "wildcard" THEN {} ELSE {expr_clause(text)})
           \cup (IF v.kind = "wildcard" /\ ex.kind # "wildcard" THEN {}
                 ELSE {uses_clause(text)})
  BY TextAssumption DEF Phrases, ClausesOf
<1>2. PhraseHolds(ph, a)
        <=> \E s \in Said(st, a) : Uses(s) /\ (ex.kind = "wildcard" \/ Matched(s))
  BY DEF PhraseHolds
<1>3. /\ st.kind = "wildcard" => v.kind = "wildcard" \/ ex.kind = "wildcard"
      /\ v.kind = "literal" => v.name \notin Ambiguous
  BY DEF AsMeant
<1>4. /\ "direct_uses" \in DOMAIN Relation
      /\ matcher \in DOMAIN Relation /\ matcher # "equal" /\ matcher # "direct_uses"
      /\ Relation[matcher] = Matches[matcher]
  BY MatchesAssumption DEF Relation
<1>5. Relation["direct_uses"] = {<<Stmt(e[2]), Var(e[1])>> : e \in direct_uses_index(Program)}
  BY DEF Relation
<1>6. ASSUME NEW s, NEW d, <<s, d>> \in Relation["direct_uses"]
      PROVE  /\ s \in Nodes /\ \A n : s # Proc(n)
             /\ \A w : s # Var(w)
             /\ d \in Values(parse_term(v), a) <=> d \in Said(v, a)
  <2>1. s \in Nodes /\ Relatable(d)
    BY <1>4, <1>6, RelationPairs
  <2>2. QED  BY <1>1, <1>3, <1>5, <1>6, <2>1, TermMeans DEF Stmt, Proc, Var
<1>7. ASSUME NEW s, NEW e, <<s, e>> \in Matches[matcher]
      PROVE  /\ s \in Nodes
             /\ \E n \in OfKind(Program, "assign") : s = Stmt(n)
             /\ \E d \in AllConditions : <<s, d>> \in Relation["direct_uses"]
  <2>1. PICK n \in OfKind(Program, "assign") : s = Stmt(n)
    BY <1>7, MatchesAssumption
  <2>2. n \in Statements(Program) /\ kind(Program, n) = "assign"
    BY <2>1 DEF OfKind
  <2>3. get_variable(Program, n) # NoVar
    BY <2>2, TablesAssumption DEF IsProgram
  <2>4. <<get_variable(Program, n), n>> \in direct_uses_index(Program)
    BY <2>2, AllWalked, TablesAssumption DEF direct_uses_index
  <2>5. <<s, Var(get_variable(Program, n))>> \in Relation["direct_uses"]
    BY <1>5, <2>1, <2>4
  <2>6. Var(get_variable(Program, n)) \in Everything
    BY <2>2, <2>3, EverythingIs DEF VariablesOf
  <2>7. s \in Nodes
    BY <1>6, <2>5
  <2>8. QED  BY <2>1, <2>5, <2>6, <2>7 DEF AllConditions
<1>8. \A s \in Nodes : (\A n : s # Proc(n)) /\ (\A w : s # Var(w)) =>
        (s \in Values(parse_term(st), a) <=> s \in Said(st, a))
  <2>1. ASSUME NEW s \in Nodes, \A n : s # Proc(n), \A w : s # Var(w), st.kind = "literal"
        PROVE  s \notin Values(parse_term(st), a) /\ s \notin Said(st, a)
    <3>1. parse_term(st) = Given(parse_condition(st.name))
      BY <2>1 DEF parse_term
    <3>2. Values(parse_term(st), a) = {parse_condition(st.name)}
      BY <3>1 DEF Values, Given
    <3>3. s # parse_condition(st.name)
      BY <2>1 DEF parse_condition, Proc, Var
    <3>4. ~has_name(s)
      BY <2>1, NodesAre DEF has_name, Stmt
    <3>5. QED  BY <2>1, <3>2, <3>3, <3>4 DEF Said
  <2>2. QED  BY <1>1, <2>1, TermMeans DEF Relatable
<1>9. ClauseHolds(uses_clause(text), a, from)
        <=> \E s \in Said(st, a) : Uses(s)
  <2>1. ClauseHolds(uses_clause(text), a, from)
          <=> \E c \in Values(parse_term(st), a), d \in Values(parse_term(v), a) :
                <<c, d>> \in Relation["direct_uses"]
    BY DEF ClauseHolds, uses_clause, Clause
  <2>2. QED  BY <1>6, <1>8, <2>1
<1>10. ASSUME ex.kind # "wildcard"
       PROVE  ClauseHolds(expr_clause(text), a, from)
                <=> \E s \in Said(st, a) : Matched(s)
  <2>1. ClauseHolds(expr_clause(text), a, from)
          <=> \E c \in Values(parse_term(st), a), d \in Values(parse_expr_term(ex), a) :
                <<c, d>> \in Relation[matcher]
    BY <1>4 DEF ClauseHolds, expr_clause, Clause
  <2>2. Values(parse_expr_term(ex), a) = Said(ex, a)
    BY <1>1, <1>10 DEF ExprTexts, Values, Said, parse_expr_term, Given, QVar
  <2>3. ASSUME NEW s, NEW e, <<s, e>> \in Matches[matcher]
        PROVE  s \in Values(parse_term(st), a) <=> s \in Said(st, a)
    <3>1. s \in Nodes /\ (\A n : s # Proc(n)) /\ (\A w : s # Var(w))
      BY <1>6, <1>7, <2>3
    <3>2. QED  BY <1>8, <3>1
  <2>4. QED  BY <1>4, <2>1, <2>2, <2>3
<1>11. CASE ex.kind = "wildcard"
  BY <1>1, <1>2, <1>9, <1>11 DEF Means
<1>12. CASE ex.kind # "wildcard" /\ v.kind = "wildcard"
  <2>1. Said(v, a) = AllConditions
    BY <1>12 DEF Said
  <2>2. \A s : Matched(s) => Uses(s)
    BY <1>7, <2>1
  <2>3. QED  BY <1>1, <1>2, <1>10, <1>12, <2>2 DEF Means
<1>13. CASE ex.kind # "wildcard" /\ v.kind # "wildcard"
  <2>1. ClausesOf(ph) = {expr_clause(text), uses_clause(text)}
    BY <1>1, <1>13
  <2>2. ASSUME NEW s \in Said(st, a), NEW t \in Said(st, a), Matched(s), Uses(t)
        PROVE  s = t
    <3>1. \E n : s = Stmt(n)
      BY <1>7, <2>2
    <3>2. \E n : t = Stmt(n)
      BY <1>5, <2>2
    <3>3. CASE st.kind = "literal"
      BY <2>2, <3>1, <3>3 DEF Said, has_name, Stmt
    <3>4. CASE st.kind = "integer"
      BY <2>2, <3>1, <3>2, <3>4 DEF Said, get_number, Stmt
    <3>5. CASE st.kind = "variable"
      BY <2>2, <3>5 DEF Said
    <3>6. QED  BY <1>1, <1>3, <1>13, <3>3, <3>4, <3>5 DEF TermTexts
  <2>3. QED  BY <1>2, <1>9, <1>10, <1>13, <2>1, <2>2 DEF Means
<1>14. QED  BY <1>11, <1>12, <1>13

------------------------------------------------------------------------------
(* Comparisons.  What EqualSolver finds for a condition.                   *)
LEMMA EqualFindsNames ==
    ASSUME NEW c, has_name(c), NEW d
    PROVE  d \in solve_equal(Program, c)
             <=> \/ d \in Everything /\ has_name(d) /\ get_name(d) = get_name(c)
                 \/ \E s \in OfKind(Program, "call") :
                      d = Stmt(s) /\ ProcNames[get_proc_called(Program, s)] = get_name(c)
<1>1. Walked(Program) = Statements(Program)
  BY AllWalked, TablesAssumption
<1>2. d \in solve_equal(Program, c) <=> <<get_name(c), d>> \in name_index(Program)
  <2>1. ASSUME NEW e \in name_index(Program) PROVE e = <<e[1], e[2]>>
    <3>1. \/ \E n : e = <<ProcNames[n], Proc(n)>>
          \/ \E v : e = <<v, Var(v)>>
          \/ \E s : e = <<ProcNames[get_proc_called(Program, s)], Stmt(s)>>
      BY <2>1 DEF name_index
    <3>2. QED  BY <3>1
  <2>2. solve_equal(Program, c) = {e[2] : e \in {i \in name_index(Program) : i[1] = get_name(c)}}
    BY DEF solve_equal, has_name, has_number
  <2>3. QED  BY <2>1, <2>2
<1>3. name_index(Program)
        = {<<ProcNames[n], Proc(n)>> : n \in Procs(Program)}
          \cup (UNION {{<<v, Var(v)>> : v \in VariablesOf(Program, s)} : s \in Statements(Program)})
          \cup {<<ProcNames[get_proc_called(Program, s)], Stmt(s)>> : s \in OfKind(Program, "call")}
  BY <1>1 DEF name_index, OfKind
<1>4. d \in solve_equal(Program, c)
        <=> \/ \E n \in Procs(Program) : ProcNames[n] = get_name(c) /\ d = Proc(n)
            \/ \E s \in Statements(Program) :
                 \E v \in VariablesOf(Program, s) : v = get_name(c) /\ d = Var(v)
            \/ \E s \in OfKind(Program, "call") :
                 ProcNames[get_proc_called(Program, s)] = get_name(c) /\ d = Stmt(s)
  BY <1>2, <1>3
<1>5. /\ \A n : has_name(Proc(n)) /\ get_name(Proc(n)) = ProcNames[n]
      /\ \A v : has_name(Var(v)) /\ get_name(Var(v)) = v
      /\ \A s : ~has_name(Stmt(s)) /\ ~has_name(Const(s))
  BY DEF has_name, get_name, Proc, Var, Stmt, Const
<1>6. QED  BY <1>4, <1>5, EverythingIs

LEMMA EqualFindsNumbers ==
    ASSUME NEW c, has_number(c), NEW d
    PROVE  d \in solve_equal(Program, c)
             <=> d \in Everything /\ has_number(d) /\ get_number(d) = get_number(c)
<1>1. Walked(Program) = Statements(Program)
  BY AllWalked, TablesAssumption
<1>2. d \in solve_equal(Program, c) <=> <<get_number(c), d>> \in number_index(Program)
  <2>1. ASSUME NEW e \in number_index(Program) PROVE e = <<e[1], e[2]>>
    <3>1. (\E s : e = <<s, Stmt(s)>>) \/ (\E i : e = <<i, Const(i)>>)
      BY <2>1 DEF number_index
    <3>2. QED  BY <3>1
  <2>2. solve_equal(Program, c)
          = {e[2] : e \in {i \in number_index(Program) : i[1] = get_number(c)}}
    BY DEF solve_equal, has_name, has_number
  <2>3. QED  BY <2>1, <2>2
<1>3. number_index(Program)
        = {<<s, Stmt(s)>> : s \in Statements(Program)}
          \cup UNION {{<<i, Const(i)>> : i \in get_expr_consts(Program, s)} : s \in Statements(Program)}
  BY <1>1 DEF number_index
<1>4. d \in solve_equal(Program, c)
        <=> \/ \E s \in Statements(Program) : s = get_number(c) /\ d = Stmt(s)
            \/ \E s \in Statements(Program) :
                 \E i \in get_expr_consts(Program, s) : i = get_number(c) /\ d = Const(i)
  BY <1>2, <1>3
<1>5. /\ \A n : ~has_number(Proc(n)) /\ ~has_number(Var(n))
      /\ \A s : has_number(Stmt(s)) /\ get_number(Stmt(s)) = s
      /\ \A i : has_number(Const(i)) /\ get_number(Const(i)) = i
  BY DEF has_number, get_number, Proc, Var, Stmt, Const
<1>6. QED  BY <1>4, <1>5, EverythingIs

LEMMA Solved ==
    ASSUME NEW c PROVE SolvedEqual(c) = solve_equal(Program, c)
BY DEF SolvedEqual, EqualTo

------------------------------------------------------------------------------
(* The sides of a comparison: which condition one stands for, and its      *)
(* attribute.                                                              *)
Fits(t, a) ==
  t.kind = "variable" =>
    a[t.q] \in IF t.q \in DOMAIN predicates THEN DomainOf[predicates[t.q]] ELSE AllConditions

LEMMA NamedSide ==
    ASSUME ParserTypeOK, NEW t \in FieldTexts, TermFits(t), NEW a, Fits(t, a),
           Sort(t) = "name", ~CalledName(t)
    PROVE  \E c : /\ Values(parse_with_term(t), a) = {c}
                  /\ has_name(c) /\ ~has_number(c)
                  /\ AttributeOf(t, a) = <<"name", get_name(c)>>
                  /\ t.kind = "literal"  => parse_with_term(t) = Given(c)
                  /\ t.kind = "variable" => parse_with_term(t) = QVar(t.q) /\ c = a[t.q]
                                              /\ c \in Everything
<1>1. CASE t.kind = "literal"
  <2>1. parse_with_term(t) = Given(parse_condition(t.name))
    BY <1>1 DEF parse_with_term, parse_term
  <2>2. /\ has_name(parse_condition(t.name)) /\ ~has_number(parse_condition(t.name))
        /\ get_name(parse_condition(t.name)) = t.name
    BY TablesAssumption DEF parse_condition, has_name, has_number, get_name
  <2>3. QED  BY <1>1, <2>1, <2>2 DEF Values, Given, AttributeOf
<1>2. CASE t.kind = "integer"
  BY <1>2 DEF Sort
<1>3. CASE t.kind = "variable"
  <2>1. PredicateOf(t.q) \in {"var", "procedure"} /\ NameSort(t)
    BY <1>3 DEF Sort, NameSort, TermFits, FieldFits, CalledName, IsVariable
  <2>2. t.q \in DOMAIN predicates /\ predicates[t.q] \in {"var", "procedure"}
    BY <2>1 DEF PredicateOf, Nothing
  <2>3. a[t.q] \in global_set(Program, predicates[t.q])
    BY <1>3, <2>2 DEF Fits, DomainOf, PredicateTable
  <2>4. /\ a[t.q] \in Everything
        /\ (\E n : a[t.q] = Proc(n)) \/ (\E v : a[t.q] = Var(v))
    BY <2>2, <2>3, DomainIs
  <2>5. has_name(a[t.q]) /\ ~has_number(a[t.q]) /\ NameOf(a[t.q]) = get_name(a[t.q])
    BY <2>4 DEF has_name, has_number, NameOf, Proc, Var
  <2>6. parse_with_term(t) = QVar(t.q) /\ Values(QVar(t.q), a) = {a[t.q]}
    BY <1>3 DEF parse_with_term, Values, QVar
  <2>7. AttributeOf(t, a) = <<"name", get_name(a[t.q])>>
    BY <1>3, <2>1, <2>5 DEF AttributeOf, Attribute, NameSort
  <2>8. QED  BY <1>3, <2>4, <2>5, <2>6, <2>7
<1>4. QED  BY <1>1, <1>2, <1>3 DEF FieldTexts

LEMMA NumberedSide ==
    ASSUME ParserTypeOK, NEW t \in FieldTexts, TermFits(t), NEW a, Fits(t, a),
           Sort(t) = "number"
    PROVE  \E c : /\ Values(parse_with_term(t), a) = {c}
                  /\ has_number(c) /\ ~has_name(c)
                  /\ AttributeOf(t, a) = <<"number", get_number(c)>>
                  /\ t.kind = "integer"  => parse_with_term(t) = Given(c)
                  /\ t.kind = "variable" => /\ parse_with_term(t) = QVar(t.q) /\ c = a[t.q]
                                            /\ c \in Everything
                                            /\ PredicateOf(t.q) # "const" => get_number(c) # 0
<1>1. CASE t.kind = "literal"
  BY <1>1 DEF Sort
<1>2. CASE t.kind = "integer"
  <2>1. parse_with_term(t) = Given(ParseInteger(t.i))
    BY <1>2 DEF parse_with_term, parse_term
  <2>2. /\ has_number(ParseInteger(t.i)) /\ ~has_name(ParseInteger(t.i))
        /\ get_number(ParseInteger(t.i)) = t.i
    BY DEF ParseInteger, has_name, has_number, get_number
  <2>3. QED  BY <1>2, <2>1, <2>2 DEF Values, Given, AttributeOf
<1>3. CASE t.kind = "variable"
  <2>1. PredicateOf(t.q) \in StatementPredicates \cup {"const"} /\ NumberSort(t) /\ ~NameSort(t)
    BY <1>3 DEF Sort, NumberSort, TermFits, FieldFits
  <2>2. t.q \in DOMAIN predicates /\ predicates[t.q] = PredicateOf(t.q)
    BY <2>1 DEF PredicateOf, Nothing, StatementPredicates
  <2>3. a[t.q] \in global_set(Program, predicates[t.q])
    BY <1>3, <2>1, <2>2 DEF Fits, DomainOf, PredicateTable, StatementPredicates
  <2>4. /\ a[t.q] \in Everything
        /\ (\E s \in Statements(Program) : a[t.q] = Stmt(s))
             \/ (PredicateOf(t.q) = "const" /\ \E i : a[t.q] = Const(i))
    BY <2>1, <2>2, <2>3, DomainIs
  <2>5. \A s \in Statements(Program) : s # 0
    BY TablesAssumption DEF IsProgram
  <2>6. /\ has_number(a[t.q]) /\ ~has_name(a[t.q])
        /\ PredicateOf(t.q) # "const" => get_number(a[t.q]) # 0
    BY <2>4, <2>5 DEF has_name, has_number, get_number, Stmt, Const
  <2>7. parse_with_term(t) = QVar(t.q) /\ Values(QVar(t.q), a) = {a[t.q]}
    BY <1>3 DEF parse_with_term, Values, QVar
  <2>8. AttributeOf(t, a) = <<"number", get_number(a[t.q])>>
    BY <1>3, <2>1, <2>6 DEF AttributeOf, Attribute, NameSort, get_number
  <2>9. QED  BY <1>3, <2>4, <2>6, <2>7, <2>8
<1>4. QED  BY <1>1, <1>2, <1>3 DEF FieldTexts

LEMMA CalledSide ==
    ASSUME ParserTypeOK, NEW t \in FieldTexts, TermFits(t), NEW a, Fits(t, a), CalledName(t)
    PROVE  /\ parse_with_term(t) = QVar(t.q) /\ Values(parse_with_term(t), a) = {a[t.q]}
           /\ \E s \in OfKind(Program, "call") :
                /\ a[t.q] = Stmt(s)
                /\ AttributeOf(t, a) = <<"name", ProcNames[get_proc_called(Program, s)]>>
<1>1. t.kind = "variable" /\ t.field = "procname" /\ PredicateOf(t.q) = "call"
  BY DEF CalledName, IsVariable
<1>2. t.q \in DOMAIN predicates /\ predicates[t.q] = "call"
  BY <1>1 DEF PredicateOf, Nothing
<1>3. a[t.q] \in global_set(Program, "call")
  BY <1>1, <1>2 DEF Fits, DomainOf, PredicateTable
<1>4. PICK s \in OfKind(Program, "call") : a[t.q] = Stmt(s)
  BY <1>3, DomainIs
<1>5. NameOf(a[t.q]) = ProcNames[get_proc_called(Program, s)]
  BY <1>4 DEF NameOf, Stmt
<1>6. AttributeOf(t, a) = <<"name", ProcNames[get_proc_called(Program, s)]>>
  BY <1>1, <1>5 DEF AttributeOf, Attribute
<1>7. QED  BY <1>1, <1>4, <1>6 DEF parse_with_term, Values, QVar

\* With one condition on each side a comparison is one question to the solver.
LEMMA ComparesGiven ==
    ASSUME NEW l, NEW r, NEW a, NEW from, NEW c, NEW d,
           Values(l, a) = {c}, Values(r, a) = {d},
           l = r \/ (l.kind = "condition" /\ r.kind = "condition")
    PROVE  ComparesEqual(l, r, a, from) <=> validate_equal(Program, c, d)
BY DEF ComparesEqual

LEMMA ComparesLeft ==
    ASSUME NEW l, NEW r, NEW a, NEW from, NEW c, NEW d,
           Values(l, a) = {c}, Values(r, a) = {d},
           l # r, l.kind = "condition", r.kind = "variable"
    PROVE  ComparesEqual(l, r, a, from) <=> d \in solve_equal(Program, c)
BY Solved DEF ComparesEqual

LEMMA ComparesRight ==
    ASSUME NEW l, NEW r, NEW a, NEW from, NEW c, NEW d,
           Values(l, a) = {c}, Values(r, a) = {d},
           l # r, l.kind = "variable", r.kind = "condition"
    PROVE  ComparesEqual(l, r, a, from) <=> c \in solve_equal(Program, d)
BY Solved DEF ComparesEqual

LEMMA ComparesEither ==
    ASSUME NEW l, NEW r, NEW a, NEW from, NEW c, NEW d,
           Values(l, a) = {c}, Values(r, a) = {d},
           l # r, l.kind = "variable", r.kind = "variable"
    PROVE  ComparesEqual(l, r, a, from)
             <=> IF from = "left" THEN d \in solve_equal(Program, c)
                 ELSE c \in solve_equal(Program, d)
BY Solved DEF ComparesEqual

LEMMA WithMeans ==
    ASSUME ParserTypeOK, NEW ph \in Phrases, NEW a, NEW from, ph.of = "with", AsMeant(ph),
           TermFits(ph.text.left), TermFits(ph.text.right),
           Fits(ph.text.left, a), Fits(ph.text.right, a)
    PROVE  Means(ph, a, from)
<1> DEFINE l == ph.text.left
           r == ph.text.right
           L == parse_with_term(l)
           R == parse_with_term(r)
<1>1. /\ l \in FieldTexts /\ r \in FieldTexts
      /\ ClausesOf(ph) = {parse_with(ph.text)}
  BY TextAssumption DEF Phrases, ClausesOf
<1>2. ClauseHolds(parse_with(ph.text), a, from) <=> ComparesEqual(L, R, a, from)
  BY DEF ClauseHolds, parse_with, Clause
<1>3. PhraseHolds(ph, a) <=> /\ AttributeOf(l, a)[1] = AttributeOf(r, a)[1]
                             /\ AttributeOf(l, a)[2] = AttributeOf(r, a)[2]
  BY DEF PhraseHolds
<1>4. /\ Sort(l) = Sort(r) /\ Sort(l) # "open"
      /\ l.kind = "integer" => r.kind # "integer"
      /\ l.kind = "variable" /\ r.kind = "variable" =>
           /\ ~CalledName(l) /\ ~CalledName(r)
           /\ l.q = r.q => PredicateOf(l.q) # "const"
  BY DEF AsMeant, IsVariable
<1>5. \A c, q : /\ Given(c).kind = "condition" /\ QVar(q).kind = "variable"
                /\ Given(c) # QVar(q)
                /\ QVar(q).q = q
  BY DEF Given, QVar
<1>6. \A t \in FieldTexts : /\ Sort(t) \in {"name", "number", "open"}
                            /\ t.kind \in {"literal", "integer", "variable"}
                            /\ Sort(t) = "name" => t.kind # "integer"
                            /\ Sort(t) = "number" => t.kind # "literal"
                            /\ CalledName(t) => t.kind = "variable"
  BY DEF FieldTexts, Sort, CalledName, IsVariable
<1>7. CASE Sort(l) = "name" /\ ~CalledName(l) /\ ~CalledName(r)
  <2>1. PICK c : /\ Values(L, a) = {c}
                 /\ has_name(c) /\ ~has_number(c)
                 /\ AttributeOf(l, a) = <<"name", get_name(c)>>
                 /\ l.kind = "literal"  => L = Given(c)
                 /\ l.kind = "variable" => L = QVar(l.q) /\ c = a[l.q] /\ c \in Everything
    BY <1>1, <1>7, NamedSide
  <2>2. PICK d : /\ Values(R, a) = {d}
                 /\ has_name(d) /\ ~has_number(d)
                 /\ AttributeOf(r, a) = <<"name", get_name(d)>>
                 /\ r.kind = "literal"  => R = Given(d)
                 /\ r.kind = "variable" => R = QVar(r.q) /\ d = a[r.q] /\ d \in Everything
    BY <1>1, <1>4, <1>7, NamedSide
  <2>3. PhraseHolds(ph, a) <=> get_name(c) = get_name(d)
    BY <1>3, <2>1, <2>2
  <2>4. validate_equal(Program, c, d) <=> get_name(c) = get_name(d)
    BY <2>1, <2>2 DEF validate_equal
  <2>5. /\ d \in Everything => (d \in solve_equal(Program, c) <=> get_name(c) = get_name(d))
        /\ c \in Everything => (c \in solve_equal(Program, d) <=> get_name(c) = get_name(d))
    <3>1. \A s : ~has_name(Stmt(s))
      BY DEF has_name, Stmt
    <3>2. QED  BY <2>1, <2>2, <3>1, EqualFindsNames
  <2>6. ComparesEqual(L, R, a, from) <=> get_name(c) = get_name(d)
    <3>1. CASE l.kind = "literal" /\ r.kind = "literal"
      <4>1. L.kind = "condition" /\ R.kind = "condition"
        BY <1>5, <2>1, <2>2, <3>1
      <4>2. QED  BY <2>1, <2>2, <2>4, <4>1, ComparesGiven
    <3>2. CASE l.kind = "literal" /\ r.kind = "variable"
      <4>1. L # R /\ L.kind = "condition" /\ R.kind = "variable"
        BY <1>5, <2>1, <2>2, <3>2
      <4>2. QED  BY <2>1, <2>2, <2>5, <3>2, <4>1, ComparesLeft
    <3>3. CASE l.kind = "variable" /\ r.kind = "literal"
      <4>1. L # R /\ L.kind = "variable" /\ R.kind = "condition"
        BY <1>5, <2>1, <2>2, <3>3
      <4>2. QED  BY <2>1, <2>2, <2>5, <3>3, <4>1, ComparesRight
    <3>4. CASE l.kind = "variable" /\ r.kind = "variable"
      <4>1. L.kind = "variable" /\ R.kind = "variable"
        BY <1>5, <2>1, <2>2, <3>4
      <4>2. CASE L = R
        BY <2>1, <2>2, <2>4, <4>2, ComparesGiven
      <4>3. CASE L # R
        BY <2>1, <2>2, <2>5, <3>4, <4>1, <4>3, ComparesEither
      <4>4. QED  BY <4>2, <4>3
    <3>5. QED  BY <1>1, <1>4, <1>6, <1>7, <3>1, <3>2, <3>3, <3>4
  <2>7. QED  BY <1>1, <1>2, <2>3, <2>6 DEF Means
<1>8. CASE Sort(l) = "name" /\ CalledName(l)
  <2>1. l.kind = "variable" /\ r.kind = "literal" /\ ~CalledName(r)
    BY <1>1, <1>4, <1>6, <1>8
  <2>2. PICK d : /\ Values(R, a) = {d}
                 /\ has_name(d)
                 /\ AttributeOf(r, a) = <<"name", get_name(d)>>
                 /\ R = Given(d)
    BY <1>1, <1>4, <1>8, <2>1, NamedSide
  <2>3. L = QVar(l.q) /\ Values(L, a) = {a[l.q]}
    BY <1>1, <1>8, CalledSide
  <2>4. PICK s \in OfKind(Program, "call") :
               /\ a[l.q] = Stmt(s)
               /\ AttributeOf(l, a) = <<"name", ProcNames[get_proc_called(Program, s)]>>
    BY <1>1, <1>8, CalledSide
  <2>5. a[l.q] \in solve_equal(Program, d)
          <=> ProcNames[get_proc_called(Program, s)] = get_name(d)
    <3>1. ~has_name(Stmt(s)) /\ \A u : Stmt(u) = Stmt(s) => u = s
      BY DEF has_name, Stmt
    <3>2. QED  BY <2>2, <2>4, <3>1, EqualFindsNames
  <2>6. ComparesEqual(L, R, a, from) <=> a[l.q] \in solve_equal(Program, d)
    <3>1. L # R /\ L.kind = "variable" /\ R.kind = "condition"
      BY <1>5, <2>2, <2>3
    <3>2. QED  BY <2>2, <2>3, <3>1, ComparesRight
  <2>7. QED  BY <1>1, <1>2, <1>3, <2>2, <2>4, <2>5, <2>6 DEF Means
<1>9. CASE Sort(l) = "name" /\ CalledName(r)
  <2>1. r.kind = "variable" /\ l.kind = "literal" /\ ~CalledName(l)
    BY <1>1, <1>4, <1>6, <1>9
  <2>2. PICK c : /\ Values(L, a) = {c}
                 /\ has_name(c)
                 /\ AttributeOf(l, a) = <<"name", get_name(c)>>
                 /\ L = Given(c)
    BY <1>1, <1>9, <2>1, NamedSide
  <2>3. R = QVar(r.q) /\ Values(R, a) = {a[r.q]}
    BY <1>1, <1>9, CalledSide
  <2>4. PICK s \in OfKind(Program, "call") :
               /\ a[r.q] = Stmt(s)
               /\ AttributeOf(r, a) = <<"name", ProcNames[get_proc_called(Program, s)]>>
    BY <1>1, <1>9, CalledSide
  <2>5. a[r.q] \in solve_equal(Program, c)
          <=> ProcNames[get_proc_called(Program, s)] = get_name(c)
    <3>1. ~has_name(Stmt(s)) /\ \A u : Stmt(u) = Stmt(s) => u = s
      BY DEF has_name, Stmt
    <3>2. QED  BY <2>2, <2>4, <3>1, EqualFindsNames
  <2>6. ComparesEqual(L, R, a, from) <=> a[r.q] \in solve_equal(Program, c)
    <3>1. L # R /\ L.kind = "condition" /\ R.kind = "variable"
      BY <1>5, <2>2, <2>3
    <3>2. QED  BY <2>2, <2>3, <3>1, ComparesLeft
  <2>7. QED  BY <1>1, <1>2, <1>3, <2>2, <2>4, <2>5, <2>6 DEF Means
<1>10. CASE Sort(l) = "number"
  <2>1. PICK c : /\ Values(L, a) = {c}
                 /\ has_number(c) /\ ~has_name(c)
                 /\ AttributeOf(l, a) = <<"number", get_number(c)>>
                 /\ l.kind = "integer"  => L = Given(c)
                 /\ l.kind = "variable" => /\ L = QVar(l.q) /\ c = a[l.q] /\ c \in Everything
                                           /\ PredicateOf(l.q) # "const" => get_number(c) # 0
    BY <1>1, <1>10, NumberedSide
  <2>2. PICK d : /\ Values(R, a) = {d}
                 /\ has_number(d) /\ ~has_name(d)
                 /\ AttributeOf(r, a) = <<"number", get_number(d)>>
                 /\ r.kind = "integer"  => R = Given(d)
                 /\ r.kind = "variable" => R = QVar(r.q) /\ d = a[r.q] /\ d \in Everything
    BY <1>1, <1>4, <1>10, NumberedSide
  <2>3. PhraseHolds(ph, a) <=> get_number(c) = get_number(d)
    BY <1>3, <2>1, <2>2
  <2>4. /\ d \in Everything => (d \in solve_equal(Program, c) <=> get_number(c) = get_number(d))
        /\ c \in Everything => (c \in solve_equal(Program, d) <=> get_number(c) = get_number(d))
    BY <2>1, <2>2, EqualFindsNumbers
  <2>5. CASE L = R
    <3>1. l.kind = "variable" /\ r.kind = "variable" /\ l.q = r.q
      <4>1. L.kind = "condition" <=> l.kind = "integer"
        BY <1>1, <1>5, <1>6, <1>10, <2>1
      <4>2. R.kind = "condition" <=> r.kind = "integer"
        BY <1>1, <1>4, <1>5, <1>6, <1>10, <2>2
      <4>3. l.kind = "variable" /\ r.kind = "variable"
        BY <1>1, <1>4, <1>6, <1>10, <2>5, <4>1, <4>2
      <4>4. QED  BY <1>5, <2>1, <2>2, <2>5, <4>3
    <3>2. c = d /\ get_number(c) # 0
      BY <1>4, <2>1, <2>2, <3>1
    <3>3. validate_equal(Program, c, d)
      BY <2>1, <3>2 DEF validate_equal
    <3>4. ComparesEqual(L, R, a, from)
      BY <2>1, <2>2, <2>5, <3>3, ComparesGiven
    <3>5. QED  BY <1>1, <1>2, <2>3, <3>2, <3>4 DEF Means
  <2>6. CASE L # R
    <3>1. ComparesEqual(L, R, a, from) <=> get_number(c) = get_number(d)
      <4>1. CASE l.kind = "integer" /\ r.kind = "variable"
        <5>1. L.kind = "condition" /\ R.kind = "variable"
          BY <1>5, <2>1, <2>2, <4>1
        <5>2. QED  BY <2>1, <2>2, <2>4, <2>6, <4>1, <5>1, ComparesLeft
      <4>2. CASE l.kind = "variable" /\ r.kind = "integer"
        <5>1. L.kind = "variable" /\ R.kind = "condition"
          BY <1>5, <2>1, <2>2, <4>2
        <5>2. QED  BY <2>1, <2>2, <2>4, <2>6, <4>2, <5>1, ComparesRight
      <4>3. CASE l.kind = "variable" /\ r.kind = "variable"
        <5>1. L.kind = "variable" /\ R.kind = "variable"
          BY <1>5, <2>1, <2>2, <4>3
        <5>2. QED  BY <2>1, <2>2, <2>4, <2>6, <4>3, <5>1, ComparesEither
      <4>4. QED  BY <1>1, <1>4, <1>6, <1>10, <4>1, <4>2, <4>3
    <3>2. QED  BY <1>1, <1>2, <2>3, <3>1 DEF Means
  <2>7. QED  BY <2>5, <2>6
<1>11. QED  BY <1>1, <1>4, <1>6, <1>7, <1>8, <1>9, <1>10

------------------------------------------------------------------------------
\* Predicates are declared before the first phrase, so a field that fits its
\* variable's predicate when it is read fits it when the text has ended.
FieldsFit ==
  /\ asked # {} => mode \notin {"query", "names"}
  /\ \A ph \in asked :
       ph.of = "with" => TermFits(ph.text.left) /\ TermFits(ph.text.right)

LEMMA FieldsStep == FieldsFit /\ [Next]_vars => FieldsFit'
<1> SUFFICES ASSUME FieldsFit, [Next]_vars PROVE FieldsFit'
  OBVIOUS
<1> USE DEF FieldsFit
<1>1. ASSUME UNCHANGED predicates
      PROVE  \A t : TermFits(t)' <=> TermFits(t)
  BY <1>1 DEF TermFits, PredicateOf
<1>2. CASE parse_predicate
  BY <1>2, <1>1 DEF parse_predicate
<1>3. CASE DeclareName
  BY <1>3 DEF DeclareName
<1>4. CASE EndBeforeSelect
  BY <1>4, <1>1 DEF EndBeforeSelect
<1>5. CASE parse_selector
  BY <1>5, <1>1 DEF parse_selector
<1>6. CASE parse_main_query
  BY <1>6, <1>1 DEF parse_main_query
<1>7. CASE SuchThatClause
  <2>1. UNCHANGED predicates /\ mode' \notin {"query", "names"}
    BY <1>7 DEF SuchThatClause, Behind
  <2>2. PICK ph \in SuchThats :
          asked' = asked \/ asked' = asked \cup {[of |-> "such that", text |-> ph]}
    BY <1>7 DEF SuchThatClause
  <2>3. PICK new : new = [of |-> "such that", text |-> ph]
    OBVIOUS
  <2>4. new.of # "with" /\ \A x \in asked' : x \in asked \/ x = new
    BY <2>2, <2>3
  <2>5. QED  BY <1>1, <2>1, <2>4
<1>8. CASE WithClause
  BY <1>8, <1>1 DEF WithClause, Behind
<1>9. CASE PatternClause
  BY <1>9, <1>1 DEF PatternClause, Behind
<1>10. CASE EndOfQuery
  BY <1>10, <1>1 DEF EndOfQuery
<1>11. CASE WrongToken
  BY <1>11, <1>1 DEF WrongToken
<1>12. CASE UNCHANGED vars
  BY <1>12, <1>1 DEF vars
<1> QED
  BY <1>2, <1>3, <1>4, <1>5, <1>6, <1>7, <1>8, <1>9, <1>10, <1>11, <1>12 DEF Next

NothingAsked == at \in {"start", "prompt"} => asked = {}

LEMMA SessionFieldsStep ==
    FieldsFit /\ NothingAsked /\ [SessionNext]_<<vars, sessionVars>> => (FieldsFit /\ NothingAsked)'
<1> SUFFICES ASSUME FieldsFit, NothingAsked, [SessionNext]_<<vars, sessionVars>>
             PROVE  FieldsFit' /\ NothingAsked'
  OBVIOUS
<1> USE DEF NothingAsked
<1>1. ASSUME UNCHANGED vars PROVE FieldsFit' /\ UNCHANGED asked
  BY <1>1, FieldsStep DEF vars
<1>2. CASE Start
  BY <1>1, <1>2 DEF Start
<1>3. CASE Evaluate
  BY <1>3 DEF Evaluate, FieldsFit
<1>4. CASE Parse
  BY <1>4, FieldsStep DEF Parse
<1>5. CASE Finish
  BY <1>5 DEF Finish, FieldsFit
<1>6. CASE Answer \/ Report \/ AskForMore
  BY <1>5, <1>6 DEF Answer, Report, AskForMore
<1>7. CASE Terminate
  BY <1>1, <1>7 DEF Terminate
<1>8. CASE EndOfBatch
  BY <1>1, <1>8 DEF EndOfBatch
<1>9. CASE UNCHANGED <<vars, sessionVars>>
  BY <1>1, <1>9 DEF sessionVars
<1> QED
  BY <1>2, <1>3, <1>4, <1>6, <1>7, <1>8, <1>9 DEF SessionNext

LEMMA PhraseMeans ==
    ASSUME ParserTypeOK, FieldsFit, NEW ph \in asked, AsMeant(ph), NEW a \in Choices, NEW from
    PROVE  Means(ph, a, from)
<1>1. ph \in Phrases /\ ph.of \in {"such that", "with", "pattern"}
  BY DEF ParserTypeOK, Phrases
<1>2. CASE ph.of = "with"
  <2>1. ASSUME NEW t \in {ph.text.left, ph.text.right} PROVE Fits(t, a)
    <3>1. SUFFICES ASSUME IsVariable(t) PROVE t.q \in Mentioned
      BY DEF Fits, IsVariable, Choices
    <3>2. t \in TextsOf(ph)
      BY <1>2, <2>1 DEF TextsOf
    <3>3. QED  BY <3>1, <3>2 DEF Mentioned
  <2>2. QED  BY <1>1, <1>2, <2>1, WithMeans DEF FieldsFit
<1>3. QED  BY <1>1, <1>2, SuchThatMeans, PatternMeans

(***************************************************************************)
(* Whatever the text, the program and the declarations, the clauses of a   *)
(* parsed query hold for just the conditions its text is about, but for    *)
(* the phrases AsMeant leaves out: parse_term, parse_with, parse_pattern   *)
(* (pql_parser.cpp:379-680), the ClauseSet and EqualSolver together.       *)
(***************************************************************************)
THEOREM ClausesAlwaysMeanText == SessionSpec => []ClausesMeanText
<1>1. ParserTypeOK /\ ClausesKept /\ FieldsFit => ClausesMeanText
  <2>1. SUFFICES ASSUME ParserTypeOK, ClausesKept, FieldsFit, \A ph \in asked : AsMeant(ph),
                        NEW a \in Choices, NEW from \in {"left", "right"}
                 PROVE  (\A cl \in clauses : ClauseHolds(cl, a, from))
                          <=> (\A ph \in asked : PhraseHolds(ph, a))
    BY DEF ClausesMeanText
  <2>2. \A ph \in asked : Means(ph, a, from)
    BY <2>1, PhraseMeans
  <2>3. clauses = UNION {ClausesOf(ph) : ph \in asked}
    BY <2>1 DEF ClausesKept
  <2>4. QED  BY <2>2, <2>3 DEF Means
<1>2. SessionInit => FieldsFit /\ NothingAsked
  BY DEF SessionInit, Init, FieldsFit, NothingAsked
<1>3. SessionSpec => []FieldsFit
  BY <1>2, SessionFieldsStep, PTL DEF SessionSpec
<1>4. QED  BY <1>1, <1>3, SessionKeepsClauses, PTL
===============================================================================
