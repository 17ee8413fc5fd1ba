------------------------------ MODULE PqlParser ------------------------------
(***************************************************************************)
(* impl/parser/pql_parser.cpp: how SimplePqlParser makes of the text of a  *)
(* query its predicate table, selector and ClauseSet.  A step reads one    *)
(* phrase: a keyword, a declared name, the selector, or one clause of a    *)
(* `such that', `with' or `pattern' list with the `and' behind it.  The    *)
(* text is arbitrary: any phrase of the syntax may come next, and any      *)
(* token that does not fit makes token_cast throw.                         *)
(*                                                                         *)
(* Phrases are records of what they say:                                   *)
(*   such that  [rel, star, left, right], left and right as parse_term     *)
(*              reads them;                                                *)
(*   with       [left, right], each a literal, an integer or a name with   *)
(*              its field ("" for none);                                   *)
(*   pattern    [stmt, var, expr, indirect], expr a pattern, a name or     *)
(*              the wildcard (`_' or `_, _'), indirect for `_expr_'.       *)
(***************************************************************************)
EXTENDS ClauseOrder, FiniteSets, Sequences

CONSTANTS
  ProcTable,     \* the procedures in the syntax tree, by name
  LineTable,     \* the lines that have a statement
  Qvars,         \* texts: query variables,
  Keywords,      \*        words before declared names,
  Selectors,     \*        selectors,
  SuchThats, Withs, Patterns,     \* clauses of the three kinds
  MaxDeclared, MaxPhrases         \* bounds: names, clauses of a text

VARIABLES
  predicates,    \* _query_set.predicates
  selector,      \* _query_set.selector
  clauses,       \* _query_set.clauses
  mode,          \* what the parser reads next, or how it ended
  declaring,     \* pred of parse_predicate
  asked          \* the clauses read so far, as the text has them

vars == <<predicates, selector, clauses, mode, declaring, asked>>

Nothing    == "nothing"
NoSelector == [kind |-> "nothing"]

\* create_predicate_table.
PredicateTable ==
  {"wildcard", "procedure", "statement", "assign", "while", "if", "call", "var",
   "const", "operator", "minus", "plus", "times"}

StatementPredicates == {"statement", "assign", "if", "while", "call"}

PredicateName(keyword) ==
  CASE keyword \in {"prog_line", "stmt", "stmtlist", "stmtlst", "statement"} -> "statement"
    [] keyword \in {"var", "variable"} -> "var"
    [] keyword \in {"const", "constant"} -> "const"
    [] keyword \in {"op", "operator"} -> "operator"
    [] OTHER -> keyword

\* The texts, as records.
TermTexts ==
  [kind : {"literal"}, name : Names] \cup [kind : {"integer"}, i : Nat]
  \cup [kind : {"variable"}, q : Qvars] \cup [kind : {"wildcard"}]

FieldTexts ==
  [kind : {"literal"}, name : Names] \cup [kind : {"integer"}, i : Nat]
  \cup [kind : {"variable"}, q : Qvars, field : STRING]

ExprTexts ==
  [kind : {"pattern"}, expr : Nat] \cup [kind : {"variable"}, q : Qvars]
  \cup [kind : {"wildcard"}]

ASSUME TextAssumption ==
  /\ ProcTable \in [DOMAIN ProcTable -> Nat]
  /\ LineTable \subseteq Nat
  /\ Qvars \subseteq Names
  /\ {"equal", "direct_uses", "expr", "iexpr"} \subseteq Solvers
  /\ SuchThats \subseteq [rel : STRING, star : BOOLEAN, left : TermTexts, right : TermTexts]
  /\ Withs \subseteq [left : FieldTexts, right : FieldTexts]
  /\ Patterns \subseteq [stmt : TermTexts, var : TermTexts, expr : ExprTexts, indirect : BOOLEAN]

Init ==
  /\ predicates = <<>>
  /\ selector = NoSelector
  /\ clauses = {}
  /\ mode = "query"
  /\ declaring = Nothing
  /\ asked = {}

------------------------------------------------------------------------------
\* Mutant: an unknown word gives a null predicate instead of an exception.
parse_predicate_unknown ==
  /\ mode = "query"
  /\ \E keyword \in Keywords :
       mode' = "names" /\ declaring' = PredicateName(keyword)
  /\ UNCHANGED <<predicates, selector, clauses, asked>>

\* parse_query: Select begins the main query, any other word a declaration.
parse_predicate ==
  /\ mode = "query"
  /\ \E keyword \in Keywords :
       IF PredicateName(keyword) \in PredicateTable
       THEN mode' = "names" /\ declaring' = PredicateName(keyword)
       ELSE mode' = "rejected" /\ UNCHANGED declaring
  /\ UNCHANGED <<predicates, selector, clauses, asked>>

\* A name, then a comma or a semicolon.  A name declared again changes type.
DeclareName ==
  /\ mode = "names"
  /\ \E q \in Qvars :
       /\ q \in DOMAIN predicates \/ Cardinality(DOMAIN predicates) < MaxDeclared
       /\ predicates' = [n \in DOMAIN predicates \cup {q} |->
                           IF n = q THEN declaring ELSE predicates[n]]
  /\ mode' \in {"names", "query"}
  /\ declaring' = IF mode' = "query" THEN Nothing ELSE declaring
  /\ UNCHANGED <<selector, clauses, asked>>

\* parse_query throws IncompleteParseError when the text ends before Select;
\* the command line then waits for more.
EndBeforeSelect ==
  /\ mode = "query"
  /\ mode' = "incomplete"
  /\ UNCHANGED <<predicates, selector, clauses, declaring, asked>>

FieldNames == {"stmt#", "varname", "procname", "value"}

\* The fields a selector mentions: parse_selector, parse_tuple_selector.
FieldsOf(sel) ==
  CASE sel.kind = "boolean"  -> {}
    [] sel.kind = "variable" -> {sel.field}
    [] sel.kind = "tuple"    -> {sel.fields[i] : i \in DOMAIN sel.fields}

\* A wrong field name throws a pointer, which no handler of the callers takes.
parse_selector ==
  /\ mode = "query"
  /\ \E sel \in Selectors :
       IF FieldsOf(sel) \subseteq FieldNames \cup {""}
       THEN mode' = "phrases" /\ selector' = sel
       ELSE mode' = "escaped" /\ UNCHANGED selector
  /\ UNCHANGED <<predicates, clauses, declaring, asked>>

------------------------------------------------------------------------------
\* parse_condition: a literal is a procedure if one has its name.
parse_condition(name) == IF name \in DOMAIN ProcTable THEN <<"proc", ProcTable[name]>> ELSE <<"var", name>>

\* An integer is a statement if one has its line (parse_term looks into the
\* table first, parse_with_term catches the exception of get_statement).
ParseInteger(i) == IF i \in LineTable THEN <<"stmt", i>> ELSE <<"const", i>>

parse_term(t) ==
  CASE t.kind = "literal"  -> Given(parse_condition(t.name))
    [] t.kind = "integer"  -> Given(ParseInteger(t.i))
    [] t.kind = "variable" -> QVar(t.q)
    [] t.kind = "wildcard" -> Wildcard

parse_expr_term(t) ==
  CASE t.kind = "pattern"  -> Given(<<"pattern", t.expr>>)
    [] t.kind = "variable" -> QVar(t.q)
    [] t.kind = "wildcard" -> Wildcard

\* The predicate a field requires of its variable.
FieldFits(pred, field) ==
  CASE field = ""         -> TRUE
    [] field = "stmt#"    -> pred \in StatementPredicates
    [] field = "varname"  -> pred = "var"
    [] field = "procname" -> pred \in {"procedure", "call"}
    [] field = "value"    -> pred = "const"
    [] OTHER              -> FALSE

\* predicates[qvar], without the entry for an undeclared qvar, which is made
\* only when an exception follows.
PredicateOf(q) == IF q \in DOMAIN predicates THEN predicates[q] ELSE Nothing

\* Mutant: the fields are read but not compared with the predicates.
TermFitsAlways(t) == t.kind = "variable" => t.field \in FieldNames \cup {""}

TermFits(t) == t.kind = "variable" => FieldFits(PredicateOf(t.q), t.field)

\* get_statement adds the number to the address of its message, whose end is
\* at 27, and makes a string of what is there before the exception is caught.
Overruns(t) == t.kind = "integer" /\ t.i \notin LineTable /\ t.i > 27

SolverName(ph) == IF ph.star THEN "i" \o ph.rel ELSE ph.rel

\* parse_clause.
parse_clause(ph) == Clause(SolverName(ph), parse_term(ph.left), parse_term(ph.right))

\* parse_with.  A variable's field is not kept.
parse_with_term(t) == IF t.kind = "variable" THEN QVar(t.q) ELSE parse_term(t)
parse_with(ph) == Clause("equal", parse_with_term(ph.left), parse_with_term(ph.right))

\* parse_pattern.
uses_clause(ph) == Clause("direct_uses", parse_term(ph.stmt), parse_term(ph.var))
expr_clause(ph) ==
  Clause(IF ph.indirect THEN "iexpr" ELSE "expr", parse_term(ph.stmt), parse_expr_term(ph.expr))

\* Mutant: without a variable to look for, the direct use is kept instead.
parse_pattern_used(S, ph) ==
  IF ph.expr.kind = "wildcard" \/ ph.var.kind = "wildcard" THEN Insert(S, uses_clause(ph))
  ELSE Insert(Insert(S, uses_clause(ph)), expr_clause(ph))

\* A wildcard expression leaves the direct use, a wildcard variable leaves
\* the expression.
parse_pattern(S, ph) ==
  IF ph.expr.kind = "wildcard" THEN Insert(S, uses_clause(ph))
  ELSE IF ph.var.kind = "wildcard" THEN Insert(S, expr_clause(ph))
  ELSE Insert(Insert(S, uses_clause(ph)), expr_clause(ph))

------------------------------------------------------------------------------
\* The keyword of a list of clauses.
parse_main_query ==
  /\ mode = "phrases"
  /\ Cardinality(asked) < MaxPhrases
  /\ mode' \in {"such that", "with", "pattern"}
  /\ UNCHANGED <<predicates, selector, clauses, declaring, asked>>

\* Behind a clause: `and' and a further clause of the list, or its end.
Behind(list) == mode' \in (IF Cardinality(asked') < MaxPhrases THEN {list} ELSE {}) \cup {"phrases"}

SuchThatClause ==
  /\ mode = "such that"
  /\ \E ph \in SuchThats :
       IF SolverName(ph) \in Solvers
       THEN /\ clauses' = Insert(clauses, parse_clause(ph))
            /\ asked' = asked \cup {[of |-> "such that", text |-> ph]}
            /\ Behind("such that")
       ELSE /\ mode' = "rejected"
            /\ UNCHANGED <<clauses, asked>>
  /\ UNCHANGED <<predicates, selector, declaring>>

\* A field that does not fit ends the program, and so may an overrun.
WithClause ==
  /\ mode = "with"
  /\ \E ph \in Withs :
       \/ /\ TermFits(ph.left) /\ TermFits(ph.right)
          /\ clauses' = Insert(clauses, parse_with(ph))
          /\ asked' = asked \cup {[of |-> "with", text |-> ph]}
          /\ Behind("with")
       \/ /\ \E t \in {ph.left, ph.right} : ~TermFits(t) \/ Overruns(t)
          /\ mode' = "escaped"
          /\ UNCHANGED <<clauses, asked>>
  /\ UNCHANGED <<predicates, selector, declaring>>

PatternClause ==
  /\ mode = "pattern"
  /\ \E ph \in Patterns :
       /\ clauses' = parse_pattern(clauses, ph)
       /\ asked' = asked \cup {[of |-> "pattern", text |-> ph]}
  /\ Behind("pattern")
  /\ UNCHANGED <<predicates, selector, declaring>>

\* The end of the text, or a semicolon.
EndOfQuery ==
  /\ mode = "phrases"
  /\ mode' = "parsed"
  /\ UNCHANGED <<predicates, selector, clauses, declaring, asked>>

\* token_cast throws ParseError on a token of another type, and on the end
\* of the text inside a phrase.
Reading == {"query", "names", "phrases", "such that", "with", "pattern"}

WrongToken ==
  /\ mode \in Reading
  /\ mode' = "rejected"
  /\ UNCHANGED <<predicates, selector, clauses, declaring, asked>>

Next ==
  \/ parse_predicate
  \/ DeclareName
  \/ EndBeforeSelect
  \/ parse_selector
  \/ parse_main_query
  \/ SuchThatClause
  \/ WithClause
  \/ PatternClause
  \/ EndOfQuery
  \/ WrongToken

Spec == Init /\ [][Next]_vars

------------------------------------------------------------------------------
\* The clauses a phrase stands for.
ClausesOf(ph) ==
  CASE ph.of = "such that" -> {parse_clause(ph.text)}
    [] ph.of = "with"      -> {parse_with(ph.text)}
    [] ph.of = "pattern"   ->
         (IF ph.text.expr.kind = "wildcard" THEN {} ELSE {expr_clause(ph.text)})
         \cup (IF ph.text.var.kind = "wildcard" /\ ph.text.expr.kind # "wildcard" THEN {}
               ELSE {uses_clause(ph.text)})

Phrases ==
  [of : {"such that"}, text : {ph \in SuchThats : SolverName(ph) \in Solvers}]
  \cup [of : {"with"}, text : Withs] \cup [of : {"pattern"}, text : Patterns]

(***************************************************************************)
(* Type invariant: every clause names a solver of the table and has terms  *)
(* that clauses can be ordered by, and a declared name has a predicate.    *)
(***************************************************************************)
ParserTypeOK ==
  /\ DOMAIN predicates \subseteq Qvars
  /\ \A q \in DOMAIN predicates : predicates[q] \in PredicateTable
  /\ selector \in Selectors \cup {NoSelector}
  /\ \A cl \in clauses : cl \in Clauses
  /\ asked \subseteq Phrases
  /\ mode \in Reading \cup {"parsed", "rejected", "incomplete", "escaped"}
  /\ declaring \in PredicateTable \cup {Nothing}
  /\ mode = "names" => declaring # Nothing

(***************************************************************************)
(* No clause of the text is dropped by the ClauseSet, and none is in it    *)
(* that the text does not have: the order never takes two different        *)
(* clauses for one (ClausePtr::operator <, is_less_than_term and the       *)
(* specialisations of is_less_than_condition).                             *)
(***************************************************************************)
ClausesKept == clauses = UNION {ClausesOf(ph) : ph \in asked}
==============================================================================
