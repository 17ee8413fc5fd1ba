# Verification of the SIMPLE analyzer and its PQL engine

The program parses a source file of the toy language SIMPLE, and answers PQL
queries about it (`Select <s, v> such that Next*(s, n) pattern a(v, _)`). It is
sequential C++ with no persistence. What is hard in it is not concurrency but
mutual recursion over shared tables, orders that depend on names and addresses,
graph searches with visited sets, and two or three implementations of each
relation (`validate`, `solve_left`, `solve_right`) that must agree.

## 1. Inventory

| Component | Source | State | Operations |
|---|---|---|---|
| Query linker | `impl/linker.cpp` | conditions per query variable, links per pair of variables, which pairs are linked, validity | `update_results`, `update_links`, `get_conditions`, `make_tuples`, `invalidate_state`; inside: `remove_condition`, `break_link`, the indirect searches |
| Query processor | `impl/processor.cpp`, `impl/frontend.h`, `simple/query.cpp` | the clause set, a linker | the nine forms of `solve_clause` |
| Selectors | `impl/selector.cpp` | none | single variable, boolean, tuple |
| Cluster linker | `impl/linker-cluster.cpp` | the type of each variable, a set of conditions per unlinked variable, one cluster: a list of tuples with a column per linked variable | the same interface; an alternative definition of the same class, one per build |
| Table linker | `impl/table_linker.cpp` | a list of tuples | an unfinished third version that does not compile |
| Walking solvers | `impl/solvers/next.cpp`, `next_bip.cpp`, `follows.cpp`, `ifollows.cpp`, `parent.cpp`, `iparent.cpp` | none, or an index of last statements | `validate`, `solve_left`, `solve_right` as loops over the tree |
| Searching solvers | `inext.cpp`, `affects.cpp`, `iaffects.cpp` | a visit cache per solver, result caches | depth-first searches over control flow, both directions, with and without calls |
| Indexing solvers | `call.cpp`, `icall.cpp`, `assign.cpp` with `modifies.cpp` and `uses.cpp`, `direct_uses.cpp`, `contains.cpp`, `sibling.cpp` | tables filled by the constructor | one walk over all procedures, then lookups |
| Pattern solvers | `expr.cpp`, `iexpr.cpp`, `simple/util/expr_util.cpp` | table of assigned expressions by text | whole expression, sub-expression |
| `with` solver | `equal.cpp` | tables by name and by number | `validate`, `solve_left`, `solve_right` |
| SIMPLE parser | `impl/parser/parser.cpp`, `expr_parser.cpp` | procedure and line tables, token lookahead | recursive descent, precedence climbing |
| PQL parser | `impl/parser/pql_parser.cpp` | predicate table of the query, clause set | declarations, clauses, patterns, `with` |
| Tokenizer | `impl/parser/iterator_tokenizer.h`, `token.h` | input position, current character | `next_token` on demand of a parser |
| Solver table | `impl/solver_table.cpp`, `simple/util/solver_generator.h` | the solvers of a program, by name | construction in a fixed order; dispatch of conditions to typed functions |
| AST, predicates, conditions | `simple/ast.*`, `impl/predicate.*`, `simple/condition_set.*`, `simple/tuple.*` | trees, sets | traversal, set operations |
| PKB facade | `spa/*` | none | adapters |
| Command line, batch, autotester | `impl/command_line.cpp`, `impl/batch.cpp`, `autotest/` | the lines collected for a query | read, evaluate, print or ask for more |

How they interact: `SimplePqlFrontEnd` parses the program, builds the solver
table and the predicates once; for each query it builds a fresh
`SimpleQueryLinker` (whichever of the two the build has) from the declared
predicates, hands every clause to
`QueryProcessor` in `ClauseSet` order, and formats the selection. The processor
asks a solver for a relation and turns the answer into `update_results`,
`update_links` or `invalidate_state`; the linker cascades until its tables
agree; the selector reads them.

What makes each part correct:

* linker: no assignment that satisfies all requests may lose a condition or a
  link; what remains should be supported by links; calls must return although
  the recursion follows cyclic links; an invalid state means there is no answer;
* processor: the request a clause makes means what the clause says, whatever
  was removed before; the answer does not depend on the clause order;
* walking solvers: `validate`, `solve_left` and `solve_right`, written apart from
  each other, decide one relation;
* searching solvers: the answer is the relation PQL defines, although a recursive
  call that meets a visited point returns nothing for it, and one visit cache
  serves all queries of a solver; every search ends;
* indexing solvers: when the constructor returns the tables are complete, each
  other's inverse, and hold nothing else, whatever the order of the procedures;
* solver table: its constructors return, and its dispatch gives every solver one
  relation in three forms for conditions of every kind;
* cluster linker: its tables are exactly the solutions of the requests;
* tokenizer: the tokens spell the text, none eats or leaves a character of the next;
* command line and batch: a query is evaluated with its own lines only, and a failed
  query does not end the session;
* PQL parser and `with` solver: the clauses of a query hold for the conditions its
  text is about, and the container they go through drops none of them;
* parsers: what is accepted has the pointers, lines and tables the solvers walk
  along; expressions are grouped as the grammar of SIMPLE says; nothing that the
  language allows is rejected.

Where the behaviour is hard: there are no threads, timers or files written. The
hazards are orders (of names, addresses, clauses and procedures), mutual
recursion that reads tables it is changing, caches that outlive the query they
were filled for, code written two or three times for one relation, and walks
over cyclic structures that must end. `PROJECT.json` lists them line by line.

## 2. Modules

| Module | Models | Notes |
|---|---|---|
| `LinkerContract` | `simple/linker.h`, the interface | abstract: requests narrow the solutions, useless candidates are dropped one at a time |
| `Linker` | `impl/linker.cpp`, the write side | the recursion as a stack of frames |
| `LinkerTuples` | `make_tuples` and the indirect searches | operators over a state of `Linker`; the searches are recursive functions of the visited set |
| `QueryStore` | `simple/linker.h`, the interface | abstract: the requests leave exactly their solutions |
| `ClusterLinker` | `impl/linker-cluster.cpp` | sets of unlinked variables and the joined tuples |
| `QueryLinkers` | the two definitions of `SimpleQueryLinker` | the calls of the interface, answered by the class of the build |
| `QueryProcessor` | `process_query`, `processor.cpp`, clause order, selectors | composes `QueryLinkers`; a solver is its relation |
| `SimpleAst` | `simple/ast.h`, `impl/ast.h` | the tree: statements with pointers, procedures |
| `NextSolver`, `NextBipSolver` | `next.cpp`, `next_bip.cpp` | operators over a tree |
| `AssignmentSolver` | `modifies.cpp`, `uses.cpp`, and what `assign.cpp` computes from them | operators, for the solvers that use them |
| `EffectsIndex` | `assign.cpp`: the constructors and lookups of Modifies and Uses | state machine, its stack the recursion |
| `ProgramMeaning` | none | control flow, calls and what runs, from the structure of the program |
| `SolverTable` | `solver_table.cpp`, `solver_generator.h` | composes `ICallSolver`, `EffectsIndex` and the solvers of the tree |
| `TreeSolvers` | Follows, Parent, their closures, Calls, Contains, Sibling, `direct_uses.cpp` | operators |
| `AffectsSolver` | the steps of `affects.cpp` and `iaffects.cpp` | operators; extends the two above it |
| `SearchContract` | what a searching solver promises | abstract: an answer, once given, is what the reachable points emit |
| `GraphSearch` | the recursion, visit cache and result cache the searching solvers share | state machine over any graph |
| `FlowSolvers` | the graph of each searching solver, and what the relations mean | composes `GraphSearch` with the solvers |
| `ICallSolver` | the constructor of `icall.cpp` and its three queries | state machine |
| `SimpleParser` | `parser.cpp` | state machine over arbitrary texts |
| `ExprSolvers` | `expr_util.cpp`, `expr.cpp`, `iexpr.cpp`, the expression half of `contains.cpp` and `sibling.cpp` | recursive operators on the trees that `ExprParser` makes |
| `Tokenizer` | `iterator_tokenizer.h` | state machine over arbitrary characters |
| `ExprParser` | `expr_parser.cpp`, the same code in `parser.cpp` | state machine, composed with `Tokenizer`; the grammar as a recursive function |
| `ClauseOrder` | `simple/query.*`, `query_utils.cpp`, `condition_utils.cpp`: how conditions, terms and clauses compare | operators |
| `PqlParser` | `pql_parser.cpp`, the clause set of a query | state machine over arbitrary texts |
| `EqualSolver` | `equal.h`, `equal.cpp` | operators |
| `Predicates` | `predicate.cpp`, the global sets | operators over a tree |
| `Clients` | `command_line.cpp`, `batch.cpp` | sessions: `PqlParser` run once per text |
| `PqlMeaning` | what texts and clauses are about | composes `PqlParser`, `EqualSolver` and `Predicates` with the walking solvers |
| `MCPrograms` | none | all programs of a given size |
| `MC*` | none | instances for TLC |
| `Linker_proofs` | none | theorems about `Linker` and `LinkerTuples` |
| `QueryProcessor_proofs` | none | theorems about `ClusterLinker`, the builds, and the processor with either linker |
| `ExprParser_proofs` | none | theorems about `Tokenizer` and `ExprParser` |
| `SolverTable_proofs` | none | theorems about the solver table and the two constructors it runs |
| `FlowSolvers_proofs` | none | theorems about `GraphSearch` and `FlowSolvers`: the searches, and what their answers mean |
| `PqlParser_proofs`, `SimpleParser_proofs` | none | theorems about those modules |
| `ProgramLemmas` | none | lemmas about stacks, walks and closures over graphs, and the syntax tree, that several of them share |

What extends or composes what:

    Linker -- LinkerTuples --+-- QueryLinkers -- QueryProcessor
           ClusterLinker ----+      Linker implements LinkerContract,
                                    ClusterLinker implements QueryStore
    SimpleAst -- NextSolver -- NextBipSolver --+
         |------ AssignmentSolver -------------+-- AffectsSolver --+
         |------ TreeSolvers --+-- Predicates ---------------------+-- FlowSolvers
         |------ ProgramMeaning (with FlowSolvers, SolverTable)    |
         |                     |                     GraphSearch --+
         |                     +-- EqualSolver    GraphSearch implements SearchContract
         +------ SimpleParser        |
    ICallSolver, EffectsIndex, NextSolver, EqualSolver -- SolverTable
    ClauseOrder -- PqlParser --+-- PqlMeaning (with EqualSolver, Predicates)
                               +-- Clients
    Tokenizer -- ExprParser -- ExprSolvers

### The linker

`_qvar_table` is split into `initialized` (its keys) and `values`;
`_condition_link_table` is the set `arcs` of quadruples, one per entry and
direction; `_qvar_link_table` is `linked`; `_valid_state` is `valid`. Maps that
C++ creates on first access have no entry here, which reads the same.

`update_results`, `remove_condition`, `break_link`, `break_both_links` and
`update_links` are loops that call each other. A frame of `stack` is one such
loop, with the elements it has still to visit; the head of `stack` is the
innermost one, and exactly one cascade action (`UpdateStep`, `UnlinkStep`,
`BreakStep`, `BreakBothStep`, `RegisterStep`, `Return`) is possible for each kind
of head. Requests are made only when the stack is empty, as in the code. Loops
visit sets in an arbitrary order, which covers the orders by name and by address
of the program.

`solutions` is a history variable: the assignments of a condition to every
variable that satisfy all requests so far. It influences nothing; properties
relate the tables to it.

### The other linker

`linker-cluster.cpp` defines the same class. A tuple of its cluster is a linked list
with the newest column in front; `qvar_index` counts columns from the oldest and a
condition is found by counting from the number of columns, `qvar_counter`. Joins
replace the whole list of tuples, so every operation is one step. `make_tuples`
writes: it adds a column for each unlinked variable it selects, and leaves the
variable unlinked. `ClusterLinker` keeps those columns and what they do to later
requests; the model has no invariant that forbids them.

`QueryLinkers` has both classes side by side and `build`, chosen at the start: a
program is linked with one of them. The processor is run with either.

### The query processor

A clause is `[rel, left, right]`, a term a variable, a given condition or the
wildcard. `Foremost` picks any clause that `ClausePtr::operator <` does not
force behind another (conditions and solvers compare by address, so those ties
go either way). `Fetch` is the side effect of `get_conditions` on an undeclared
variable. `pending` are the clauses not solved yet, `answer` the reply.

### Trees and the solvers that walk them

A program is a record: the sequence of statements indexed by line, and the first
statement of each procedure. Pointers are lines, `NoStmt` the null pointer, so
`next`, `prev`, `get_parent`, `get_then_branch` and their like are field
accesses, as in C++. Each solver function is an operator with its name that
follows the pointers the C++ loop follows. Relations that the code decides three
times are three operators, never one with its inverse. Result caches of pure
functions over the immutable tree are left out.

`NextBipSolver` works on points: a statement and the stack of calls it was
reached through. `AffectsSolver` gives the steps of four searches as one family,
with parameters for the flow (Next or NextBip) and for the overrides of
`IAffectsSolver`.

### The searches

`solve_inext`, `solve_affected_by` and the others are one recursion, written
several times: mark the point in `_visit_cache`, loop over its successors, skip
visited ones, join what the others return. `GraphSearch` is this recursion with
its graph as a parameter. A frame of `stack` is a call in progress with the rest
of its loop and its result so far; `Ask` is the entry with the test of the
result cache and the clearing of the visit cache; `Skip` and `Enter` are the two
outcomes of the recursive call; `Return` joins a result to the caller's,
`Conclude` stores it. `FlowSolvers` gives it six graphs in two directions: Next*,
NextBip*, Affects, AffectsBip, Affects*, AffectsBip*.

`FlowSolvers` also states what the relations mean, from the language and not from
the code: control flow by a definition over the structure of a program, Affects
by paths on which nothing in between modifies the variable.

### The construction of Calls*

`index_calls` recurses into a called procedure without an entry and then copies
the callee's entry. A procedure is the sequence of calls its walk meets; a frame
of `stack` is a walk in progress, `entered` says that it waits for the callee it
is at. Reading the callee's entry (`JoinCallee`) is a step apart from entering it
(`EnterCall`), because everything the nested walk does lies between them.

### Modifies, Uses and the solver table

`index_variables` recurses into lists, branches and called procedures, returns the
variables found, and sets the entry of its node on the way out, in both directions.
A node is a statement or a procedure; a frame of `EffectsIndex` is a call in progress
with the number of children that have returned and the union of what they returned.
A procedure is walked again at every call of it. Nothing stops the recursion of a
recursive program, so the model stops it: `MaxDepth`, of which `ConstructorsEnd`
says that only recursive programs reach it.

`SolverTable` takes the calls of `ICallSolver` from the tree, runs its constructor,
then that of `EffectsIndex` for both effects, and then asks all solvers through
`solve_right`, `solve_left` and `validate` as `SimpleSolverGenerator` dispatches them: a
function for the kinds of conditions the solver has one for, nothing found
otherwise.

### The parsers

`SimpleParser` steps once per piece of text that the code reads between two
nested calls: the head of a procedure, of a loop or of a branch, an assignment, a
call, a closing brace. `open` is the recursion. A statement takes its line when
its first token is read and its pointers when it is complete, so a container is
linked after its contents, in the three copies of the linking code. `EndOfText`
is the end of the text with the test for undefined procedures; `WrongToken` is any
other token. The text is not a variable: any step the syntax allows may be next.

`Tokenizer` is `next_token` one character per step: `scan` is the loop it is in,
`lexeme` what it has collected, `since` the characters eaten for the token. The text is
chosen as it is read. A literal that is not closed has no further step: in the code its
loop collects the end of the text for ever. `Ints` is what an `int` holds, each as its
digits without zeros in front (and a sign, if negative). `atoi` is defined for numbers
within its width; of a larger one the token may be any member of `Ints`.

`ExprParser` is precedence climbing with its recursion as a stack. It asks the tokenizer
for a token where the code does, one ahead, and skips ends of lines. `read` is the
tokens consumed, so that the properties can compare the tree built with the
grammar, and the four pattern operations of `ExprSolvers` can be run on every tree that
parses. `Grammar` is not the algorithm: it splits a text at the operator that binds
least.

### Queries

`PqlParser` reads one phrase per step: a keyword, a declared name, the selector, or
a clause with its `and`. `predicates`, `selector` and `clauses` are the fields of
`_query_set`; `declaring` is the predicate of the declaration being read; `asked`
is a history variable, the clauses as the text has them. `mode` says what comes
next or how parsing ended: `parsed`; `rejected` for the exceptions a caller
handles, `incomplete` for the one that asks for more text, `escaped` for the
pointers that the field-name errors throw and nobody catches.

The clauses go into a `std::set` whose order is `ClausePtr::operator <`: two clauses
that this order does not tell apart are one. `ClauseOrder` has the order itself, with
numbers for the addresses of statements, procedures and solvers, and `Insert` adds a
clause unless an equivalent one is there. (`QueryProcessor`, where only the outcome
of the order matters, picks among clauses whose order the addresses decide.)

A clause means something only through the solver it names. `PqlMeaning` evaluates
the clauses with `EqualSolver` (from either side, as the processor may) and the
relations of `TreeSolvers`, evaluates the text by what attributes are, and
compares the two. `AsMeant` lists the phrases for which they are meant to
agree; each of its exclusions is a disagreement of section 4, and TLC finds it when
the exclusion is taken out.

`Clients` evaluates one text after the other. A collected text is parsed from its
beginning again, so the model starts the parser of the next line with the declarations
of the lines before; text is only collected after `IncompleteParseError`, when it
consists of complete declarations, and no tokens can run into each other. `typed`
is a history variable: the names declared since the last query was finished. At the
end of its input the command line evaluates the same text for ever; the run's
bound on texts cuts that.

## 3. Runs

| Run | Instance | Shows |
|---|---|---|
| `linker` | 3 variables, 2 conditions, all three pairs joinable and one from both ends, three predicate tables (undeclared variables and an empty predicate among them), eight relations from the empty to the full one | `TypeOK`; `NoSolutionLost` and `WorkHarmless`; `InvalidMeansUnsatisfiable`; `LinksSymmetric` between calls; `TuplesComplete` for every selection of one to three variables; `ImplementsContract`; `CallsReturn`; and, while the links form a forest (and no variable is empty), `ExactOnForests` (candidates and links are those of solutions) and `TuplesFollowLinks`. The cluster build on the same instance, with three relations and two selections: `ImplementsStore` |
| `linker_cycle` | the triangle, 3 conditions | violates `ConditionsSupported` (finding 1) |
| `tuples_detour` | 4 variables `w - x - y - z` | violates `TuplesFollowLinks` (finding 2) |
| `queries` | 3 variables, 2 conditions, every set of up to 3 of 11 clauses and each linking clause with each of 5 closed clauses, two predicate tables, four selectors, both builds | `RequestsMeanClauses`, `AnswerComplete`, `AnswerExact` (forests for one build, everything but an empty unlinked variable for the other), `EveryQueryAnswered` |
| `query_empty` | a predicate without members | violates `EmptyMeansFalse` (finding 3) |
| `searches` | every program whose main procedure has up to three statements of six forms (an assignment of either variable, a call, a loop, a branch) and whose callee assigns; with four statements of four forms; with five statements of three forms | `NextSolversAgree` on the trees; `ImplementsSearchContract`, `NothingForgotten`, `SearchesEnd` for every order of every search; `AnswersMeanRelations`: answers are the relations of the language; `AnswersWithinPredicates`: solvers answer with conditions of the predicates the language has there |
| `nextbip_directions` | a call of a procedure of three statements | violates `NextBipSolversAgree` (finding 4) |
| `icalls_walk` | the table of every program of three procedures whose bodies are an assignment, a call or two calls (recursive ones included), and of every program with four statements of three forms, five of another three and three with calls in between | `NothingButCalls`, `TablesMirror`, `EntriesComplete`, `IndexesMirror` at every step of the constructors; of the table built, `SolversDecide` (with the code's deviations: `validate` of Contains decides the converse, that of direct uses is always false, that of Equal joins two numbers with `&&`, section 4), `StarsAreClosures`, `EffectsOfAllThatRuns`; `ConstructorsEnd` |
| `icalls_recursive` | three procedures with up to two calls each | violates `ClosureKnown` (finding 5) |
| `parser` | all texts of up to five statements, two procedure names | `AcceptedWellFormed`: an accepted tree has matching pointers in both directions and no shared statement, lines in the order of the text, and every called procedure defined |
| `expressions` | all texts of up to seven characters over a letter, two digits, all operators and brackets, blanks, quotes, both ends of lines and a character of no token; an `int` of three bits | `TokensMeanText`: no character lost or read twice, and what numbers become; `ParsesTheGrammar`, `RejectsOnlyNonsense`, `NothingDropped`; `PatternsAgree`: the two pattern relations in three forms each; `ParserReturns` |
| `pql_parser` | sessions of two texts on the command line or in a batch, all texts of up to two clauses from 8 `such that`, 14 `with` and 8 `pattern` phrases, two declared variables, one program | `ParserTypeOK`; `ClausesKept`: the set has a clause for every phrase; `ClausesMeanText`; `QueriesApart`: no text reaches into the next query, and none but an escaped exception ends the session |

Bounds. A query of the repository's tests has two to four variables. Three
variables give the chain, the triangle, a variable between two others and a
variable linked twice; two conditions let a variable lose one and keep one, or
lose both, and the eight relations include a bijection either way, functions in
either direction, a single pair, none and all. The cycle needs three
conditions (with two, the lost support always empties some variable as well),
the detour four variables. The cluster build has three columns at most
(`MaxColumns`: one more than two joined variables, so that a column that
`make_tuples` added meets a join), is asked for a selection against the order of its
columns and for one that repeats a variable (`Asked`), and links by a bijection, a
single pair and a relation of three pairs (`Related`). Requests may come in any number: the state space is
finite because the tables are.

Three statements give a loop around a statement with another one behind it, a
branch with both sides, a branch inside a loop; with two variables an assignment
kills, uses, copies or does both at once. Four statements add a container of two
statements inside another; five, with one form of assignment and nothing
searched, a branch of two statements with a statement behind the branch, and a
variable that occurs in tests only. Two
queries about a program (only on programs of up to two statements and their
callee) let a search start from what an earlier one left in the caches; one
query is asked about larger ones. NextBip is searched on the smallest programs
only, its points carry stacks. For Calls*, three procedures are the fewest in
which a callee can be walked further out while a third one is entered. `MaxDepth` is
10, more than the walk of Modifies and Uses can need on those programs without
recursion; `ConstructorsEnd` would fail if it were not. Five
statements let a procedure follow another with both non-empty containers. Seven
characters hold three operators of two precedences, or one in brackets and one
behind them; tokens of several characters, blanks, numbers, literals and ends of
lines begin within the first three (`MaxLong`), so that each of them occurs before and
behind another token. With three bits for an `int` a binary number of three digits is
too large for it, so numbers within, with zeros in front and beyond the width all occur. Two texts are one query with a line before it, or two queries
of which the first may fail anywhere. Two clauses
are what it takes for one to be dropped for another, or for a pattern with
wildcard to be split; in the program of the PQL run one name is a procedure and
a variable, two numbers are lines and constants and one constant is 0, because
these are what comparisons confuse.

`CHECK_DEADLOCK FALSE` appears where the system stops: a query has its answer, a
constructor or a parser has returned, or the bound on queries is reached. The
linker always accepts another request, so its runs check for deadlock.

Fairness. `BuildSpec` of `QueryLinkers` assumes weak fairness of `Cascade`, `FairSpec` of
`GraphSearch` weak fairness of `Search`: a call in progress is run by the only
thread until it returns. Nothing makes a request or a query happen. `QuerySpec`,
`TableSpec` of `SolverTable` and `Spec` of `ExprParser` assume weak fairness of the
whole next-state relation, since `process_query`, the constructors and a parser with
its tokenizer run from start to end without waiting for anything. Sessions wait for
their user and have no fairness.

Exactness on forests has one restriction worth naming: tuples are validated pair by
pair, so selecting three variables that hang from a fourth, unselected one can
still return a combination that no single condition of the fourth supports.
`TuplesFollowLinks` is claimed for three variables only.

## 4. Findings

1. `update_links` registers a new pair after the two `update_results` calls, so
   on a cycle of clauses a condition can outlive its links (`linker_cycle`).
   `simple/linker.h` promises an intersection, and that cyclic links are solved.
   Answers on cyclic queries may then contain a condition that satisfies no
   assignment; none is missing (`NoSolutionLost`).
2. The visited set of `get_indirect_links` lacks the start variable
   (`tuples_detour`): tuples over indirectly linked variables may belong to no
   common assignment, even on a tree, depending on the names of the variables.
3. The state becomes invalid only when a removal empties a variable; a variable
   that starts empty leaves `Select BOOLEAN` true (`query_empty`).
4. `next_bip.cpp` takes the first statement of a body or branch for its last one
   when it goes backwards, stops at calls there, and forwards takes the end of a
   body for the end of the procedure (`nextbip_directions`): `solve_left` and
   `solve_right` are different relations.
5. Calls* is incomplete under mutual recursion (`icalls_recursive`): a callee
   whose walk is still going on further out has an entry, but not all of it, and
   nothing copies the rest later. Two procedures happen to work, which is what
   the tests try; three do not.

The first three counterexamples were replayed against the compiled `linker.cpp`.

Disagreements that were met while modelling and that no run shows:

* `contains.cpp:27-31` tests `validate` with its arguments swapped, against
  `simple/solver.h:32` ("R(left_condition, right_condition)"). `validate_contains`
  models it as it is, and `SolversDecide` says that it decides the converse.
  `sibling.cpp:61` does the same, harmlessly: the relation is symmetric.
* `direct_uses.cpp:65-74`: `validate` compares the addresses of two copies of a
  variable and is always false (`SolversDecide` leaves it out).
* `linker-cluster.cpp:397`: an unlinked variable left without conditions does not make
  the state invalid, against `simple/linker.h:128` ("If one of the query variables yield
  empty set result, the linker state becomes invalid"). Where the other linker
  fails only for variables that start empty (finding 3), this one fails for any
  unlinked one. `AnswerExact` leaves such states out for this build.
* `equal.h:171` joins the two numbers of a test with `&&`, so `with 2 = 3` holds and
  `with 0 = 0` does not.
* `with c.procName = v.varName`: the field is only looked at against a literal. For two
  variables the parser makes one `equal` clause, and the call is compared by its line.
* A name compared with a number (`with v.varName = 5`, `with s.stmt# = p.procName`) is
  not rejected; the clause compares whatever numbers or names the conditions have.
* A literal that names a procedure and a variable means the procedure, also where only
  a variable makes sense (`Modifies(s, "a")`).
* `pattern _(v, "x")` becomes two clauses about two independent wildcards.
* The field-name errors of `pql_parser.cpp` are `throw new ParseError(...)`: a pointer,
  which passes by `catch(runtime_error&)` and ends the program.
* A text that ends inside a phrase is a `ParseError`, one that ends before `Select` an
  incomplete query, so the command line waits for more only between declarations; it
  joins the lines it has read without a separator.
* Contains stores nothing for calls, and operators of equal text are one condition.
* `parser.cpp` and `pql_parser.cpp:559` build some messages by adding a number to a
  string literal, which moves a pointer. In a `with` clause the exception of
  `get_statement` is part of the normal flow, so an integer above 27 that is no line reads
  behind the literal: `PqlParser` lets the program end there (`Overruns`). The messages of
  `parser.cpp` name lines beyond 28 or more only in texts longer than the run's.
* `batch.cpp:103` reads the number of queries with `stoi`, whose exceptions nobody takes.
* The command line evaluates empty lines for ever after the end of its input.
* `iterator_tokenizer.h:138`: a literal without closing quote never ends (`Endless`, the
  exception in `ParserReturns`).
* `iterator_tokenizer.h:171`: `atoi` is undefined for a number above `INT_MAX`. Two of them may
  become one constant or line, or a negative one (`atoi` in `Tokenizer`; `TokensMeanText`
  allows for it, and holds a number to its digits only where an `int` has room for them).
* `token.cpp:26` names the type of `}` "OpenBraceToken", in messages only.
* `parser.cpp` accepts recursive programs; the constructors of Modifies and Uses then
  recurse for ever (`ConstructorsEnd` says that they do for exactly those programs), and
  so does NextBip.
* A pattern text is parsed as an expression and what follows it is ignored.
* `docs/` names a "solve both" operation; the code has `solve_right` for each left
  condition.

## 5. Proofs

TLAPS proves, in `Linker_proofs`, for every set of variables, conditions, declarations
and relations allowed by `LinkerAssumption` (relations over conditions, joinable
pairs of distinct variables):

* `TypeCorrect`: `Spec => []TypeOK`, one lemma per action. Besides types it says
  that links join initialised variables, that `linked` is symmetric and that
  every frame in progress works on registered pairs; a push or a pop is reduced
  to its effect on the set of frames (`FramesConcat`, `FramesTail`, `PushOne`,
  `PushTwo`, `PushAll`).
* `NeverLosesASolution`: `Spec => []NoSolutionLost`. It is not inductive: the
  damage a state is about to do is on the stack. The inductive invariant
  `SolutionInv` adds `WorkHarmless`: no frame aims at a condition or a link that a
  solution uses, and the pair a pending `update_links` will register has a link
  for every solution. The step that matters is `BreakStep`: it removes a
  condition when it sees no other link, and a solution using that condition
  would have one, because its links to registered variables are in the table.
* `WorkStaysHarmless` and `InvalidIsRight` (`Spec => []InvalidMeansUnsatisfiable`)
  follow from the same invariant.
* `LinkerImplementsContract`: `Spec => ImplementsContract`. Requests are `Narrow`
  steps; a `remove_condition` is a `Drop` step because, after it, every solution
  still has its conditions; everything else leaves the visible variables alone.
* `LinksStaySymmetric`: `Spec => []LinksSymmetric`. In the middle of a cascade it is
  false. The invariant is `RemovalsOwed`: a link without its reverse has, somewhere on
  the stack, a break that will still remove it, or a `remove_condition` with the
  variable it goes to in its loop.
* `TuplesMissNothing`: `Spec => []TuplesComplete`, the read side. It needs
  `TuplesAssumption` (finitely many variables, distinct names). The recursive searches are
  functions defined by equations; that the equations have a solution is a fixed
  point of a monotone operator (`FixedPoint`, and `ReachSolvable`, `LeadSolvable`,
  `TuplesSolvable` from it). What they compute is then induction over the visited set,
  which only grows within a finite one: `SolutionFound` says that wherever
  `has_indirect_links` finds a path from q to p, `get_indirect_links` finds the condition
  that a solution gives p, since the solution's conditions are linked along the same
  path. That the search takes a direct link alone, or stops at visited variables, only
  loses other conditions. Finding 2 is about those it should lose and does not.
* `NothingInvented`: `Spec => []OnlySolutionsFit`, the converse of `NoSolutionLost`, on
  every graph and in the middle of a cascade. An assignment fits a state when its
  conditions and links are in the tables and no frame in progress will take them away
  (`Fits`); while the state is valid, what fits is a solution. A cascade only takes
  away, so nothing begins to fit (`CascadeFit`); a request puts what it rules out on the
  stack (`RequestFit`).
* `ForestsAreExact`: `Spec => []ExactOnForests`. A state that fits no assignment may
  still hold conditions, and by finding 1 it may. On a forest it may not, because an
  assignment can be put together tree part by tree part. The invariant is
  `ForestInv`: a link of a condition that is gone will be removed by a
  `remove_condition` on the stack (`NoStale`), and each condition just linked belongs to
  an assignment of its own tree, which the cascade cannot reach because the pair being
  registered joins two trees (`PendingWitness`). A forest is defined by counting edges:
  no set of variables has more than its size less one; a part with just that many is
  `Tight`, that is, connected.
* `TuplesOnForests`: `Spec => []TuplesWithoutDetours`: on a forest, a selection whose
  variables are linked through each other alone gets just the tuples of solutions.
  For other selections that is false beyond three variables (finding 2).
* `TuplesAlwaysFollowLinks`: with at most three variables, `Spec => []TuplesFollowLinks`,
  detours and all. The one detour there can be leads from a selected variable to the
  other through the third (`OnlyDetour`); `get_indirect_links` ends there with just
  the conditions that some condition of the third lies between (`BridgeReach`), and
  `validate_tuple` compared these two, the only selected ones. Three links of a forest
  hold a solution (`BridgedTuple`). The assumption is about the number of variables, and
  finding 2 shows that it is needed.

In `QueryProcessor_proofs`, for every set of variables, conditions, declarations, relations,
selections and every bound on the columns:

* `ClusterImplementsStore`: `Cluster!Spec => ImplementsStore`. A tuple grows in front, and a
  column is found by counting from the number of columns, so what a linked variable
  reads does not move (`OldColumn`, `NewColumn`). The inductive invariant
  `ClusterOK` says that each linked variable has a column among those there are and
  every tuple one condition per column. Each operation has a lemma for what it leaves of
  its tables and one for what it does to `Solutions`. An unused column, or an index that
  nothing reads, does no harm.
* `BuildsAreTheirClasses` and `BuildsKeepTheirPromises` carry this, and the theorems about
  `Linker`, to the two builds side by side.

And for every program and query and either linker, from
`QueriesAssumption`: the conditions of the program are the global set and there is one (a
program has a procedure), and a query uses the variables of the instance. The
first part is what `predicate.cpp` and `frontend.h` do: the global set is that of the
wildcard predicate, which collects every condition the program has.

* `RequestsAreTheClauses`: `QuerySpec => []RequestsMeanClauses`. The inductive
  invariant `QueryInv` adds the invariants of both linkers. What is to be shown is that
  a request computed from sets that earlier clauses have cut down means what the
  uncut clause means. It does, because a variable's candidates hold the condition each
  solution gives it (`CandidatesMeet`): for the graph this is `NoSolutionLost`, for the
  cluster the definition of its solutions. One lemma per form of `solve_clause`.
* `AnswersMissNothing`: `QuerySpec => []AnswerComplete`, by `TuplesMissNothing` and the reply
  of the cluster's `make_tuples`.
* `ClusterAnswersExactly`: `QuerySpec => [](build = "cluster" => AnswerExact)`. Besides the
  invariant it needs `SomeTuple`: before a first join there is the one empty tuple, so
  that a valid state has a solution unless an unlinked variable is empty, the
  case `Exacting` leaves out.
* `AnswersAreExact`: `QuerySpec => []((build = "graph" => PlainSelection) => AnswerExact)`, both
  builds. For the graph build it joins `ForestsAreExact` and `TuplesOnForests`: a link
  only comes from a clause (`ClausesLink` in `GraphBuildInv`) and every clause that was
  solved has its link (`ClausesLinked`), so clauses in a forest are links in a forest.
  `PlainSelection` leaves out tuples over variables that are related through others
  alone; BOOLEAN and single variables are always plain.

In `FlowSolvers_proofs`, for every program, query and graph allowed by
`SearchAssumption` (the points are closed under the steps; they may be infinitely many):

* `NeverForgets`: `Spec => []NothingForgotten`, the invariant that makes the
  depth-first search correct although visited points return nothing: what was
  visited contributes to the result of some call in progress, and its successors
  are visited or still in some loop. `Pending` and `Gathered` unite over the stack,
  so pushing and popping a frame reduces to set algebra.
* `NeverInvents`: `Spec => []NothingInvented`; only reachable points and parts of the
  answer, nothing of an earlier search. It is proved and not part of a run: on
  the instances it costs more than all other checks together.
* `SearchImplementsContract`: `Spec => ImplementsSearchContract`. When nothing is
  pending the visited set is closed under the steps, so it is `Reachable`, and
  what was gathered is the answer; both invariants are needed, one per inclusion.

And for the points and steps of `FlowSolvers`, from `SolversAssumption`: the programs are
what the parser accepts (`IsProgram`, which `AcceptedSuitsSolvers` below proves of them)
and have no recursion, because with recursion the constructors of Modifies and Uses do
not return and no solver is ever asked.

* `NextIsFlow`: `Spec => []NextSolversAgree`. `solve_right` is the flow by definition;
  that `solve_left`, which goes backwards by loops of its own, and `validate` give the
  same is a case for each way a statement can end a list.
* `AnswersAlwaysMean`: `Spec => []AnswersMeanRelations`. What a search reaches is bounded
  from above by a set that its steps do not leave and from below by the walks its
  steps follow; for Affects and Affects* both are the walks along the flow that no
  statement on the way kills. What a call kills comes from a recursive walk of the
  program. It is founded without recursion (there are fewer procedures below each call,
  and inside a procedure lines grow), so two answers to it that differ would differ
  first somewhere, and there they cannot. For Next*, which collects lists whole, it is
  a set per list (`FollowedSet`).
* `AnswersAlwaysWithin`: `Spec => []AnswersWithinPredicates`; each walk of a solver meets
  only what the walk of the fitting predicate collects.

In `SolverTable_proofs`, for every set of procedures, every program and every order of
the procedures:

* `SolverTable_proofs!TypeCorrect`, `OnlyCalls` (`NothingButCalls`) and `OneRelation`
  (`TablesMirror`), for recursive programs too. The strengthening says that a walk
  in progress expects only calls of its procedure.
* `EntriesAreComplete` (`EntriesComplete`): without recursion an entry is the whole
  closure once its walk is over. The inductive invariant `EntriesInv` says that
  the calls a walk has behind it are in its entry with all they lead to
  (`WalksKnow`), that entries nobody walks are complete (`EntriesKnown`), and that
  an inner walk is of a procedure to which the outer ones lead (`WalksNest`). The
  last one is where recursion matters: were a callee still being walked when its
  entry is copied, it and its caller would lead to each other (`CalleeIsDone`).
  Finding 5 is this step failing.

And for every set of programs whose lists lead to nodes of the program
(`ChildrenAssumption`), recursive or not, and every bound on the depth:

* `EffectsMirror` (`IndexSpec => []IndexesMirror`): the tables of Modifies and Uses by
  node and by variable are one relation. An entry by node is overwritten each time its
  procedure is indexed again, while entries by variable only grow, so this is not
  inductive: it needs that the second walk finds what the first one found.
* `EntriesStayClosed`: the invariant behind it. An entry is what its node extracts and
  the entries of its children, which are there before it (`EntriesClosed`); a call in
  progress has gathered just the entries of the children that returned
  (`ResultsGathered`) and waits for the call inside it (`CallsChained`).
* `EntriesNeverRevised`: an action property from the same invariant; a closed entry is
  determined by its children's, so writing it again does not change it. Such a proof
  needs no induction over the program: the children's entries are already there.
* `EffectsAreWalks` (`EntriesAreWalks`): an entry is what the nodes extract to which its
  node leads, at every step. It holds at least that by `EntriesClosed`, and no more
  because whoever brought a variable was on such a walk.
* `TableRunsConstructors` (`TableSpec => Spec /\ IndexSpec`): a step of the construction of
  the solver table is, for each of the two constructors, one of its steps or leaves its
  tables alone. `TablesStayRight` and `TableEntriesComplete` carry the theorems about the
  constructors to the table.
* `SolversAlwaysDecide` (`TableSpec => []SolversDecide`): three forms of each of fourteen
  solvers are one relation. Where a form is a recursive walk of the tree, its equations
  have a solution, what the walk gathers, and only one: where two solutions differ,
  take the least line (for walks backwards, the greatest), and they agree on
  everything it is made of. `ProgramsAssumption` asks for what the parser accepts. The
  attempt showed that the arms of `Decides` overlapped, and one more deviation of
  `equal` that the run's conditions did not have: zero (section 4).
* `StarsAlwaysClosures` (`[]StarsAreClosures`): each loop of Follows*, Parent*, Calls* and
  Contains* is a walk, and so is a closure. Every procedure is indexed
  (`IteratesAll`: the iterator of the root visits all). That no program with a finished
  table is recursive follows from the order in which entries were made
  (`EntriesFounded`).
* `EffectsAlwaysOfAllThatRuns` (`[]EffectsOfAllThatRuns`): `EffectsAreWalks` of a finished
  table is what the text says runs.

For every set of names and variables and texts of any length, in `SimpleParser_proofs`:

`NamesAssumption` says that the mark for no variable is none.

* `AcceptedIsTree` (`Spec => []AcceptedWellFormed`). While the parser reads there is no
  tree: statements get their pointers when they are complete, a container is complete
  long after its statements, and until then nothing points to it. The inductive invariant
  `ParserInv` says of the complete statements that they are linked as in a tree
  (`DoneLinked`, `BranchesLinked`, `StartsLinked`), of those being read that they point
  nowhere yet (`PendingFresh`), and of each open list what it holds so far and which pointers
  its container has already (`ListsNested`, `ListsRead`). These are stated for a
  statement `top` that is about to be read or completed, because a closing brace
  pops a list and completes its container in one step; `AppendTree`, `PushedTree`,
  `ElseTree`, `PoppedTree`, `OpenedTree`, `ClosedTree` and `CompletesTree` are the changes a
  step is put together from. That the two counts `validate_all_procs_exist` compares mean that the
  same procedures are parsed and named is the pigeonhole principle on a list without
  duplicates (`AllParsed`), which `set_first_statement` keeps by throwing (`FirstOnce`).
* `AcceptedSuitsSolvers` (`Spec => []SolversMayRead`): what is accepted is an `IsProgram`: a
  tree whose lines have no gaps and whose pointers go forwards, of statements of the four
  kinds, with a name for what is assigned or tested. The assumptions of the solver modules ask for just this.

For texts of any length over any characters, each of one kind (`TokenizerAssumption`), and
an `int` of any width (`IntsAssumption`: every digit is one, and no int has two tokens), in
`ExprParser_proofs`, first however often a parser asks for a token:

* `TextIsItsTokens` (`TokenizerSpec => []TokensMeanText`). The inductive invariant
  `TokenizerInv` says that what was eaten since the last call is blanks and then just what
  the loop in progress has read (`SoFar`). Each way to return has a lemma that the
  token is a lexeme and that it would be none with the character behind it
  (`OneCharReady`, `NewLineReady`, `NameReady`, `NumberReady`, `LiteralReady`). The
  positions dropped from a number are an interval, by the least index of another digit
  (`DroppedInterval`), so a number denotes at most one int (`DenotesSignificant`); where it
  denotes none, the theorem says that the token is some int, and no more.
* `ParserReadsTokens` (`Spec => []TokensMeanText`): `TokenizerSpec` lets a parser call
  `next_token` at any time, and each step of `ExprParser` is a step of it or leaves the
  tokenizer alone (`ReadsTokens`).
* `ParserFollowsGrammar` (`Spec => []ParsesTheGrammar`), where names and integers are other
  tokens than operators and brackets (`OperandsAssumption`). The invariant `ParseInv` gives
  each frame of the stack a place in the text read at which its call began and one at
  which its right operand does (`Nested`): what lies between reads as its left operand
  (`FrameOK`), the text from the last place on as the value just parsed (`ValueOK`), and no
  sum is handed to an operator that binds tighter (`Greedy`). Each action has a lemma on what
  it does to the places (`LeafPlaced` to `ClosePlaced`); when the parser is done, the
  outermost call has the whole text. `Grammar` is a recursive function, and says something
  only if its equation has a solution: solutions for the texts up to a length agree and
  extend one another, and there is no least length without one (`GrammarSpells`). How a text
  reads that is composed of two with an operator between, or put in brackets, follows from
  counting brackets (`SumReads`, `ProductReads`, `BracketReads`).
* `ParserRejectsNonsense` (`Spec => []RejectsOnlyNonsense`), from the same invariant. What was
  read goes on to an expression: from the top of the stack down each frame takes its
  right operand and each bracket one that closes it (`AllCompleted`), and those are as many
  as the text lacks (`ClosedText`). With the rejected token nothing goes on, since operands
  and operators alternate in an expression (`ExprShaped`, `Hopeless`).

For every vocabulary of names, program and set of phrases:

* `ClausesOrdered`: two clauses of which neither is less than the other are the same
  clause. A clause is compared by its left term, then its right term, then its solver;
  each layer is total on what the one above hands to it (`TypesOrdered`,
  `ConditionKeys`, `ConditionsOrdered`, `TermsOrdered`). It rests on
  `OrderAssumption`: names differ as strings, solvers by address. Without it the
  set would lose clauses.
* `ParserTypeCorrect` (`Spec => []ParserTypeOK`), whose part about `clauses` is what
  makes the order apply.
* `NoClauseDropped` (`Spec => []ClausesKept`): by the order, `Insert` is adding, so a
  phrase's clauses are in the set from when it is read.
* `QueriesStayApart` (`SessionSpec => []QueriesApart`) and `SessionKeepsClauses`, for sessions
  of any length: the parser's invariant is kept by its steps and holds of the fresh parser
  of every text; the names typed are those of the collected lines between texts and
  those declared during one (`SessionInv`), as no step of the parser forgets a
  declaration (`DeclarationsStay`).
* `ClausesAlwaysMeanText` (`SessionSpec => []ClausesMeanText`): what the clauses of a query
  hold of is what its phrases say. `TablesAssumption` asks for a program the parser
  accepts and tables of names that are inverse to each other; `MatchesAssumption` for
  patterns that relate assignments. Three things carry it. A relation tells apart only
  nodes of the sorts it is about (`RelationPairs`), so the one condition
  `parse_condition` takes for a literal or integer is as good as all that the text
  may mean (`TermMeans`). The two clauses of a pattern speak of one statement, or one of
  them of any (`PatternMeans`). A comparison is the same question to `EqualSolver` from
  either side, case by case of what the fields make of a variable (`WithMeans`), where a
  field fits its declaration because declarations precede phrases (`FieldsFit`, the
  invariant). The attempt showed that the arms of `Sort` overlapped, and that `AsMeant` has
  to leave out `such that` with `equal` and with solvers that relate constants.

Only model-checked:

* liveness (`CallsReturn`, `EveryQueryAnswered`, `SearchesEnd`, `ConstructorsEnd`,
  `ParserReturns`), which is out of reach of the proof system;
* `NothingDropped` and `PatternsAgree`, which are about the recursive operators of
  `ExprSolvers`: what those compute for every tree would take induction over data.

`ProgramLemmas` has the facts that the proofs share: pushing and popping a stack;
closures as least sets, their unfolding at either end and along converses (`Reach`,
`Beyond`, `Via`); least lines and finite descents; and the syntax tree, whose lists are
walks and whose relations in `ProgramMeaning` are what these walks find.

## 6. Not modelled

* Formatting of results, the prompts, the comparison and count of the batch's answers,
  and the autotester wrapper, which hands its calls to the front end.
* `impl/table_linker.cpp` does not compile: its functions belong to no class and use names
  that are declared nowhere.
* The PKB facade (`spa/*`): each function makes conditions of its arguments, calls one
  function of one solver and takes the conditions out of the result.
* The result caches of `linker.cpp` are dead code (`cached_*` return before reaching
  them). `next_cached.cpp` belongs to no solver table.
* The predicates of operators and sub-expressions with their iterators.
* The PQL parser has phrases where the program has tokens, with one `WrongToken` for all
  tokens out of place; the composition of characters and parser is shown for
  expressions, whose parser is the one that looks ahead and recurses. So a session does
  not hang on an open literal in the model; section 4 names it.

## 7. Plan

In the order of importance; all of it is done.

1. `Linker`, its contract, and the processor composed with it.
2. Proofs: types, `NoSolutionLost`, the refinement.
3. Walking and searching solvers on all small programs; the search contract and
   its proof.
4. Calls*: model and proofs.
5. The parsers of programs and expressions.
6. The PQL parser, the order of clauses, `with` clauses and predicates: what the
   clauses of a text mean; that none is dropped, proved.
7. The cluster linker against an exact store, and the processor on both builds.
8. The solver table with the constructors of Modifies and Uses; their tables, proved.
9. The tokenizer under the expression parser; sessions of the command line and batch.
10. Proofs about the linkers and the processor: links stay symmetric, tuples miss nothing,
    the cluster implements its store, requests mean clauses, answers are complete and,
    for one build, exact.
11. Proofs about the SIMPLE parser and the solver table: what is accepted is a tree; the
    table keeps what its constructors promise.
12. Proof about the tokenizer: every character belongs to one token.
13. Proofs that the linker invents nothing, that it is exact on forests, and that the
    answers of a query are exact in both builds.
14. Proofs about the table built: solvers decide in all three forms alike, starred relations
    are closures, an entry is the effects of all that runs.
15. Proofs that Next, Next*, Affects and Affects* mean what the text says, for programs that the
    parser was proved to accept.
16. Proof that the clauses of a query mean its text.
17. Proofs that the expression parser follows its grammar and rejects only what no expression
    starts with.
