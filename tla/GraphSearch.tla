----------------------------- MODULE GraphSearch -----------------------------
(***************************************************************************)
(* The depth-first search the solvers INextSolver, AffectsSolver and       *)
(* IAffectsSolver share (inext.cpp, affects.cpp): a query that is not in   *)
(* the result cache clears _visit_cache and starts a recursion, in which   *)
(* each call loops over the points that follow its own, skips the visited  *)
(* ones, and adds what the others return to its result.                    *)
(*                                                                         *)
(* A frame of `stack' is one such call, innermost first: the points its    *)
(* loop has still to visit (todo) and its result so far (found).  The      *)
(* last frame is the query itself.  The loops run over std::set's of       *)
(* pointers, so in an arbitrary order.                                     *)
(***************************************************************************)
EXTENDS Naturals, Sequences, FiniteSets

CONSTANTS
  Program, Queries(_), Points(_, _), Start(_, _), Succ(_, _, _),
  Emit(_, _, _),    \* as in SearchContract
  NoQuery,          \* no query was asked yet
  MaxAsked(_)       \* bound: how many queries are asked about a program

VARIABLES
  ast,              \* the program, _ast
  cache,            \* the result caches: answered queries and their results
  asked,            \* the query being answered, the last one when idle
  visited,          \* _visit_cache
  stack             \* the calls in progress

vars == <<ast, cache, asked, visited, stack>>

(***************************************************************************)
(* The points of a search are closed under its steps.                      *)
(***************************************************************************)
ASSUME SearchAssumption ==
  \A p \in Program : \A q \in Queries(p) :
       /\ Start(p, q) \subseteq Points(p, q)
       /\ \A n \in Points(p, q) : Succ(p, q, n) \subseteq Points(p, q)

Frame(todo, found) == [todo |-> todo, found |-> found]

Idle == stack = <<>>

Init ==
  /\ ast \in Program
  /\ cache = [q \in {} |-> {}]
  /\ asked = NoQuery
  /\ visited = {}
  /\ stack = <<>>

\* Mutant: _visit_cache is not cleared.
AskKeeping(q) ==
  /\ Idle
  /\ q \notin DOMAIN cache
  /\ Cardinality(DOMAIN cache) < MaxAsked(ast)
  /\ asked' = q
  /\ stack' = <<Frame(Start(ast, q), {})>>
  /\ UNCHANGED <<ast, cache, visited>>

(***************************************************************************)
(* solve_next_statement, solve_affected_statements and their mirrors: a    *)
(* cached query returns at once and changes nothing.                       *)
(***************************************************************************)
Ask(q) ==
  /\ Idle
  /\ q \notin DOMAIN cache
  /\ Cardinality(DOMAIN cache) < MaxAsked(ast)
  /\ asked' = q
  /\ visited' = {}
  /\ stack' = <<Frame(Start(ast, q), {})>>
  /\ UNCHANGED <<ast, cache>>

\* Mutant: the iterator is not advanced past a visited point.
SkipForever(n) ==
  /\ n \in Head(stack).todo
  /\ n \in visited
  /\ UNCHANGED vars

\* The loop of the innermost call reaches a point that was visited before:
\* the recursive call returns an empty result.
Skip(n) ==
  /\ n \in Head(stack).todo
  /\ n \in visited
  /\ stack' = <<Frame(Head(stack).todo \ {n}, Head(stack).found)>>
                \o Tail(stack)
  /\ UNCHANGED <<ast, cache, asked, visited>>

\* It reaches a new point: the recursive call marks it, and has its direct
\* contribution and its successors.
Enter(n) ==
  /\ n \in Head(stack).todo
  /\ n \notin visited
  /\ visited' = visited \cup {n}
  /\ stack' = <<Frame(Succ(ast, asked, n), Emit(ast, asked, n)),
                Frame(Head(stack).todo \ {n}, Head(stack).found)>>
                \o Tail(stack)
  /\ UNCHANGED <<ast, cache, asked>>

\* Mutant: the result of the recursive call is dropped.
ReturnEmpty ==
  /\ Len(stack) > 1
  /\ Head(stack).todo = {}
  /\ stack' = Tail(stack)
  /\ UNCHANGED <<ast, cache, asked, visited>>

\* A loop is done: its result joins the caller's.
Return ==
  /\ Len(stack) > 1
  /\ Head(stack).todo = {}
  /\ stack' = <<Frame(stack[2].todo, stack[2].found \cup Head(stack).found)>>
                \o Tail(Tail(stack))
  /\ UNCHANGED <<ast, cache, asked, visited>>

\* The outermost loop is done: its result is cached and returned.
Conclude ==
  /\ Len(stack) = 1
  /\ Head(stack).todo = {}
  /\ cache' = [r \in DOMAIN cache \cup {asked} |->
                 IF r = asked THEN Head(stack).found ELSE cache[r]]
  /\ stack' = <<>>
  /\ UNCHANGED <<ast, asked, visited>>

Search ==
  /\ ~Idle
  /\ \/ \E n \in Head(stack).todo : Skip(n) \/ Enter(n)
     \/ Return
     \/ Conclude

Next ==
  \/ \E q \in Queries(ast) : Ask(q)
  \/ Search

Spec == Init /\ [][Next]_vars

\* A search in progress is run by the only thread until it returns.
FairSpec == Spec /\ WF_vars(Search)

------------------------------------------------------------------------------
(***************************************************************************)
(* Properties                                                              *)
(***************************************************************************)
Contract == INSTANCE SearchContract

\* The solvers only ever learn right answers, and never forget or revise
\* one: _visit_cache, its clearing and the result caches implement the
\* contract (inext.cpp:40-101, affects.cpp:91-105, 151-180).
ImplementsSearchContract == Contract!Spec

(***************************************************************************)
(* No call in progress is about to lose a point: what a visited point      *)
(* contributes is in the result of some call in progress, and each of its  *)
(* successors is visited or still in the loop of some call.  With it the   *)
(* results the calls hand up are complete although a call that meets a     *)
(* visited point returns nothing for it (inext.cpp:46-49 and its like).    *)
(***************************************************************************)
Pending(calls)  == UNION {calls[i].todo  : i \in DOMAIN calls}
Gathered(calls) == UNION {calls[i].found : i \in DOMAIN calls}

Covered(p, q, points, calls) ==
  /\ Start(p, q) \subseteq points \cup Pending(calls)
  /\ \A n \in points : /\ Succ(p, q, n) \subseteq points \cup Pending(calls)
                        /\ Emit(p, q, n) \subseteq Gathered(calls)

NothingForgotten == ~Idle => Covered(ast, asked, visited, stack)

(***************************************************************************)
(* Nothing of an earlier search is left in a later one: only points the    *)
(* query reaches are visited or waiting, only parts of its answer are      *)
(* gathered, and the query is a new one.                                   *)
(***************************************************************************)
Frames(points, values) == [todo : SUBSET points, found : SUBSET values]

NothingInvented ==
  ~Idle =>
    LET reached == Contract!Reachable(ast, asked)
        answer  == Contract!Answer(ast, asked)
    IN  /\ asked \in Queries(ast) \ DOMAIN cache
        /\ visited \subseteq reached
        /\ stack \in Seq(Frames(reached, answer))

\* Every search ends, although the flow has cycles and the recursion follows
\* them: no point is entered twice (the _visit_cache tests).
SearchesEnd == ~Idle ~> Idle
==============================================================================
