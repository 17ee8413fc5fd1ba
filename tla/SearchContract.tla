---------------------------- MODULE SearchContract ---------------------------
(***************************************************************************)
(* What a solver that searches promises: the answer to a query is what the *)
(* points reachable from its starting points emit, and an answer once      *)
(* given stays.  The solvers are Next*, NextBip*, Affects, Affects* and    *)
(* the inter-procedural forms of the last two, in both directions.         *)
(***************************************************************************)
CONSTANTS
  Program,          \* the programs
  Queries(_),       \* the queries a solver may be asked about a program
  Points(_, _),     \* the points the search of a query may visit
  Start(_, _),      \* the points it starts from
  Succ(_, _, _),    \* the points it goes to from a point
  Emit(_, _, _)     \* what a point contributes to the answer

VARIABLES
  ast,              \* the program
  cache             \* the answers given, by query

(***************************************************************************)
(* Reachable is the least set that holds the starting points and, with a   *)
(* point, its successors.                                                  *)
(***************************************************************************)
Closed(p, q, C) ==
  /\ Start(p, q) \subseteq C
  /\ \A n \in C : Succ(p, q, n) \subseteq C

Reachable(p, q) ==
  LET closed == {C \in SUBSET Points(p, q) : Closed(p, q, C)}
  IN  {n \in Points(p, q) : \A C \in closed : n \in C}

Answer(p, q) == UNION {Emit(p, q, n) : n \in Reachable(p, q)}

Init ==
  /\ ast \in Program
  /\ cache = [q \in {} |-> {}]

Learn(q) ==
  /\ q \in DOMAIN cache'
  /\ cache' = [r \in DOMAIN cache \cup {q} |->
                 IF r = q THEN Answer(ast, q) ELSE cache[r]]
  /\ UNCHANGED ast

Next == \E q \in Queries(ast) \ DOMAIN cache : Learn(q)

Spec == Init /\ [][Next]_<<ast, cache>>
==============================================================================
