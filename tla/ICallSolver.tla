------------------------------ MODULE ICallSolver -----------------------------
(***************************************************************************)
(* impl/solvers/icall.cpp: the constructor of ICallSolver fills the tables *)
(* of Calls* by walking every procedure in the order of SimpleRoot, and at *)
(* a call walks into the called procedure first if it has no entry yet.    *)
(* An entry is made before its procedure is walked ("initialize the calls  *)
(* table to avoid infinite recursion"), so a procedure met again during    *)
(* its own walk contributes what it has so far.                            *)
(*                                                                         *)
(* A procedure is the sequence of the procedures it calls, in the order    *)
(* the walk through its loops and branches meets the calls.  A frame of    *)
(* `stack' is a walk in progress, innermost first: the procedure, the      *)
(* calls it has still to index, and whether the first of them has been     *)
(* entered and waits for its callee's entry.                               *)
(***************************************************************************)
EXTENDS Naturals, Sequences

CONSTANTS
  Procedures,       \* the procedures
  Order,            \* the order SimpleRoot iterates them in
  Bodies            \* the programs: [Procedures -> Seq(Procedures)]

VARIABLES
  calls,            \* the program: the calls of each procedure
  roots,            \* the procedures the constructor has still to walk
  indexed,          \* the keys of _calls_table
  calls_table,      \* _calls_table
  called_table,     \* _called_table
  stack             \* the walks in progress

vars == <<calls, roots, indexed, calls_table, called_table, stack>>

ASSUME BodiesAssumption == Bodies \subseteq [Procedures -> Seq(Procedures)]
ASSUME OrderAssumption  == Order \in Seq(Procedures)

Walk(proc, todo, entered) == [proc |-> proc, todo |-> todo, entered |-> entered]

Init ==
  /\ calls \in Bodies
  /\ roots = Order
  /\ indexed = {}
  /\ calls_table  = [p \in Procedures |-> {}]
  /\ called_table = [p \in Procedures |-> {}]
  /\ stack = <<>>

\* Mutant: the iterator is not advanced.
WalkRootAgain ==
  /\ stack = <<>>
  /\ roots # <<>>
  /\ indexed' = indexed \cup {Head(roots)}
  /\ stack' = <<Walk(Head(roots), calls[Head(roots)], FALSE)>>
  /\ UNCHANGED <<calls, roots, calls_table, called_table>>

\* index_calls<ProcAst> from the constructor's loop, whether or not the
\* procedure has an entry.
WalkRoot ==
  /\ stack = <<>>
  /\ roots # <<>>
  /\ indexed' = indexed \cup {Head(roots)}
  /\ stack' = <<Walk(Head(roots), calls[Head(roots)], FALSE)>>
  /\ roots' = Tail(roots)
  /\ UNCHANGED <<calls, calls_table, called_table>>

\* Mutant: the caller is not recorded at the callee.
EnterCallOneWay ==
  /\ stack # <<>>
  /\ Head(stack).todo # <<>>
  /\ ~Head(stack).entered
  /\ LET caller == Head(stack).proc
         callee == Head(Head(stack).todo)
         waits  == Walk(caller, Head(stack).todo, TRUE)
     IN  /\ calls_table' = [calls_table EXCEPT ![caller] = @ \cup {callee}]
         /\ indexed' = indexed \cup {callee}
         /\ stack' = (IF callee \in indexed THEN <<waits>>
                      ELSE <<Walk(callee, calls[callee], FALSE), waits>>)
                     \o Tail(stack)
  /\ UNCHANGED <<calls, roots, called_table>>

\* The first half of index_calls<CallAst>: the direct entry, and the walk
\* into a callee without an entry.
EnterCall ==
  /\ stack # <<>>
  /\ Head(stack).todo # <<>>
  /\ ~Head(stack).entered
  /\ LET caller == Head(stack).proc
         callee == Head(Head(stack).todo)
         waits  == Walk(caller, Head(stack).todo, TRUE)
     IN  /\ calls_table'  = [calls_table EXCEPT ![caller] = @ \cup {callee}]
         /\ called_table' = [called_table EXCEPT ![callee] = @ \cup {caller}]
         /\ indexed' = indexed \cup {callee}
         /\ stack' = (IF callee \in indexed THEN <<waits>>
                      ELSE <<Walk(callee, calls[callee], FALSE), waits>>)
                     \o Tail(stack)
  /\ UNCHANGED <<calls, roots>>

\* Mutants: the caller's entry joins the callee's; nothing joins.
JoinCaller ==
  /\ stack # <<>>
  /\ Head(stack).entered
  /\ LET caller == Head(stack).proc
         callee == Head(Head(stack).todo)
         found  == calls_table[caller]
     IN  /\ calls_table'  = [calls_table EXCEPT ![callee] = @ \cup found]
         /\ called_table' = [p \in Procedures |->
                               called_table[p] \cup
                               (IF p \in found THEN {callee} ELSE {})]
         /\ stack' = <<Walk(caller, Tail(Head(stack).todo), FALSE)>>
                     \o Tail(stack)
  /\ UNCHANGED <<calls, roots, indexed>>

JoinNothing ==
  /\ stack # <<>>
  /\ Head(stack).entered
  /\ stack' = <<Walk(Head(stack).proc, Tail(Head(stack).todo), FALSE)>>
              \o Tail(stack)
  /\ UNCHANGED <<calls, roots, indexed, calls_table, called_table>>

\* Its second half: everything in the callee's entry joins the caller's.
JoinCallee ==
  /\ stack # <<>>
  /\ Head(stack).entered
  /\ LET caller == Head(stack).proc
         found  == calls_table[Head(Head(stack).todo)]
     IN  /\ calls_table'  = [calls_table EXCEPT ![caller] = @ \cup found]
         /\ called_table' = [p \in Procedures |->
                               called_table[p] \cup
                               (IF p \in found THEN {caller} ELSE {})]
         /\ stack' = <<Walk(caller, Tail(Head(stack).todo), FALSE)>>
                     \o Tail(stack)
  /\ UNCHANGED <<calls, roots, indexed>>

LeaveProc ==
  /\ stack # <<>>
  /\ Head(stack).todo = <<>>
  /\ stack' = Tail(stack)
  /\ UNCHANGED <<calls, roots, indexed, calls_table, called_table>>

Constructed == stack = <<>> /\ roots = <<>>

Next == WalkRoot \/ EnterCall \/ JoinCallee \/ LeaveProc

Spec == Init /\ [][Next]_vars

\* After construction, validate, solve_right and solve_left only read.
validate_icalls(a, b) == a \in indexed /\ b \in calls_table[a]

solve_icalls_right(a) == IF a \in indexed THEN calls_table[a] ELSE {}

solve_icalls_left(b) == called_table[b]

------------------------------------------------------------------------------
(***************************************************************************)
(* Properties                                                              *)
(***************************************************************************)
CallsOf(a) == {calls[a][i] : i \in DOMAIN calls[a]}

\* Calls*: what a procedure leads to by calls, the least set that holds the
\* procedures it calls and those its members call.
CallsStar(a) ==
  LET closed == {C \in SUBSET Procedures : /\ CallsOf(a) \subseteq C
                                     /\ \A c \in C : CallsOf(c) \subseteq C}
  IN  {b \in Procedures : \A C \in closed : b \in C}

WalkedNow == {stack[i].proc : i \in DOMAIN stack}

Walks == [proc : Procedures, todo : Seq(Procedures), entered : BOOLEAN]

TypeOK ==
  /\ calls \in [Procedures -> Seq(Procedures)]
  /\ roots \in Seq(Procedures)
  /\ indexed \in SUBSET Procedures
  /\ calls_table  \in [Procedures -> SUBSET Procedures]
  /\ called_table \in [Procedures -> SUBSET Procedures]
  /\ stack \in Seq(Walks)

(***************************************************************************)
(* At every step of the walk, recursion included, the tables hold nothing  *)
(* but Calls* (icall.cpp:101-131).                                         *)
(***************************************************************************)
NothingButCalls ==
  \A a \in Procedures : calls_table[a] \subseteq CallsStar(a)

(***************************************************************************)
(* The two tables are one relation, read in its two directions: solve_left *)
(* and solve_right agree (icall.cpp:118-130, four insertions).             *)
(***************************************************************************)
TablesMirror ==
  \A a, b \in Procedures : b \in calls_table[a] <=> a \in called_table[b]

(***************************************************************************)
(* Without recursion, the entry of every procedure that is not being       *)
(* walked is complete: that is when the walk reads it (icall.cpp:122-130). *)
(***************************************************************************)
EntriesComplete ==
  (\A a \in Procedures : a \notin CallsStar(a)) =>
    \A a \in indexed \ WalkedNow : calls_table[a] = CallsStar(a)

(***************************************************************************)
(* test/test_icall.cpp expects the closure on programs with recursion too: *)
(* "EXPECT_EQ(solver.solve_right<ProcAst>(proc2), proc23_calls)" of two    *)
(* procedures that call each other.                                        *)
(***************************************************************************)
ClosureKnown ==
  Constructed =>
    \A a \in Procedures : \A b \in CallsStar(a) : validate_icalls(a, b)
==============================================================================
