--------------------------- MODULE SolverTable_proofs --------------------------
(***************************************************************************)
(* Proofs about the constructors that SolverTable runs one after the       *)
(* other.                                                                  *)
(*                                                                         *)
(* ICallSolver, for every set of procedures, every program and every order *)
(* of the procedures: the tables of Calls* stay typed, each other's        *)
(* inverse and within the closure, and without recursion an entry is       *)
(* complete when its walk is over.                                         *)
(*                                                                         *)
(* EffectsIndex, for every program, recursive or not, and every bound on   *)
(* the depth of the walk: the two directions of Modifies and of Uses stay  *)
(* one relation.  A procedure is indexed again at every call of it; that   *)
(* changes nothing because an entry is determined by the entries of the    *)
(* node's children, which are there before it and stay.                    *)
(*                                                                         *)
(* An entry is what the statements extract that a walk from its node       *)
(* meets; without recursion it is what the text says runs.                 *)
(*                                                                         *)
(* Neither constructor touches the tables of the other, so that all of     *)
(* this holds of the solver table, too.  On the table that is built the    *)
(* three forms of every solver decide one relation, and the starred        *)
(* relations are the closures of the plain ones: with ProgramLemmas, for   *)
(* the loops over the tree, of the programs that SimpleParser_proofs shows *)
(* the parser to accept.                                                   *)
(***************************************************************************)
EXTENDS SolverTable, ProgramLemmas

------------------------------------------------------------------------------
(* The closure: a set of procedures that holds the calls, and the calls of *)
(* the calls, and nothing that does not come from them.                    *)
LEMMA CallsStarClosed ==
    ASSUME TypeOK, NEW a \in Procedures
    PROVE  /\ CallsOf(a) \subseteq Procedures
           /\ CallsOf(a) \subseteq CallsStar(a)
           /\ CallsStar(a) \subseteq Procedures
           /\ \A b \in CallsStar(a) : CallsOf(b) \subseteq CallsStar(a)
           /\ \A b \in CallsStar(a) : CallsStar(b) \subseteq CallsStar(a)
<1>1. \A b \in Procedures : CallsOf(b) \subseteq Procedures
  <2>1. ASSUME NEW b \in Procedures, NEW i \in DOMAIN calls[b] PROVE calls[b][i] \in Procedures
    <3>1. PICK s \in Seq(Procedures) : s = calls[b]
      BY DEF TypeOK
    <3>2. s[i] \in Procedures
      BY <3>1, ElementOfSeq, LenProperties
    <3>3. QED  BY <3>1, <3>2
  <2>2. QED  BY <2>1 DEF CallsOf
<1>2. CallsOf(a) \subseteq CallsStar(a) /\ CallsStar(a) \subseteq Procedures
  BY <1>1 DEF CallsStar
<1>3. \A b \in CallsStar(a) : CallsOf(b) \subseteq CallsStar(a)
  BY <1>1 DEF CallsStar
<1>4. \A b \in CallsStar(a) : CallsStar(b) \subseteq CallsStar(a)
  BY <1>2, <1>3 DEF CallsStar
<1>5. QED  BY <1>1, <1>2, <1>3, <1>4

LEMMA CallsStarLeast ==
    ASSUME TypeOK, NEW a \in Procedures, NEW C \in SUBSET Procedures,
           \A b \in CallsOf(a) : b \in C /\ CallsStar(b) \subseteq C
    PROVE  CallsStar(a) \subseteq C
<1> DEFINE D == {c \in Procedures : \E b \in CallsOf(a) : c = b \/ c \in CallsStar(b)}
<1>1. CallsOf(a) \subseteq D
  BY CallsStarClosed
<1>2. ASSUME NEW c \in D PROVE CallsOf(c) \subseteq D
  <2>1. PICK b \in CallsOf(a) : c = b \/ c \in CallsStar(b)
    OBVIOUS
  <2>2. b \in Procedures
    BY CallsStarClosed
  <2>3. CallsOf(c) \subseteq CallsStar(b)
    BY <2>1, <2>2, CallsStarClosed
  <2>4. CallsStar(b) \subseteq Procedures
    BY <2>2, CallsStarClosed
  <2>5. QED  BY <2>3, <2>4
<1>3. CallsStar(a) \subseteq D
  BY <1>1, <1>2 DEF CallsStar
<1>4. D \subseteq C
  OBVIOUS
<1>5. QED  BY <1>3, <1>4

------------------------------------------------------------------------------
(* The inductive invariant.  A walk expects only calls of its procedure,   *)
(* and each walk is inside one of a procedure that leads to its own.       *)
WalkExpects(w) ==
  /\ w.entered => w.todo # <<>>
  /\ \A k \in DOMAIN w.todo : w.todo[k] \in CallsOf(w.proc)

WalksExpect == \A i \in DOMAIN stack : WalkExpects(stack[i])

WalksNest ==
  \A i, j \in DOMAIN stack :
    i < j => stack[i].proc \in CallsStar(stack[j].proc)

Typed == TypeOK /\ WalksExpect

(* A call that a walk has put behind it is in the entry with all it leads  *)
(* to, and so is all of an entry whose walk is over.                       *)
Joined(a, b) == b \in calls_table[a] /\ CallsStar(b) \subseteq calls_table[a]

WalkKnows(w) ==
  /\ w.proc \in indexed
  /\ w.entered => Head(w.todo) \in calls_table[w.proc] \cap indexed
  /\ \A b \in CallsOf(w.proc) :
       (\E k \in DOMAIN w.todo : w.todo[k] = b) \/ Joined(w.proc, b)

WalksKnow == \A i \in DOMAIN stack : WalkKnows(stack[i])

EntriesKnown ==
  \A a \in indexed \ WalkedNow : CallsStar(a) \subseteq calls_table[a]

NoneCallsItself == \A a \in Procedures : a \notin CallsStar(a)

EntriesInv ==
  /\ Typed
  /\ WalksNest
  /\ NoneCallsItself => WalksKnow /\ EntriesKnown

------------------------------------------------------------------------------
(* The program is constant, and so is its closure.                         *)
LEMMA CallsConstant ==
    ASSUME calls' = calls
    PROVE  \A a : CallsOf(a)' = CallsOf(a) /\ CallsStar(a)' = CallsStar(a)
BY DEF CallsOf, CallsStar

LEMMA StepCalls ==
    ASSUME [Next]_vars
    PROVE  calls' = calls
BY DEF Next, vars, WalkRoot, EnterCall, JoinCallee, LeaveProc

(* The walks in progress, and the one on top.                              *)
LEMMA StackWalks ==
    ASSUME TypeOK
    PROVE  /\ Len(stack) \in Nat /\ DOMAIN stack = 1 .. Len(stack)
           /\ \A i \in DOMAIN stack : /\ i \in Nat \ {0}
                                      /\ stack[i] \in Walks
                                      /\ stack[i].proc \in Procedures
                                      /\ stack[i].todo \in Seq(Procedures)
<1>1. PICK s \in Seq(Walks) : s = stack
  BY DEF TypeOK
<1>2. Len(s) \in Nat /\ DOMAIN s = 1 .. Len(s)
  BY LenProperties
<1>3. \A i \in DOMAIN s : s[i] \in Walks
  BY <1>2, ElementOfSeq
<1>4. \A w \in Walks : w.proc \in Procedures /\ w.todo \in Seq(Procedures)
  BY DEF Walks
<1>5. QED  BY <1>1, <1>2, <1>3, <1>4

LEMMA TopWalk ==
    ASSUME TypeOK, stack # <<>>
    PROVE  /\ 1 \in DOMAIN stack /\ stack[1] = Head(stack)
           /\ Head(stack).proc \in Procedures
           /\ Head(stack).todo \in Seq(Procedures)
           /\ Tail(stack) \in Seq(Walks)
<1>1. PICK s \in Seq(Walks) : s = stack
  BY DEF TypeOK
<1>2. 1 \in DOMAIN s /\ s[1] = Head(s) /\ Tail(s) \in Seq(Walks)
  BY <1>1, PopElement
<1>3. QED  BY <1>1, <1>2, StackWalks

LEMMA TopTodo ==
    ASSUME Typed, stack # <<>>, Head(stack).todo # <<>>
    PROVE  /\ Head(Head(stack).todo) \in Procedures
           /\ Head(Head(stack).todo) \in CallsOf(Head(stack).proc)
           /\ Tail(Head(stack).todo) \in Seq(Procedures)
           /\ \A k \in DOMAIN Tail(Head(stack).todo) :
                Tail(Head(stack).todo)[k] \in CallsOf(Head(stack).proc)
           /\ \A k \in DOMAIN Head(stack).todo :
                \/ Head(stack).todo[k] = Head(Head(stack).todo)
                \/ \E l \in DOMAIN Tail(Head(stack).todo) :
                      Tail(Head(stack).todo)[l] = Head(stack).todo[k]
<1>1. PICK t \in Seq(Procedures) : t = Head(stack).todo
  BY TopWalk DEF Typed
<1>2. \A k \in DOMAIN t : t[k] \in CallsOf(Head(stack).proc)
  BY <1>1, TopWalk DEF Typed, WalksExpect, WalkExpects
<1>3. /\ Head(t) \in Procedures /\ Tail(t) \in Seq(Procedures)
      /\ 1 \in DOMAIN t /\ t[1] = Head(t)
      /\ \A k \in DOMAIN Tail(t) : k + 1 \in DOMAIN t /\ Tail(t)[k] = t[k + 1]
      /\ \A k \in DOMAIN t : k # 1 => /\ k - 1 \in DOMAIN Tail(t)
                                       /\ Tail(t)[k - 1] = t[k]
  BY <1>1, PopElement
<1>4. QED  BY <1>1, <1>2, <1>3

LEMMA ReplaceWalk ==
    ASSUME TypeOK, stack # <<>>, NEW w \in Walks, stack' = <<w>> \o Tail(stack)
    PROVE  /\ stack' \in Seq(Walks)
           /\ DOMAIN stack' = DOMAIN stack
           /\ stack'[1] = w
           /\ \A i \in DOMAIN stack : i # 1 => stack'[i] = stack[i]
<1>1. PICK s \in Seq(Walks) : s = stack
  BY DEF TypeOK
<1>2. QED  BY <1>1, ReplaceElement

LEMMA PushWalk ==
    ASSUME TypeOK, stack # <<>>, NEW c \in Walks, NEW w \in Walks,
           stack' = <<c, w>> \o Tail(stack)
    PROVE  /\ stack' \in Seq(Walks)
           /\ stack'[1] = c
           /\ 2 \in DOMAIN stack' /\ stack'[2] = w
           /\ \A i \in DOMAIN stack' :
                \/ i = 1
                \/ i = 2
                \/ /\ i - 1 \in DOMAIN stack /\ i - 1 # 1
                   /\ stack'[i] = stack[i - 1]
           /\ \A i \in DOMAIN stack :
                i # 1 => i + 1 \in DOMAIN stack' /\ stack'[i + 1] = stack[i]
<1>1. PICK s \in Seq(Walks) : s = stack
  BY DEF TypeOK
<1>2. PICK t \in Seq(Walks) : t = Tail(s)
  BY <1>1, PopElement
<1>3. PICK u \in Seq(Walks) : u = <<w>> \o t
  BY PushElement
<1>4. /\ DOMAIN u = DOMAIN s
      /\ u[1] = w
      /\ \A i \in DOMAIN s : i # 1 => u[i] = s[i]
  BY <1>1, <1>2, <1>3, ReplaceElement
<1>5. PICK v \in Seq(Walks) : v = <<c>> \o u
  BY PushElement
<1>6. /\ DOMAIN v = 1 .. Len(u) + 1
      /\ v[1] = c
      /\ \A i \in DOMAIN u : v[i + 1] = u[i]
  BY <1>5, PushElement
<1>7. stack' = v
  <2>1. <<c, w>> \o t = <<c>> \o (<<w>> \o t)
    BY PushPair
  <2>2. QED  BY <1>1, <1>2, <1>3, <1>5, <2>1
<1>8. Len(u) \in Nat /\ DOMAIN u = 1 .. Len(u)
  BY LenProperties
<1>9. 1 \in DOMAIN s
  BY <1>1, PopElement
<1>10. 2 \in DOMAIN v /\ v[2] = w
  <2>1. 1 \in DOMAIN u /\ u[1] = w
    BY <1>4, <1>9
  <2>2. v[1 + 1] = w
    BY <1>6, <2>1
  <2>3. 2 \in 1 .. Len(u) + 1
    BY <1>8, <2>1
  <2>4. QED  BY <1>6, <2>2, <2>3
<1>11. ASSUME NEW i \in DOMAIN v, i # 1, i # 2
       PROVE  i - 1 \in DOMAIN s /\ i - 1 # 1 /\ v[i] = s[i - 1]
  <2>1. i \in Nat /\ i - 1 \in DOMAIN u /\ i - 1 # 1
    BY <1>6, <1>8, <1>11
  <2>2. v[(i - 1) + 1] = u[i - 1]
    BY <1>6, <2>1
  <2>3. u[i - 1] = s[i - 1] /\ i - 1 \in DOMAIN s
    BY <1>4, <2>1
  <2>4. QED  BY <2>1, <2>2, <2>3
<1>12. ASSUME NEW i \in DOMAIN s, i # 1
       PROVE  i + 1 \in DOMAIN v /\ v[i + 1] = s[i]
  <2>1. i \in DOMAIN u /\ i + 1 \in 1 .. Len(u) + 1
    BY <1>4, <1>8
  <2>2. QED  BY <1>4, <1>6, <1>12, <2>1
<1>13. QED  BY <1>1, <1>6, <1>7, <1>10, <1>11, <1>12

LEMMA PopWalk ==
    ASSUME TypeOK, stack # <<>>, stack' = Tail(stack)
    PROVE  /\ stack' \in Seq(Walks)
           /\ \A i \in DOMAIN stack' : /\ i \in Nat \ {0}
                                       /\ i + 1 \in DOMAIN stack
                                       /\ stack'[i] = stack[i + 1]
           /\ \A i \in DOMAIN stack : i # 1 => /\ i - 1 \in DOMAIN stack'
                                               /\ stack'[i - 1] = stack[i]
<1>1. PICK s \in Seq(Walks) : s = stack
  BY DEF TypeOK
<1>2. QED  BY <1>1, PopElement

------------------------------------------------------------------------------
(* What the steps do, named: the caller on top, the call it is at.         *)
Caller == Head(stack).proc

Callee == Head(Head(stack).todo)

Waits == Walk(Caller, Head(stack).todo, TRUE)

Entered == Walk(Callee, calls[Callee], FALSE)

Left == Walk(Caller, Tail(Head(stack).todo), FALSE)

LEMMA EntersKnown ==
    ASSUME EnterCall, Callee \in indexed
    PROVE  stack' = <<Waits>> \o Tail(stack)
BY DEF EnterCall, Callee, Caller, Waits

LEMMA EntersNew ==
    ASSUME EnterCall, Callee \notin indexed
    PROVE  stack' = <<Entered, Waits>> \o Tail(stack)
BY DEF EnterCall, Callee, Caller, Waits, Entered

LEMMA CallTyped ==
    ASSUME Typed, stack # <<>>, Head(stack).todo # <<>>
    PROVE  /\ Caller \in Procedures /\ Callee \in Procedures
           /\ Waits \in Walks /\ Entered \in Walks /\ Left \in Walks
           /\ WalkExpects(Waits) /\ WalkExpects(Entered) /\ WalkExpects(Left)
           /\ Callee \in CallsStar(Caller)
<1>1. Caller \in Procedures /\ Callee \in Procedures /\ Callee \in CallsOf(Caller)
  BY TopWalk, TopTodo DEF Typed, Caller, Callee
<1>2. Head(stack).todo \in Seq(Procedures) /\ Tail(Head(stack).todo) \in Seq(Procedures)
  BY TopWalk, TopTodo DEF Typed
<1>3. calls[Callee] \in Seq(Procedures)
  BY <1>1 DEF Typed, TypeOK
<1>4. Waits \in Walks /\ Entered \in Walks /\ Left \in Walks
  BY <1>1, <1>2, <1>3 DEF Walk, Walks, Waits, Entered, Left
<1>5. WalkExpects(Waits)
  BY TopWalk DEF Typed, WalksExpect, WalkExpects, Waits, Walk, Caller
<1>6. WalkExpects(Entered)
  BY <1>1 DEF WalkExpects, Entered, Walk, CallsOf
<1>7. WalkExpects(Left)
  BY TopTodo DEF WalkExpects, Left, Walk, Caller
<1>8. QED  BY <1>1, <1>4, <1>5, <1>6, <1>7, CallsStarClosed DEF Typed

------------------------------------------------------------------------------
(* The walks after a step: each is one that was there, or a named one.     *)
LEMMA WalksAfter ==
    ASSUME Typed, [Next]_vars
    PROVE  /\ stack' \in Seq(Walks)
           /\ \A i \in DOMAIN stack' : WalkExpects(stack'[i])
<1> USE DEF Typed
<1>1. CASE WalkRoot
  <2>1. PICK r \in Seq(Procedures) : r = roots
    BY DEF TypeOK
  <2>2. Head(r) \in Procedures /\ r # <<>>
    BY <1>1, <2>1, PopElement DEF WalkRoot
  <2>3. calls[Head(r)] \in Seq(Procedures)
    BY <2>2 DEF TypeOK
  <2>4. Walk(Head(r), calls[Head(r)], FALSE) \in Walks
    BY <2>2, <2>3 DEF Walk, Walks
  <2>5. WalkExpects(Walk(Head(r), calls[Head(r)], FALSE))
    BY DEF WalkExpects, Walk, CallsOf
  <2>6. stack' = <<Walk(Head(r), calls[Head(r)], FALSE)>>
    BY <1>1, <2>1 DEF WalkRoot
  <2>7. PICK w \in Walks : w = Walk(Head(r), calls[Head(r)], FALSE)
    BY <2>4
  <2>8. /\ <<w>> \in Seq(Walks) /\ <<w>>[1] = w
        /\ \A i \in DOMAIN <<w>> : i = 1
    BY OneElement
  <2>9. QED  BY <2>5, <2>6, <2>7, <2>8
<1>2. CASE EnterCall
  <2>1. stack # <<>> /\ Head(stack).todo # <<>>
    BY <1>2 DEF EnterCall
  <2>2. CASE Callee \in indexed
    <3>1. /\ stack' \in Seq(Walks)
          /\ DOMAIN stack' = DOMAIN stack
          /\ stack'[1] = Waits
          /\ \A i \in DOMAIN stack : i # 1 => stack'[i] = stack[i]
      BY <1>2, <2>1, <2>2, CallTyped, EntersKnown, ReplaceWalk
    <3>2. QED  BY <2>1, <3>1, CallTyped DEF WalksExpect
  <2>3. CASE Callee \notin indexed
    <3>1. /\ stack' \in Seq(Walks)
          /\ stack'[1] = Entered
          /\ stack'[2] = Waits
          /\ \A i \in DOMAIN stack' :
               \/ i = 1
               \/ i = 2
               \/ i - 1 \in DOMAIN stack /\ stack'[i] = stack[i - 1]
      BY <1>2, <2>1, <2>3, CallTyped, EntersNew, PushWalk
    <3>2. QED  BY <2>1, <3>1, CallTyped DEF WalksExpect
  <2>4. QED  BY <2>2, <2>3
<1>3. CASE JoinCallee
  <2>1. stack # <<>> /\ Head(stack).todo # <<>>
    BY <1>3, TopWalk DEF JoinCallee, WalksExpect, WalkExpects
  <2>2. stack' = <<Left>> \o Tail(stack)
    BY <1>3 DEF JoinCallee, Left, Caller
  <2>3. /\ stack' \in Seq(Walks)
        /\ DOMAIN stack' = DOMAIN stack
        /\ stack'[1] = Left
        /\ \A i \in DOMAIN stack : i # 1 => stack'[i] = stack[i]
    BY <2>1, <2>2, CallTyped, ReplaceWalk
  <2>4. QED  BY <2>1, <2>3, CallTyped DEF WalksExpect
<1>4. CASE LeaveProc
  <2>1. stack # <<>> /\ stack' = Tail(stack)
    BY <1>4 DEF LeaveProc
  <2>2. QED  BY <2>1, PopWalk DEF WalksExpect
<1>5. CASE UNCHANGED vars
  BY <1>5 DEF TypeOK, WalksExpect, vars
<1>6. QED  BY <1>1, <1>2, <1>3, <1>4, <1>5 DEF Next

LEMMA TypedStep ==
    ASSUME Typed, [Next]_vars
    PROVE  Typed'
<1> USE DEF Typed
<1>1. stack' \in Seq(Walks)
  BY WalksAfter
<1>2. WalksExpect'
  <2>1. calls' = calls
    BY StepCalls
  <2>2. \A w : WalkExpects(w)' <=> WalkExpects(w)
    BY <2>1, CallsConstant DEF WalkExpects
  <2>3. QED  BY <2>1, WalksAfter, CallsConstant DEF WalksExpect, WalkExpects
<1>3. CASE WalkRoot
  <2>1. PICK r \in Seq(Procedures) : r = roots
    BY DEF TypeOK
  <2>2. Head(r) \in Procedures /\ Tail(r) \in Seq(Procedures)
    BY <1>3, <2>1, PopElement DEF WalkRoot
  <2>3. QED  BY <1>1, <1>2, <1>3, <2>1, <2>2 DEF WalkRoot, TypeOK
<1>4. CASE EnterCall
  <2>1. Caller \in Procedures /\ Callee \in Procedures
    BY <1>4, CallTyped DEF EnterCall
  <2>2. QED  BY <1>1, <1>2, <1>4, <2>1 DEF EnterCall, TypeOK, Caller, Callee
<1>5. CASE JoinCallee
  <2>1. Caller \in Procedures /\ Callee \in Procedures
    BY <1>5, CallTyped, TopWalk DEF JoinCallee, WalksExpect, WalkExpects
  <2>2. QED  BY <1>1, <1>2, <1>5, <2>1 DEF JoinCallee, TypeOK, Caller, Callee
<1>6. CASE LeaveProc
  BY <1>1, <1>2, <1>6 DEF LeaveProc, TypeOK
<1>7. CASE UNCHANGED vars
  BY <1>1, <1>2, <1>7 DEF TypeOK, vars
<1>8. QED  BY <1>3, <1>4, <1>5, <1>6, <1>7 DEF Next

LEMMA TypedInit ==
    ASSUME Init
    PROVE  Typed
<1>1. <<>> \in Seq(Walks) /\ DOMAIN <<>> = {}
  BY SMT
<1>2. QED
  BY <1>1, BodiesAssumption, OrderAssumption DEF Init, Typed, TypeOK, WalksExpect

(***************************************************************************)
(* The tables hold procedures and every walk in progress, whatever the     *)
(* recursion, expects only calls of its procedure: type correctness of the *)
(* construction of Calls* (icall.cpp:79-131).                              *)
(***************************************************************************)
THEOREM TypeCorrect == Spec => []TypeOK
<1>1. Init => Typed
  BY TypedInit
<1>2. Typed /\ [Next]_vars => Typed'
  BY TypedStep
<1>3. Typed => TypeOK
  BY DEF Typed
<1>4. QED  BY <1>1, <1>2, <1>3, PTL DEF Spec

------------------------------------------------------------------------------
(***************************************************************************)
(* What the tables hold is in the closure, recursion included              *)
(* (icall.cpp:101-131): a call is of the caller's, and what the callee     *)
(* leads to the caller does.                                               *)
(***************************************************************************)
THEOREM OnlyCalls == Spec => []NothingButCalls
<1> DEFINE Inv == Typed /\ NothingButCalls
<1>1. Init => Inv
  BY TypedInit DEF Init, NothingButCalls
<1>2. Inv /\ [Next]_vars => Inv'
  <2> SUFFICES ASSUME Inv, [Next]_vars PROVE NothingButCalls'
    BY TypedStep
  <2>1. \A a : CallsStar(a)' = CallsStar(a)
    BY StepCalls, CallsConstant
  <2>2. ASSUME NEW a \in Procedures PROVE calls_table'[a] \subseteq CallsStar(a)
    <3>1. CASE EnterCall
      <4>1. Caller \in Procedures /\ Callee \in CallsStar(Caller)
        BY <3>1, CallTyped DEF EnterCall
      <4>2. calls_table' = [calls_table EXCEPT ![Caller] = @ \cup {Callee}]
        BY <3>1 DEF EnterCall, Caller, Callee
      <4>3. QED  BY <4>1, <4>2 DEF NothingButCalls, Typed, TypeOK
    <3>2. CASE JoinCallee
      <4>1. stack # <<>> /\ Head(stack).todo # <<>>
        BY <3>2, TopWalk DEF JoinCallee, Typed, WalksExpect, WalkExpects
      <4>2. /\ Caller \in Procedures /\ Callee \in Procedures
            /\ CallsStar(Callee) \subseteq CallsStar(Caller)
        BY <4>1, CallTyped, CallsStarClosed DEF Typed
      <4>3. calls_table' = [calls_table EXCEPT ![Caller] = @ \cup calls_table[Callee]]
        BY <3>2 DEF JoinCallee, Caller, Callee
      <4>4. QED  BY <4>2, <4>3 DEF NothingButCalls, Typed, TypeOK
    <3>3. CASE WalkRoot \/ LeaveProc \/ UNCHANGED vars
      BY <3>3 DEF WalkRoot, LeaveProc, vars, NothingButCalls
    <3>4. QED  BY <3>1, <3>2, <3>3 DEF Next
  <2>3. QED  BY <2>1, <2>2 DEF NothingButCalls
<1>3. Inv => NothingButCalls
  OBVIOUS
<1>4. QED  BY <1>1, <1>2, <1>3, PTL DEF Spec

(***************************************************************************)
(* The two tables are each other's inverse at every step: solve_left and   *)
(* solve_right read one relation (icall.cpp:118-130).                      *)
(***************************************************************************)
THEOREM OneRelation == Spec => []TablesMirror
<1> DEFINE Inv == Typed /\ TablesMirror
<1>1. Init => Inv
  BY TypedInit DEF Init, TablesMirror
<1>2. Inv /\ [Next]_vars => Inv'
  <2> SUFFICES ASSUME Inv, [Next]_vars PROVE TablesMirror'
    BY TypedStep
  <2>1. CASE EnterCall
    <3>1. Caller \in Procedures /\ Callee \in Procedures
      BY <2>1, CallTyped DEF EnterCall
    <3>2. /\ calls_table'  = [calls_table EXCEPT ![Caller] = @ \cup {Callee}]
          /\ called_table' = [called_table EXCEPT ![Callee] = @ \cup {Caller}]
      BY <2>1 DEF EnterCall, Caller, Callee
    <3>3. QED  BY <3>1, <3>2 DEF TablesMirror, Typed, TypeOK
  <2>2. CASE JoinCallee
    <3>1. Caller \in Procedures /\ Callee \in Procedures
      BY <2>2, CallTyped, TopWalk
         DEF JoinCallee, Typed, WalksExpect, WalkExpects
    <3>2. /\ calls_table' = [calls_table EXCEPT ![Caller] = @ \cup calls_table[Callee]]
          /\ called_table' =
               [p \in Procedures |-> called_table[p] \cup
                  (IF p \in calls_table[Callee] THEN {Caller} ELSE {})]
      BY <2>2 DEF JoinCallee, Caller, Callee
    <3>3. QED  BY <3>1, <3>2 DEF TablesMirror, Typed, TypeOK
  <2>3. CASE WalkRoot \/ LeaveProc \/ UNCHANGED vars
    BY <2>3 DEF WalkRoot, LeaveProc, vars, TablesMirror
  <2>4. QED  BY <2>1, <2>2, <2>3 DEF Next
<1>3. Inv => TablesMirror
  OBVIOUS
<1>4. QED  BY <1>1, <1>2, <1>3, PTL DEF Spec

------------------------------------------------------------------------------
(* Nothing is forgotten: the tables grow, and so does what a walk knows.   *)
LEMMA TablesGrow ==
    ASSUME Typed, [Next]_vars
    PROVE  /\ indexed \subseteq indexed'
           /\ \A a \in Procedures : calls_table[a] \subseteq calls_table'[a]
<1>1. CASE EnterCall
  <2>1. Caller \in Procedures
    BY <1>1, CallTyped DEF EnterCall
  <2>2. /\ calls_table' = [calls_table EXCEPT ![Caller] = @ \cup {Callee}]
        /\ indexed' = indexed \cup {Callee}
    BY <1>1 DEF EnterCall, Caller, Callee
  <2>3. QED  BY <2>1, <2>2 DEF Typed, TypeOK
<1>2. CASE JoinCallee
  <2>1. Caller \in Procedures
    BY <1>2, TopWalk DEF JoinCallee, Typed, Caller
  <2>2. /\ calls_table' = [calls_table EXCEPT ![Caller] = @ \cup calls_table[Callee]]
        /\ indexed' = indexed
    BY <1>2 DEF JoinCallee, Caller, Callee
  <2>3. QED  BY <2>1, <2>2 DEF Typed, TypeOK
<1>3. CASE WalkRoot \/ LeaveProc \/ UNCHANGED vars
  BY <1>3 DEF WalkRoot, LeaveProc, vars
<1>4. QED  BY <1>1, <1>2, <1>3 DEF Next

LEMMA KnowledgeKept ==
    ASSUME Typed, [Next]_vars, NEW w \in Walks, WalkKnows(w)
    PROVE  /\ w.proc \in indexed'
           /\ w.entered => Head(w.todo) \in calls_table'[w.proc] \cap indexed'
           /\ \A b \in CallsOf(w.proc) :
                \/ \E k \in DOMAIN w.todo : w.todo[k] = b
                \/ /\ b \in calls_table'[w.proc]
                   /\ CallsStar(b) \subseteq calls_table'[w.proc]
<1>1. w.proc \in Procedures
  BY DEF Walks
<1>2. QED  BY <1>1, TablesGrow DEF WalkKnows, Joined

LEMMA StackKept ==
    ASSUME Typed, [Next]_vars, WalksKnow,
           NEW i \in DOMAIN stack', NEW j \in DOMAIN stack, stack'[i] = stack[j]
    PROVE  WalkKnows(stack[i])'
<1>1. PICK w \in Walks : w = stack[j]
  BY StackWalks DEF Typed
<1>2. WalkKnows(w)
  BY <1>1 DEF WalksKnow
<1>3. \A a : CallsOf(a)' = CallsOf(a) /\ CallsStar(a)' = CallsStar(a)
  BY StepCalls, CallsConstant
<1>4. w.proc \in Procedures
  BY <1>1 DEF Walks
<1>5. \A b \in CallsOf(w.proc) : CallsStar(b)' = CallsStar(b)
  BY <1>3
<1>6. stack'[i] = w
  BY <1>1
<1>7. QED
  BY <1>2, <1>3, <1>5, <1>6, KnowledgeKept DEF WalkKnows, Joined

(* The walks nest: a callee that is entered is led to by its caller, and   *)
(* so by every procedure that leads to the caller.                         *)
LEMMA NestStep ==
    ASSUME Typed, WalksNest, [Next]_vars
    PROVE  WalksNest'
<1>1. \A a : CallsStar(a)' = CallsStar(a)
  BY StepCalls, CallsConstant
<1>2. SUFFICES ASSUME NEW i \in DOMAIN stack', NEW j \in DOMAIN stack', i < j
               PROVE  stack'[i].proc \in CallsStar(stack'[j].proc)
  BY <1>1 DEF WalksNest
<1>3. i \in Nat \ {0} /\ j \in Nat \ {0}
  <2>1. PICK s \in Seq(Walks) : s = stack'
    BY WalksAfter
  <2>2. QED  BY <2>1, LenProperties
<1>4. CASE WalkRoot
  <2>1. PICK s \in Seq(Walks) : s = stack'
    BY WalksAfter
  <2>2. \A k \in DOMAIN s : k = 1
    BY <1>4, <2>1 DEF WalkRoot
  <2>3. QED  BY <1>2, <1>3, <2>1, <2>2
<1>5. CASE EnterCall
  <2>1. stack # <<>> /\ Head(stack).todo # <<>>
    BY <1>5 DEF EnterCall
  <2>2. /\ Callee \in CallsStar(Caller) /\ Caller \in Procedures
        /\ Waits \in Walks /\ Entered \in Walks
        /\ Waits.proc = Caller /\ Entered.proc = Callee
    BY <2>1, CallTyped DEF Waits, Entered, Walk
  <2>3. 1 \in DOMAIN stack /\ stack[1].proc = Caller
    BY <2>1, TopWalk DEF Typed, Caller
  <2>4. \A k \in DOMAIN stack : k \in Nat \ {0} /\ stack[k].proc \in Procedures
    BY StackWalks DEF Typed
  <2>5. CASE Callee \in indexed
    <3>1. /\ DOMAIN stack' = DOMAIN stack
          /\ stack'[1] = Waits
          /\ \A k \in DOMAIN stack : k # 1 => stack'[k] = stack[k]
      BY <1>5, <2>1, <2>2, <2>5, EntersKnown, ReplaceWalk DEF Typed
    <3>2. \A k \in DOMAIN stack : stack'[k].proc = stack[k].proc
      BY <2>2, <2>3, <3>1
    <3>3. QED  BY <1>2, <3>1, <3>2 DEF WalksNest
  <2>6. CASE Callee \notin indexed
    <3>1. /\ stack'[1] = Entered
          /\ stack'[2] = Waits
          /\ \A k \in DOMAIN stack' :
               \/ k = 1
               \/ k = 2
               \/ /\ k - 1 \in DOMAIN stack /\ k - 1 # 1
                  /\ stack'[k] = stack[k - 1]
      BY <1>5, <2>1, <2>2, <2>6, EntersNew, PushWalk DEF Typed
    <3>2. /\ stack'[1].proc = Callee
          /\ \A k \in DOMAIN stack' :
               k # 1 => /\ k - 1 \in DOMAIN stack
                        /\ stack'[k].proc = stack[k - 1].proc
      BY <2>2, <2>3, <3>1
    <3>3. CASE i # 1
      <4>1. j # 1 /\ i - 1 < j - 1
        BY <1>2, <1>3
      <4>2. QED  BY <3>2, <3>3, <4>1 DEF WalksNest
    <3>4. CASE i = 1
      <4>1. j # 1
        BY <1>2, <3>4
      <4>2. stack'[j].proc = stack[j - 1].proc /\ j - 1 \in DOMAIN stack
        BY <3>2, <4>1
      <4>3. CASE j - 1 = 1
        BY <2>2, <2>3, <3>2, <3>4, <4>2, <4>3
      <4>4. CASE j - 1 # 1
        <5>1. 1 < j - 1
          BY <1>3, <2>4, <4>2, <4>4
        <5>2. Caller \in CallsStar(stack[j - 1].proc)
          BY <2>3, <4>2, <5>1 DEF WalksNest
        <5>3. CallsStar(Caller) \subseteq CallsStar(stack[j - 1].proc)
          BY <2>4, <4>2, <5>2, CallsStarClosed DEF Typed
        <5>4. QED  BY <2>2, <3>2, <3>4, <4>2, <5>3
      <4>5. QED  BY <4>3, <4>4
    <3>5. QED  BY <3>3, <3>4
  <2>7. QED  BY <2>5, <2>6
<1>6. CASE JoinCallee
  <2>1. stack # <<>> /\ Head(stack).todo # <<>>
    BY <1>6, TopWalk DEF JoinCallee, Typed, WalksExpect, WalkExpects
  <2>2. stack' = <<Left>> \o Tail(stack)
    BY <1>6 DEF JoinCallee, Left, Caller
  <2>3. /\ DOMAIN stack' = DOMAIN stack
        /\ stack'[1] = Left
        /\ \A k \in DOMAIN stack : k # 1 => stack'[k] = stack[k]
    BY <2>1, <2>2, CallTyped, ReplaceWalk DEF Typed
  <2>4. Left.proc = Caller /\ stack[1].proc = Caller
    BY <2>1, TopWalk DEF Typed, Left, Walk, Caller
  <2>5. \A k \in DOMAIN stack : stack'[k].proc = stack[k].proc
    BY <2>3, <2>4
  <2>6. QED  BY <1>2, <2>3, <2>5 DEF WalksNest
<1>7. CASE LeaveProc
  <2>1. stack # <<>> /\ stack' = Tail(stack)
    BY <1>7 DEF LeaveProc
  <2>2. \A k \in DOMAIN stack' : k + 1 \in DOMAIN stack /\ stack'[k] = stack[k + 1]
    BY <2>1, PopWalk DEF Typed
  <2>3. i + 1 < j + 1
    BY <1>2, <1>3
  <2>4. QED  BY <2>2, <2>3 DEF WalksNest
<1>8. CASE UNCHANGED vars
  BY <1>2, <1>8 DEF WalksNest, vars
<1>9. QED  BY <1>4, <1>5, <1>6, <1>7, <1>8 DEF Next

(* Without recursion a callee is not being walked when its entry is read:  *)
(* its walk would be outside its caller's, so each would lead to the other.*)
LEMMA CalleeIsDone ==
    ASSUME Typed, WalksNest, NoneCallsItself, stack # <<>>, Head(stack).todo # <<>>
    PROVE  Callee \notin WalkedNow
<1>1. Callee \in CallsStar(Caller) /\ Caller \in Procedures /\ Callee \in Procedures
  BY CallTyped
<1>2. 1 \in DOMAIN stack /\ stack[1].proc = Caller
  BY TopWalk DEF Typed, Caller
<1>3. SUFFICES ASSUME NEW j \in DOMAIN stack, stack[j].proc = Callee PROVE FALSE
  BY DEF WalkedNow
<1>4. CASE j = 1
  BY <1>1, <1>2, <1>3, <1>4 DEF NoneCallsItself
<1>5. CASE j # 1
  <2>1. 1 < j
    BY <1>5, StackWalks DEF Typed
  <2>2. Caller \in CallsStar(Callee)
    BY <1>2, <1>3, <2>1 DEF WalksNest
  <2>3. QED  BY <1>1, <2>2, CallsStarClosed DEF Typed, NoneCallsItself
<1>6. QED  BY <1>4, <1>5

LEMMA KnowStep ==
    ASSUME Typed, WalksNest, NoneCallsItself, WalksKnow, EntriesKnown, [Next]_vars
    PROVE  WalksKnow' /\ EntriesKnown'
<1>1. \A a : CallsOf(a)' = CallsOf(a) /\ CallsStar(a)' = CallsStar(a)
  BY StepCalls, CallsConstant
<1>2. indexed \subseteq Procedures
  BY DEF Typed, TypeOK
<1>3. \A a \in indexed \ WalkedNow : CallsStar(a)' \subseteq calls_table'[a]
  BY <1>1, <1>2, TablesGrow DEF EntriesKnown
<1>4. CASE WalkRoot
  <2>1. PICK r \in Seq(Procedures) : r = roots
    BY DEF Typed, TypeOK
  <2>2. Head(r) \in Procedures
    BY <1>4, <2>1, PopElement DEF WalkRoot
  <2>3. calls[Head(r)] \in Seq(Procedures)
    BY <2>2 DEF Typed, TypeOK
  <2>4. PICK w \in Walks : w = Walk(Head(r), calls[Head(r)], FALSE)
    BY <2>2, <2>3 DEF Walk, Walks
  <2>5. stack' = <<w>> /\ indexed' = indexed \cup {w.proc}
    BY <1>4, <2>1, <2>4 DEF WalkRoot, Walk
  <2>6. \A i \in DOMAIN stack' : i = 1 /\ stack'[i] = w
    BY <2>5, OneElement
  <2>7. WalksKnow'
    <3>1. ~w.entered /\ w.todo = calls[w.proc]
      BY <2>4 DEF Walk
    <3>2. \A b \in CallsOf(w.proc) : \E k \in DOMAIN w.todo : w.todo[k] = b
      BY <3>1 DEF CallsOf
    <3>3. QED  BY <1>1, <2>5, <2>6, <3>1, <3>2 DEF WalksKnow, WalkKnows
  <2>8. EntriesKnown'
    <3>1. 1 \in DOMAIN stack' /\ stack'[1] = w
      BY <2>5, OneElement
    <3>2. w.proc \in WalkedNow'
      BY <3>1 DEF WalkedNow
    <3>3. WalkedNow = {}
      BY <1>4 DEF WalkedNow, WalkRoot
    <3>4. QED  BY <1>3, <2>5, <3>2, <3>3 DEF EntriesKnown
  <2>9. QED  BY <2>7, <2>8
<1>5. CASE EnterCall
  <2>1. stack # <<>> /\ Head(stack).todo # <<>>
    BY <1>5 DEF EnterCall
  <2>2. /\ Callee \in Procedures /\ Caller \in Procedures
        /\ Waits \in Walks /\ Entered \in Walks
    BY <2>1, CallTyped
  <2>3. /\ Waits.proc = Caller /\ Waits.todo = Head(stack).todo
        /\ Head(Waits.todo) = Callee
        /\ Entered.proc = Callee /\ Entered.todo = calls[Callee]
        /\ ~Entered.entered
    BY DEF Waits, Entered, Walk, Callee
  <2>4. 1 \in DOMAIN stack /\ stack[1] = Head(stack)
    BY <2>1, TopWalk DEF Typed
  <2>5. /\ Callee \in indexed' /\ Callee \in calls_table'[Caller]
        /\ indexed' = indexed \cup {Callee}
    BY <1>5, <2>2 DEF EnterCall, Callee, Caller, Typed, TypeOK
  <2>6. PICK w \in Walks : w = stack[1]
    BY <2>4, StackWalks DEF Typed
  <2>7. /\ Caller \in indexed'
        /\ \A b \in CallsOf(Caller) :
             \/ \E k \in DOMAIN Waits.todo : Waits.todo[k] = b
             \/ /\ b \in calls_table'[Caller]
                /\ CallsStar(b) \subseteq calls_table'[Caller]
    <3>1. WalkKnows(w) /\ w.proc = Caller /\ w.todo = Waits.todo
      BY <2>3, <2>4, <2>6 DEF WalksKnow, Caller
    <3>2. QED  BY <3>1, KnowledgeKept
  <2>8. ASSUME NEW i \in DOMAIN stack', stack'[i] = Waits
        PROVE  WalkKnows(stack[i])'
    <3>1. PICK v \in Walks : v = Waits
      BY <2>2
    <3>2. QED  BY <1>1, <2>3, <2>5, <2>7, <2>8, <3>1 DEF WalkKnows, Joined
  <2>9. ASSUME NEW i \in DOMAIN stack', stack'[i] = Entered
        PROVE  WalkKnows(stack[i])'
    <3>1. \A b \in CallsOf(Callee) :
            \E k \in DOMAIN Entered.todo : Entered.todo[k] = b
      BY <2>3 DEF CallsOf
    <3>2. QED  BY <1>1, <2>3, <2>5, <2>9, <3>1 DEF WalkKnows
  <2>10. CASE Callee \in indexed
    <3>1. /\ DOMAIN stack' = DOMAIN stack
          /\ stack'[1] = Waits
          /\ \A k \in DOMAIN stack : k # 1 => stack'[k] = stack[k]
      BY <1>5, <2>1, <2>2, <2>10, EntersKnown, ReplaceWalk DEF Typed
    <3>2. WalksKnow'
      BY <2>8, <3>1, StackKept DEF WalksKnow
    <3>3. WalkedNow \subseteq WalkedNow'
      <4>1. \A k \in DOMAIN stack : stack'[k].proc = stack[k].proc
        BY <2>3, <2>4, <3>1 DEF Caller
      <4>2. QED  BY <3>1, <4>1 DEF WalkedNow
    <3>4. indexed' = indexed
      BY <2>5, <2>10
    <3>5. QED  BY <1>3, <3>2, <3>3, <3>4 DEF EntriesKnown
  <2>11. CASE Callee \notin indexed
    <3>1. /\ stack' \in Seq(Walks)
          /\ stack'[1] = Entered
          /\ 2 \in DOMAIN stack' /\ stack'[2] = Waits
          /\ \A k \in DOMAIN stack' :
               \/ k = 1
               \/ k = 2
               \/ /\ k - 1 \in DOMAIN stack /\ k - 1 # 1
                  /\ stack'[k] = stack[k - 1]
      BY <1>5, <2>1, <2>2, <2>11, EntersNew, PushWalk DEF Typed
    <3>2. WalksKnow'
      BY <2>8, <2>9, <3>1, StackKept DEF WalksKnow
    <3>3. Callee \in WalkedNow'
      <4>1. PICK s \in Seq(Walks) : s = stack'
        BY <3>1
      <4>2. 1 \in DOMAIN s
        BY <3>1, <4>1, LenProperties
      <4>3. QED  BY <2>3, <3>1, <4>1, <4>2 DEF WalkedNow
    <3>4. WalkedNow \subseteq WalkedNow'
      <4>1. ASSUME NEW k \in DOMAIN stack PROVE stack[k].proc \in WalkedNow'
        <5>1. /\ 2 \in DOMAIN stack' /\ stack'[2].proc = Caller
              /\ \A l \in DOMAIN stack :
                   l # 1 => l + 1 \in DOMAIN stack' /\ stack'[l + 1] = stack[l]
          BY <1>5, <2>1, <2>2, <2>3, <2>11, EntersNew, PushWalk DEF Typed
        <5>2. \E l \in DOMAIN stack' : stack'[l].proc = stack[k].proc
          BY <2>4, <5>1 DEF Caller
        <5>3. QED  BY <5>2 DEF WalkedNow
      <4>2. QED  BY <4>1 DEF WalkedNow
    <3>5. QED  BY <1>3, <2>5, <3>2, <3>3, <3>4 DEF EntriesKnown
  <2>12. QED  BY <2>10, <2>11
<1>6. CASE JoinCallee
  <2>1. stack # <<>> /\ Head(stack).todo # <<>> /\ Head(stack).entered
    BY <1>6, TopWalk DEF JoinCallee, Typed, WalksExpect, WalkExpects
  <2>2. /\ Callee \in Procedures /\ Caller \in Procedures /\ Left \in Walks
        /\ Left.proc = Caller /\ Left.todo = Tail(Head(stack).todo)
        /\ ~Left.entered
    BY <2>1, CallTyped DEF Left, Walk
  <2>3. /\ stack' = <<Left>> \o Tail(stack)
        /\ indexed' = indexed
        /\ calls_table' = [calls_table EXCEPT ![Caller] = @ \cup calls_table[Callee]]
    BY <1>6 DEF JoinCallee, Left, Caller, Callee
  <2>4. /\ DOMAIN stack' = DOMAIN stack
        /\ stack'[1] = Left
        /\ \A k \in DOMAIN stack : k # 1 => stack'[k] = stack[k]
    BY <2>1, <2>2, <2>3, ReplaceWalk DEF Typed
  <2>5. PICK w \in Walks : w = stack[1]
    BY <2>1, TopWalk, StackWalks DEF Typed
  <2>6. /\ w = Head(stack) /\ 1 \in DOMAIN stack
        /\ w.proc = Caller /\ WalkKnows(w)
    BY <2>1, <2>5, TopWalk DEF Typed, Caller, WalksKnow
  <2>7. Callee \in calls_table[Caller] /\ Callee \in indexed
    BY <2>1, <2>6 DEF WalkKnows, Callee
  <2>8. CallsStar(Callee) \subseteq calls_table[Callee]
    BY <2>1, <2>7, CalleeIsDone DEF EntriesKnown
  <2>9. /\ Callee \in calls_table'[Caller]
        /\ CallsStar(Callee) \subseteq calls_table'[Caller]
    BY <2>2, <2>3, <2>7, <2>8 DEF Typed, TypeOK
  <2>10. ASSUME NEW b \in CallsOf(Caller)
         PROVE  \/ \E k \in DOMAIN Left.todo : Left.todo[k] = b
                \/ /\ b \in calls_table'[Caller]
                   /\ CallsStar(b) \subseteq calls_table'[Caller]
    <3>1. \/ \E k \in DOMAIN w.todo : w.todo[k] = b
          \/ /\ b \in calls_table'[Caller]
             /\ CallsStar(b) \subseteq calls_table'[Caller]
      BY <2>6, KnowledgeKept
    <3>2. \A k \in DOMAIN w.todo :
            w.todo[k] = Callee \/ \E l \in DOMAIN Left.todo : Left.todo[l] = w.todo[k]
      BY <2>1, <2>2, <2>6, TopTodo DEF Callee
    <3>3. QED  BY <2>9, <3>1, <3>2
  <2>11. ASSUME NEW i \in DOMAIN stack', stack'[i] = Left
         PROVE  WalkKnows(stack[i])'
    <3>1. Caller \in indexed'
      BY <2>6, KnowledgeKept
    <3>2. QED  BY <1>1, <2>2, <2>10, <2>11, <3>1 DEF WalkKnows, Joined
  <2>12. WalksKnow'
    BY <2>4, <2>11, StackKept DEF WalksKnow
  <2>13. WalkedNow \subseteq WalkedNow'
    <3>1. \A k \in DOMAIN stack : stack'[k].proc = stack[k].proc
      BY <2>2, <2>4, <2>5, <2>6
    <3>2. QED  BY <2>4, <3>1 DEF WalkedNow
  <2>14. QED  BY <1>3, <2>3, <2>12, <2>13 DEF EntriesKnown
<1>7. CASE LeaveProc
  <2>1. stack # <<>> /\ Head(stack).todo = <<>> /\ stack' = Tail(stack)
    BY <1>7 DEF LeaveProc
  <2>2. indexed' = indexed /\ calls_table' = calls_table
    BY <1>7 DEF LeaveProc
  <2>3. /\ \A i \in DOMAIN stack' : /\ i + 1 \in DOMAIN stack
                                    /\ stack'[i] = stack[i + 1]
        /\ \A i \in DOMAIN stack : i # 1 => /\ i - 1 \in DOMAIN stack'
                                            /\ stack'[i - 1] = stack[i]
    BY <2>1, PopWalk DEF Typed
  <2>4. WalksKnow'
    BY <2>3, StackKept DEF WalksKnow
  <2>5. WalkedNow \subseteq WalkedNow' \cup {Caller}
    <3>1. stack[1].proc = Caller
      BY <2>1, TopWalk DEF Typed, Caller
    <3>2. ASSUME NEW k \in DOMAIN stack, k # 1
          PROVE  stack[k].proc \in WalkedNow'
      <4>1. \E l \in DOMAIN stack' : stack'[l].proc = stack[k].proc
        BY <2>3, <3>2
      <4>2. QED  BY <4>1 DEF WalkedNow
    <3>3. QED  BY <3>1, <3>2 DEF WalkedNow
  <2>6. CallsStar(Caller) \subseteq calls_table[Caller]
    <3>1. 1 \in DOMAIN stack /\ stack[1] = Head(stack) /\ Caller \in Procedures
      BY <2>1, TopWalk DEF Typed, Caller
    <3>2. WalkKnows(stack[1]) /\ stack[1].proc = Caller /\ stack[1].todo = <<>>
      BY <2>1, <3>1 DEF WalksKnow, Caller
    <3>3. \A b \in CallsOf(Caller) : /\ b \in calls_table[Caller]
                                    /\ CallsStar(b) \subseteq calls_table[Caller]
      BY <3>2 DEF WalkKnows, Joined
    <3>4. PICK C \in SUBSET Procedures : C = calls_table[Caller]
      BY <3>1 DEF Typed, TypeOK
    <3>5. QED  BY <3>1, <3>3, <3>4, CallsStarLeast DEF Typed
  <2>7. QED  BY <1>1, <1>3, <2>2, <2>4, <2>5, <2>6 DEF EntriesKnown
<1>8. CASE UNCHANGED vars
  <2>1. \A i \in DOMAIN stack' : i \in DOMAIN stack /\ stack'[i] = stack[i]
    BY <1>8 DEF vars
  <2>2. WalksKnow'
    BY <2>1, StackKept DEF WalksKnow
  <2>3. EntriesKnown'
    BY <1>3, <1>8 DEF EntriesKnown, WalkedNow, vars
  <2>4. QED  BY <2>2, <2>3
<1>9. QED  BY <1>4, <1>5, <1>6, <1>7, <1>8 DEF Next

(***************************************************************************)
(* Without recursion, an entry of _calls_table is all of Calls* as soon as *)
(* its walk is over, which is when a caller's walk reads it                *)
(* (icall.cpp:122-130), and so are all entries once the solver is built.   *)
(***************************************************************************)
THEOREM EntriesAreComplete == Spec => []EntriesComplete
<1>1. Init => EntriesInv
  <2> SUFFICES ASSUME Init PROVE EntriesInv
    OBVIOUS
  <2>1. DOMAIN stack = {} /\ indexed = {}
    BY DEF Init
  <2>2. QED
    BY <2>1, TypedInit DEF EntriesInv, WalksNest, WalksKnow, EntriesKnown
<1>2. EntriesInv /\ [Next]_vars => EntriesInv'
  <2> SUFFICES ASSUME EntriesInv, [Next]_vars PROVE EntriesInv'
    OBVIOUS
  <2>1. NoneCallsItself' => NoneCallsItself
    BY StepCalls, CallsConstant DEF NoneCallsItself
  <2>2. QED
    BY <2>1, TypedStep, NestStep, KnowStep DEF EntriesInv
<1>3. EntriesInv /\ NothingButCalls => EntriesComplete
  <2> SUFFICES ASSUME EntriesInv, NothingButCalls, NoneCallsItself,
                      NEW a \in indexed \ WalkedNow
               PROVE  calls_table[a] = CallsStar(a)
    BY DEF EntriesComplete, NoneCallsItself
  <2>1. a \in Procedures
    BY DEF EntriesInv, Typed, TypeOK
  <2>2. QED  BY <2>1 DEF EntriesInv, EntriesKnown, NothingButCalls
<1>4. QED  BY <1>1, <1>2, <1>3, OnlyCalls, PTL DEF Spec

------------------------------------------------------------------------------
(* EffectsIndex                                                            *)
\* The tables are one relation, whatever the values.
RightIsLeft ==
  \A effect, node, v :
    <<effect, v, node>> \in right
      <=> <<effect, node>> \in DOMAIN left /\ v \in left[<<effect, node>>]

IndexInv ==
  /\ IndexTypeOK
  /\ EntriesClosed
  /\ ResultsGathered
  /\ CallsChained
  /\ RightIsLeft

------------------------------------------------------------------------------
(* Typing of what the actions build.                                       *)
LEMMA ChildrenTyped ==
    ASSUME NEW p \in Programs, NEW node \in Nodes(p)
    PROVE  /\ Children(p, node) \in Seq(Nodes(p))
           /\ Len(Children(p, node)) \in Nat
           /\ DOMAIN Children(p, node) = 1 .. Len(Children(p, node))
<1>1. Children(p, node) \in Seq(Nodes(p))
  BY ChildrenAssumption
<1>2. QED  BY <1>1, LenProperties

LEMMA OwnExtracted ==
    ASSUME NEW effect \in Effects, NEW node \in Nodes(program)
    PROVE  Own(program, effect, node) \in SUBSET Extracted
BY DEF Extracted

LEMMA FrameTyped ==
    ASSUME NEW effect \in Effects, NEW node \in Nodes(program)
    PROVE  /\ Frame(effect, node) \in Calls
           /\ Frame(effect, node).effect = effect
           /\ Frame(effect, node).of = node
           /\ Frame(effect, node).at = 0
           /\ Frame(effect, node).result = {}
BY DEF Frame, Calls

\* A call that starts has nothing to gather.
LEMMA FrameGathered ==
    ASSUME program \in Programs, NEW effect \in Effects,
           NEW node \in Nodes(program)
    PROVE  Gathered(program, left, Frame(effect, node))
<1>1. Returned(program, Frame(effect, node)) = {}
  BY FrameTyped DEF Returned
<1>2. 0 <= Len(Children(program, node))
  BY ChildrenTyped
<1>3. QED  BY <1>1, <1>2, FrameTyped DEF Gathered

------------------------------------------------------------------------------
LEMMA IndexInitInv == IndexInit => IndexInv
<1> SUFFICES ASSUME IndexInit PROVE IndexInv
  OBVIOUS
<1> USE DEF IndexInit
<1>1. IndexTypeOK
  <2>1. program.procs \in Seq(Nat)
    BY ChildrenAssumption
  <2>2. Procs(program) = 1 .. Len(program.procs) /\ Len(program.procs) \in Nat
    BY <2>1, LenProperties DEF Procs
  <2>3. \A effect \in Effects :
          RootsFor(program, effect) \in Seq(Effects \X Procs(program))
    <3>1. ASSUME NEW effect \in Effects
          PROVE  RootsFor(program, effect)
                   \in [1 .. Len(program.procs) -> Effects \X Procs(program)]
      BY <2>2 DEF RootsFor
    <3>2. QED  BY <2>2, <3>1
  <2>4. "modifies" \in Effects /\ "uses" \in Effects
    BY DEF Effects
  <2>5. pending \in Seq(Effects \X Procs(program))
    BY <2>3, <2>4, ConcatProperties
  <2>6. DOMAIN left = {} /\ left \in [DOMAIN left -> SUBSET Extracted]
    OBVIOUS
  <2>7. frames \in Seq(Calls)
    OBVIOUS
  <2>8. QED  BY <2>5, <2>6, <2>7 DEF IndexTypeOK
<1>2. EntriesClosed
  BY DEF EntriesClosed
<1>3. ResultsGathered /\ CallsChained
  BY DEF ResultsGathered, CallsChained
<1>4. RightIsLeft
  BY DEF RightIsLeft
<1>5. QED  BY <1>1, <1>2, <1>3, <1>4 DEF IndexInv

LEMMA IndexRootInv ==
    ASSUME IndexInv, IndexRoot
    PROVE  IndexInv'
<1> USE DEF IndexInv, IndexRoot
<1>1. PICK root \in Effects \X Procs(program) : root = Head(pending)
  BY HeadTailProperties DEF IndexTypeOK
<1>2. root[1] \in Effects /\ ProcNode(root[2]) \in Nodes(program)
  BY <1>1 DEF Nodes
<1>3. PICK call \in Calls : call = Frame(root[1], ProcNode(root[2]))
  BY <1>2, FrameTyped
<1>4. frames' = <<call>> /\ program' = program /\ left' = left /\ right' = right
  BY <1>1, <1>3
<1>5. \A i \in DOMAIN <<call>> : i = 1 /\ <<call>>[i] = call
  BY OneElement
<1>6. IndexTypeOK'
  <2>1. pending' \in Seq(Effects \X Procs(program))
    BY HeadTailProperties DEF IndexTypeOK
  <2>2. frames' \in Seq(Calls)
    BY <1>4, OneElement
  <2>3. QED  BY <1>4, <2>1, <2>2 DEF IndexTypeOK, Keys, Calls, Extracted
<1>7. ResultsGathered'
  <2>1. Gathered(program, left, call)
    BY <1>2, <1>3, FrameGathered DEF IndexTypeOK
  <2>2. QED  BY <1>4, <1>5, <2>1 DEF ResultsGathered
<1>8. CallsChained'
  BY <1>4, <1>5 DEF CallsChained
<1>9. EntriesClosed'
  BY <1>4 DEF EntriesClosed
<1>10. RightIsLeft'
  BY <1>4 DEF RightIsLeft
<1>11. QED  BY <1>6, <1>7, <1>8, <1>9, <1>10

LEMMA EnterNodeInv ==
    ASSUME IndexInv, EnterNode
    PROVE  IndexInv'
<1> USE DEF IndexInv, EnterNode
<1>1. PICK top \in Calls : top = Head(frames) /\ top = frames[1]
  BY PopElement DEF IndexTypeOK
<1>2. top.effect \in Effects /\ top.of \in Nodes(program) /\ top.at \in Nat
  BY <1>1 DEF Calls
<1>3. PICK child \in Nodes(program) :
        child = Children(program, top.of)[top.at + 1]
  <2>1. top.at + 1 \in 1 .. Len(Children(program, top.of))
    BY <1>1, <1>2, ChildrenTyped DEF IndexTypeOK
  <2>2. QED  BY <1>2, <2>1, ChildrenTyped, ElementOfSeq DEF IndexTypeOK
<1>4. PICK call \in Calls : call = Frame(top.effect, child)
  BY <1>2, <1>3, FrameTyped
<1>5. call.of = child /\ call.effect = top.effect
  BY <1>2, <1>3, <1>4, FrameTyped
<1>6. /\ frames' = <<call>> \o frames
      /\ program' = program /\ left' = left /\ right' = right /\ pending' = pending
      /\ top.at < Len(Children(program, top.of))
  BY <1>1, <1>3, <1>4
<1>7. /\ frames' \in Seq(Calls)
      /\ DOMAIN frames' = 1 .. Len(frames) + 1
      /\ frames'[1] = call
      /\ \A i \in DOMAIN frames : frames'[i + 1] = frames[i]
  BY <1>6, PushElement DEF IndexTypeOK
<1>8. DOMAIN frames = 1 .. Len(frames) /\ Len(frames) \in Nat
  BY LenProperties DEF IndexTypeOK
<1>9. \A i \in DOMAIN frames' \ {1} : i - 1 \in DOMAIN frames /\ frames'[i] = frames[i - 1]
  <2>1. ASSUME NEW i \in DOMAIN frames' \ {1} PROVE i - 1 \in DOMAIN frames
    BY <1>7, <1>8
  <2>2. ASSUME NEW i \in DOMAIN frames' \ {1} PROVE frames'[(i - 1) + 1] = frames[i - 1]
    BY <1>7, <2>1
  <2>3. ASSUME NEW i \in DOMAIN frames' \ {1} PROVE (i - 1) + 1 = i
    BY <1>7, <1>8
  <2>4. QED  BY <2>1, <2>2, <2>3
<1>10. IndexTypeOK'
  BY <1>6, <1>7 DEF IndexTypeOK, Keys, Calls, Extracted
<1>11. ResultsGathered'
  <2>1. Gathered(program, left, call)
    BY <1>2, <1>3, <1>4, FrameGathered DEF IndexTypeOK
  <2>2. \A i \in DOMAIN frames' : Gathered(program, left, frames'[i])
    BY <1>7, <1>9, <2>1 DEF ResultsGathered
  <2>3. QED  BY <1>6, <2>2 DEF ResultsGathered
<1>12. CallsChained'
  <2>1. ASSUME NEW i \in DOMAIN frames' \ {1}
        PROVE  /\ frames'[i].at < Len(Children(program, frames'[i].of))
               /\ frames'[i - 1].of
                    = Children(program, frames'[i].of)[frames'[i].at + 1]
               /\ frames'[i - 1].effect = frames'[i].effect
    <3>1. CASE i = 2
      <4>1. i - 1 = 1
        BY <3>1
      <4>2. frames'[i] = top /\ frames'[i - 1] = call
        BY <1>1, <1>7, <1>9, <4>1
      <4>3. QED  BY <1>3, <1>5, <1>6, <4>2
    <3>2. CASE i # 2
      <4>1. i - 1 \in DOMAIN frames \ {1} /\ i - 1 \in DOMAIN frames' \ {1}
        BY <1>7, <1>8, <1>9, <3>2
      <4>2. frames'[i] = frames[i - 1] /\ frames'[i - 1] = frames[(i - 1) - 1]
        BY <1>9, <4>1
      <4>3. QED  BY <4>1, <4>2 DEF CallsChained
    <3>3. QED  BY <3>1, <3>2
  <2>2. QED  BY <1>6, <2>1 DEF CallsChained
<1>13. EntriesClosed'
  BY <1>6 DEF EntriesClosed
<1>14. RightIsLeft'
  BY <1>6 DEF RightIsLeft
<1>15. QED  BY <1>10, <1>11, <1>12, <1>13, <1>14

------------------------------------------------------------------------------
(* The step that enters a node: what it enters is determined by entries    *)
(* that are there, so that entering it again changes nothing.              *)
LEMMA WholeEntry ==
    ASSUME IndexTypeOK, NEW call \in Calls, Gathered(program, left, call),
           call.at = Len(Children(program, call.of))
    PROVE  /\ ChildKeys(program, call.effect, call.of) \subseteq DOMAIN left
           /\ call.result \cup Own(program, call.effect, call.of)
                = EntryOf(program, left, call.effect, call.of)
<1>1. call.of \in Nodes(program)
  BY DEF Calls
<1>2. Returned(program, call) = ChildKeys(program, call.effect, call.of)
  BY <1>1, ChildrenTyped DEF IndexTypeOK, Returned, ChildKeys
<1>3. QED  BY <1>2 DEF Gathered, EntryOf

LEMMA LeaveNodeInv ==
    ASSUME IndexInv, LeaveNode
    PROVE  IndexInv'
<1> USE DEF IndexInv
<1>1. PICK top \in Calls : top = Head(frames) /\ top = frames[1] /\ 1 \in DOMAIN frames
  BY PopElement DEF IndexTypeOK, LeaveNode
<1>2. top.effect \in Effects /\ top.of \in Nodes(program) /\ top.at \in Nat
      /\ top.result \in SUBSET Extracted
  BY <1>1 DEF Calls
<1>3. PICK found \in SUBSET Extracted :
        found = top.result \cup Own(program, top.effect, top.of)
  BY <1>2, OwnExtracted
<1>4. PICK key \in Keys : key = <<top.effect, top.of>>
  BY <1>2 DEF Keys
<1>5. /\ frames # <<>> /\ top.at = Len(Children(program, top.of))
      /\ left' = [k \in DOMAIN left \cup {key} |-> IF k = key THEN found ELSE left[k]]
      /\ right' = right \cup {<<top.effect, v, top.of>> : v \in found}
      /\ frames' = Returning(found, Tail(frames))
      /\ program' = program /\ pending' = pending
  BY <1>1, <1>3, <1>4 DEF LeaveNode
<1>6. Gathered(program, left, top)
  BY <1>1 DEF ResultsGathered
<1>7. /\ ChildKeys(program, top.effect, top.of) \subseteq DOMAIN left
      /\ found = EntryOf(program, left, top.effect, top.of)
  BY <1>3, <1>5, <1>6, WholeEntry
<1>8. key[1] = top.effect /\ key[2] = top.of
  BY <1>4
<1>9. \A k \in DOMAIN left : k \in DOMAIN left' /\ left'[k] = left[k]
  BY <1>5, <1>7, <1>8 DEF EntriesClosed
<1>10. key \in DOMAIN left' /\ left'[key] = found /\ DOMAIN left' = DOMAIN left \cup {key}
  BY <1>5
<1>11. EntriesClosed'
  <2>1. ASSUME NEW k \in DOMAIN left'
        PROVE  /\ ChildKeys(program, k[1], k[2]) \subseteq DOMAIN left
               /\ left'[k] = EntryOf(program, left, k[1], k[2])
    BY <1>7, <1>8, <1>9, <1>10, <2>1 DEF EntriesClosed
  <2>2. ASSUME NEW k \in DOMAIN left'
        PROVE  EntryOf(program, left', k[1], k[2]) = EntryOf(program, left, k[1], k[2])
    BY <1>9, <2>1 DEF EntryOf
  <2>3. QED  BY <1>5, <1>9, <2>1, <2>2 DEF EntriesClosed
<1>12. RightIsLeft'
  <2>1. ASSUME NEW effect, NEW node, NEW v
        PROVE  <<effect, v, node>> \in right'
                 <=> <<effect, node>> \in DOMAIN left'
                       /\ v \in left'[<<effect, node>>]
    <3>1. <<effect, v, node>> \in right'
            <=> \/ <<effect, v, node>> \in right
                \/ <<effect, node>> = key /\ v \in found
      BY <1>4, <1>5
    <3>2. <<effect, v, node>> \in right
            <=> <<effect, node>> \in DOMAIN left /\ v \in left[<<effect, node>>]
      BY DEF RightIsLeft
    <3>3. QED  BY <1>9, <1>10, <3>1, <3>2
  <2>2. QED  BY <2>1 DEF RightIsLeft
<1>13. PICK callers \in Seq(Calls) : callers = Tail(frames)
  BY <1>5, PopElement DEF IndexTypeOK
<1>14. /\ \A i \in DOMAIN callers : /\ i \in Nat \ {0} /\ i + 1 \in DOMAIN frames
                                    /\ callers[i] = frames[i + 1]
       /\ DOMAIN callers = 1 .. Len(callers) /\ Len(callers) \in Nat
  BY <1>5, <1>13, PopElement, LenProperties DEF IndexTypeOK
<1>15. \A c \in Calls : Gathered(program, left, c) => Gathered(program, left', c)
  BY <1>9 DEF Gathered
<1>16. IndexTypeOK' /\ ResultsGathered' /\ CallsChained'
  <2>1. /\ Keys' = Keys /\ Extracted' = Extracted /\ Calls' = Calls
        /\ DOMAIN left' \subseteq Keys
        /\ left' \in [DOMAIN left' -> SUBSET Extracted]
    <3>1. Keys' = Keys /\ Extracted' = Extracted /\ Calls' = Calls
      BY <1>5 DEF Keys, Extracted, Calls
    <3>2. QED  BY <1>5, <1>9, <1>10, <3>1 DEF IndexTypeOK
  <2>2. CASE callers = <<>>
    <3>1. frames' = <<>>
      BY <1>5, <1>13, <2>2 DEF Returning
    <3>2. frames' \in Seq(Calls) /\ DOMAIN frames' = {}
      BY <3>1
    <3>3. IndexTypeOK'
      BY <1>5, <2>1, <3>2 DEF IndexTypeOK
    <3>4. ResultsGathered' /\ CallsChained'
      BY <3>2 DEF ResultsGathered, CallsChained
    <3>5. QED  BY <3>3, <3>4
  <2>3. CASE callers # <<>>
    <3>1. PICK caller \in Calls : caller = Head(callers) /\ caller = callers[1]
            /\ 1 \in DOMAIN callers
      BY <2>3, PopElement
    <3>2. caller.effect \in Effects /\ caller.of \in Nodes(program)
          /\ caller.at \in Nat /\ caller.result \in SUBSET Extracted
      BY <3>1 DEF Calls
    <3>3. PICK advanced \in Calls :
            advanced = [caller EXCEPT !.at = @ + 1, !.result = @ \cup found]
      <4>1. caller \in [effect : Effects, of : Nodes(program), at : Nat,
                         result : SUBSET Extracted]
        BY <3>1 DEF Calls
      <4>2. caller.at + 1 \in Nat /\ caller.result \cup found \in SUBSET Extracted
        BY <1>3, <3>2
      <4>3. [caller EXCEPT !.at = caller.at + 1,
                           !.result = caller.result \cup found] \in Calls
        BY <4>1, <4>2 DEF Calls
      <4>4. QED  BY <4>3
    <3>4. /\ advanced.effect = caller.effect /\ advanced.of = caller.of
          /\ advanced.at = caller.at + 1 /\ advanced.result = caller.result \cup found
      <4>1. caller \in [effect : Effects, of : Nodes(program), at : Nat,
                         result : SUBSET Extracted]
        BY <3>1 DEF Calls
      <4>2. QED  BY <3>3, <4>1
    <3>5. frames' = <<advanced>> \o Tail(callers)
      BY <1>5, <1>13, <2>3, <3>1, <3>3 DEF Returning
    <3>6. /\ frames' \in Seq(Calls) /\ DOMAIN frames' = DOMAIN callers
          /\ frames'[1] = advanced
          /\ \A i \in DOMAIN callers : i # 1 => frames'[i] = callers[i]
      BY <2>3, <3>5, ReplaceElement
    <3>7. /\ caller = frames[2] /\ 2 \in DOMAIN frames \ {1} /\ 2 - 1 = 1
      <4>1. callers[1] = frames[1 + 1] /\ 1 + 1 \in DOMAIN frames
        BY <1>14, <3>1
      <4>2. 1 + 1 = 2 /\ 2 # 1 /\ 2 - 1 = 1
        OBVIOUS
      <4>3. callers[1] = frames[2] /\ 2 \in DOMAIN frames
        BY <4>1, <4>2
      <4>4. QED  BY <3>1, <4>2, <4>3
    <3>8. /\ caller.at < Len(Children(program, caller.of))
          /\ top.of = Children(program, caller.of)[caller.at + 1]
          /\ top.effect = caller.effect
      BY <1>1, <3>7 DEF CallsChained
    <3>9. Gathered(program, left', advanced)
      <4>1. Gathered(program, left', caller)
        BY <1>15, <3>1, <3>7 DEF ResultsGathered
      <4>2. Returned(program, advanced) = Returned(program, caller) \cup {key}
        <5>1. 1 .. advanced.at = (1 .. caller.at) \cup {caller.at + 1}
          BY <3>2, <3>4
        <5>2. QED  BY <1>4, <3>4, <3>8, <5>1 DEF Returned
      <4>3. advanced.at <= Len(Children(program, advanced.of))
        BY <3>2, <3>4, <3>8, ChildrenTyped DEF IndexTypeOK
      <4>4. QED  BY <1>10, <3>4, <4>1, <4>2, <4>3 DEF Gathered
    <3>10. IndexTypeOK'
      BY <1>5, <2>1, <3>6 DEF IndexTypeOK
    <3>11. ResultsGathered'
      <4>1. ASSUME NEW i \in DOMAIN frames' PROVE Gathered(program, left', frames'[i])
        <5>1. CASE i = 1
          BY <3>6, <3>9, <5>1
        <5>2. CASE i # 1
          <6>1. i + 1 \in DOMAIN frames /\ frames'[i] = frames[i + 1]
            BY <1>14, <3>6, <5>2
          <6>2. frames[i + 1] \in Calls
            BY <6>1, ElementOfSeq, LenProperties DEF IndexTypeOK
          <6>3. QED  BY <1>15, <6>1, <6>2 DEF ResultsGathered
        <5>3. QED  BY <5>1, <5>2
      <4>2. QED  BY <1>5, <4>1 DEF ResultsGathered
    <3>12. CallsChained'
      <4>1. ASSUME NEW i \in DOMAIN frames' \ {1}
            PROVE  /\ frames'[i].at < Len(Children(program, frames'[i].of))
                   /\ frames'[i - 1].of
                        = Children(program, frames'[i].of)[frames'[i].at + 1]
                   /\ frames'[i - 1].effect = frames'[i].effect
        <5>1. /\ i \in DOMAIN callers /\ i - 1 \in DOMAIN callers /\ i \in Nat
              /\ i + 1 \in DOMAIN frames \ {1}
          BY <1>14, <3>6
        <5>2. /\ frames'[i] = frames[i + 1] /\ (i + 1) - 1 = i
          BY <1>14, <3>6, <5>1
        <5>3. callers[i - 1] = frames[(i - 1) + 1] /\ (i - 1) + 1 = i
          BY <1>14, <5>1
        <5>4. /\ frames'[i - 1].of = callers[i - 1].of
              /\ frames'[i - 1].effect = callers[i - 1].effect
          <6>1. CASE i - 1 = 1
            BY <3>1, <3>4, <3>6, <6>1
          <6>2. CASE i - 1 # 1
            BY <3>6, <5>1, <6>2
          <6>3. QED  BY <6>1, <6>2
        <5>5. QED  BY <5>1, <5>2, <5>3, <5>4 DEF CallsChained
      <4>2. QED  BY <1>5, <4>1 DEF CallsChained
    <3>13. QED  BY <3>10, <3>11, <3>12
  <2>4. QED  BY <2>2, <2>3
<1>17. QED  BY <1>11, <1>12, <1>16

------------------------------------------------------------------------------
LEMMA IndexNextInv ==
    ASSUME IndexInv, [IndexNext]_ivars
    PROVE  IndexInv'
<1>1. CASE IndexRoot
  BY <1>1, IndexRootInv
<1>2. CASE EnterNode
  BY <1>2, EnterNodeInv
<1>3. CASE LeaveNode
  BY <1>3, LeaveNodeInv
<1>4. CASE UNCHANGED ivars
  <2> USE <1>4 DEF ivars, IndexInv
  <2>1. IndexTypeOK'
    BY DEF IndexTypeOK, Keys, Calls, Extracted
  <2>2. EntriesClosed' /\ ResultsGathered'
    BY DEF EntriesClosed, ResultsGathered
  <2>3. CallsChained'
    BY DEF CallsChained
  <2>4. RightIsLeft'
    BY DEF RightIsLeft
  <2>5. QED  BY <2>1, <2>2, <2>3, <2>4
<1>5. QED  BY <1>1, <1>2, <1>3, <1>4 DEF IndexNext

LEMMA AlwaysIndexInv == IndexSpec => []IndexInv
<1>1. QED  BY IndexInitInv, IndexNextInv, PTL DEF IndexSpec

(***************************************************************************)
(* solve_left of Modifies and Uses is the inverse of solve_right and of    *)
(* what validate tests, at every step of the construction and for every    *)
(* program (assign.cpp:103-111, 129-134).                                  *)
(***************************************************************************)
THEOREM EffectsMirror == IndexSpec => []IndexesMirror
<1>1. IndexInv => IndexesMirror
  BY DEF IndexInv, RightIsLeft, IndexesMirror, get_right_vars
<1>2. QED  BY <1>1, AlwaysIndexInv, PTL

(***************************************************************************)
(* Every entry is what its node contributes and the entries of what it     *)
(* contains or calls, so that indexing a procedure again, at another call  *)
(* of it, changes no entry (assign.cpp:171-177).                           *)
(***************************************************************************)
THEOREM EntriesStayClosed == IndexSpec => [](IndexTypeOK /\ EntriesClosed)
<1>1. IndexInv => IndexTypeOK /\ EntriesClosed
  BY DEF IndexInv
<1>2. QED  BY <1>1, AlwaysIndexInv, PTL

(***************************************************************************)
(* No step revises an entry: what Modifies or Uses once has for a node     *)
(* stays, however often the node is indexed (assign.cpp:104, 129).         *)
(***************************************************************************)
EntriesStay ==
  [][\A key \in DOMAIN left : key \in DOMAIN left' /\ left'[key] = left[key]]_ivars

LEMMA LeaveNodeStays ==
    ASSUME IndexInv, LeaveNode
    PROVE  \A key \in DOMAIN left : key \in DOMAIN left' /\ left'[key] = left[key]
<1> USE DEF IndexInv
<1>1. PICK top \in Calls : top = Head(frames) /\ top = frames[1] /\ 1 \in DOMAIN frames
  BY PopElement DEF IndexTypeOK, LeaveNode
<1>2. PICK found : found = top.result \cup Own(program, top.effect, top.of)
  OBVIOUS
<1>3. PICK key : key = <<top.effect, top.of>>
  OBVIOUS
<1>4. /\ top.at = Len(Children(program, top.of))
      /\ left' = [k \in DOMAIN left \cup {key} |-> IF k = key THEN found ELSE left[k]]
  BY <1>1, <1>2, <1>3 DEF LeaveNode
<1>5. found = EntryOf(program, left, top.effect, top.of)
  BY <1>1, <1>2, <1>4, WholeEntry DEF ResultsGathered
<1>6. key \in DOMAIN left => left[key] = found
  BY <1>3, <1>5 DEF EntriesClosed
<1>7. QED  BY <1>4, <1>6

THEOREM EntriesNeverRevised == IndexSpec => EntriesStay
<1>1. ASSUME IndexInv, [IndexNext]_ivars
      PROVE  [\A key \in DOMAIN left : key \in DOMAIN left' /\ left'[key] = left[key]]_ivars
  BY <1>1, LeaveNodeStays DEF IndexNext, IndexRoot, EnterNode, ivars
<1>2. QED  BY <1>1, AlwaysIndexInv, PTL DEF IndexSpec, EntriesStay

------------------------------------------------------------------------------
(***************************************************************************)
(* What the entries mean.  The walk from a node runs through the nodes it  *)
(* contains or calls, and what they contain or call: the least set that    *)
(* holds the node and is closed under the children.                        *)
(***************************************************************************)
WalkClosed(p, S) ==
  \A m \in S : \A i \in DOMAIN Children(p, m) : Children(p, m)[i] \in S

WalkOf(p, node) ==
  {m \in Nodes(p) : \A S \in SUBSET Nodes(p) :
                      node \in S /\ WalkClosed(p, S) => m \in S}

EffectsWalked(p, effect, node) ==
  UNION {Own(p, effect, m) : m \in WalkOf(p, node)}

LEMMA WalkedLeast ==
    ASSUME program \in Programs, NEW node \in Nodes(program)
    PROVE  /\ node \in WalkOf(program, node)
           /\ WalkClosed(program, WalkOf(program, node))
           /\ WalkOf(program, node) \subseteq Nodes(program)
           /\ \A S \in SUBSET Nodes(program) :
                node \in S /\ WalkClosed(program, S)
                  => WalkOf(program, node) \subseteq S
<1>1. \A m \in Nodes(program) : \A i \in DOMAIN Children(program, m) :
        Children(program, m)[i] \in Nodes(program)
  <2> SUFFICES ASSUME NEW m \in Nodes(program), NEW i \in DOMAIN Children(program, m)
               PROVE  Children(program, m)[i] \in Nodes(program)
    OBVIOUS
  <2>1. QED  BY ChildrenTyped, ElementOfSeq
<1>2. WalkClosed(program, WalkOf(program, node))
  BY <1>1 DEF WalkClosed, WalkOf
<1>3. QED  BY <1>2 DEF WalkOf

\* The walk from a node is the node and the walks from its children.
LEMMA WalkedFromChild ==
    ASSUME program \in Programs, NEW node \in Nodes(program),
           NEW i \in DOMAIN Children(program, node)
    PROVE  /\ Children(program, node)[i] \in Nodes(program)
           /\ WalkOf(program, Children(program, node)[i]) \subseteq WalkOf(program, node)
<1>1. PICK child : child = Children(program, node)[i]
  OBVIOUS
<1>2. child \in Nodes(program)
  BY <1>1, ChildrenTyped, ElementOfSeq
<1>3. child \in WalkOf(program, node)
  BY <1>1, WalkedLeast DEF WalkClosed
<1>4. WalkOf(program, child) \subseteq WalkOf(program, node)
  BY <1>2, <1>3, WalkedLeast
<1>5. QED  BY <1>1, <1>2, <1>4

\* Entries hold what the walks from their nodes meet: closedness gives it.
LEMMA EntriesHoldWalk ==
    ASSUME IndexTypeOK, EntriesClosed, NEW key \in DOMAIN left
    PROVE  /\ EffectsWalked(program, key[1], key[2]) \subseteq left[key]
           /\ \A m \in WalkOf(program, key[2]) : <<key[1], m>> \in DOMAIN left
<1>1. PICK effect \in Effects, node \in Nodes(program) : key = <<effect, node>>
  BY DEF IndexTypeOK, Keys
<1>2. key[1] = effect /\ key[2] = node
  BY <1>1
<1> DEFINE S == {m \in Nodes(program) : /\ <<effect, m>> \in DOMAIN left
                                        /\ left[<<effect, m>>] \subseteq left[key]}
<1>3. node \in S
  BY <1>1
<1>4. \A m \in S : \A i \in DOMAIN Children(program, m) : Children(program, m)[i] \in S
  <2> SUFFICES ASSUME NEW m \in S, NEW i \in DOMAIN Children(program, m)
               PROVE  Children(program, m)[i] \in S
    OBVIOUS
  <2>1. PICK child \in Nodes(program) : child = Children(program, m)[i]
    BY WalkedFromChild DEF IndexTypeOK
  <2>2. PICK at \in DOMAIN left : at = <<effect, m>>
    OBVIOUS
  <2>3. at[1] = effect /\ at[2] = m
    BY <2>2
  <2>4. <<effect, child>> \in ChildKeys(program, effect, m)
    BY <2>1 DEF ChildKeys
  <2>5. /\ ChildKeys(program, effect, m) \subseteq DOMAIN left
        /\ left[at] = EntryOf(program, left, effect, m)
    BY <2>3 DEF EntriesClosed
  <2>6. left[<<effect, child>>] \subseteq left[at] /\ <<effect, child>> \in DOMAIN left
    BY <2>4, <2>5 DEF EntryOf
  <2>7. QED  BY <2>1, <2>2, <2>6
<1>5. WalkOf(program, node) \subseteq S
  BY <1>3, <1>4, WalkedLeast DEF IndexTypeOK, WalkClosed
<1>6. \A m \in S : Own(program, effect, m) \subseteq left[<<effect, m>>]
  <2> SUFFICES ASSUME NEW m \in S PROVE Own(program, effect, m) \subseteq left[<<effect, m>>]
    OBVIOUS
  <2>2. PICK at \in DOMAIN left : at = <<effect, m>>
    OBVIOUS
  <2>3. at[1] = effect /\ at[2] = m
    BY <2>2
  <2>4. QED  BY <2>2, <2>3 DEF EntriesClosed, EntryOf
<1>7. QED  BY <1>2, <1>5, <1>6 DEF EffectsWalked

\* And they hold nothing else: that is kept by the order of the walk, which
\* enters a node when its children are.
EntriesGrounded ==
  \A key \in DOMAIN left : left[key] \subseteq EffectsWalked(program, key[1], key[2])

LEMMA LeaveNodeGrounded ==
    ASSUME IndexInv, EntriesGrounded, LeaveNode
    PROVE  EntriesGrounded'
<1> USE DEF IndexInv
<1>1. PICK top \in Calls : top = Head(frames) /\ top = frames[1] /\ 1 \in DOMAIN frames
  BY PopElement DEF IndexTypeOK, LeaveNode
<1>2. PICK found : found = top.result \cup Own(program, top.effect, top.of)
  OBVIOUS
<1>3. PICK key : key = <<top.effect, top.of>>
  OBVIOUS
<1>4. /\ top.at = Len(Children(program, top.of))
      /\ left' = [k \in DOMAIN left \cup {key} |-> IF k = key THEN found ELSE left[k]]
      /\ program' = program
  BY <1>1, <1>2, <1>3 DEF LeaveNode
<1>5. PICK effect \in Effects, node \in Nodes(program) :
        top.effect = effect /\ top.of = node /\ key[1] = effect /\ key[2] = node
  BY <1>3 DEF Calls
<1>6. /\ found = EntryOf(program, left, effect, node)
      /\ ChildKeys(program, effect, node) \subseteq DOMAIN left
  BY <1>1, <1>2, <1>4, <1>5, WholeEntry DEF ResultsGathered
<1>7. \A k \in ChildKeys(program, effect, node) :
        left[k] \subseteq EffectsWalked(program, effect, node)
  <2> SUFFICES ASSUME NEW k \in ChildKeys(program, effect, node)
               PROVE  left[k] \subseteq EffectsWalked(program, effect, node)
    OBVIOUS
  <2>1. PICK i \in DOMAIN Children(program, node) :
          k = <<effect, Children(program, node)[i]>>
    BY DEF ChildKeys
  <2>2. PICK child : child = Children(program, node)[i]
    OBVIOUS
  <2>3. WalkOf(program, child) \subseteq WalkOf(program, node)
    BY <2>2, WalkedFromChild DEF IndexTypeOK
  <2>4. k[1] = effect /\ k[2] = child
    BY <2>1, <2>2
  <2>5. left[k] \subseteq EffectsWalked(program, effect, child)
    BY <1>6, <2>4 DEF EntriesGrounded
  <2>6. EffectsWalked(program, effect, child) \subseteq EffectsWalked(program, effect, node)
    BY <2>3 DEF EffectsWalked
  <2>7. QED  BY <2>5, <2>6
<1>8. Own(program, effect, node) \subseteq EffectsWalked(program, effect, node)
  BY WalkedLeast DEF EffectsWalked, IndexTypeOK
<1>9. found \subseteq EffectsWalked(program, effect, node)
  BY <1>6, <1>7, <1>8 DEF EntryOf
<1>10. \A k \in DOMAIN left' : left'[k] \subseteq EffectsWalked(program, k[1], k[2])
  BY <1>4, <1>5, <1>9 DEF EntriesGrounded
<1>12. ASSUME NEW k \in DOMAIN left'
       PROVE  left'[k] \subseteq EffectsWalked(program', k[1], k[2])
  BY <1>4, <1>10
<1>13. QED  BY <1>12 DEF EntriesGrounded

\* Nothing the constructors' loops have still to walk is forgotten.
RootsSettled ==
  \A effect \in Effects : \A n \in Procs(program) :
    \/ \E i \in DOMAIN pending : pending[i] = <<effect, n>>
    \/ \E i \in DOMAIN frames : frames[i].effect = effect /\ frames[i].of = ProcNode(n)
    \/ <<effect, ProcNode(n)>> \in DOMAIN left

LEMMA RootsSettledInit == IndexInit => RootsSettled
<1> SUFFICES ASSUME IndexInit, NEW effect \in Effects, NEW n \in Procs(program)
             PROVE  \E i \in DOMAIN pending : pending[i] = <<effect, n>>
  BY DEF RootsSettled
<1>1. /\ program.procs \in Seq(Nat)
      /\ Procs(program) = 1 .. Len(program.procs) /\ Len(program.procs) \in Nat
  BY ChildrenAssumption, LenProperties DEF IndexInit, Procs
<1>2. PICK k \in Nat : k = Len(program.procs)
  BY <1>1
<1>3. \A e \in Effects :
        /\ RootsFor(program, e) \in Seq(Effects \X Procs(program))
        /\ Len(RootsFor(program, e)) = k
        /\ \A m \in 1 .. k : RootsFor(program, e)[m] = <<e, m>>
  <2> SUFFICES ASSUME NEW e \in Effects
               PROVE  /\ RootsFor(program, e) \in Seq(Effects \X Procs(program))
                      /\ Len(RootsFor(program, e)) = k
                      /\ \A m \in 1 .. k : RootsFor(program, e)[m] = <<e, m>>
    OBVIOUS
  <2>1. RootsFor(program, e) \in [1 .. k -> Effects \X Procs(program)]
    BY <1>1, <1>2 DEF RootsFor
  <2>2. \A m \in 1 .. k : RootsFor(program, e)[m] = <<e, m>>
    BY <1>1, <1>2 DEF RootsFor
  <2>3. QED  BY <2>1, <2>2
<1>4. "modifies" \in Effects /\ "uses" \in Effects
      /\ (effect = "modifies" \/ effect = "uses")
  BY DEF Effects
<1>5. PICK ms \in Seq(Effects \X Procs(program)),
           us \in Seq(Effects \X Procs(program)) :
        /\ ms = RootsFor(program, "modifies") /\ us = RootsFor(program, "uses")
        /\ Len(ms) = k /\ Len(us) = k
        /\ \A m \in 1 .. k : ms[m] = <<"modifies", m>> /\ us[m] = <<"uses", m>>
  BY <1>3, <1>4
<1>6. /\ pending = ms \o us
  BY <1>5 DEF IndexInit
<1>7. /\ DOMAIN (ms \o us) = 1 .. k + k
      /\ \A m \in 1 .. k : (ms \o us)[m] = ms[m] /\ (ms \o us)[k + m] = us[m]
  <2>1. /\ ms \o us \in Seq(Effects \X Procs(program)) /\ Len(ms \o us) = k + k
        /\ \A m \in 1 .. k + k : (ms \o us)[m] = IF m <= k THEN ms[m] ELSE us[m - k]
    <3>1. /\ ms \o us \in Seq(Effects \X Procs(program)) /\ Len(ms \o us) = k + k
          /\ \A m \in 1 .. k + k : (ms \o us)[m] = IF m <= Len(ms) THEN ms[m] ELSE us[m - Len(ms)]
      <4>1. /\ ms \o us \in Seq(Effects \X Procs(program))
            /\ Len(ms \o us) = Len(ms) + Len(us)
            /\ \A m \in 1 .. Len(ms) + Len(us) :
                 (ms \o us)[m] = IF m <= Len(ms) THEN ms[m] ELSE us[m - Len(ms)]
        BY ConcatProperties, Zenon
      <4>2. Len(ms) + Len(us) = k + k
        BY <1>5
      <4>3. QED  BY <4>1, <4>2, Zenon
    <3>2. QED  BY <1>5, <3>1
  <2>2. DOMAIN (ms \o us) = 1 .. k + k
    BY <2>1, LenProperties
  <2>3. \A m \in 1 .. k : /\ m \in 1 .. k + k /\ m <= k
                          /\ k + m \in 1 .. k + k /\ ~(k + m <= k) /\ (k + m) - k = m
    OBVIOUS
  <2>4. ASSUME NEW m \in 1 .. k
        PROVE  (ms \o us)[m] = ms[m] /\ (ms \o us)[k + m] = us[m]
    BY <2>1, <2>3
  <2>5. QED  BY <2>2, <2>4
<1>8. n \in 1 .. k
  BY <1>1, <1>2
<1>9. CASE effect = "modifies"
  <2>1. n \in 1 .. k + k
    BY <1>8
  <2>2. n \in DOMAIN pending /\ pending[n] = <<effect, n>>
    BY <1>5, <1>6, <1>7, <1>8, <1>9, <2>1
  <2>3. QED  BY <2>2
<1>10. CASE effect = "uses"
  <2>1. k + n \in DOMAIN pending
    <3>1. k + n \in 1 .. k + k
      BY <1>8
    <3>2. QED  BY <1>6, <1>7, <3>1, Zenon
  <2>2. pending[k + n] = <<effect, n>>
    <3>1. pending[k + n] = us[n]
      BY <1>6, <1>7, <1>8, Zenon
    <3>2. us[n] = <<"uses", n>>
      BY <1>5, <1>8, Zenon
    <3>3. QED  BY <1>10, <3>1, <3>2, Zenon
  <2>3. QED  BY <2>1, <2>2
<1>11. QED  BY <1>4, <1>9, <1>10

LEMMA RootsSettledStep ==
    ASSUME IndexInv, RootsSettled, [IndexNext]_ivars
    PROVE  RootsSettled'
<1> USE DEF IndexInv
<1>1. /\ program' = program
      /\ \A key \in DOMAIN left : key \in DOMAIN left'
  BY LeaveNodeStays DEF IndexNext, IndexRoot, EnterNode, LeaveNode, ivars
<1> SUFFICES ASSUME NEW effect \in Effects, NEW n \in Procs(program),
                    <<effect, ProcNode(n)>> \notin DOMAIN left'
             PROVE  \/ \E i \in DOMAIN pending' : pending'[i] = <<effect, n>>
                    \/ \E i \in DOMAIN frames' : /\ frames'[i].effect = effect
                                                 /\ frames'[i].of = ProcNode(n)
  BY <1>1 DEF RootsSettled
<1>2. \/ \E i \in DOMAIN pending : pending[i] = <<effect, n>>
      \/ \E i \in DOMAIN frames : frames[i].effect = effect /\ frames[i].of = ProcNode(n)
  BY <1>1 DEF RootsSettled
<1>3. CASE UNCHANGED ivars
  BY <1>2, <1>3 DEF ivars
<1>4. CASE IndexRoot
  <2>1. PICK root \in Effects \X Procs(program) : root = Head(pending)
    BY <1>4, HeadTailProperties DEF IndexRoot, IndexTypeOK
  <2>2. PICK i \in DOMAIN pending : pending[i] = <<effect, n>>
    BY <1>2, <1>4 DEF IndexRoot
  <2>3. pending # <<>> /\ pending' = Tail(pending)
    BY <1>4 DEF IndexRoot
  <2>4. CASE i = 1
    <3>1. root = <<effect, n>>
      BY <2>1, <2>2, <2>3, <2>4, PopElement DEF IndexTypeOK
    <3>2. root[1] = effect /\ ProcNode(root[2]) = ProcNode(n) /\ ProcNode(n) \in Nodes(program)
      BY <3>1 DEF Nodes
    <3>3. PICK call \in Calls : call = Frame(effect, ProcNode(n))
      BY <3>2, FrameTyped
    <3>4. frames' = <<call>> /\ call.effect = effect /\ call.of = ProcNode(n)
      BY <1>4, <2>1, <3>2, <3>3, FrameTyped DEF IndexRoot
    <3>5. 1 \in DOMAIN frames' /\ frames'[1] = call
      BY <3>4
    <3>6. QED  BY <3>4, <3>5
  <2>5. CASE i # 1
    <3>1. i - 1 \in DOMAIN pending' /\ pending'[i - 1] = pending[i]
      BY <2>2, <2>3, <2>5, PopElement DEF IndexTypeOK
    <3>2. QED  BY <2>2, <3>1
  <2>6. QED  BY <2>4, <2>5
<1>5. CASE EnterNode
  <2>1. PICK top \in Calls : top = Head(frames) /\ top = frames[1] /\ 1 \in DOMAIN frames
    BY <1>5, PopElement DEF IndexTypeOK, EnterNode
  <2>2. PICK child : child = Children(program, top.of)[top.at + 1]
    OBVIOUS
  <2>3. child \in Nodes(program)
    <3>1. top.of \in Nodes(program) /\ top.at \in Nat
      BY <2>1 DEF Calls
    <3>2. top.at < Len(Children(program, top.of))
      BY <1>5, <2>1 DEF EnterNode
    <3>3. top.at + 1 \in DOMAIN Children(program, top.of)
      BY <3>1, <3>2, ChildrenTyped DEF IndexTypeOK
    <3>4. QED  BY <2>2, <3>1, <3>3, WalkedFromChild DEF IndexTypeOK
  <2>4. PICK call \in Calls : call = Frame(top.effect, child)
    BY <2>1, <2>3, FrameTyped DEF Calls
  <2>5. frames' = <<call>> \o frames /\ pending' = pending
    BY <1>5, <2>1, <2>2, <2>4 DEF EnterNode
  <2>6. \A i \in DOMAIN frames : i + 1 \in DOMAIN frames' /\ frames'[i + 1] = frames[i]
    <3>1. /\ DOMAIN frames' = 1 .. Len(frames) + 1
          /\ \A i \in DOMAIN frames : frames'[i + 1] = frames[i]
      BY <2>5, PushElement DEF IndexTypeOK
    <3>2. DOMAIN frames = 1 .. Len(frames) /\ Len(frames) \in Nat
      BY LenProperties DEF IndexTypeOK
    <3>3. QED  BY <3>1, <3>2
  <2>7. QED  BY <1>2, <2>5, <2>6
<1>6. CASE LeaveNode
  <2>1. PICK top \in Calls : top = Head(frames) /\ top = frames[1] /\ 1 \in DOMAIN frames
          /\ frames # <<>>
    BY <1>6, PopElement DEF IndexTypeOK, LeaveNode
  <2>2. /\ pending' = pending
        /\ <<top.effect, top.of>> \in DOMAIN left'
    BY <1>6, <2>1 DEF LeaveNode
  <2>3. PICK found \in SUBSET Extracted : frames' = Returning(found, Tail(frames))
    <3>1. top.result \cup Own(program, top.effect, top.of) \in SUBSET Extracted
      BY <2>1, OwnExtracted DEF Calls
    <3>2. frames' = Returning(top.result \cup Own(program, top.effect, top.of), Tail(frames))
      BY <1>6, <2>1 DEF LeaveNode
    <3>3. QED  BY <3>1, <3>2
  <2>4. SUFFICES ASSUME NEW i \in DOMAIN frames, frames[i].effect = effect,
                        frames[i].of = ProcNode(n)
                 PROVE  \E j \in DOMAIN frames' : /\ frames'[j].effect = effect
                                                 /\ frames'[j].of = ProcNode(n)
    BY <1>2, <2>2
  <2>5. i # 1
    BY <2>1, <2>2, <2>4
  <2>6. PICK callers \in Seq(Calls) : callers = Tail(frames)
    BY <2>1, PopElement DEF IndexTypeOK
  <2>7. i - 1 \in DOMAIN callers /\ callers[i - 1] = frames[i]
    BY <2>1, <2>5, <2>6, PopElement DEF IndexTypeOK
  <2>8. callers # <<>>
    BY <2>7
  <2>9. PICK caller \in Calls : caller = Head(callers) /\ caller = callers[1]
    BY <2>8, PopElement
  <2>10. PICK advanced : advanced = [caller EXCEPT !.at = @ + 1, !.result = @ \cup found]
    OBVIOUS
  <2>11. /\ advanced.effect = caller.effect /\ advanced.of = caller.of
         /\ advanced \in Calls
    <3>1. caller \in [effect : Effects, of : Nodes(program), at : Nat,
                      result : SUBSET Extracted]
      BY <2>9 DEF Calls
    <3>2. caller.at + 1 \in Nat /\ caller.result \cup found \in SUBSET Extracted
      BY <2>3, <3>1
    <3>3. QED  BY <2>10, <3>1, <3>2 DEF Calls
  <2>12. frames' = <<advanced>> \o Tail(callers)
    BY <2>3, <2>6, <2>8, <2>9, <2>10 DEF Returning
  <2>13. /\ DOMAIN frames' = DOMAIN callers
         /\ frames'[1] = advanced
         /\ \A j \in DOMAIN callers : j # 1 => frames'[j] = callers[j]
    BY <2>8, <2>11, <2>12, ReplaceElement
  <2>14. i - 1 \in DOMAIN frames' /\ frames'[i - 1].effect = effect
         /\ frames'[i - 1].of = ProcNode(n)
    <3>1. CASE i - 1 = 1
      BY <2>4, <2>7, <2>9, <2>11, <2>13, <3>1
    <3>2. CASE i - 1 # 1
      BY <2>4, <2>7, <2>13, <3>2
    <3>3. QED  BY <3>1, <3>2
  <2>15. QED  BY <2>14
<1>7. QED  BY <1>3, <1>4, <1>5, <1>6 DEF IndexNext

(***************************************************************************)
(* At every step of the constructors, for every program, recursive or not: *)
(* an entry of Modifies or Uses is what the nodes the walk from its node   *)
(* meets extract, all of them and nothing else; and when the constructors  *)
(* are over, all the walks from procedures meet has its entry              *)
(* (assign.cpp:103-186).                                                   *)
(***************************************************************************)
EntriesAreWalks ==
  /\ \A key \in DOMAIN left : left[key] = EffectsWalked(program, key[1], key[2])
  /\ Indexed =>
       \A effect \in Effects : \A n \in Procs(program) :
         \A node \in WalkOf(program, ProcNode(n)) :
           /\ <<effect, node>> \in DOMAIN left
           /\ get_right_vars(effect, node) = EffectsWalked(program, effect, node)

THEOREM EffectsAreWalks == IndexSpec => []EntriesAreWalks
<1>1. IndexInit => EntriesGrounded
  BY DEF IndexInit, EntriesGrounded
<1>2. ASSUME IndexInv, EntriesGrounded, [IndexNext]_ivars
      PROVE  EntriesGrounded'
  <2>1. CASE LeaveNode
    BY <1>2, <2>1, LeaveNodeGrounded
  <2>2. CASE left' = left /\ program' = program
    BY <1>2, <2>2 DEF EntriesGrounded, EffectsWalked, WalkOf, WalkClosed
  <2>3. QED  BY <1>2, <2>1, <2>2 DEF IndexNext, IndexRoot, EnterNode, ivars
<1>3. ASSUME IndexInv, EntriesGrounded, RootsSettled
      PROVE  EntriesAreWalks
  <2>1. ASSUME NEW key \in DOMAIN left
        PROVE  left[key] = EffectsWalked(program, key[1], key[2])
    BY <1>3, EntriesHoldWalk DEF EntriesGrounded, IndexInv
  <2>2. ASSUME Indexed, NEW effect \in Effects, NEW n \in Procs(program),
               NEW node \in WalkOf(program, ProcNode(n))
        PROVE  /\ <<effect, node>> \in DOMAIN left
               /\ get_right_vars(effect, node) = EffectsWalked(program, effect, node)
    <3>1. PICK root \in DOMAIN left : root = <<effect, ProcNode(n)>>
      <4>1. DOMAIN pending = {} /\ DOMAIN frames = {}
        BY <2>2 DEF Indexed
      <4>2. <<effect, ProcNode(n)>> \in DOMAIN left
        BY <1>3, <4>1 DEF RootsSettled
      <4>3. QED  BY <4>2
    <3>2. root[1] = effect /\ root[2] = ProcNode(n)
      BY <3>1
    <3>3. PICK key \in DOMAIN left : key = <<effect, node>>
      BY <1>3, <2>2, <3>2, EntriesHoldWalk DEF IndexInv
    <3>4. key[1] = effect /\ key[2] = node
      BY <3>3
    <3>5. QED  BY <2>1, <3>3, <3>4 DEF get_right_vars
  <2>3. QED  BY <2>1, <2>2 DEF EntriesAreWalks
<1>4. QED
  BY <1>1, <1>2, <1>3, RootsSettledInit, RootsSettledStep, AlwaysIndexInv, PTL
  DEF IndexSpec

------------------------------------------------------------------------------
(***************************************************************************)
(* The solver table.                                                       *)
(***************************************************************************)

\* What create_solver_table does is, on the tables of each constructor, what
\* that constructor does.
THEOREM TableRunsConstructors == TableSpec => Spec /\ IndexSpec
<1>1. TableInit => Init /\ IndexInit
  BY DEF TableInit
<1>2. [TableNext]_TableVars => [Next]_vars /\ [IndexNext]_ivars
  BY DEF TableNext, TableVars
<1>3. QED  BY <1>1, <1>2, PTL DEF TableSpec, Spec, IndexSpec

\* At every step of both constructors: Calls* holds nothing but calls, and
\* its two tables (icall.cpp) and those of Modifies and Uses (assign.cpp) are
\* one relation each, whatever the program.
THEOREM TablesStayRight ==
  TableSpec => [](NothingButCalls /\ TablesMirror /\ IndexesMirror)
BY TableRunsConstructors, OnlyCalls, OneRelation, EffectsMirror, PTL

\* Without recursion the entries of Calls* are complete from when their walks
\* end, and stay so while Modifies and Uses are built (solver_table.cpp).
THEOREM TableEntriesComplete == TableSpec => []EntriesComplete
BY TableRunsConstructors, EntriesAreComplete, PTL

Numbers(p) ==
  {Stmt(s) : s \in Statements(p)}
  \cup {Const(i) :
          i \in UNION {get_expr_consts(p, s) : s \in Statements(p)}}

LEMMA NameIndex ==
    ASSUME NEW p \in Programs, NEW x, NEW d
    PROVE  <<x, d>> \in name_index(p)
             <=> \/ d \in Named(p) /\ x = get_name(d)
                 \/ \E s \in Statements(p) : /\ kind(p, s) = "call"
                                             /\ d = Stmt(s)
                                             /\ x = ProcNames[get_proc_called(p, s)]
<1>1. <<x, d>> \in name_index(p)
        <=> \/ \E n \in Procs(p) : x = ProcNames[n] /\ d = Proc(n)
            \/ \E s \in Statements(p) : \E v \in VariablesOf(p, s) :
                 x = v /\ d = Var(v)
            \/ \E s \in Statements(p) : /\ kind(p, s) = "call"
                                        /\ d = Stmt(s)
                                        /\ x = ProcNames[get_proc_called(p, s)]
  <2>1. name_index(p)
          = {<<ProcNames[n], Proc(n)>> : n \in Procs(p)}
            \cup (UNION {{<<v, Var(v)>> : v \in VariablesOf(p, s)} :
                           s \in Statements(p)})
            \cup {<<ProcNames[get_proc_called(p, s)], Stmt(s)>> :
                    s \in {t \in Statements(p) : kind(p, t) = "call"}}
    BY ProgramsAssumption, AllWalked DEF name_index
  <2>2. QED  BY <2>1
<1>2. \A n : get_name(Proc(n)) = ProcNames[n]
  BY DEF get_name, Proc
<1>3. \A v : get_name(Var(v)) = v
  BY DEF get_name, Var
<1>4. \A v : v \in Variables(p) <=> \E s \in Statements(p) : v \in VariablesOf(p, s)
  BY DEF Variables, VariablesOf
<1>5. d \in Named(p) /\ x = get_name(d)
        <=> \/ \E n \in Procs(p) : x = ProcNames[n] /\ d = Proc(n)
            \/ \E s \in Statements(p) : \E v \in VariablesOf(p, s) :
                 x = v /\ d = Var(v)
  BY <1>2, <1>3, <1>4 DEF Named
<1>6. QED  BY <1>1, <1>5

LEMMA NumberIndex ==
    ASSUME NEW p \in Programs, NEW x, NEW d
    PROVE  <<x, d>> \in number_index(p)
             <=> d \in Numbers(p) /\ x = get_number(d)
<1>1. number_index(p)
        = {<<s, Stmt(s)>> : s \in Statements(p)}
          \cup (UNION {{<<i, Const(i)>> : i \in get_expr_consts(p, s)} :
                         s \in Statements(p)})
  BY ProgramsAssumption, AllWalked DEF number_index
<1>2. \A n : /\ get_number(Stmt(n)) = n
             /\ get_number(Const(n)) = n
  BY DEF get_number, Stmt, Const
<1>3. QED  BY <1>1, <1>2 DEF Numbers

LEMMA EqualAnswers ==
    ASSUME NEW p \in Programs, NEW c, NEW d
    PROVE  /\ c \in Named(p) =>
                /\ has_name(c) /\ ~has_number(c)
                /\ d \in solve_equal(p, c) <=> <<get_name(c), d>> \in name_index(p)
           /\ c \in Numbers(p) =>
                /\ has_number(c) /\ ~has_name(c)
                /\ d \in solve_equal(p, c)
                     <=> <<get_number(c), d>> \in number_index(p)
           /\ ~has_name(c) /\ ~has_number(c) => d \notin solve_equal(p, c)
<1>1. \A e \in name_index(p) : e = <<e[1], e[2]>>
  <2>1. \A e \in name_index(p) :
          \/ \E n \in Procs(p) : e = <<ProcNames[n], Proc(n)>>
          \/ \E v : e = <<v, Var(v)>>
          \/ \E s : e = <<ProcNames[get_proc_called(p, s)], Stmt(s)>>
    BY DEF name_index
  <2>2. QED  BY <2>1
<1>2. \A e \in number_index(p) : e = <<e[1], e[2]>>
  <2>1. \A e \in number_index(p) :
          \/ \E s : e = <<s, Stmt(s)>>
          \/ \E i : e = <<i, Const(i)>>
    BY DEF number_index
  <2>2. QED  BY <2>1
<1>3. ASSUME c \in Named(p) PROVE has_name(c) /\ ~has_number(c)
  BY <1>3 DEF Named, has_name, has_number, Proc, Var
<1>4. ASSUME c \in Numbers(p) PROVE has_number(c) /\ ~has_name(c)
  BY <1>4 DEF Numbers, has_name, has_number, Stmt, Const
<1>5. ASSUME has_name(c)
      PROVE  d \in solve_equal(p, c) <=> <<get_name(c), d>> \in name_index(p)
  <2>1. ~has_number(c)
    BY <1>5 DEF has_name, has_number
  <2>2. solve_equal(p, c)
          = {e[2] : e \in {i \in name_index(p) : i[1] = get_name(c)}}
    BY <1>5, <2>1 DEF solve_equal
  <2>3. QED  BY <1>1, <2>2
<1>6. ASSUME has_number(c), ~has_name(c)
      PROVE  d \in solve_equal(p, c) <=> <<get_number(c), d>> \in number_index(p)
  BY <1>2, <1>6 DEF solve_equal
<1>7. ~has_name(c) /\ ~has_number(c) => d \notin solve_equal(p, c)
  BY DEF solve_equal
<1>8. QED  BY <1>3, <1>4, <1>5, <1>6, <1>7

LEMMA EqualForms ==
    ASSUME NEW p \in Programs,
           NEW c \in Named(p) \cup Numbers(p) \cup {<<"operator", "+">>, <<"pattern", "x">>},
           NEW d \in Named(p) \cup Numbers(p) \cup {<<"operator", "+">>, <<"pattern", "x">>},
           has_name(c) <=> has_name(d)
    PROVE  /\ d \in solve_equal(p, c) <=> c \in solve_equal(p, d)
           /\ d \in solve_equal(p, c) => validate_equal(p, c, d) \/ c = Const(0)
           /\ has_name(c) => (d \in solve_equal(p, c) <=> validate_equal(p, c, d))
<1>0. \A e \in {<<"operator", "+">>, <<"pattern", "x">>} :
        /\ ~has_name(e) /\ ~has_number(e)
        /\ e \notin Named(p) /\ e \notin Numbers(p)
  BY DEF has_name, has_number, Named, Numbers, Proc, Var, Stmt, Const
<1>1. \A e \in Named(p) : has_name(e) /\ ~has_number(e)
  BY EqualAnswers
<1>2. \A e \in Numbers(p) : has_number(e) /\ ~has_name(e)
  BY EqualAnswers
<1>3. \A e : e \in Named(p) => \A s : e # Stmt(s)
  BY DEF Named, Proc, Var, Stmt
<1>4. CASE c \in Named(p)
  <2>1. d \in Named(p)
    BY <1>0, <1>1, <1>2, <1>4
  <2>2. d \in solve_equal(p, c) <=> get_name(c) = get_name(d)
    <3>1. d \in solve_equal(p, c) <=> <<get_name(c), d>> \in name_index(p)
      BY <1>4, EqualAnswers
    <3>2. QED  BY <1>3, <2>1, <3>1, NameIndex
  <2>3. c \in solve_equal(p, d) <=> get_name(d) = get_name(c)
    <3>1. c \in solve_equal(p, d) <=> <<get_name(d), c>> \in name_index(p)
      BY <2>1, EqualAnswers
    <3>2. QED  BY <1>3, <1>4, <3>1, NameIndex
  <2>4. validate_equal(p, c, d) <=> get_name(c) = get_name(d)
    BY <1>1, <1>4, <2>1 DEF validate_equal
  <2>5. QED  BY <2>2, <2>3, <2>4
<1>5. CASE c \in Numbers(p)
  <2>1. d \in Numbers(p) \/ (~has_name(d) /\ ~has_number(d) /\ d \notin Numbers(p))
    BY <1>0, <1>1, <1>2, <1>5
  <2>2. d \in solve_equal(p, c)
          <=> d \in Numbers(p) /\ get_number(c) = get_number(d)
    <3>1. d \in solve_equal(p, c) <=> <<get_number(c), d>> \in number_index(p)
      BY <1>5, EqualAnswers
    <3>2. QED  BY <3>1, NumberIndex
  <2>3. d \in Numbers(p) =>
          (c \in solve_equal(p, d) <=> get_number(d) = get_number(c))
    <3>1. d \in Numbers(p) => (c \in solve_equal(p, d)
                                 <=> <<get_number(d), c>> \in number_index(p))
      BY EqualAnswers
    <3>2. QED  BY <1>5, <3>1, NumberIndex
  <2>4. d \notin Numbers(p) => c \notin solve_equal(p, d)
    BY <2>1, EqualAnswers
  <2>5. get_number(c) = 0 => c = Const(0)
    <3>1. CASE \E s \in Statements(p) : c = Stmt(s)
      BY <3>1, ProgramsAssumption, TreeLines DEF Stmt, get_number, NoStmt
    <3>2. CASE \E i : c = Const(i)
      BY <3>2 DEF Const, get_number
    <3>3. QED  BY <1>5, <3>1, <3>2 DEF Numbers
  <2>6. d \in Numbers(p) =>
          (validate_equal(p, c, d) <=> get_number(c) # 0 /\ get_number(d) # 0)
    BY <1>2, <1>5 DEF validate_equal
  <2>7. ~has_name(c)
    BY <1>2, <1>5
  <2>8. QED  BY <2>2, <2>3, <2>4, <2>5, <2>6, <2>7
<1>6. CASE c \in {<<"operator", "+">>, <<"pattern", "x">>}
  <2>1. ~has_name(c) /\ ~has_number(c) /\ c \notin Numbers(p) /\ c \notin Named(p)
    BY <1>0, <1>6
  <2>2. d \notin solve_equal(p, c)
    BY <2>1, EqualAnswers
  <2>3. c \notin solve_equal(p, d)
    <3>1. d \notin Named(p)
      BY <1>1, <2>1
    <3>2. CASE d \in Numbers(p)
      BY <2>1, <3>2, EqualAnswers, NumberIndex
    <3>3. CASE d \notin Numbers(p)
      BY <1>0, <3>1, <3>3, EqualAnswers
    <3>4. QED  BY <3>2, <3>3
  <2>4. QED  BY <2>1, <2>2, <2>3
<1>7. QED  BY <1>4, <1>5, <1>6

LEMMA EqualUnlike ==
    ASSUME NEW p, NEW c, NEW d, ~(has_name(c) <=> has_name(d))
    PROVE  ~validate_equal(p, c, d)
<1>1. \A e : has_name(e) => ~has_number(e)
  BY DEF has_name, has_number
<1>2. QED  BY <1>1 DEF validate_equal

------------------------------------------------------------------------------
(* Calls*, and Modifies and Uses: the tables at every step.                *)
WalkersIndexed ==
  /\ \A i \in DOMAIN stack : stack[i].proc \in indexed
  /\ \A a \in Procedures : calls_table[a] # {} => a \in indexed

LEMMA WalkersStep ==
    ASSUME Typed, WalkersIndexed, [Next]_vars
    PROVE  WalkersIndexed'
<1> USE DEF Typed
<1>0. /\ Caller \in Procedures /\ Callee \in Procedures => Waits.proc = Caller /\ Left.proc = Caller
      /\ Entered.proc = Callee
  BY DEF Waits, Left, Entered, Walk
<1>1. CASE WalkRoot
  <2>1. PICK r \in Seq(Procedures) : r = roots
    BY DEF TypeOK
  <2>2. Head(r) \in Procedures /\ r # <<>>
    BY <1>1, <2>1, PopElement DEF WalkRoot
  <2>3. calls[Head(r)] \in Seq(Procedures)
    BY <2>2 DEF TypeOK
  <2>4. PICK w \in Walks : w = Walk(Head(r), calls[Head(r)], FALSE) /\ w.proc = Head(r)
    <3>1. Walk(Head(r), calls[Head(r)], FALSE) \in Walks
      BY <2>2, <2>3 DEF Walk, Walks
    <3>2. Walk(Head(r), calls[Head(r)], FALSE).proc = Head(r)
      BY DEF Walk
    <3>3. QED  BY <3>1, <3>2
  <2>5. /\ stack' = <<w>> /\ indexed' = indexed \cup {Head(r)} /\ calls_table' = calls_table
    BY <1>1, <2>1, <2>4 DEF WalkRoot
  <2>6. <<w>>[1] = w /\ \A i \in DOMAIN <<w>> : i = 1
    BY OneElement
  <2>7. QED  BY <2>4, <2>5, <2>6 DEF WalkersIndexed
<1>2. CASE EnterCall
  <2>1. stack # <<>> /\ Head(stack).todo # <<>>
    BY <1>2 DEF EnterCall
  <2>2. Caller \in Procedures /\ Callee \in Procedures
    BY <2>1, CallTyped
  <2>3. /\ calls_table'  = [calls_table EXCEPT ![Caller] = @ \cup {Callee}]
        /\ indexed' = indexed \cup {Callee}
    BY <1>2 DEF EnterCall, Caller, Callee
  <2>4. Caller \in indexed
    BY <2>1, TopWalk DEF WalkersIndexed, Caller
  <2>5. \A a \in Procedures : calls_table'[a] # {} => a \in indexed'
    BY <2>2, <2>3, <2>4 DEF WalkersIndexed, TypeOK
  <2>6. CASE Callee \in indexed
    <3>1. /\ DOMAIN stack' = DOMAIN stack
          /\ stack'[1] = Waits
          /\ \A i \in DOMAIN stack : i # 1 => stack'[i] = stack[i]
      BY <1>2, <2>1, <2>6, CallTyped, EntersKnown, ReplaceWalk
    <3>2. QED  BY <1>0, <2>2, <2>3, <2>4, <2>5, <3>1 DEF WalkersIndexed
  <2>7. CASE Callee \notin indexed
    <3>1. /\ stack'[1] = Entered
          /\ stack'[2] = Waits
          /\ \A i \in DOMAIN stack' :
               \/ i = 1
               \/ i = 2
               \/ i - 1 \in DOMAIN stack /\ stack'[i] = stack[i - 1]
      BY <1>2, <2>1, <2>7, CallTyped, EntersNew, PushWalk
    <3>2. QED  BY <1>0, <2>2, <2>3, <2>4, <2>5, <3>1 DEF WalkersIndexed
  <2>8. QED  BY <2>6, <2>7
<1>3. CASE JoinCallee
  <2>1. stack # <<>> /\ Head(stack).todo # <<>>
    BY <1>3, TopWalk DEF JoinCallee, WalksExpect, WalkExpects
  <2>2. stack' = <<Left>> \o Tail(stack)
    BY <1>3 DEF JoinCallee, Left, Caller
  <2>3. /\ DOMAIN stack' = DOMAIN stack
        /\ stack'[1] = Left
        /\ \A i \in DOMAIN stack : i # 1 => stack'[i] = stack[i]
    BY <2>1, <2>2, CallTyped, ReplaceWalk
  <2>4. /\ calls_table' = [calls_table EXCEPT ![Caller] = @ \cup calls_table[Callee]]
        /\ indexed' = indexed
    BY <1>3 DEF JoinCallee, Caller, Callee
  <2>5. Caller \in indexed /\ Caller \in Procedures /\ Callee \in Procedures
    BY <2>1, TopWalk, CallTyped DEF WalkersIndexed, Caller
  <2>6. \A a \in Procedures : calls_table'[a] # {} => a \in indexed'
    BY <2>4, <2>5 DEF WalkersIndexed, TypeOK
  <2>7. QED  BY <1>0, <2>3, <2>4, <2>5, <2>6 DEF WalkersIndexed
<1>4. CASE LeaveProc
  <2>1. stack # <<>> /\ stack' = Tail(stack)
    BY <1>4 DEF LeaveProc
  <2>2. \A i \in DOMAIN stack' : \E j \in DOMAIN stack : stack'[i] = stack[j]
    BY <2>1, PopWalk
  <2>3. QED  BY <1>4, <2>2 DEF WalkersIndexed, LeaveProc
<1>5. CASE UNCHANGED vars
  BY <1>5 DEF WalkersIndexed, vars
<1>6. QED  BY <1>1, <1>2, <1>3, <1>4, <1>5 DEF Next

LEMMA ICallsForms ==
    ASSUME Typed, WalkersIndexed, TablesMirror, NEW a \in Procedures, NEW b \in Procedures
    PROVE  /\ b \in solve_icalls_right(a) <=> a \in solve_icalls_left(b)
           /\ b \in solve_icalls_right(a) <=> validate_icalls(a, b)
<1>1. b \in calls_table[a] => a \in indexed
  BY DEF WalkersIndexed
<1>2. b \in calls_table[a] <=> a \in called_table[b]
  BY DEF TablesMirror
<1>3. QED  BY <1>1, <1>2 DEF solve_icalls_right, solve_icalls_left, validate_icalls

RightTriples == \A e \in right : e = <<e[1], e[2], e[3]>>

LEMMA RightTriplesStep ==
    ASSUME RightTriples, [IndexNext]_ivars
    PROVE  RightTriples'
<1>1. CASE LeaveNode
  <2> DEFINE call == Head(frames)
             found == call.result \cup Own(program, call.effect, call.of)
  <2>1. right' = right \cup {<<call.effect, v, call.of>> : v \in found}
    BY <1>1 DEF LeaveNode
  <2> HIDE DEF call, found
  <2>2. QED  BY <2>1 DEF RightTriples
<1>2. CASE IndexRoot \/ EnterNode \/ UNCHANGED ivars
  BY <1>2 DEF RightTriples, IndexRoot, EnterNode, ivars
<1>3. QED  BY <1>1, <1>2 DEF IndexNext

LEMMA EffectForms ==
    ASSUME RightIsLeft, RightTriples, NEW effect, NEW v, NEW node
    PROVE  v \in get_right_vars(effect, node) <=> node \in solve_effect_left(effect, v)
<1>1. node \in solve_effect_left(effect, v) <=> <<effect, v, node>> \in right
  BY DEF solve_effect_left, RightTriples
<1>2. QED  BY <1>1 DEF RightIsLeft, get_right_vars

------------------------------------------------------------------------------
(* The generator: conditions of every kind, and the solver each goes to.   *)
LEMMA ConditionShapes ==
    ASSUME NEW c \in Conditions
    PROVE  /\ IsStmt(c) => c = Stmt(c[2]) /\ c[2] \in Statements(program)
           /\ IsProc(c) => c = Proc(c[2]) /\ c[2] \in Procs(program)
           /\ IsVar(c) => c = Var(c[2])
           /\ c \in Named(program) \cup Numbers(program)
                    \cup {<<"operator", "+">>, <<"pattern", "x">>}
<1>1. \/ \E s \in Statements(program) : c = Stmt(s)
      \/ \E n \in Procs(program) : c = Proc(n)
      \/ \E v \in Variables(program) : c = Var(v)
      \/ \E i \in UNION {get_expr_consts(program, s) : s \in Statements(program)} :
           c = Const(i)
      \/ c \in {<<"operator", "+">>, <<"pattern", "x">>}
  BY DEF Conditions, Nodes, Of, StmtNode, ProcNode, Stmt, Proc
<1>2. c \in Named(program) \cup Numbers(program) \cup {<<"operator", "+">>, <<"pattern", "x">>}
  BY <1>1 DEF Named, Numbers
<1>3. QED
  BY <1>1, <1>2 DEF IsStmt, IsProc, IsVar, Stmt, Proc, Var, Const

LEMMA Tagged ==
    ASSUME NEW d \in Conditions, NEW X
    PROVE  /\ (\E x \in X : d = Stmt(x)) <=> IsStmt(d) /\ d[2] \in X
           /\ (\E x \in X : d = Proc(x)) <=> IsProc(d) /\ d[2] \in X
           /\ (\E x \in X : d = Var(x)) <=> IsVar(d) /\ d[2] \in X
<1>1. (\E x \in X : d = Stmt(x)) <=> IsStmt(d) /\ d[2] \in X
  BY ConditionShapes DEF IsStmt, Stmt
<1>2. (\E x \in X : d = Proc(x)) <=> IsProc(d) /\ d[2] \in X
  BY ConditionShapes DEF IsProc, Proc
<1>3. (\E x \in X : d = Var(x)) <=> IsVar(d) /\ d[2] \in X
  BY ConditionShapes DEF IsVar, Var
<1>4. QED  BY <1>1, <1>2, <1>3

\* One relation after the other: what its solvers decide.
LEMMA FollowsDecided ==
    ASSUME program \in Programs, NEW c \in Conditions, NEW d \in Conditions
    PROVE  Decides("follows", c, d)
<1>1. d \in solve_right("follows", c)
        <=> IsStmt(c) /\ IsStmt(d) /\ d[2] \in solve_follows_right(program, c[2])
  <2>1. d \in solve_right("follows", c)
          <=> IsStmt(c) /\ \E x \in solve_follows_right(program, c[2]) : d = Stmt(x)
    BY DEF solve_right, Of, Effects
  <2>2. QED  BY <2>1, Tagged
<1>2. c \in solve_left("follows", d)
        <=> IsStmt(c) /\ IsStmt(d) /\ c[2] \in solve_follows_left(program, d[2])
  <2>1. c \in solve_left("follows", d)
          <=> IsStmt(d) /\ \E x \in solve_follows_left(program, d[2]) : c = Stmt(x)
    BY DEF solve_left, Of, Effects
  <2>2. QED  BY <2>1, Tagged
<1>3. validate("follows", c, d)
        <=> IsStmt(c) /\ IsStmt(d) /\ validate_follows(program, c[2], d[2])
  BY DEF validate, Effects
<1>4. QED  BY <1>1, <1>2, <1>3, ConditionShapes, ProgramsAssumption, TreeFormsAgree DEF Decides

LEMMA IFollowsDecided ==
    ASSUME program \in Programs, NEW c \in Conditions, NEW d \in Conditions
    PROVE  Decides("ifollows", c, d)
<1>1. d \in solve_right("ifollows", c)
        <=> IsStmt(c) /\ IsStmt(d) /\ d[2] \in solve_ifollows_right(program, c[2])
  <2>1. d \in solve_right("ifollows", c)
          <=> IsStmt(c) /\ \E x \in solve_ifollows_right(program, c[2]) : d = Stmt(x)
    BY DEF solve_right, Of, Effects
  <2>2. QED  BY <2>1, Tagged
<1>2. c \in solve_left("ifollows", d)
        <=> IsStmt(c) /\ IsStmt(d) /\ c[2] \in solve_ifollows_left(program, d[2])
  <2>1. c \in solve_left("ifollows", d)
          <=> IsStmt(d) /\ \E x \in solve_ifollows_left(program, d[2]) : c = Stmt(x)
    BY DEF solve_left, Of, Effects
  <2>2. QED  BY <2>1, Tagged
<1>3. validate("ifollows", c, d)
        <=> IsStmt(c) /\ IsStmt(d) /\ validate_ifollows(program, c[2], d[2])
  BY DEF validate, Effects
<1>4. QED  BY <1>1, <1>2, <1>3, ConditionShapes, ProgramsAssumption, TreeFormsAgree DEF Decides

LEMMA ParentDecided ==
    ASSUME program \in Programs, NEW c \in Conditions, NEW d \in Conditions
    PROVE  Decides("parent", c, d)
<1>1. d \in solve_right("parent", c)
        <=> IsStmt(c) /\ IsStmt(d) /\ d[2] \in solve_parent_right(program, c[2])
  <2>1. d \in solve_right("parent", c)
          <=> IsStmt(c) /\ \E x \in solve_parent_right(program, c[2]) : d = Stmt(x)
    BY DEF solve_right, Of, Effects
  <2>2. QED  BY <2>1, Tagged
<1>2. c \in solve_left("parent", d)
        <=> IsStmt(c) /\ IsStmt(d) /\ c[2] \in solve_parent_left(program, d[2])
  <2>1. c \in solve_left("parent", d)
          <=> IsStmt(d) /\ \E x \in solve_parent_left(program, d[2]) : c = Stmt(x)
    BY DEF solve_left, Of, Effects
  <2>2. QED  BY <2>1, Tagged
<1>3. validate("parent", c, d)
        <=> IsStmt(c) /\ IsStmt(d) /\ validate_parent(program, c[2], d[2])
  BY DEF validate, Effects
<1>4. QED  BY <1>1, <1>2, <1>3, ConditionShapes, ProgramsAssumption, TreeFormsAgree DEF Decides

LEMMA IParentDecided ==
    ASSUME program \in Programs, NEW c \in Conditions, NEW d \in Conditions
    PROVE  Decides("iparent", c, d)
<1>1. d \in solve_right("iparent", c)
        <=> IsStmt(c) /\ IsStmt(d) /\ d[2] \in solve_iparent_right(program, c[2])
  <2>1. d \in solve_right("iparent", c)
          <=> IsStmt(c) /\ \E x \in solve_iparent_right(program, c[2]) : d = Stmt(x)
    BY DEF solve_right, Of, Effects
  <2>2. QED  BY <2>1, Tagged
<1>2. c \in solve_left("iparent", d)
        <=> IsStmt(c) /\ IsStmt(d) /\ c[2] \in solve_iparent_left(program, d[2])
  <2>1. c \in solve_left("iparent", d)
          <=> IsStmt(d) /\ \E x \in solve_iparent_left(program, d[2]) : c = Stmt(x)
    BY DEF solve_left, Of, Effects
  <2>2. QED  BY <2>1, Tagged
<1>3. validate("iparent", c, d)
        <=> IsStmt(c) /\ IsStmt(d) /\ validate_iparent(program, c[2], d[2])
  BY DEF validate, Effects
<1>4. QED  BY <1>1, <1>2, <1>3, ConditionShapes, ProgramsAssumption, TreeFormsAgree DEF Decides

LEMMA NextDecided ==
    ASSUME program \in Programs, NEW c \in Conditions, NEW d \in Conditions
    PROVE  Decides("next", c, d)
<1>1. d \in solve_right("next", c)
        <=> IsStmt(c) /\ IsStmt(d) /\ d[2] \in solve_next(program, c[2])
  <2>1. d \in solve_right("next", c)
          <=> IsStmt(c) /\ \E x \in solve_next(program, c[2]) : d = Stmt(x)
    BY DEF solve_right, Of, Effects
  <2>2. QED  BY <2>1, Tagged
<1>2. c \in solve_left("next", d)
        <=> IsStmt(c) /\ IsStmt(d) /\ c[2] \in solve_previous(program, d[2])
  <2>1. c \in solve_left("next", d)
          <=> IsStmt(d) /\ \E x \in solve_previous(program, d[2]) : c = Stmt(x)
    BY DEF solve_left, Of, Effects
  <2>2. QED  BY <2>1, Tagged
<1>3. validate("next", c, d)
        <=> IsStmt(c) /\ IsStmt(d) /\ validate_next(program, c[2], d[2])
  BY DEF validate, Effects
<1>4. QED  BY <1>1, <1>2, <1>3, ConditionShapes, ProgramsAssumption, NextForms DEF Decides

LEMMA CallsDecided ==
    ASSUME program \in Programs, NEW c \in Conditions, NEW d \in Conditions
    PROVE  Decides("calls", c, d)
<1>1. d \in solve_right("calls", c)
        <=> IsProc(c) /\ IsProc(d) /\ d[2] \in solve_called_procs(program, c[2])
  <2>1. d \in solve_right("calls", c)
          <=> IsProc(c) /\ \E x \in solve_called_procs(program, c[2]) : d = Proc(x)
    BY DEF solve_right, Of, Effects
  <2>2. QED  BY <2>1, Tagged
<1>2. c \in solve_left("calls", d)
        <=> IsProc(c) /\ IsProc(d) /\ c[2] \in solve_calling_procs(program, d[2])
  <2>1. c \in solve_left("calls", d)
          <=> IsProc(d) /\ \E x \in solve_calling_procs(program, d[2]) : c = Proc(x)
    BY DEF solve_left, Of, Effects
  <2>2. QED  BY <2>1, Tagged
<1>3. validate("calls", c, d)
        <=> IsProc(c) /\ IsProc(d) /\ d[2] \in solve_called_procs(program, c[2])
  BY DEF validate, Effects
<1>4. QED  BY <1>1, <1>2, <1>3, ConditionShapes, CallsForms DEF Decides

LEMMA ICallsDecided ==
    ASSUME program \in Programs, Typed, WalkersIndexed, TablesMirror,
           NEW c \in Conditions, NEW d \in Conditions
    PROVE  Decides("icalls", c, d)
<1>1. d \in solve_right("icalls", c)
        <=> IsProc(c) /\ IsProc(d) /\ d[2] \in solve_icalls_right(c[2])
  <2>1. d \in solve_right("icalls", c)
          <=> IsProc(c) /\ \E x \in solve_icalls_right(c[2]) : d = Proc(x)
    BY DEF solve_right, Of, Effects
  <2>2. QED  BY <2>1, Tagged
<1>2. c \in solve_left("icalls", d)
        <=> IsProc(c) /\ IsProc(d) /\ c[2] \in solve_icalls_left(d[2])
  <2>1. c \in solve_left("icalls", d)
          <=> IsProc(d) /\ \E x \in solve_icalls_left(d[2]) : c = Proc(x)
    BY DEF solve_left, Of, Effects
  <2>2. QED  BY <2>1, Tagged
<1>3. validate("icalls", c, d)
        <=> IsProc(c) /\ IsProc(d) /\ validate_icalls(c[2], d[2])
  BY DEF validate, Effects
<1>4. QED  BY <1>1, <1>2, <1>3, ConditionShapes, ICallsForms, ProgramsAssumption DEF Decides

LEMMA EffectsDecided ==
    ASSUME IndexTypeOK, RightIsLeft, RightTriples, NEW name \in Effects,
           NEW c \in Conditions, NEW d \in Conditions
    PROVE  Decides(name, c, d)
<1>0. name \notin {"follows", "ifollows", "parent", "iparent", "next", "calls", "icalls",
                   "equal", "direct_uses", "contains", "icontains", "sibling"}
  BY DEF Effects
<1>1. d \in solve_right(name, c)
        <=> (IsStmt(c) \/ IsProc(c)) /\ IsVar(d) /\ d[2] \in get_right_vars(name, c)
  <2>1. d \in solve_right(name, c)
          <=> (IsStmt(c) \/ IsProc(c)) /\ \E x \in get_right_vars(name, c) : d = Var(x)
    BY <1>0 DEF solve_right, Of
  <2>2. QED  BY <2>1, Tagged
<1>2. c \in solve_left(name, d) <=> IsVar(d) /\ c \in solve_effect_left(name, d[2])
  BY <1>0 DEF solve_left
<1>3. validate(name, c, d)
        <=> (IsStmt(c) \/ IsProc(c)) /\ IsVar(d) /\ d[2] \in get_right_vars(name, c)
  BY <1>0 DEF validate
<1>4. d[2] \in get_right_vars(name, c) <=> c \in solve_effect_left(name, d[2])
  BY EffectForms
<1>5. d[2] \in get_right_vars(name, c) => IsStmt(c) \/ IsProc(c)
  <2>1. ASSUME <<name, c>> \in DOMAIN left PROVE IsStmt(c) \/ IsProc(c)
    <3>1. c \in Nodes(program)
      BY <2>1 DEF IndexTypeOK, Keys
    <3>2. QED  BY <3>1 DEF Nodes, StmtNode, ProcNode, IsStmt, IsProc
  <2>2. QED  BY <2>1 DEF get_right_vars
<1>6. QED  BY <1>0, <1>1, <1>2, <1>3, <1>4, <1>5 DEF Decides

LEMMA EqualDecided ==
    ASSUME program \in Programs, NEW c \in Conditions, NEW d \in Conditions
    PROVE  Decides("equal", c, d)
<1>1. /\ d \in solve_right("equal", c) <=> d \in solve_equal(program, c)
      /\ c \in solve_left("equal", d) <=> c \in solve_equal(program, d)
      /\ validate("equal", c, d) <=> validate_equal(program, c, d)
  BY DEF solve_right, solve_left, validate, Effects
<1>2. CASE has_name(c) <=> has_name(d)
  <2>1. /\ d \in solve_equal(program, c) <=> c \in solve_equal(program, d)
        /\ d \in solve_equal(program, c)
             => validate_equal(program, c, d) \/ c = Const(0)
        /\ has_name(c)
             => (d \in solve_equal(program, c) <=> validate_equal(program, c, d))
    BY <1>2, ConditionShapes, EqualForms
  <2>2. QED  BY <1>1, <1>2, <2>1 DEF Decides
<1>3. CASE ~(has_name(c) <=> has_name(d))
  <2>1. ~validate_equal(program, c, d)
    BY <1>3, EqualUnlike
  <2>2. QED  BY <1>1, <1>3, <2>1 DEF Decides
<1>4. QED  BY <1>2, <1>3

LEMMA DirectUsesDecided ==
    ASSUME program \in Programs, NEW c \in Conditions, NEW d \in Conditions
    PROVE  Decides("direct_uses", c, d)
<1>1. d \in solve_right("direct_uses", c)
        <=> IsStmt(c) /\ IsVar(d) /\ d[2] \in solve_direct_uses_right(program, c[2])
  <2>1. d \in solve_right("direct_uses", c)
          <=> IsStmt(c) /\ \E x \in solve_direct_uses_right(program, c[2]) : d = Var(x)
    BY DEF solve_right, Of, Effects
  <2>2. QED  BY <2>1, Tagged
<1>2. c \in solve_left("direct_uses", d)
        <=> IsStmt(c) /\ IsVar(d) /\ c[2] \in solve_direct_uses_left(program, d[2])
  <2>1. c \in solve_left("direct_uses", d)
          <=> IsVar(d) /\ \E x \in solve_direct_uses_left(program, d[2]) : c = Stmt(x)
    BY DEF solve_left, Of, Effects
  <2>2. QED  BY <2>1, Tagged
<1>3. QED  BY <1>1, <1>2, ConditionShapes, ProgramsAssumption, DirectUsesForms DEF Decides

LEMMA ContainsDecided ==
    ASSUME NEW name \in {"contains", "icontains"}, NEW c \in Conditions, NEW d \in Conditions
    PROVE  Decides(name, c, d)
<1>1. d \in solve_right(name, c)
        <=> d \in solve_contains_right(program, name = "icontains", c)
  BY DEF solve_right, Effects
<1>2. c \in solve_left(name, d)
        <=> c \in solve_contains_left(program, name = "icontains", d)
  BY DEF solve_left, Effects
<1>3. validate(name, d, c)
        <=> validate_contains(program, name = "icontains", d, c)
  BY DEF validate, Effects
<1>4. QED  BY <1>1, <1>2, <1>3, ContainsForms DEF Decides

LEMMA SiblingDecided ==
    ASSUME NEW c \in Conditions, NEW d \in Conditions
    PROVE  Decides("sibling", c, d)
<1>1. /\ d \in solve_right("sibling", c) <=> d \in solve_sibling_right(program, c)
      /\ c \in solve_left("sibling", d) <=> c \in solve_sibling_left(program, d)
      /\ validate("sibling", c, d) <=> validate_sibling(program, c, d)
  BY DEF solve_right, solve_left, validate, Effects
<1>2. QED  BY <1>1, SiblingForms DEF Decides

LEMMA EveryNameDecided ==
    ASSUME IndexInv, RightTriples, Typed, WalkersIndexed, TablesMirror
    PROVE  SolversDecide
<1>1. program \in Programs
  BY DEF IndexInv, IndexTypeOK
<1>2. ASSUME NEW name \in Names, NEW c \in Conditions, NEW d \in Conditions
      PROVE  Decides(name, c, d)
  <2>1. CASE name \in {"follows", "ifollows", "parent", "iparent", "next"}
    BY <1>1, <2>1, FollowsDecided, IFollowsDecided, ParentDecided, IParentDecided, NextDecided
  <2>2. CASE name \in {"calls", "icalls", "equal", "direct_uses"}
    BY <1>1, <2>2, CallsDecided, ICallsDecided, EqualDecided, DirectUsesDecided
  <2>3. CASE name \in {"modifies", "uses"}
    BY <2>3, EffectsDecided DEF Effects, IndexInv
  <2>4. CASE name \in {"contains", "icontains"}
    BY <2>4, ContainsDecided
  <2>5. CASE name = "sibling"
    BY <2>5, SiblingDecided
  <2>6. QED  BY <2>1, <2>2, <2>3, <2>4, <2>5 DEF Names
<1>3. QED  BY <1>2 DEF SolversDecide

(***************************************************************************)
(* Whatever the program and the conditions, the three functions of each of *)
(* the fourteen solvers that search nothing decide one relation, but for   *)
(* the deviations that Decides names (solver_generator.h:33-233).          *)
(***************************************************************************)
THEOREM SolversAlwaysDecide == TableSpec => []SolversDecide
<1> DEFINE CallsInv == Typed /\ WalkersIndexed
           EffectsInv == IndexInv /\ RightTriples
<1>1. Spec => []CallsInv
  <2>1. Init => CallsInv
    BY TypedInit DEF Init, WalkersIndexed
  <2>2. CallsInv /\ [Next]_vars => CallsInv'
    BY TypedStep, WalkersStep
  <2>3. QED  BY <2>1, <2>2, PTL DEF Spec
<1>2. IndexSpec => []EffectsInv
  <2>1. IndexInit => EffectsInv
    BY IndexInitInv DEF IndexInit, RightTriples
  <2>2. EffectsInv /\ [IndexNext]_ivars => EffectsInv'
    BY IndexNextInv, RightTriplesStep
  <2>3. QED  BY <2>1, <2>2, PTL DEF IndexSpec
<1>3. CallsInv /\ EffectsInv /\ TablesMirror => SolversDecide
  BY EveryNameDecided
<1>4. QED  BY <1>1, <1>2, <1>3, TableRunsConstructors, OneRelation, PTL

LEMMA TagsAreConditions ==
    /\ \A s \in Statements(program) : <<"stmt", s>> \in Conditions
    /\ \A n \in Procs(program) : <<"proc", n>> \in Conditions
BY DEF Conditions, Nodes, StmtNode, ProcNode

LEMMA RelatedPairs ==
    ASSUME NEW name
    PROVE  /\ Related(name) \in SUBSET (Conditions \X Conditions)
           /\ \A c, d \in Conditions : <<c, d>> \in Related(name) <=> d \in solve_right(name, c)
BY DEF Related

LEMMA OnlyStmts ==
    ASSUME NEW name,
           \A c, d \in Conditions : d \in solve_right(name, c) => IsStmt(c) /\ IsStmt(d)
    PROVE  OnlyTags("stmt", Statements(program), Related(name))
<1>1. ASSUME NEW e \in Related(name)
      PROVE  e \in Tags("stmt", Statements(program)) \X Tags("stmt", Statements(program))
  <2>1. PICK c \in Conditions, d \in Conditions : e = <<c, d>> /\ d \in solve_right(name, c)
    BY DEF Related
  <2>2. /\ c = <<"stmt", c[2]>> /\ c[2] \in Statements(program)
        /\ d = <<"stmt", d[2]>> /\ d[2] \in Statements(program)
    BY <2>1, ConditionShapes DEF Stmt
  <2>3. QED  BY <2>1, <2>2 DEF Tags
<1>2. QED  BY <1>1 DEF OnlyTags

LEMMA OnlyProcs ==
    ASSUME NEW name,
           \A c, d \in Conditions : d \in solve_right(name, c) => IsProc(c) /\ IsProc(d)
    PROVE  OnlyTags("proc", Procs(program), Related(name))
<1>1. ASSUME NEW e \in Related(name)
      PROVE  e \in Tags("proc", Procs(program)) \X Tags("proc", Procs(program))
  <2>1. PICK c \in Conditions, d \in Conditions : e = <<c, d>> /\ d \in solve_right(name, c)
    BY DEF Related
  <2>2. /\ c = <<"proc", c[2]>> /\ c[2] \in Procs(program)
        /\ d = <<"proc", d[2]>> /\ d[2] \in Procs(program)
    BY <2>1, ConditionShapes DEF Proc
  <2>3. QED  BY <2>1, <2>2 DEF Tags
<1>2. QED  BY <1>1 DEF OnlyTags

LEMMA StmtRights ==
    ASSUME NEW c \in Conditions, NEW d \in Conditions
    PROVE  /\ d \in solve_right("follows", c)
                <=> IsStmt(c) /\ IsStmt(d) /\ d[2] \in solve_follows_right(program, c[2])
           /\ d \in solve_right("ifollows", c)
                <=> IsStmt(c) /\ IsStmt(d) /\ d[2] \in solve_ifollows_right(program, c[2])
           /\ d \in solve_right("parent", c)
                <=> IsStmt(c) /\ IsStmt(d) /\ d[2] \in solve_parent_right(program, c[2])
           /\ d \in solve_right("iparent", c)
                <=> IsStmt(c) /\ IsStmt(d) /\ d[2] \in solve_iparent_right(program, c[2])
<1>1. d \in solve_right("follows", c)
        <=> IsStmt(c) /\ \E x \in solve_follows_right(program, c[2]) : d = Stmt(x)
  BY DEF solve_right, Of, Effects
<1>2. d \in solve_right("ifollows", c)
        <=> IsStmt(c) /\ \E x \in solve_ifollows_right(program, c[2]) : d = Stmt(x)
  BY DEF solve_right, Of, Effects
<1>3. d \in solve_right("parent", c)
        <=> IsStmt(c) /\ \E x \in solve_parent_right(program, c[2]) : d = Stmt(x)
  BY DEF solve_right, Of, Effects
<1>4. d \in solve_right("iparent", c)
        <=> IsStmt(c) /\ \E x \in solve_iparent_right(program, c[2]) : d = Stmt(x)
  BY DEF solve_right, Of, Effects
<1>5. QED  BY <1>1, <1>2, <1>3, <1>4, Tagged

LEMMA ProcRights ==
    ASSUME NEW c \in Conditions, NEW d \in Conditions
    PROVE  /\ d \in solve_right("calls", c)
                <=> IsProc(c) /\ IsProc(d) /\ d[2] \in solve_called_procs(program, c[2])
           /\ d \in solve_right("icalls", c)
                <=> IsProc(c) /\ IsProc(d) /\ d[2] \in solve_icalls_right(c[2])
<1>1. d \in solve_right("calls", c)
        <=> IsProc(c) /\ \E x \in solve_called_procs(program, c[2]) : d = Proc(x)
  BY DEF solve_right, Of, Effects
<1>2. d \in solve_right("icalls", c)
        <=> IsProc(c) /\ \E x \in solve_icalls_right(c[2]) : d = Proc(x)
  BY DEF solve_right, Of, Effects
<1>3. QED  BY <1>1, <1>2, Tagged

LEMMA FollowsStar ==
    ASSUME program \in Programs
    PROVE  Related("ifollows") = Closure(Related("follows"))
<1> DEFINE S == Statements(program)
<1>1. /\ OnlyTags("stmt", S, Related("ifollows")) /\ OnlyTags("stmt", S, Related("follows"))
  BY StmtRights, OnlyStmts
<1>2. IsFiniteSet(S) /\ NextG(program) \in [S -> SUBSET S]
  BY ProgramsAssumption, TreeLines, TreeWalks, FS_Interval
<1>3. ASSUME NEW a \in S, NEW b \in S
      PROVE  /\ <<<<"stmt", a>>, <<"stmt", b>>>> \in Related("follows") <=> b \in NextG(program)[a]
             /\ <<<<"stmt", a>>, <<"stmt", b>>>> \in Related("ifollows")
                  <=> b \in Beyond(S, NextG(program), a)
  <2>1. <<"stmt", a>> \in Conditions /\ <<"stmt", b>> \in Conditions
    BY TagsAreConditions
  <2>2. /\ <<<<"stmt", a>>, <<"stmt", b>>>> \in Related("follows")
             <=> b \in solve_follows_right(program, a)
        /\ <<<<"stmt", a>>, <<"stmt", b>>>> \in Related("ifollows")
             <=> b \in solve_ifollows_right(program, a)
    BY <2>1, RelatedPairs, StmtRights DEF IsStmt
  <2>3. b \in solve_follows_right(program, a) <=> b \in NextG(program)[a]
    BY ProgramsAssumption, TreeLines, TreeWalks DEF solve_follows_right
  <2>4. QED  BY <2>2, <2>3, ProgramsAssumption, IFollowsRight
<1>4. QED  BY <1>1, <1>2, <1>3, StarOfTags

LEMMA ParentStar ==
    ASSUME program \in Programs
    PROVE  Related("iparent") = Closure(Related("parent"))
<1> DEFINE S == Statements(program)
<1>1. /\ OnlyTags("stmt", S, Related("iparent")) /\ OnlyTags("stmt", S, Related("parent"))
  BY StmtRights, OnlyStmts
<1>2. IsFiniteSet(S) /\ ChildG(program) \in [S -> SUBSET S]
  BY ProgramsAssumption, TreeLines, TreeWalks, FS_Interval
<1>3. ASSUME NEW a \in S, NEW b \in S
      PROVE  /\ <<<<"stmt", a>>, <<"stmt", b>>>> \in Related("parent") <=> b \in ChildG(program)[a]
             /\ <<<<"stmt", a>>, <<"stmt", b>>>> \in Related("iparent")
                  <=> b \in Beyond(S, ChildG(program), a)
  <2>1. <<"stmt", a>> \in Conditions /\ <<"stmt", b>> \in Conditions
    BY TagsAreConditions
  <2>2. /\ <<<<"stmt", a>>, <<"stmt", b>>>> \in Related("parent")
             <=> b \in solve_parent_right(program, a)
        /\ <<<<"stmt", a>>, <<"stmt", b>>>> \in Related("iparent")
             <=> b \in solve_iparent_right(program, a)
    BY <2>1, RelatedPairs, StmtRights DEF IsStmt
  <2>3. QED  BY <2>2, ProgramsAssumption, ChildrenOfParent, IParentRight
<1>4. QED  BY <1>1, <1>2, <1>3, StarOfTags

LEMMA CallsInWalk ==
    ASSUME NEW p \in Programs, NEW n \in Procs(p)
    PROVE  /\ CallsIn(p, n) \in Seq(Procs(p))
           /\ Members(CallsIn(p, n))
                = {get_proc_called(p, c) : c \in {s \in OfKind(p, "call") : get_proc(p, s) = n}}
<1> DEFINE S == Statements(p)
           V == Seq(Procs(p))
           F == [s \in S |-> [f \in [S -> V] |-> CallsHere(p, f, s)]]
           from == CHOOSE f : f = [s \in S |->
             (IF kind(p, s) = "call" THEN <<get_proc_called(p, s)>>
              ELSE (IF get_then_branch(p, s) = NoStmt THEN <<>> ELSE f[get_then_branch(p, s)])
                   \o (IF get_else_branch(p, s) = NoStmt THEN <<>> ELSE f[get_else_branch(p, s)]))
             \o (IF next(p, s) = NoStmt THEN <<>> ELSE f[next(p, s)])]
<1>1. F \in [S -> [[S -> V] -> V]]
  BY ProgramsAssumption, CallsHereTyped
<1>2. ToldLater(S, V, F)
  <2>1. ASSUME NEW s \in S, NEW f \in [S -> V], NEW g \in [S -> V],
               \A t \in S : s < t => f[t] = g[t]
        PROVE  CallsHere(p, f, s) = CallsHere(p, g, s)
    BY <2>1, ProgramsAssumption, CallsHereLater
  <2>2. QED  BY <2>1 DEF ToldLater
<1>3. PICK f \in [S -> V] : \A s \in S : f[s] = F[s][f]
  <2>1. PICK m \in Nat : S = 1 .. m
    BY ProgramsAssumption, TreeLines
  <2>2. V # {}
    <3>1. << >> \in V
      OBVIOUS
    <3>2. QED  BY <3>1
  <2>3. PICK T, W, K : T = S /\ W = V /\ K = F
    OBVIOUS
  <2> HIDE DEF F, S, V
  <2>4. T = 1 .. m /\ W # {} /\ K \in Rules(T, W) /\ ToldLater(T, W, K)
    BY <1>1, <1>2, <2>1, <2>2, <2>3 DEF Rules
  <2>5. Told(T, W, K)
    BY <2>4, LaterTells
  <2>6. QED  BY <2>3, <2>5 DEF Told
<1>4. \A s \in S : f[s] = CallsHere(p, f, s)
  BY <1>3
<1>5. f = [s \in S |->
             (IF kind(p, s) = "call" THEN <<get_proc_called(p, s)>>
              ELSE (IF get_then_branch(p, s) = NoStmt THEN <<>> ELSE f[get_then_branch(p, s)])
                   \o (IF get_else_branch(p, s) = NoStmt THEN <<>> ELSE f[get_else_branch(p, s)]))
             \o (IF next(p, s) = NoStmt THEN <<>> ELSE f[next(p, s)])]
  <2>1. f = [s \in S |-> CallsHere(p, f, s)]
    BY <1>4
  <2>2. QED  BY <2>1 DEF CallsHere, PartOf
<1>6. from = [s \in S |->
             (IF kind(p, s) = "call" THEN <<get_proc_called(p, s)>>
              ELSE (IF get_then_branch(p, s) = NoStmt THEN <<>> ELSE from[get_then_branch(p, s)])
                   \o (IF get_else_branch(p, s) = NoStmt THEN <<>> ELSE from[get_else_branch(p, s)]))
             \o (IF next(p, s) = NoStmt THEN <<>> ELSE from[next(p, s)])]
  BY <1>5
<1>7. CallsIn(p, n) = from[get_statement(p, n)]
  BY DEF CallsIn
<1> HIDE DEF from
<1>8. \A s \in S : from[s] = CallsHere(p, from, s)
  <2>1. from = [s \in S |-> CallsHere(p, from, s)]
    BY <1>6 DEF CallsHere, PartOf
  <2>2. QED  BY <2>1
<1>9. ASSUME NEW s \in S PROVE from[s] = f[s]
  <2> DEFINE bad == {t \in S : from[t] # f[t]}
  <2>1. SUFFICES ASSUME bad # {} PROVE FALSE
    OBVIOUS
  <2>2. PICK m \in Nat : S = 1 .. m
    BY ProgramsAssumption, TreeLines
  <2>3. PICK k \in bad : \A t \in bad : t <= k
    <3>1. bad \in SUBSET (1 .. m)
      BY <2>2
    <3> HIDE DEF bad
    <3>2. QED  BY <2>1, <3>1, LargestOf
  <2>4. \A t \in S : k < t => from[t] = f[t]
    BY <2>2, <2>3
  <2>5. k \in S
    OBVIOUS
  <2>6. CallsHere(p, from, k) = CallsHere(p, f, k)
    BY <2>4, <2>5, ProgramsAssumption, CallsHereLater
  <2>7. QED  BY <1>4, <1>8, <2>3, <2>5, <2>6
<1>10. PICK h : h = get_statement(p, n)
  OBVIOUS
<1>11. h \in S /\ Reach(S, AheadG(p), h) = {s \in S : get_proc(p, s) = n}
  BY <1>10, ProgramsAssumption, ProcWalk
<1>12. CallsIn(p, n) = f[h]
  BY <1>7, <1>9, <1>10, <1>11
<1> DEFINE base == [s \in S |-> IF kind(p, s) = "call" THEN {get_proc_called(p, s)} ELSE {}]
           met == [s \in S |-> Members(f[s])]
<1>13. Gathers(S, AheadG(p), base, met)
  <2>1. ASSUME NEW s \in S
        PROVE  met[s] = base[s] \cup UNION {met[t] : t \in AheadG(p)[s]}
    <3>1. Members(f[s]) = (IF kind(p, s) = "call" THEN {get_proc_called(p, s)} ELSE {})
                          \cup Met(f, AheadG(p)[s])
      BY <1>4, ProgramsAssumption, CallsHereTyped
    <3>2. Met(f, AheadG(p)[s]) = UNION {met[t] : t \in AheadG(p)[s]}
      BY ProgramsAssumption, AheadWalks DEF Met
    <3>3. base[s] = (IF kind(p, s) = "call" THEN {get_proc_called(p, s)} ELSE {})
          /\ met[s] = Members(f[s])
      OBVIOUS
    <3> HIDE DEF base, met
    <3>4. QED  BY <3>1, <3>2, <3>3, Zenon
  <2> HIDE DEF base, met
  <2>2. QED  BY <2>1 DEF Gathers
<1>14. met[h] = Gather(S, AheadG(p), base, h)
  <2> HIDE DEF base, met
  <2>1. QED  BY <1>11, <1>13, ProgramsAssumption, AheadWalks, GatherLines
<1>15. Gather(S, AheadG(p), base, h) = UNION {base[s] : s \in {t \in S : get_proc(p, t) = n}}
  BY <1>11, Zenon DEF Gather
<1>16. UNION {base[s] : s \in {t \in S : get_proc(p, t) = n}}
         = {get_proc_called(p, c) : c \in {s \in OfKind(p, "call") : get_proc(p, s) = n}}
  BY DEF OfKind
<1>17. Members(f[h]) = met[h] /\ f[h] \in V
  BY <1>11
<1>18. QED  BY <1>12, <1>14, <1>15, <1>16, <1>17, Zenon

------------------------------------------------------------------------------
(***************************************************************************)
(* The walk of Modifies and Uses ends only where nothing leads back to     *)
(* itself: among any entries there is one with none of its children.       *)
(***************************************************************************)
Grounded(C, p) == \E key \in C : ChildKeys(p, key[1], key[2]) \cap C = {}

EntriesFounded == \A C \in SUBSET DOMAIN left : C # {} => Grounded(C, program)

LEMMA LeaveNodeFounded ==
    ASSUME IndexInv, EntriesFounded, LeaveNode
    PROVE  EntriesFounded'
<1> USE DEF IndexInv
<1>1. PICK top \in Calls : top = Head(frames) /\ top = frames[1] /\ 1 \in DOMAIN frames
  BY PopElement DEF IndexTypeOK, LeaveNode
<1>2. PICK new : new = <<top.effect, top.of>>
  OBVIOUS
<1>3. /\ top.at = Len(Children(program, top.of))
      /\ DOMAIN left' = DOMAIN left \cup {new}
      /\ program' = program
  BY <1>1, <1>2 DEF LeaveNode
<1>4. new[1] = top.effect /\ new[2] = top.of
  BY <1>2
<1>5. ChildKeys(program, new[1], new[2]) \subseteq DOMAIN left
  BY <1>1, <1>3, <1>4, WholeEntry DEF ResultsGathered
<1>6. ASSUME NEW C \in SUBSET (DOMAIN left \cup {new}), C # {}
      PROVE  Grounded(C, program)
  <2>1. CASE new \in DOMAIN left
    BY <1>6, <2>1 DEF EntriesFounded
  <2>2. CASE new \notin DOMAIN left
    <3> DEFINE B == C \ {new}
    <3>1. B \in SUBSET DOMAIN left
      OBVIOUS
    <3>2. CASE B = {}
      <4>1. C = {new}
        BY <1>6, <3>2
      <4>2. ChildKeys(program, new[1], new[2]) \cap C = {}
        BY <1>5, <2>2, <4>1
      <4>3. QED  BY <4>1, <4>2 DEF Grounded
    <3>3. CASE B # {}
      <4>1. PICK key \in B : ChildKeys(program, key[1], key[2]) \cap B = {}
        <5> HIDE DEF B
        <5>1. QED  BY <3>1, <3>3 DEF EntriesFounded, Grounded
      <4>2. ChildKeys(program, key[1], key[2]) \subseteq DOMAIN left
        BY <3>1 DEF EntriesClosed
      <4>3. ChildKeys(program, key[1], key[2]) \cap C = {}
        BY <2>2, <4>1, <4>2
      <4>4. QED  BY <4>1, <4>3 DEF Grounded
    <3>4. QED  BY <3>2, <3>3
  <2>3. QED  BY <2>1, <2>2
<1>7. ASSUME NEW C \in SUBSET DOMAIN left', C # {}
      PROVE  Grounded(C, program')
  BY <1>3, <1>6, <1>7
<1>8. QED  BY <1>7 DEF EntriesFounded, Grounded

LEMMA FoundedStep ==
    ASSUME IndexInv, EntriesFounded, [IndexNext]_ivars
    PROVE  EntriesFounded'
<1>1. CASE LeaveNode
  BY <1>1, LeaveNodeFounded
<1>2. CASE left' = left /\ program' = program
  BY <1>2 DEF EntriesFounded, Grounded
<1>3. QED  BY <1>1, <1>2 DEF IndexNext, IndexRoot, EnterNode, ivars

\* The walk of Calls* forgets no procedure, and walks the text's calls.
RootsWalked ==
  \A a \in Procedures : a \in indexed \/ \E i \in DOMAIN roots : roots[i] = a

LEMMA RootsWalkedStep ==
    ASSUME Typed, RootsWalked, [Next]_vars
    PROVE  RootsWalked'
<1> SUFFICES ASSUME NEW a \in Procedures, a \notin indexed'
             PROVE  \E i \in DOMAIN roots' : roots'[i] = a
  BY DEF RootsWalked
<1>1. indexed \subseteq indexed'
  BY TablesGrow
<1>2. PICK i \in DOMAIN roots : roots[i] = a
  BY <1>1 DEF RootsWalked
<1>3. CASE WalkRoot
  <2>1. roots # <<>> /\ roots' = Tail(roots) /\ Head(roots) \in indexed'
    BY <1>3 DEF WalkRoot
  <2>2. roots \in Seq(Procedures)
    BY DEF Typed, TypeOK
  <2>3. i # 1
    BY <1>2, <2>1, <2>2, PopElement
  <2>4. i - 1 \in DOMAIN roots' /\ roots'[i - 1] = roots[i]
    BY <1>2, <2>1, <2>2, <2>3, PopElement
  <2>5. QED  BY <1>2, <2>4
<1>4. CASE roots' = roots
  BY <1>2, <1>4
<1>5. QED  BY <1>3, <1>4 DEF Next, EnterCall, JoinCallee, LeaveProc, vars

TextWalked == calls = CallsOfProgram(program)

LEMMA TextWalkedStep ==
    ASSUME TextWalked, [TableNext]_TableVars
    PROVE  TextWalked'
<1>1. [Next]_vars /\ [IndexNext]_ivars
  BY DEF TableNext, TableVars
<1>2. calls' = calls /\ program' = program
  BY <1>1, StepCalls DEF IndexNext, IndexRoot, EnterNode, LeaveNode, ivars
<1>3. QED  BY <1>2 DEF TextWalked

LEMMA TextCalls ==
    ASSUME program \in Programs, TextWalked, NEW a \in Procedures
    PROVE  CallsOf(a) = {get_proc_called(program, c) :
                           c \in {s \in OfKind(program, "call") : get_proc(program, s) = a}}
<1>1. calls[a] = CallsIn(program, a) /\ a \in Procs(program)
  BY ProgramsAssumption DEF TextWalked, CallsOfProgram
<1>2. CallsOf(a) = Members(CallsIn(program, a))
  BY <1>1 DEF CallsOf, Members
<1>3. QED  BY <1>1, <1>2, CallsInWalk

------------------------------------------------------------------------------
(***************************************************************************)
(* The children of a node.                                                 *)
(***************************************************************************)
ListHere(p, f, s) == <<StmtNode(s)>> \o PartOf(f, next(p, s))

LEMMA ListHereTyped ==
    ASSUME NEW p \in Programs, NEW f \in [Statements(p) -> Seq(Nodes(p))],
           NEW s \in Statements(p)
    PROVE  /\ ListHere(p, f, s) \in Seq(Nodes(p))
           /\ Members(ListHere(p, f, s)) = {StmtNode(s)} \cup Met(f, NextG(p)[s])
<1> DEFINE V == Nodes(p)
           S == Statements(p)
           c == PartOf(f, next(p, s))
<1>1. NoStmt \notin S /\ next(p, s) \in S \cup {NoStmt}
  BY ProgramsAssumption, TreeLines
<1>2. \A t \in S : t \in NextG(p)[s] <=> next(p, s) = t
  BY ProgramsAssumption, TreeWalks
<1>3. NextG(p)[s] \subseteq S
  BY ProgramsAssumption, TreeWalks
<1>4. c \in Seq(V) /\ Members(c) = Met(f, NextG(p)[s])
  <2>1. CASE next(p, s) = NoStmt
    <3>1. NextG(p)[s] = {}
      BY <1>1, <1>2, <1>3, <2>1
    <3>2. Met(f, {}) = {}
      BY DEF Met
    <3>3. c \in Seq(V) /\ Members(c) = {}
      BY <1>1, <2>1, PartTyped
    <3>4. QED  BY <3>1, <3>2, <3>3, Zenon
  <2>2. CASE next(p, s) # NoStmt
    <3>1. PICK t \in S : t = next(p, s)
      BY <1>1, <2>2
    <3>2. NextG(p)[s] = {t}
      BY <1>2, <1>3, <3>1
    <3>3. Met(f, {t}) = Members(f[t])
      BY DEF Met
    <3>4. c \in Seq(V) /\ c = f[t]
      BY <1>1, <2>2, <3>1, PartTyped
    <3>5. QED  BY <3>2, <3>3, <3>4, Zenon
  <2>3. QED  BY <2>1, <2>2
<1>5. StmtNode(s) \in V
  BY DEF Nodes
<1>6. PICK v \in V : v = StmtNode(s)
  BY <1>5
<1>7. <<v>> \in Seq(V) /\ Members(<<v>>) = {v}
  BY NothingMembers
<1> HIDE DEF c
<1>8. <<v>> \o c \in Seq(V) /\ Members(<<v>> \o c) = Members(<<v>>) \cup Members(c)
  <2>1. PICK w \in Seq(V) : w = <<v>>
    BY <1>7
  <2>2. w \o c \in Seq(V) /\ Members(w \o c) = Members(w) \cup Members(c)
    BY <1>4, ConcatMembers
  <2>3. QED  BY <2>1, <2>2
<1>9. ListHere(p, f, s) = <<v>> \o c
  BY <1>6 DEF ListHere, c
<1>10. QED  BY <1>4, <1>6, <1>7, <1>8, <1>9

LEMMA ListHereLater ==
    ASSUME NEW p \in Programs, NEW s \in Statements(p), NEW f, NEW g,
           \A t \in Statements(p) : s < t => f[t] = g[t]
    PROVE  ListHere(p, f, s) = ListHere(p, g, s)
<1>1. next(p, s) # NoStmt => next(p, s) \in Statements(p) /\ s < next(p, s)
  BY ProgramsAssumption, TreeLines
<1>2. PartOf(f, next(p, s)) = PartOf(g, next(p, s))
  BY <1>1 DEF PartOf
<1>3. QED  BY <1>2, Zenon DEF ListHere

\* The list that starts with a statement, as Children makes it.
ListAs(p) ==
  CHOOSE f : f = [s \in Statements(p) |->
    <<StmtNode(s)>> \o (IF next(p, s) = NoStmt THEN <<>> ELSE f[next(p, s)])]

LEMMA ListMade ==
    ASSUME NEW p \in Programs, NEW s \in Statements(p)
    PROVE  /\ ListAs(p)[s] \in Seq(Nodes(p))
           /\ Members(ListAs(p)[s]) = {StmtNode(t) : t \in Reach(Statements(p), NextG(p), s)}
<1> DEFINE S == Statements(p)
           V == Seq(Nodes(p))
           F == [t \in S |-> [f \in [S -> V] |-> ListHere(p, f, t)]]
<1>1. F \in Rules(S, V)
  BY ListHereTyped DEF Rules
<1>2. ToldLater(S, V, F)
  <2>1. ASSUME NEW t \in S, NEW f \in [S -> V], NEW g \in [S -> V],
               \A u \in S : t < u => f[u] = g[u]
        PROVE  ListHere(p, f, t) = ListHere(p, g, t)
    BY <2>1, ListHereLater
  <2>2. QED  BY <2>1 DEF ToldLater
<1>3. PICK f \in [S -> V] : \A t \in S : f[t] = F[t][f]
  <2>1. PICK m \in Nat : S = 1 .. m
    BY ProgramsAssumption, TreeLines
  <2>2. V # {}
    <3>1. << >> \in V
      OBVIOUS
    <3>2. QED  BY <3>1
  <2>3. PICK T, W, K : T = S /\ W = V /\ K = F
    OBVIOUS
  <2> HIDE DEF F, S, V
  <2>4. T = 1 .. m /\ W # {} /\ K \in Rules(T, W) /\ ToldLater(T, W, K)
    BY <1>1, <1>2, <2>1, <2>2, <2>3
  <2>5. Told(T, W, K)
    BY <2>4, LaterTells
  <2>6. QED  BY <2>3, <2>5 DEF Told
<1>4. \A t \in S : f[t] = ListHere(p, f, t)
  BY <1>3
<1>5. f = [t \in S |-> <<StmtNode(t)>> \o (IF next(p, t) = NoStmt THEN <<>> ELSE f[next(p, t)])]
  <2>1. f = [t \in S |-> ListHere(p, f, t)]
    BY <1>4
  <2>2. QED  BY <2>1 DEF ListHere, PartOf
<1>6. PICK list : list = ListAs(p)
  OBVIOUS
<1>7. list = [t \in S |-> <<StmtNode(t)>> \o (IF next(p, t) = NoStmt THEN <<>> ELSE list[next(p, t)])]
  <2>1. list = CHOOSE h : h = [t \in S |->
                 <<StmtNode(t)>> \o (IF next(p, t) = NoStmt THEN <<>> ELSE h[next(p, t)])]
    BY <1>6 DEF ListAs
  <2>2. QED  BY <1>5, <2>1
<1>8. \A t \in S : list[t] = ListHere(p, list, t)
  <2>1. list = [t \in S |-> ListHere(p, list, t)]
    BY <1>7 DEF ListHere, PartOf
  <2>2. QED  BY <2>1
<1>9. ASSUME NEW t \in S PROVE list[t] = f[t]
  <2> DEFINE bad == {u \in S : list[u] # f[u]}
  <2>1. SUFFICES ASSUME bad # {} PROVE FALSE
    OBVIOUS
  <2>2. PICK m \in Nat : S = 1 .. m
    BY ProgramsAssumption, TreeLines
  <2>3. PICK k \in bad : \A u \in bad : u <= k
    <3>1. bad \in SUBSET (1 .. m)
      BY <2>2
    <3> HIDE DEF bad
    <3>2. QED  BY <2>1, <3>1, LargestOf
  <2>4. \A u \in S : k < u => list[u] = f[u]
    BY <2>2, <2>3
  <2>5. k \in S
    OBVIOUS
  <2>6. ListHere(p, list, k) = ListHere(p, f, k)
    BY <2>4, <2>5, ListHereLater
  <2>7. QED  BY <1>4, <1>8, <2>3, <2>5, <2>6
<1> DEFINE base == [t \in S |-> {StmtNode(t)}]
           met == [t \in S |-> Members(f[t])]
<1>10. Gathers(S, NextG(p), base, met)
  <2>1. ASSUME NEW t \in S
        PROVE  met[t] = base[t] \cup UNION {met[u] : u \in NextG(p)[t]}
    <3>1. Members(f[t]) = {StmtNode(t)} \cup Met(f, NextG(p)[t])
      BY <1>4, ListHereTyped
    <3>2. Met(f, NextG(p)[t]) = UNION {met[u] : u \in NextG(p)[t]}
      <4>1. \A u \in NextG(p)[t] : met[u] = Members(f[u])
        BY ProgramsAssumption, TreeWalks
      <4> HIDE DEF met
      <4>2. QED  BY <4>1 DEF Met
    <3>3. base[t] = {StmtNode(t)} /\ met[t] = Members(f[t])
      OBVIOUS
    <3> HIDE DEF base, met
    <3>4. QED  BY <3>1, <3>2, <3>3, Zenon
  <2> HIDE DEF base, met
  <2>2. QED  BY <2>1 DEF Gathers
<1>11. met[s] = Gather(S, NextG(p), base, s)
  <2> HIDE DEF base, met
  <2>1. Ascends(S, NextG(p)) /\ NextG(p) \in [S -> SUBSET S]
    BY ProgramsAssumption, TreeWalks
  <2>2. QED  BY <1>10, <2>1, ProgramsAssumption, GatherLines
<1>12. Gather(S, NextG(p), base, s) = {StmtNode(t) : t \in Reach(S, NextG(p), s)}
  <2>1. Reach(S, NextG(p), s) \subseteq S
    BY ProgramsAssumption, TreeWalks, ReachLeast
  <2>2. QED  BY <2>1 DEF Gather
<1>13. Members(f[s]) = met[s] /\ f[s] \in V /\ list[s] = f[s]
  BY <1>9
<1>14. QED  BY <1>6, <1>11, <1>12, <1>13, Zenon

LEMMA ChildrenOfProc ==
    ASSUME NEW p \in Programs, NEW n \in Procs(p)
    PROVE  Members(Children(p, ProcNode(n)))
             = {StmtNode(s) : s \in Reach(Statements(p), NextG(p), get_statement(p, n))}
<1>1. ProcNode(n)[1] = "proc" /\ ProcNode(n)[2] = n
  BY DEF ProcNode
<1>2. get_statement(p, n) \in Statements(p) /\ get_statement(p, n) # NoStmt
  BY ProgramsAssumption, ProcWalk, TreeLines
<1>3. Children(p, ProcNode(n)) = ListAs(p)[get_statement(p, n)]
  BY <1>1, <1>2 DEF Children, ListAs
<1>4. QED  BY <1>2, <1>3, ListMade

LEMMA ChildrenOfStmt ==
    ASSUME NEW p \in Programs, NEW s \in Statements(p)
    PROVE  Members(Children(p, StmtNode(s)))
             = IF kind(p, s) = "call" THEN {ProcNode(get_proc_called(p, s))}
               ELSE {StmtNode(t) : t \in ChildG(p)[s]}
<1>1. StmtNode(s)[1] = "stmt" /\ StmtNode(s)[2] = s /\ "stmt" # "proc"
  BY DEF StmtNode
<1>2. CASE kind(p, s) = "call"
  <2>1. Children(p, StmtNode(s)) = <<ProcNode(get_proc_called(p, s))>>
    BY <1>1, <1>2 DEF Children
  <2>2. PICK v : v = ProcNode(get_proc_called(p, s))
    OBVIOUS
  <2>3. v \in {v} /\ Members(<<v>>) = {v}
    BY NothingMembers
  <2>4. QED  BY <1>2, <2>1, <2>2, <2>3
<1>3. CASE kind(p, s) # "call"
  <2> DEFINE a == PartOf(ListAs(p), get_then_branch(p, s))
             b == PartOf(ListAs(p), get_else_branch(p, s))
  <2>1. Children(p, StmtNode(s)) = a \o b
    <3>1. PICK node : node = StmtNode(s)
      OBVIOUS
    <3>2. Children(p, node)
            = (IF get_then_branch(p, node[2]) = NoStmt THEN <<>>
               ELSE ListAs(p)[get_then_branch(p, node[2])])
              \o (IF get_else_branch(p, node[2]) = NoStmt THEN <<>>
                  ELSE ListAs(p)[get_else_branch(p, node[2])])
      <4>1. node[1] # "proc" /\ kind(p, node[2]) # "call"
        BY <1>1, <1>3, <3>1
      <4>2. QED  BY <4>1 DEF Children, ListAs
    <3>3. node[2] = s
      BY <1>1, <3>1
    <3>4. QED  BY <3>1, <3>2, <3>3 DEF PartOf
  <2>2. ASSUME NEW u \in Branches(p, s) \cup {NoStmt}
        PROVE  PartOf(ListAs(p), u) \in Seq(Nodes(p))
               /\ Members(PartOf(ListAs(p), u))
                    = {StmtNode(t) : t \in UNION {Reach(Statements(p), NextG(p), c) :
                                                    c \in {u} \ {NoStmt}}}
    <3>1. CASE u = NoStmt
      <4>1. PartOf(ListAs(p), u) = << >>
        BY <3>1 DEF PartOf
      <4>2. << >> \in Seq(Nodes(p)) /\ Members(<< >>) = {}
        BY DEF Members
      <4>3. {StmtNode(t) : t \in UNION {Reach(Statements(p), NextG(p), c) :
                                          c \in {u} \ {NoStmt}}} = {}
        BY <3>1
      <4>4. QED  BY <4>1, <4>2, <4>3
    <3>2. CASE u # NoStmt
      <4>1. PartOf(ListAs(p), u) = ListAs(p)[u] /\ u \in Statements(p)
        BY <3>2, ProgramsAssumption, TreeLines DEF PartOf
      <4>2. UNION {Reach(Statements(p), NextG(p), c) : c \in {u} \ {NoStmt}}
              = Reach(Statements(p), NextG(p), u)
        BY <3>2
      <4>3. QED  BY <4>1, <4>2, ListMade
    <3>3. QED  BY <3>1, <3>2
  <2>3. /\ get_then_branch(p, s) \in Branches(p, s) \cup {NoStmt}
        /\ get_else_branch(p, s) \in Branches(p, s) \cup {NoStmt}
        /\ Branches(p, s) = ({get_then_branch(p, s)} \ {NoStmt})
                            \cup ({get_else_branch(p, s)} \ {NoStmt})
    BY DEF Branches, get_then_branch, get_else_branch
  <2>4. Members(a \o b) = Members(a) \cup Members(b)
    <3>1. a \in Seq(Nodes(p)) /\ b \in Seq(Nodes(p))
      BY <2>2, <2>3
    <3> HIDE DEF a, b
    <3>2. QED  BY <3>1, ConcatMembers
  <2>5. \A t : t \in ChildG(p)[s]
                 <=> \E c \in Branches(p, s) : t \in Reach(Statements(p), NextG(p), c)
    <3>1. solve_parent_right(p, s) = ChildG(p)[s]
      BY ProgramsAssumption, ChildrenOfParent
    <3>2. solve_parent_right(p, s) = UNION {ListFrom(p, c) : c \in Branches(p, s)}
      BY DEF solve_parent_right
    <3>3. \A c \in Branches(p, s) : ListFrom(p, c) = Reach(Statements(p), NextG(p), c)
      BY ProgramsAssumption, TreeLines, ListFromReach
    <3>4. QED  BY <3>1, <3>2, <3>3
  <2>6. Members(a) \cup Members(b) = {StmtNode(t) : t \in ChildG(p)[s]}
    <3>1. \A z : z \in Members(a) <=> \E c \in {get_then_branch(p, s)} \ {NoStmt} :
                   \E t \in Reach(Statements(p), NextG(p), c) : z = StmtNode(t)
      BY <2>2, <2>3
    <3>2. \A z : z \in Members(b) <=> \E c \in {get_else_branch(p, s)} \ {NoStmt} :
                   \E t \in Reach(Statements(p), NextG(p), c) : z = StmtNode(t)
      BY <2>2, <2>3
    <3> HIDE DEF a, b
    <3>3. \A z : z \in Members(a) \cup Members(b)
                   <=> \E c \in Branches(p, s) :
                         \E t \in Reach(Statements(p), NextG(p), c) : z = StmtNode(t)
      BY <2>3, <3>1, <3>2
    <3>4. \A z : z \in {StmtNode(t) : t \in ChildG(p)[s]}
                   <=> \E t \in ChildG(p)[s] : z = StmtNode(t)
      OBVIOUS
    <3>5. QED  BY <2>5, <3>3, <3>4
  <2>7. QED  BY <1>3, <2>1, <2>4, <2>6
<1>4. QED  BY <1>2, <1>3

------------------------------------------------------------------------------
(***************************************************************************)
(* The walks over nodes, and the calls.                                    *)
(***************************************************************************)
NodeG(p) == [m \in Nodes(p) |-> Members(Children(p, m))]

LEMMA NodeWalks ==
    ASSUME NEW p \in Programs
    PROVE  /\ NodeG(p) \in [Nodes(p) -> SUBSET Nodes(p)]
           /\ \A m \in Nodes(p) : WalkOf(p, m) = Reach(Nodes(p), NodeG(p), m)
           /\ CallG(p) \in [Procs(p) -> SUBSET Procs(p)]
           /\ \A s \in Statements(p) : StmtNode(s) \in Nodes(p)
           /\ \A n \in Procs(p) : ProcNode(n) \in Nodes(p)
<1>1. ASSUME NEW m \in Nodes(p)
      PROVE  Members(Children(p, m)) \subseteq Nodes(p)
  <2>1. Children(p, m) \in Seq(Nodes(p))
    BY ChildrenTyped
  <2>2. QED  BY <2>1, ConcatMembers
<1>2. NodeG(p) \in [Nodes(p) -> SUBSET Nodes(p)]
  BY <1>1 DEF NodeG
<1>3. ASSUME NEW C \in SUBSET Nodes(p)
      PROVE  WalkClosed(p, C) <=> \A d \in C : NodeG(p)[d] \subseteq C
  BY DEF WalkClosed, NodeG, Members
<1>4. ASSUME NEW m \in Nodes(p)
      PROVE  WalkOf(p, m) = Reach(Nodes(p), NodeG(p), m)
  BY <1>3 DEF WalkOf, Reach
<1>5. CallG(p) \in [Procs(p) -> SUBSET Procs(p)]
  BY ProgramsAssumption, AheadWalks DEF CallG, OfKind
<1>6. QED  BY <1>2, <1>4, <1>5 DEF Nodes

LEMMA NodeSteps ==
    ASSUME NEW p \in Programs
    PROVE  /\ \A n \in Procs(p) :
                NodeG(p)[ProcNode(n)]
                  = {StmtNode(s) : s \in Reach(Statements(p), NextG(p), get_statement(p, n))}
           /\ \A s \in Statements(p) :
                NodeG(p)[StmtNode(s)]
                  = IF kind(p, s) = "call" THEN {ProcNode(get_proc_called(p, s))}
                    ELSE {StmtNode(t) : t \in ChildG(p)[s]}
<1>1. ASSUME NEW n \in Procs(p)
      PROVE  NodeG(p)[ProcNode(n)]
               = {StmtNode(s) : s \in Reach(Statements(p), NextG(p), get_statement(p, n))}
  <2>1. NodeG(p)[ProcNode(n)] = Members(Children(p, ProcNode(n)))
    BY NodeWalks DEF NodeG
  <2>2. QED  BY <2>1, ChildrenOfProc
<1>2. ASSUME NEW s \in Statements(p)
      PROVE  NodeG(p)[StmtNode(s)]
               = IF kind(p, s) = "call" THEN {ProcNode(get_proc_called(p, s))}
                 ELSE {StmtNode(t) : t \in ChildG(p)[s]}
  <2>1. NodeG(p)[StmtNode(s)] = Members(Children(p, StmtNode(s)))
    BY NodeWalks DEF NodeG
  <2>2. QED  BY <2>1, ChildrenOfStmt
<1>3. QED  BY <1>1, <1>2

LEMMA StatementsOfProc ==
    ASSUME NEW p \in Programs, NEW s \in Statements(p)
    PROVE  StmtNode(s) \in Beyond(Nodes(p), NodeG(p), ProcNode(get_proc(p, s)))
<1> DEFINE S == Statements(p)
           B(n) == Beyond(Nodes(p), NodeG(p), ProcNode(n))
           bad == {t \in S : StmtNode(t) \notin B(get_proc(p, t))}
<1>1. SUFFICES ASSUME bad # {} PROVE FALSE
  OBVIOUS
<1>2. bad \in SUBSET Nat
  BY ProgramsAssumption, TreeLines
<1>3. PICK c \in bad : \A d \in bad : c <= d
  <2> HIDE DEF bad
  <2>1. QED  BY <1>1, <1>2, LeastOf
<1>4. c \in S /\ StmtNode(c) \notin B(get_proc(p, c)) /\ c \in Nat
  BY <1>2
<1>5. PICK n \in Procs(p) : n = get_proc(p, c)
  BY <1>4, ProgramsAssumption, AheadWalks
<1>6. /\ ProcNode(n) \in Nodes(p) /\ NodeG(p) \in [Nodes(p) -> SUBSET Nodes(p)]
      /\ \A x \in B(n) : NodeG(p)[x] \subseteq B(n)
      /\ NodeG(p)[ProcNode(n)] \subseteq B(n)
  BY NodeWalks, BeyondInside
<1>7. CASE get_parent(p, c) = NoStmt
  <2>1. PICK m \in Procs(p) : c \in Reach(S, NextG(p), get_statement(p, m))
    BY <1>4, <1>7, ProgramsAssumption, TopList
  <2>2. m = n
    BY <1>5, <2>1, ProgramsAssumption, SameProc
  <2>3. StmtNode(c) \in NodeG(p)[ProcNode(n)]
    BY <2>1, <2>2, NodeSteps
  <2>4. QED  BY <1>4, <1>5, <1>6, <2>3
<1>8. CASE get_parent(p, c) # NoStmt
  <2>1. PICK q \in S : q = get_parent(p, c) /\ q < c
    BY <1>4, <1>8, ProgramsAssumption, ParentBefore
  <2>2. c \in ChildG(p)[q]
    BY <1>4, <2>1, ProgramsAssumption, TreeWalks
  <2>3. get_proc(p, q) = n
    BY <1>5, <2>1, <2>2, ProgramsAssumption, SameProc
  <2>4. StmtNode(q) \in B(n)
    <3>1. q \in Nat /\ ~(c <= q)
      BY <1>4, <2>1, ProgramsAssumption, TreeLines
    <3>2. q \notin bad
      BY <1>3, <3>1
    <3>3. QED  BY <2>1, <2>3, <3>2
  <2>5. kind(p, q) # "call"
    BY <1>4, <2>1, ProgramsAssumption, ParentsContain
  <2>6. StmtNode(c) \in NodeG(p)[StmtNode(q)]
    BY <2>1, <2>2, <2>5, NodeSteps
  <2>7. StmtNode(c) \in B(n)
    BY <1>6, <2>4, <2>6
  <2>8. QED  BY <1>4, <1>5, <2>7
<1>9. QED  BY <1>7, <1>8

LEMMA CallsWalked ==
    ASSUME NEW p \in Programs, NEW a \in Procs(p), NEW b \in Beyond(Procs(p), CallG(p), a)
    PROVE  ProcNode(b) \in Beyond(Nodes(p), NodeG(p), ProcNode(a))
<1> DEFINE B(n) == Beyond(Nodes(p), NodeG(p), ProcNode(n))
           C == {n \in Procs(p) : ProcNode(n) \in B(a)}
<1>1. /\ NodeG(p) \in [Nodes(p) -> SUBSET Nodes(p)] /\ CallG(p) \in [Procs(p) -> SUBSET Procs(p)]
      /\ \A n \in Procs(p) : ProcNode(n) \in Nodes(p)
      /\ \A s \in Statements(p) : StmtNode(s) \in Nodes(p)
  BY NodeWalks
<1>2. ASSUME NEW m \in Procs(p), NEW n \in CallG(p)[m]
      PROVE  ProcNode(n) \in B(m)
  <2>1. PICK c \in Statements(p) : /\ kind(p, c) = "call" /\ get_proc(p, c) = m
                                   /\ n = get_proc_called(p, c)
    BY <1>2 DEF CallG, OfKind
  <2>2. StmtNode(c) \in B(m)
    BY <2>1, StatementsOfProc
  <2>3. ProcNode(n) \in NodeG(p)[StmtNode(c)]
    BY <2>1, NodeSteps
  <2>4. \A x \in B(m) : NodeG(p)[x] \subseteq B(m)
    BY <1>1, BeyondInside
  <2>5. QED  BY <2>2, <2>3, <2>4
<1>3. CallG(p)[a] \subseteq C
  BY <1>1, <1>2
<1>4. ASSUME NEW d \in C PROVE CallG(p)[d] \subseteq C
  <2>1. ASSUME NEW n \in CallG(p)[d] PROVE n \in C
    <3>1. d \in Procs(p) /\ n \in Procs(p) /\ ProcNode(d) \in B(a) /\ ProcNode(n) \in B(d)
      BY <1>1, <1>2, <2>1
    <3>2. B(d) \subseteq B(a)
      BY <1>1, <3>1, BeyondPassesOn
    <3>3. QED  BY <3>1, <3>2
  <2>2. QED  BY <2>1
<1>5. C \in SUBSET Procs(p)
  OBVIOUS
<1>6. Beyond(Procs(p), CallG(p), a) \subseteq C
  <2> HIDE DEF C
  <2>1. QED  BY <1>1, <1>3, <1>4, <1>5, BeyondLeast
<1>7. QED  BY <1>6

LEMMA NothingRecurs ==
    ASSUME IndexInv, EntriesFounded, EntriesAreWalks, Indexed, NEW n \in Procs(program),
           NEW m \in Nodes(program), m \in WalkOf(program, ProcNode(n))
    PROVE  m \notin Beyond(Nodes(program), NodeG(program), m)
<1> DEFINE S == Nodes(program)
           G == NodeG(program)
           C == {<<"uses", x>> : x \in {y \in Reach(S, G, m) : m \in Reach(S, G, y)}}
<1>1. SUFFICES ASSUME m \in Beyond(S, G, m) PROVE FALSE
  OBVIOUS
<1>2. program \in Programs /\ "uses" \in Effects
  BY DEF IndexInv, IndexTypeOK, Effects
<1>3. G \in [S -> SUBSET S] /\ ProcNode(n) \in S
      /\ \A x \in S : WalkOf(program, x) = Reach(S, G, x)
  BY <1>2, NodeWalks
<1>4. /\ m \in Reach(S, G, m) /\ Reach(S, G, m) \subseteq S
      /\ \A d \in Reach(S, G, m) : G[d] \subseteq Reach(S, G, m)
  BY <1>3, ReachLeast
<1>5. Reach(S, G, m) \subseteq WalkOf(program, ProcNode(n))
  <2>1. PICK W \in SUBSET S : W = Reach(S, G, ProcNode(n))
    BY <1>3, ReachLeast
  <2>2. m \in W /\ \A d \in W : G[d] \subseteq W
    BY <1>3, <2>1, ReachLeast
  <2>3. Reach(S, G, m) \subseteq W
    BY <1>3, <2>2, ReachLeast
  <2>4. QED  BY <1>3, <2>1, <2>3
<1>6. C \in SUBSET DOMAIN left /\ C # {}
  <2>1. \A x \in Reach(S, G, m) : <<"uses", x>> \in DOMAIN left
    BY <1>2, <1>5 DEF EntriesAreWalks
  <2>2. <<"uses", m>> \in C
    BY <1>4
  <2>3. QED  BY <2>1, <2>2
<1>7. PICK key \in C : ChildKeys(program, key[1], key[2]) \cap C = {}
  <2> HIDE DEF C
  <2>1. QED  BY <1>6 DEF EntriesFounded, Grounded
<1>8. PICK x \in Reach(S, G, m) : m \in Reach(S, G, x) /\ key = <<"uses", x>>
  OBVIOUS
<1>9. key[1] = "uses" /\ key[2] = x /\ x \in S
  BY <1>4, <1>8
<1>10. PICK y \in G[x] : m \in Reach(S, G, y)
  <2>1. CASE x = m
    BY <1>1, <2>1 DEF Beyond
  <2>2. CASE x # m
    <3>1. Reach(S, G, x) = {x} \cup UNION {Reach(S, G, d) : d \in G[x]}
      BY <1>3, <1>9, ReachUnfold
    <3>2. QED  BY <1>8, <2>2, <3>1
  <2>3. QED  BY <2>1, <2>2
<1>11. y \in Reach(S, G, m)
  BY <1>4, <1>8
<1>12. <<"uses", y>> \in C
  BY <1>10, <1>11
<1>13. <<"uses", y>> \in ChildKeys(program, "uses", x)
  <2>1. y \in Members(Children(program, x))
    BY <1>9 DEF NodeG
  <2>2. QED  BY <2>1 DEF ChildKeys, Members
<1>14. QED  BY <1>7, <1>9, <1>12, <1>13

LEMMA StarIsBeyond ==
    ASSUME TypeOK, NEW G \in [Procedures -> SUBSET Procedures],
           \A b \in Procedures : CallsOf(b) = G[b], NEW a \in Procedures
    PROVE  CallsStar(a) = Beyond(Procedures, G, a)
<1>1. /\ Beyond(Procedures, G, a) \subseteq Procedures
      /\ \A x \in Beyond(Procedures, G, a) : G[x] \subseteq Beyond(Procedures, G, a)
      /\ G[a] \subseteq Beyond(Procedures, G, a)
  BY BeyondInside
<1>2. CallsStar(a) \subseteq Beyond(Procedures, G, a)
  <2>1. PICK C \in SUBSET Procedures : C = Beyond(Procedures, G, a)
    BY <1>1
  <2>2. CallsOf(a) \subseteq C /\ \A c \in C : CallsOf(c) \subseteq C
    BY <1>1, <2>1
  <2>3. CallsStar(a) \subseteq C
    BY <2>2 DEF CallsStar
  <2>4. QED  BY <2>1, <2>3
<1>3. Beyond(Procedures, G, a) \subseteq CallsStar(a)
  <2>1. /\ CallsStar(a) \subseteq Procedures /\ CallsOf(a) \subseteq CallsStar(a)
        /\ \A b \in CallsStar(a) : CallsOf(b) \subseteq CallsStar(a)
    BY CallsStarClosed
  <2>2. G[a] \subseteq CallsStar(a) /\ \A b \in CallsStar(a) : G[b] \subseteq CallsStar(a)
    BY <2>1
  <2>3. QED  BY <2>1, <2>2, BeyondLeast
<1>4. QED  BY <1>2, <1>3

TextInv == Typed /\ RootsWalked /\ TextWalked /\ EntriesComplete

LEMMA ICallsAreBeyond ==
    ASSUME IndexInv, EntriesFounded, EntriesAreWalks, TextInv, TableBuilt, NEW a \in Procedures
    PROVE  solve_icalls_right(a) = Beyond(Procs(program), CallG(program), a)
<1>1. program \in Programs /\ Procs(program) = Procedures /\ TypeOK
  BY ProgramsAssumption DEF IndexInv, IndexTypeOK, TextInv, Typed
<1>2. CallG(program) \in [Procedures -> SUBSET Procedures]
  BY <1>1, NodeWalks
<1>3. \A b \in Procedures : CallsOf(b) = CallG(program)[b]
  BY <1>1, TextCalls DEF TextInv, CallG
<1>4. \A b \in Procedures : CallsStar(b) = Beyond(Procedures, CallG(program), b)
  BY <1>1, <1>2, <1>3, StarIsBeyond
<1>5. ASSUME NEW b \in Procedures PROVE b \notin CallsStar(b)
  <2>1. SUFFICES ASSUME b \in Beyond(Procs(program), CallG(program), b) PROVE FALSE
    BY <1>1, <1>4
  <2>2. ProcNode(b) \in Beyond(Nodes(program), NodeG(program), ProcNode(b))
    BY <1>1, <2>1, CallsWalked
  <2>3. ProcNode(b) \in Nodes(program) /\ ProcNode(b) \in WalkOf(program, ProcNode(b))
    BY <1>1, NodeWalks, ReachLeast
  <2>4. ProcNode(b) \notin Beyond(Nodes(program), NodeG(program), ProcNode(b))
    BY <1>1, <2>3, NothingRecurs DEF TableBuilt
  <2>5. QED  BY <2>2, <2>4
<1>6. a \in indexed /\ WalkedNow = {}
  <2>1. roots = << >> /\ stack = << >>
    BY DEF TableBuilt, Constructed
  <2>2. DOMAIN roots = {} /\ DOMAIN stack = {}
    BY <2>1
  <2>3. QED  BY <2>2 DEF TextInv, RootsWalked, WalkedNow
<1>7. calls_table[a] = CallsStar(a)
  BY <1>5, <1>6 DEF TextInv, EntriesComplete
<1>8. QED  BY <1>1, <1>4, <1>6, <1>7 DEF solve_icalls_right

LEMMA CallsStarred ==
    ASSUME IndexInv, EntriesFounded, EntriesAreWalks, TextInv, TableBuilt
    PROVE  /\ Related("calls") = {<<Proc(e[1]), Proc(e[2])>> : e \in CallGraph(program)}
           /\ Related("icalls") = Closure(Related("calls"))
<1> DEFINE S == Procs(program)
           G == CallG(program)
<1>1. program \in Programs /\ S = Procedures
  BY ProgramsAssumption DEF IndexInv, IndexTypeOK
<1>2. /\ OnlyTags("proc", S, Related("icalls")) /\ OnlyTags("proc", S, Related("calls"))
  BY ProcRights, OnlyProcs
<1>3. IsFiniteSet(S) /\ G \in [S -> SUBSET S]
  BY <1>1, ProgramsAssumption, ProgramFinite, CallsWalks
<1>4. ASSUME NEW a \in S, NEW b \in S
      PROVE  /\ <<<<"proc", a>>, <<"proc", b>>>> \in Related("calls") <=> b \in G[a]
             /\ <<<<"proc", a>>, <<"proc", b>>>> \in Related("icalls") <=> b \in Beyond(S, G, a)
  <2>1. <<"proc", a>> \in Conditions /\ <<"proc", b>> \in Conditions
    BY TagsAreConditions
  <2>2. /\ <<<<"proc", a>>, <<"proc", b>>>> \in Related("calls")
             <=> b \in solve_called_procs(program, a)
        /\ <<<<"proc", a>>, <<"proc", b>>>> \in Related("icalls")
             <=> b \in solve_icalls_right(a)
    BY <2>1, RelatedPairs, ProcRights DEF IsProc
  <2>3. solve_icalls_right(a) = Beyond(S, G, a)
    BY <1>1, ICallsAreBeyond
  <2>4. b \in solve_called_procs(program, a) <=> b \in G[a]
    BY <1>1, ProgramsAssumption, CallsAreGraph
  <2>5. QED  BY <2>2, <2>3, <2>4
<1>5. Related("icalls") = Closure(Related("calls"))
  <2>1. /\ \A a, b \in S : <<<<"proc", a>>, <<"proc", b>>>> \in Related("calls") <=> b \in G[a]
        /\ \A a, b \in S : <<<<"proc", a>>, <<"proc", b>>>> \in Related("icalls")
                             <=> b \in Beyond(S, G, a)
    BY <1>4
  <2> HIDE DEF S, G
  <2>2. QED  BY <1>2, <1>3, <2>1, StarOfTags
<1>6. Related("calls") = {<<Proc(e[1]), Proc(e[2])>> : e \in CallGraph(program)}
  <2> DEFINE R == {<<Proc(e[1]), Proc(e[2])>> : e \in CallGraph(program)}
  <2>1. ASSUME NEW e \in CallGraph(program)
        PROVE  e[1] \in S /\ e[2] \in S /\ e = <<e[1], e[2]>>
    BY <1>1, <2>1, ProgramsAssumption, AheadWalks DEF CallGraph, OfKind
  <2>2. OnlyTags("proc", S, R)
    BY <2>1 DEF OnlyTags, Tags, Proc
  <2>3. ASSUME NEW a \in S, NEW b \in S
        PROVE  <<<<"proc", a>>, <<"proc", b>>>> \in R <=> b \in G[a]
    <3>1. <<<<"proc", a>>, <<"proc", b>>>> \in R <=> <<a, b>> \in CallGraph(program)
      BY <2>1 DEF Proc
    <3>2. QED  BY <1>1, <3>1, ProgramsAssumption, CallsAreGraph
  <2>4. \A a, b \in S : <<<<"proc", a>>, <<"proc", b>>>> \in Related("calls")
                           <=> <<<<"proc", a>>, <<"proc", b>>>> \in R
    BY <1>4, <2>3
  <2> HIDE DEF R, S, G
  <2>5. Related("calls") = R
    BY <1>2, <2>2, <2>4, SamePairs
  <2>6. QED  BY <2>5 DEF R
<1>7. QED  BY <1>5, <1>6

LEMMA HeldAreConditions ==
    ASSUME NEW s \in Statements(program)
    PROVE  HeldG(program)[s] \subseteq Conditions
<1>1. VarsHere(program, s) \subseteq Conditions
  BY DEF VarsHere, Conditions, Of, Variables
<1>2. InnerG(program)[s] \subseteq Statements(program)
  BY DEF InnerG, ChildG
<1>3. {Stmt(u) : u \in InnerG(program)[s]} \subseteq Conditions
  BY <1>2, TagsAreConditions DEF Stmt
<1>4. QED  BY <1>1, <1>3 DEF HeldG

LEMMA ContainsRights ==
    ASSUME program \in Programs, NEW c \in Conditions, NEW d \in Conditions
    PROVE  /\ d \in solve_right("contains", c)
                <=> ContainsAs(program, c, d, HeldG(program), FALSE)
           /\ d \in solve_right("icontains", c)
                <=> ContainsAs(program, c, d, [s \in Statements(program) |-> DeepIn(program, s)], TRUE)
<1>1. /\ d \in solve_right("contains", c) <=> d \in solve_contains_right(program, FALSE, c)
      /\ d \in solve_right("icontains", c) <=> d \in solve_contains_right(program, TRUE, c)
  BY DEF solve_right, Effects
<1>2. HeldG(program) = [s \in Statements(program) |-> contained(program, FALSE, s)]
  <2>1. HeldG(program) = [s \in Statements(program) |-> HeldG(program)[s]]
    BY DEF HeldG
  <2>2. \A s \in Statements(program) : HeldG(program)[s] = contained(program, FALSE, s)
    BY ProgramsAssumption, ContainedMade
  <2>3. QED  BY <2>1, <2>2
<1>3. [s \in Statements(program) |-> DeepIn(program, s)]
        = [s \in Statements(program) |-> contained(program, TRUE, s)]
  <2>1. \A s \in Statements(program) : DeepIn(program, s) = contained(program, TRUE, s)
    BY ProgramsAssumption, ContainedMade DEF DeepIn
  <2>2. QED  BY <2>1
<1>4. d \in solve_contains_right(program, FALSE, c)
        <=> ContainsAs(program, c, d, HeldG(program), FALSE)
  BY <1>2, ProgramsAssumption, ContainsPairs
<1>5. d \in solve_contains_right(program, TRUE, c)
        <=> ContainsAs(program, c, d, [s \in Statements(program) |-> DeepIn(program, s)], TRUE)
  <2>1. PICK inside : inside = [s \in Statements(program) |-> DeepIn(program, s)]
    OBVIOUS
  <2>2. d \in solve_contains_right(program, TRUE, c) <=> ContainsAs(program, c, d, inside, TRUE)
    BY <1>3, <2>1, ProgramsAssumption, ContainsPairs
  <2>3. QED  BY <2>1, <2>2
<1>6. QED  BY <1>1, <1>4, <1>5

\* What a condition contains, and what it contains with all of that.
ContainG == StepsOf(Conditions, Related("contains"))

LEMMA ContainSteps ==
    ASSUME program \in Programs
    PROVE  /\ ContainG \in [Conditions -> SUBSET Conditions]
           /\ \A s \in Statements(program) :
                ContainG[<<"stmt", s>>] = IF kind(program, s) = "call" THEN {} ELSE HeldG(program)[s]
           /\ \A n \in Procs(program) :
                ContainG[<<"proc", n>>] = {<<"stmt", s>> : s \in TopOf(program, n)}
           /\ \A c \in Conditions : ~IsStmt(c) /\ ~IsProc(c) => ContainG[c] = {}
<1> DEFINE p == program
           S == Statements(p)
<1>1. ContainG \in [Conditions -> SUBSET Conditions]
  BY DEF ContainG, StepsOf
<1>2. \A c, d \in Conditions : d \in ContainG[c] <=> ContainsAs(p, c, d, HeldG(p), FALSE)
  <2>1. \A c, d \in Conditions : d \in ContainG[c] <=> <<c, d>> \in Related("contains")
    BY DEF ContainG, StepsOf
  <2>2. QED  BY <2>1, RelatedPairs, ContainsRights
<1>3. ASSUME NEW s \in S
      PROVE  ContainG[<<"stmt", s>>] = IF kind(p, s) = "call" THEN {} ELSE HeldG(p)[s]
  <2>1. <<"stmt", s>> \in Conditions /\ HeldG(p)[s] \subseteq Conditions
    BY TagsAreConditions, HeldAreConditions
  <2>2. ASSUME NEW d \in Conditions
        PROVE  d \in ContainG[<<"stmt", s>>] <=> kind(p, s) # "call" /\ d \in HeldG(p)[s]
    <3>1. d \in ContainG[<<"stmt", s>>] <=> ContainsAs(p, <<"stmt", s>>, d, HeldG(p), FALSE)
      BY <1>2, <2>1
    <3>2. QED  BY <3>1 DEF ContainsAs
  <2>3. ContainG[<<"stmt", s>>] \subseteq Conditions
    BY <1>1, <2>1
  <2>4. QED  BY <2>1, <2>2, <2>3
<1>4. ASSUME NEW n \in Procs(p)
      PROVE  ContainG[<<"proc", n>>] = {<<"stmt", s>> : s \in TopOf(p, n)}
  <2>1. <<"proc", n>> \in Conditions
    BY TagsAreConditions
  <2>2. TopOf(p, n) \subseteq S
    BY ProgramsAssumption, ProcWalk, ReachLeast, TreeWalks DEF TopOf
  <2>3. {<<"stmt", s>> : s \in TopOf(p, n)} \subseteq Conditions
    BY <2>2, TagsAreConditions
  <2>4. ASSUME NEW d \in Conditions
        PROVE  d \in ContainG[<<"proc", n>>] <=> d \in {<<"stmt", s>> : s \in TopOf(p, n)}
    <3>1. d \in ContainG[<<"proc", n>>] <=> ContainsAs(p, <<"proc", n>>, d, HeldG(p), FALSE)
      BY <1>2, <2>1
    <3>2. QED  BY <3>1 DEF ContainsAs
  <2>5. ContainG[<<"proc", n>>] \subseteq Conditions
    BY <1>1, <2>1
  <2>6. QED  BY <2>3, <2>4, <2>5
<1>5. ASSUME NEW c \in Conditions, ~IsStmt(c), ~IsProc(c) PROVE ContainG[c] = {}
  <2>1. ContainG[c] \subseteq Conditions
    BY <1>1
  <2>2. ASSUME NEW d \in Conditions PROVE d \notin ContainG[c]
    BY <1>2, <1>5 DEF ContainsAs, IsStmt, IsProc
  <2>3. QED  BY <2>1, <2>2
<1>6. QED  BY <1>1, <1>3, <1>4, <1>5

LEMMA ContainWalk ==
    ASSUME program \in Programs, NEW s \in Statements(program)
    PROVE  Beyond(Conditions, ContainG, <<"stmt", s>>)
             = IF kind(program, s) = "call" THEN {} ELSE DeepIn(program, s)
<1> DEFINE p == program
           S == Statements(p)
           f == [t \in S |-> <<"stmt", t>>]
           E == [t \in S |-> IF kind(p, t) = "call" THEN {} ELSE VarsHere(p, t)]
<1>1. ContainG \in [Conditions -> SUBSET Conditions]
  BY ContainSteps
<1>2. f \in [S -> Conditions]
  BY TagsAreConditions
<1>3. ASSUME NEW t \in S
      PROVE  /\ E[t] \subseteq Conditions
             /\ \A x \in E[t] : ContainG[x] = {}
             /\ ContainG[f[t]] = E[t] \cup {f[u] : u \in InnerG(p)[t]}
  <2>1. HeldG(p)[t] = VarsHere(p, t) \cup {<<"stmt", u>> : u \in InnerG(p)[t]}
    BY DEF HeldG, Stmt
  <2>2. E[t] \subseteq Conditions
    BY <2>1, HeldAreConditions
  <2>3. ASSUME NEW x \in E[t] PROVE ContainG[x] = {}
    <3>1. x \in Conditions /\ ~IsStmt(x) /\ ~IsProc(x)
      BY <2>2, <2>3 DEF VarsHere, Var, IsStmt, IsProc
    <3>2. QED  BY <3>1, ContainSteps
  <2>4. InnerG(p)[t] \subseteq S /\ (kind(p, t) = "call" => InnerG(p)[t] = {})
    BY ProgramsAssumption, InnerWalk
  <2>5. ContainG[<<"stmt", t>>] = IF kind(p, t) = "call" THEN {} ELSE HeldG(p)[t]
    BY ContainSteps
  <2>6. {f[u] : u \in InnerG(p)[t]} = {<<"stmt", u>> : u \in InnerG(p)[t]}
    BY <2>4
  <2>7. ContainG[f[t]] = E[t] \cup {f[u] : u \in InnerG(p)[t]}
    BY <2>1, <2>4, <2>5, <2>6
  <2>8. QED  BY <2>2, <2>3, <2>7
<1>4. Beyond(Conditions, ContainG, f[s]) = Carried(ContainG, f, Reach(S, InnerG(p), s))
  <2>1. PICK D, H, g, N, G, T : D = Conditions /\ H = ContainG /\ g = f /\ N = E /\ G = InnerG(p) /\ T = S
    OBVIOUS
  <2>2. E \in [S -> SUBSET Conditions] /\ Maps(S, InnerG(p), Conditions, ContainG, f, E)
    <3>1. E \in [S -> SUBSET Conditions]
      BY <1>3
    <3> HIDE DEF f, E
    <3>2. QED  BY <1>3, <3>1 DEF Maps
  <2>3. /\ H \in [D -> SUBSET D] /\ g \in [T -> D] /\ N \in [T -> SUBSET D]
        /\ G \in [T -> SUBSET T] /\ Maps(T, G, D, H, g, N) /\ s \in T
    <3> HIDE DEF f, E
    <3>1. QED  BY <1>1, <1>2, <2>1, <2>2, ProgramsAssumption, InnerWalk
  <2>4. Beyond(D, H, g[s]) = Carried(H, g, Reach(T, G, s))
    BY <2>3, WalkCarried
  <2> HIDE DEF f, E, S
  <2>5. QED  BY <2>1, <2>4
<1>5. Carried(ContainG, f, Reach(S, InnerG(p), s))
        = UNION {ContainG[<<"stmt", t>>] : t \in Reach(S, InnerG(p), s)}
  BY ProgramsAssumption, InnerPlain DEF Carried
<1>6. CASE kind(p, s) = "call"
  <2>1. Reach(S, InnerG(p), s) = {s} /\ ContainG[<<"stmt", s>>] = {}
    BY <1>6, ProgramsAssumption, InnerPlain, ContainSteps
  <2>2. QED  BY <1>4, <1>5, <1>6, <2>1
<1>7. CASE kind(p, s) # "call"
  <2>1. \A t \in Reach(S, InnerG(p), s) : ContainG[<<"stmt", t>>] = HeldG(p)[t]
    BY <1>7, ProgramsAssumption, InnerPlain, ContainSteps
  <2>2. QED  BY <1>4, <1>5, <1>7, <2>1 DEF DeepIn, Gather
<1>8. QED  BY <1>6, <1>7

LEMMA ContainsStar ==
    ASSUME program \in Programs, IsFiniteSet(Procs(program))
    PROVE  Related("icontains") = Closure(Related("contains"))
<1> DEFINE p == program
           S == Statements(p)
           D == Conditions
           R == Related("contains")
           deep == [s \in S |-> DeepIn(p, s)]
<1>1. R \in SUBSET (D \X D) /\ Related("icontains") \in SUBSET (D \X D)
  BY RelatedPairs
<1>2. IsFiniteSet(Middle(R))
  <2>1. IsFiniteSet(S)
    <3>1. PICK m \in Nat : S = 1 .. m
      BY ProgramsAssumption, TreeLines
    <3>2. QED  BY <3>1, FS_Interval
  <2>2. IsFiniteSet(Tags("stmt", S)) /\ IsFiniteSet(Tags("proc", Procs(p)))
    BY <2>1, FiniteTags
  <2>3. IsFiniteSet(Tags("stmt", S) \cup Tags("proc", Procs(p)))
    BY <2>2, FS_Union
  <2>4. ASSUME NEW e \in R PROVE e[1] \in Tags("stmt", S) \cup Tags("proc", Procs(p))
    <3>1. PICK c \in D, d \in D : e = <<c, d>>
      BY <1>1
    <3>2. ContainsAs(p, c, d, HeldG(p), FALSE)
      BY <3>1, RelatedPairs, ContainsRights
    <3>3. QED  BY <3>1, <3>2 DEF ContainsAs, Tags
  <2>5. Middle(R) \in SUBSET (Tags("stmt", S) \cup Tags("proc", Procs(p)))
    BY <2>4 DEF Middle
  <2>6. QED  BY <2>3, <2>5, FS_Subset
<1>3. /\ \A a, b : <<a, b>> \in Closure(R) <=> a \in D /\ b \in Beyond(D, ContainG, a)
      /\ Closure(R) \in SUBSET (D \X D)
  <2>1. PICK T, Q : T = D /\ Q = R
    OBVIOUS
  <2>2. Q \in SUBSET (T \X T) /\ IsFiniteSet(Middle(Q))
    BY <1>1, <1>2, <2>1
  <2>3. /\ \A a, b : <<a, b>> \in Closure(Q) <=> a \in T /\ b \in Beyond(T, StepsOf(T, Q), a)
        /\ Closure(Q) \in SUBSET (T \X T)
    BY <2>2, ClosureWalks
  <2>4. QED  BY <2>1, <2>3 DEF ContainG
<1>4. ASSUME NEW c \in D, NEW d \in D
      PROVE  <<c, d>> \in Related("icontains") <=> d \in Beyond(D, ContainG, c)
  <2>1. <<c, d>> \in Related("icontains") <=> ContainsAs(p, c, d, deep, TRUE)
    BY RelatedPairs, ContainsRights
  <2>2. CASE IsStmt(c)
    <3>1. PICK s \in S : c = <<"stmt", s>>
      BY <2>2, ConditionShapes DEF Stmt
    <3>2. ContainsAs(p, c, d, deep, TRUE) <=> kind(p, s) # "call" /\ d \in DeepIn(p, s)
      BY <3>1 DEF ContainsAs
    <3>3. QED  BY <2>1, <3>1, <3>2, ContainWalk
  <2>3. CASE IsProc(c)
    <3>1. PICK n \in Procs(p) : c = <<"proc", n>>
      BY <2>3, ConditionShapes DEF Proc
    <3>2. TopOf(p, n) \subseteq S /\ \A s \in TopOf(p, n) : kind(p, s) # "call"
      BY ProgramsAssumption, ProcWalk, ReachLeast, TreeWalks DEF TopOf
    <3>3. ContainsAs(p, c, d, deep, TRUE)
            <=> \E s \in TopOf(p, n) : d = <<"stmt", s>> \/ d \in DeepIn(p, s)
      BY <3>1, <3>2 DEF ContainsAs
    <3>4. Beyond(D, ContainG, c) = UNION {{y} \cup Beyond(D, ContainG, y) : y \in ContainG[c]}
      BY ContainSteps, BeyondInside
    <3>5. ContainG[c] = {<<"stmt", s>> : s \in TopOf(p, n)}
      BY <3>1, ContainSteps
    <3>6. \A s \in TopOf(p, n) : Beyond(D, ContainG, <<"stmt", s>>) = DeepIn(p, s)
      BY <3>2, ContainWalk
    <3>7. d \in Beyond(D, ContainG, c)
            <=> \E s \in TopOf(p, n) : d = <<"stmt", s>> \/ d \in DeepIn(p, s)
      <4> HIDE DEF D, p
      <4>1. d \in Beyond(D, ContainG, c)
              <=> \E y \in ContainG[c] : d = y \/ d \in Beyond(D, ContainG, y)
        BY <3>4
      <4>2. (\E y \in ContainG[c] : d = y \/ d \in Beyond(D, ContainG, y))
              <=> \E s \in TopOf(p, n) : d = <<"stmt", s>> \/ d \in Beyond(D, ContainG, <<"stmt", s>>)
        BY <3>5
      <4>3. QED  BY <4>1, <4>2, <3>6
    <3>8. QED  BY <2>1, <3>3, <3>7
  <2>4. CASE ~IsStmt(c) /\ ~IsProc(c)
    <3>1. ~ContainsAs(p, c, d, deep, TRUE)
      BY <2>4 DEF ContainsAs, IsStmt, IsProc
    <3>2. ContainG[c] = {}
      BY <2>4, ContainSteps
    <3>3. Beyond(D, ContainG, c) = {}
      BY <3>2 DEF Beyond
    <3>4. QED  BY <2>1, <3>1, <3>3
  <2>5. QED  BY <2>2, <2>3, <2>4
<1>5. \A a, b : <<a, b>> \in Related("icontains") <=> <<a, b>> \in Closure(R)
  <2>1. \A a, b : <<a, b>> \in Related("icontains") => a \in D /\ b \in D
    BY <1>1
  <2>2. \A a, b : <<a, b>> \in Closure(R) => a \in D /\ b \in D
    BY <1>3
  <2> HIDE DEF D, R
  <2>3. QED  BY <1>3, <1>4, <2>1, <2>2
<1>6. PICK Q, C : Q = Related("icontains") /\ C = Closure(R)
  OBVIOUS
<1>7. Q \in SUBSET (D \X D) /\ C \in SUBSET (D \X D) /\ \A a, b : <<a, b>> \in Q <=> <<a, b>> \in C
  BY <1>1, <1>3, <1>5, <1>6
<1>8. Q = C
  BY <1>7
<1>9. QED  BY <1>6, <1>8

(* No condition but a variable is its own sibling.                         *)
LEMMA SiblingsDiffer ==
    ASSUME program \in Programs, NEW e \in Related("sibling"), e[1] = e[2]
    PROVE  IsVar(e[1])
<1> DEFINE p == program
<1>1. e = <<e[1], e[2]>> /\ e[2] \in solve_sibling_right(p, e[1])
  BY DEF Related, solve_right, Effects
<1>2. \A A, B : \A x \in A \X B : x = <<x[1], x[2]>>
  OBVIOUS
<1>3. ASSUME NEW i \in sibling_index(p)
      PROVE  i = <<i[1], i[2]>> /\ (i[1] = i[2] => i[1][1] = "var")
  <2>1. CASE i \in Among({Proc(n) : n \in Procs(p)})
    BY <2>1 DEF Among
  <2>2. CASE i \in UNION {Among({Stmt(s) : s \in ListFrom(p, h)}) : h \in Heads(p)}
    BY <2>2 DEF Among
  <2>3. CASE i \in UNION {sibling_statement(p, s) : s \in Walked(p)}
    <3>1. PICK s \in Statements(p) : i \in sibling_statement(p, s)
      BY <2>3, ProgramsAssumption, AllWalked
    <3> DEFINE var == Var(get_variable(p, s))
    <3>2. CASE kind(p, s) = "assign"
      <4>1. PICK v \in get_expr_vars(p, s) : i \in index_siblings(var, Var(v))
        BY <3>1, <3>2 DEF sibling_statement
      <4>2. QED  BY <4>1 DEF index_siblings, Var
    <3>3. CASE kind(p, s) = "while"
      <4>1. i \in index_siblings(var, Stmt(get_body(p, s)))
        BY <3>1, <3>3 DEF sibling_statement
      <4>2. QED  BY <4>1 DEF index_siblings, Var, Stmt
    <3>4. CASE kind(p, s) = "if"
      <4>1. get_then_branch(p, s) < get_else_branch(p, s)
        BY <3>4, ProgramsAssumption
           DEF IsProgram, InTextOrder, get_then_branch, get_else_branch
      <4>2. get_then_branch(p, s) \in Statements(p) /\ get_else_branch(p, s) \in Statements(p)
        BY <3>4, ProgramsAssumption, ContainerShape
           DEF get_then_branch, get_else_branch
      <4>3. get_then_branch(p, s) # get_else_branch(p, s)
        BY <4>1, <4>2, ProgramsAssumption, TreeLines
      <4>4. \/ i \in index_siblings(var, Stmt(get_then_branch(p, s)))
            \/ i \in index_siblings(var, Stmt(get_else_branch(p, s)))
            \/ i \in index_siblings(Stmt(get_then_branch(p, s)),
                                         Stmt(get_else_branch(p, s)))
        BY <3>1, <3>4 DEF sibling_statement
      <4>5. QED  BY <4>3, <4>4 DEF index_siblings, Var, Stmt
    <3>5. CASE kind(p, s) \notin {"assign", "while", "if"}
      BY <3>1, <3>5 DEF sibling_statement
    <3>6. QED  BY <3>2, <3>3, <3>4, <3>5
  <2>4. QED  BY <2>1, <2>2, <2>3 DEF sibling_index
<1>4. <<e[1], e[2]>> \in sibling_index(p)
  BY <1>1, <1>3 DEF solve_sibling_right
<1>5. QED  BY <1>1, <1>3, <1>4 DEF IsVar

(* All of it, when the constructors are done.                              *)
LEMMA StarsWhenBuilt ==
    ASSUME IndexInv, EntriesFounded, EntriesAreWalks, TextInv
    PROVE  StarsAreClosures
<1>1. SUFFICES ASSUME TableBuilt
               PROVE  /\ Related("calls") = {<<Proc(e[1]), Proc(e[2])>> :
                                               e \in CallGraph(program)}
                      /\ Related("ifollows") = Closure(Related("follows"))
                      /\ Related("iparent") = Closure(Related("parent"))
                      /\ Related("icalls") = Closure(Related("calls"))
                      /\ Related("icontains") = Closure(Related("contains"))
                      /\ \A e \in Related("sibling") : e[1] = e[2] => IsVar(e[1])
  BY DEF StarsAreClosures
<1>2. program \in Programs
  BY DEF IndexInv, IndexTypeOK
<1>3. IsFiniteSet(Procs(program))
  BY <1>2, ProgramsAssumption, ProgramFinite
<1>4. /\ Related("calls") = {<<Proc(e[1]), Proc(e[2])>> : e \in CallGraph(program)}
      /\ Related("icalls") = Closure(Related("calls"))
  BY <1>1, CallsStarred
<1>5. Related("ifollows") = Closure(Related("follows")) /\ Related("iparent") = Closure(Related("parent"))
  BY <1>2, FollowsStar, ParentStar
<1>6. Related("icontains") = Closure(Related("contains"))
  BY <1>2, <1>3, ContainsStar
<1>7. \A e \in Related("sibling") : e[1] = e[2] => IsVar(e[1])
  BY <1>2, SiblingsDiffer
<1>8. QED  BY <1>4, <1>5, <1>6, <1>7

(* The tables of a program stay what its text makes them.                  *)
LEMMA TextInvStart ==
    ASSUME TableInit, Typed, IndexInv
    PROVE  RootsWalked /\ TextWalked /\ EntriesFounded
<1>1. RootsWalked
  BY IteratesAll DEF TableInit, Init, RootsWalked
<1>2. TextWalked
  BY DEF TableInit, TextWalked
<1>3. DOMAIN left = {}
  BY DEF TableInit, IndexInit
<1>4. EntriesFounded
  BY <1>3 DEF EntriesFounded
<1>5. QED  BY <1>1, <1>2, <1>4

LEMMA AlwaysText == TableSpec => [](TextInv /\ IndexInv /\ EntriesFounded /\ EntriesAreWalks)
<1> DEFINE Inv == Typed /\ IndexInv /\ RootsWalked /\ TextWalked /\ EntriesFounded
<1>1. TableInit => Inv
  BY TypedInit, IndexInitInv, TextInvStart DEF TableInit
<1>2. Inv /\ [TableNext]_TableVars => Inv'
  <2>1. [TableNext]_TableVars => [Next]_vars /\ [IndexNext]_ivars
    BY DEF TableNext, TableVars
  <2>2. QED
    BY <2>1, TypedStep, IndexNextInv, RootsWalkedStep, TextWalkedStep, FoundedStep
<1>3. TableSpec => []Inv
  BY <1>1, <1>2, PTL DEF TableSpec
<1>4. TableSpec => []EntriesComplete /\ []EntriesAreWalks
  BY TableRunsConstructors, TableEntriesComplete, EffectsAreWalks, PTL
<1>5. Inv /\ EntriesComplete /\ EntriesAreWalks
        => TextInv /\ IndexInv /\ EntriesFounded /\ EntriesAreWalks
  BY DEF TextInv
<1>6. QED  BY <1>3, <1>4, <1>5, PTL

\* When the constructors have returned, Follows*, Parent*, Calls* and Contains*
\* are the transitive closures of the relations without star, although each
\* is computed by loops of its own (ifollows.cpp, iparent.cpp, icall.cpp,
\* contains.cpp), Calls is the call graph of the text, and nothing but a
\* variable is its own sibling, on every program.
THEOREM StarsAlwaysClosures == TableSpec => []StarsAreClosures
BY AlwaysText, StarsWhenBuilt, PTL

LEMMA ProcRuns ==
    ASSUME NEW p \in Programs, NEW n \in Procs(p)
    PROVE  Reach(Nodes(p), NodeG(p), ProcNode(n))
             = {ProcNode(m) : m \in Runs(p, n)} \cup {StmtNode(t) : t \in StatementsIn(p, Runs(p, n))}
<1> DEFINE S == Nodes(p)
           G == NodeG(p)
           C == {ProcNode(m) : m \in Runs(p, n)}
                \cup {StmtNode(t) : t \in StatementsIn(p, Runs(p, n))}
<1>1. /\ G \in [S -> SUBSET S]
      /\ \A s \in Statements(p) : StmtNode(s) \in S
      /\ \A m \in Procs(p) : ProcNode(m) \in S
  BY NodeWalks
<1>2. n \in Runs(p, n) /\ Runs(p, n) \subseteq Procs(p)
  BY ProgramsAssumption, CallsRun
<1>3. Reach(S, G, ProcNode(n)) \subseteq C
  <2>1. C \in SUBSET S /\ ProcNode(n) \in C
    BY <1>1, <1>2 DEF StatementsIn
  <2>2. ASSUME NEW d \in C PROVE G[d] \subseteq C
    <3>1. CASE d \in {ProcNode(m) : m \in Runs(p, n)}
      <4>1. PICK m \in Runs(p, n) : d = ProcNode(m)
        BY <3>1
      <4>2. G[d] = {StmtNode(s) : s \in Reach(Statements(p), NextG(p), get_statement(p, m))}
        BY <1>2, <4>1, NodeSteps
      <4>3. \A s \in Reach(Statements(p), NextG(p), get_statement(p, m)) :
              s \in StatementsIn(p, Runs(p, n))
        BY <1>2, <4>1, ProgramsAssumption, SameProc DEF StatementsIn
      <4>4. QED  BY <4>2, <4>3
    <3>2. CASE d \in {StmtNode(t) : t \in StatementsIn(p, Runs(p, n))}
      <4>1. PICK t \in Statements(p) : d = StmtNode(t) /\ get_proc(p, t) \in Runs(p, n)
        BY <3>2 DEF StatementsIn
      <4>2. CASE kind(p, t) = "call"
        <5>1. G[d] = {ProcNode(get_proc_called(p, t))}
          BY <4>1, <4>2, NodeSteps
        <5>2. get_proc_called(p, t) \in Runs(p, n)
          BY <4>1, <4>2, ProgramsAssumption, CallsRun
        <5>3. QED  BY <5>1, <5>2
      <4>3. CASE kind(p, t) # "call"
        <5>1. G[d] = {StmtNode(u) : u \in ChildG(p)[t]}
          BY <4>1, <4>3, NodeSteps
        <5>2. \A u \in ChildG(p)[t] : u \in StatementsIn(p, Runs(p, n))
          BY <4>1, ProgramsAssumption, SameProc DEF StatementsIn
        <5>3. QED  BY <5>1, <5>2
      <4>4. QED  BY <4>2, <4>3
    <3>3. QED  BY <3>1, <3>2
  <2>3. PICK x, K : x \in S /\ x = ProcNode(n) /\ K = C
    BY <1>1
  <2> HIDE DEF C, S, G
  <2>4. K \in SUBSET S /\ x \in K /\ \A d \in K : G[d] \subseteq K
    BY <2>1, <2>2, <2>3
  <2>5. Reach(S, G, x) \subseteq K
    BY <1>1, <2>4, ReachLeast
  <2>6. QED  BY <2>3, <2>5
<1>4. \A x \in S : Reach(S, G, x) = {x} \cup Beyond(S, G, x)
  BY <1>1, BeyondInside
<1>5. ASSUME NEW m \in Runs(p, n) PROVE ProcNode(m) \in Reach(S, G, ProcNode(n))
  <2>1. m = n \/ m \in Beyond(Procs(p), CallG(p), n)
    <3>1. Reach(Procs(p), CallG(p), n) = {n} \cup Beyond(Procs(p), CallG(p), n)
      BY NodeWalks, BeyondInside
    <3>2. QED  BY <3>1 DEF Runs
  <2>2. CASE m = n
    BY <1>1, <1>4, <2>2
  <2>3. CASE m \in Beyond(Procs(p), CallG(p), n)
    BY <1>1, <1>4, <2>3, CallsWalked
  <2>4. QED  BY <2>1, <2>2, <2>3
<1>6. ASSUME NEW t \in StatementsIn(p, Runs(p, n)) PROVE StmtNode(t) \in Reach(S, G, ProcNode(n))
  <2>1. PICK m \in Runs(p, n) : m = get_proc(p, t) /\ t \in Statements(p) /\ m \in Procs(p)
    BY <1>2 DEF StatementsIn
  <2>2. StmtNode(t) \in Beyond(S, G, ProcNode(m))
    BY <2>1, StatementsOfProc
  <2>3. ProcNode(m) \in Reach(S, G, ProcNode(n))
    BY <1>5
  <2>4. PICK x \in S, y \in S : x = ProcNode(n) /\ y = ProcNode(m)
    BY <1>1, <2>1
  <2> HIDE DEF S, G
  <2>5. \A d \in Reach(S, G, x) : G[d] \subseteq Reach(S, G, x)
    BY <1>1, ReachLeast
  <2>6. PICK K \in SUBSET S : K = Reach(S, G, x)
    BY <1>1, ReachLeast
  <2>7. y \in K /\ G[y] \subseteq K /\ \A d \in K : G[d] \subseteq K
    BY <2>3, <2>4, <2>5, <2>6
  <2>8. Beyond(S, G, y) \subseteq K
    BY <1>1, <2>7, BeyondLeast
  <2>9. QED  BY <2>2, <2>4, <2>6, <2>8
<1>7. QED  BY <1>3, <1>5, <1>6

LEMMA StmtRuns ==
    ASSUME NEW p \in Programs, NEW s \in Statements(p)
    PROVE  Reach(Nodes(p), NodeG(p), StmtNode(s))
             = {StmtNode(t) : t \in In(p, s)}
               \cup {ProcNode(m) : m \in RunIn(p, s)}
               \cup {StmtNode(t) : t \in StatementsIn(p, RunIn(p, s))}
<1> DEFINE S == Nodes(p)
           G == NodeG(p)
           C == {StmtNode(t) : t \in In(p, s)}
                \cup {ProcNode(m) : m \in RunIn(p, s)}
                \cup {StmtNode(t) : t \in StatementsIn(p, RunIn(p, s))}
<1>1. /\ G \in [S -> SUBSET S]
      /\ \A t \in Statements(p) : StmtNode(t) \in S
      /\ \A m \in Procs(p) : ProcNode(m) \in S
  BY NodeWalks
<1>2. /\ s \in In(p, s) /\ In(p, s) \subseteq Statements(p)
      /\ \A t \in In(p, s) : ChildG(p)[t] \subseteq In(p, s)
  BY ProgramsAssumption, TreeWalks, ReachLeast DEF In
<1>3. CalledIn(p, s) \subseteq Procs(p)
  BY <1>2, ProgramsAssumption, AheadWalks DEF CalledIn
<1>4. /\ RunIn(p, s) \subseteq Procs(p) /\ CalledIn(p, s) \subseteq RunIn(p, s)
      /\ \A c \in Statements(p) :
           kind(p, c) = "call" /\ get_proc(p, c) \in RunIn(p, s)
             => get_proc_called(p, c) \in RunIn(p, s)
  BY <1>3, ProgramsAssumption, CallsRun DEF RunIn
<1>5. C \in SUBSET S
  BY <1>1, <1>2, <1>4 DEF StatementsIn
<1>6. ASSUME NEW t \in Statements(p), NEW d, d = StmtNode(t),
             t \in In(p, s) \/ get_proc(p, t) \in RunIn(p, s)
      PROVE  G[d] \subseteq C
  <2>1. CASE kind(p, t) = "call"
    <3>1. G[d] = {ProcNode(get_proc_called(p, t))}
      BY <1>6, <2>1, NodeSteps
    <3>2. get_proc_called(p, t) \in RunIn(p, s)
      BY <1>4, <1>6, <2>1 DEF CalledIn
    <3>3. QED  BY <3>1, <3>2
  <2>2. CASE kind(p, t) # "call"
    <3>1. G[d] = {StmtNode(u) : u \in ChildG(p)[t]}
      BY <1>6, <2>2, NodeSteps
    <3>2. \A u \in ChildG(p)[t] : u \in In(p, s) \/ u \in StatementsIn(p, RunIn(p, s))
      BY <1>2, <1>6, ProgramsAssumption, SameProc DEF StatementsIn
    <3>3. QED  BY <3>1, <3>2
  <2>3. QED  BY <2>1, <2>2
<1>7. ASSUME NEW m \in RunIn(p, s), NEW d, d = ProcNode(m) PROVE G[d] \subseteq C
  <2>1. G[d] = {StmtNode(t) : t \in Reach(Statements(p), NextG(p), get_statement(p, m))}
    BY <1>4, <1>7, NodeSteps
  <2>2. \A t \in Reach(Statements(p), NextG(p), get_statement(p, m)) :
          t \in StatementsIn(p, RunIn(p, s))
    BY <1>4, ProgramsAssumption, SameProc DEF StatementsIn
  <2>3. QED  BY <2>1, <2>2
<1>8. \A d \in C : G[d] \subseteq C
  <2>1. ASSUME NEW d \in C
        PROVE  \/ \E t \in Statements(p) : /\ d = StmtNode(t)
                                           /\ t \in In(p, s) \/ get_proc(p, t) \in RunIn(p, s)
               \/ \E m \in RunIn(p, s) : d = ProcNode(m)
    BY <1>2 DEF StatementsIn
  <2> HIDE DEF C, G
  <2>2. QED  BY <1>6, <1>7, <2>1
<1>9. PICK x, K : x \in S /\ x = StmtNode(s) /\ K = Reach(S, G, x)
  BY <1>1
<1>10. K \in SUBSET S /\ x \in K /\ \A d \in K : G[d] \subseteq K
  BY <1>1, <1>9, ReachLeast
<1>11. K \subseteq C
  <2>1. PICK C1 : C1 = C
    OBVIOUS
  <2>2. C1 \in SUBSET S /\ x \in C1 /\ \A d \in C1 : G[d] \subseteq C1
    <3>1. x \in C
      BY <1>2, <1>9
    <3> HIDE DEF C
    <3>2. QED  BY <1>5, <1>8, <2>1, <3>1
  <2> HIDE DEF C, S, G
  <2>3. K \subseteq C1
    BY <1>1, <1>9, <2>2, ReachLeast
  <2>4. QED  BY <2>1, <2>3
<1>12. \A t \in In(p, s) : StmtNode(t) \in K
  <2> DEFINE I == {t \in Statements(p) : StmtNode(t) \in K}
  <2>1. ASSUME NEW t \in I PROVE ChildG(p)[t] \subseteq I
    <3>1. ASSUME NEW u \in ChildG(p)[t] PROVE u \in I
      <4>1. u \in Statements(p) /\ get_parent(p, u) = t
        BY <3>1 DEF ChildG
      <4>2. kind(p, t) # "call"
        BY <4>1, ProgramsAssumption, ParentsContain
      <4>3. StmtNode(u) \in G[StmtNode(t)]
        BY <3>1, <4>2, NodeSteps
      <4>4. QED  BY <1>10, <4>1, <4>3
    <3>2. QED  BY <3>1
  <2>2. I \in SUBSET Statements(p) /\ s \in I
    BY <1>9, <1>10
  <2>3. In(p, s) \subseteq I
    <3> HIDE DEF I
    <3>1. QED  BY <2>1, <2>2, ProgramsAssumption, TreeWalks, ReachLeast DEF In
  <2>4. QED  BY <2>3
<1>13. ASSUME NEW m \in CalledIn(p, s) PROVE Reach(S, G, ProcNode(m)) \subseteq K
  <2>1. PICK c \in In(p, s) : kind(p, c) = "call" /\ m = get_proc_called(p, c)
    BY DEF CalledIn
  <2>2. ProcNode(m) \in G[StmtNode(c)]
    BY <1>2, <2>1, NodeSteps
  <2>3. PICK y \in S : y = ProcNode(m)
    BY <1>1, <1>3
  <2>4. y \in K
    BY <1>10, <1>12, <2>2, <2>3
  <2> HIDE DEF S, G
  <2>5. Reach(S, G, y) \subseteq K
    BY <1>1, <1>10, <2>4, ReachLeast
  <2>6. QED  BY <2>3, <2>5
<1>14. ASSUME NEW m \in RunIn(p, s)
       PROVE  ProcNode(m) \in K /\ \A t \in Statements(p) : get_proc(p, t) = m => StmtNode(t) \in K
  <2>1. PICK n \in CalledIn(p, s) : m \in Runs(p, n)
    BY DEF RunIn
  <2>2. n \in Procs(p) /\ Reach(S, G, ProcNode(n)) \subseteq K
    BY <1>3, <1>13
  <2>3. Reach(S, G, ProcNode(n))
          = {ProcNode(l) : l \in Runs(p, n)} \cup {StmtNode(t) : t \in StatementsIn(p, Runs(p, n))}
    BY <2>2, ProcRuns
  <2>4. QED  BY <2>1, <2>2, <2>3 DEF StatementsIn
<1>15. C \subseteq K
  BY <1>12, <1>14 DEF StatementsIn
<1>16. QED  BY <1>9, <1>11, <1>15

LEMMA EffectsOfRuns ==
    ASSUME NEW p \in Programs, NEW effect
    PROVE  /\ \A n \in Procs(p) :
                EffectsWalked(p, effect, ProcNode(n))
                  = UNION {extract(p, effect, t) : t \in StatementsIn(p, Runs(p, n))}
           /\ \A s \in Statements(p) :
                EffectsWalked(p, effect, StmtNode(s))
                  = UNION {extract(p, effect, t) : t \in RunsAll(p, s)}
<1>1. /\ \A t : Own(p, effect, StmtNode(t)) = extract(p, effect, t)
      /\ \A m : Own(p, effect, ProcNode(m)) = {}
  BY DEF Own, StmtNode, ProcNode
<1>2. \A m \in Nodes(p) : WalkOf(p, m) = Reach(Nodes(p), NodeG(p), m)
  BY NodeWalks
<1>3. ASSUME NEW n \in Procs(p)
      PROVE  EffectsWalked(p, effect, ProcNode(n))
               = UNION {extract(p, effect, t) : t \in StatementsIn(p, Runs(p, n))}
  <2>1. ProcNode(n) \in Nodes(p)
    BY NodeWalks
  <2>2. WalkOf(p, ProcNode(n))
          = {ProcNode(m) : m \in Runs(p, n)} \cup {StmtNode(t) : t \in StatementsIn(p, Runs(p, n))}
    BY <1>2, <2>1, ProcRuns
  <2>3. \A x : x \in EffectsWalked(p, effect, ProcNode(n))
                <=> \E t \in StatementsIn(p, Runs(p, n)) : x \in extract(p, effect, t)
    BY <1>1, <2>2 DEF EffectsWalked
  <2>4. QED  BY <2>3
<1>4. ASSUME NEW s \in Statements(p)
      PROVE  EffectsWalked(p, effect, StmtNode(s))
               = UNION {extract(p, effect, t) : t \in RunsAll(p, s)}
  <2>1. StmtNode(s) \in Nodes(p)
    BY NodeWalks
  <2>2. WalkOf(p, StmtNode(s))
          = {StmtNode(t) : t \in In(p, s)}
            \cup {ProcNode(m) : m \in RunIn(p, s)}
            \cup {StmtNode(t) : t \in StatementsIn(p, RunIn(p, s))}
    BY <1>2, <2>1, StmtRuns
  <2>3. \A x : x \in EffectsWalked(p, effect, StmtNode(s))
                <=> \E t \in RunsAll(p, s) : x \in extract(p, effect, t)
    BY <1>1, <2>2 DEF EffectsWalked, RunsAll
  <2>4. QED  BY <2>3
<1>5. QED  BY <1>3, <1>4

LEMMA InsideIs ==
    ASSUME NEW p \in Programs, NEW s \in Statements(p)
    PROVE  Inside(p, s) = In(p, s)
<1> DEFINE S == Statements(p)
           D == S \cup {NoStmt}
           R == {<<get_parent(p, u), u>> : u \in S}
           H == StepsOf(D, R)
           f == [t \in S |-> t]
           E == [t \in S |-> {}]
<1>1. \A u \in S : get_parent(p, u) \in D /\ NoStmt \notin S
  BY ProgramsAssumption, TreeLines
<1>2. R \in SUBSET (D \X D) /\ H \in [D -> SUBSET D]
  BY <1>1 DEF StepsOf
<1>3. IsFiniteSet(Middle(R))
  <2>1. Middle(R) \in SUBSET D
    BY <1>2 DEF Middle
  <2>2. QED  BY <2>1, ProgramsAssumption, ProgramFinite, FS_Subset
<1>4. ChildG(p) \in [S -> SUBSET S]
  BY ProgramsAssumption, TreeWalks
<1>5. ASSUME NEW t \in S PROVE H[t] = ChildG(p)[t]
  <2>1. H[t] = {u \in D : <<t, u>> \in R}
    BY DEF StepsOf
  <2>2. \A u : u \in H[t] <=> u \in S /\ get_parent(p, u) = t
    BY <1>1, <2>1
  <2> HIDE DEF H
  <2>3. QED  BY <2>2 DEF ChildG
<1>6. Beyond(D, H, s) = Beyond(S, ChildG(p), s)
  <2>1. f \in [S -> D] /\ E \in [S -> SUBSET D] /\ f[s] = s
    OBVIOUS
  <2>2. Maps(S, ChildG(p), D, H, f, E)
    <3>1. ASSUME NEW t \in S
          PROVE  H[f[t]] = E[t] \cup {f[u] : u \in ChildG(p)[t]} /\ \A x \in E[t] : H[x] = {}
      <4>1. ChildG(p)[t] \subseteq S
        BY <1>4
      <4>2. {f[u] : u \in ChildG(p)[t]} = ChildG(p)[t]
        BY <4>1
      <4>3. f[t] = t /\ E[t] = {}
        OBVIOUS
      <4> HIDE DEF H, f, E
      <4>4. QED  BY <1>5, <4>2, <4>3
    <3> HIDE DEF H, f, E
    <3>2. QED  BY <3>1 DEF Maps
  <2>3. PICK T, D1, H1, g, N : T = S /\ D1 = D /\ H1 = H /\ g = f /\ N = E
    OBVIOUS
  <2>4. /\ ChildG(p) \in [T -> SUBSET T] /\ H1 \in [D1 -> SUBSET D1] /\ g \in [T -> D1]
        /\ N \in [T -> SUBSET D1] /\ Maps(T, ChildG(p), D1, H1, g, N) /\ s \in T /\ g[s] = s
    <3> HIDE DEF H, f, E, D
    <3>1. QED  BY <1>2, <1>4, <2>1, <2>2, <2>3
  <2>5. Beyond(D1, H1, g[s]) = Carried(H1, g, Reach(T, ChildG(p), s))
    BY <2>4, WalkCarried
  <2>6. Reach(S, ChildG(p), s) \subseteq S
    BY <1>4, ReachLeast
  <2>7. Carried(H1, g, Reach(T, ChildG(p), s)) = UNION {ChildG(p)[t] : t \in Reach(S, ChildG(p), s)}
    <3>1. ASSUME NEW t \in Reach(S, ChildG(p), s) PROVE H1[g[t]] = ChildG(p)[t]
      BY <1>5, <2>3, <2>6
    <3> HIDE DEF H, f, E, D
    <3>2. QED  BY <2>3, <3>1 DEF Carried
  <2>8. Beyond(S, ChildG(p), s) = UNION {ChildG(p)[t] : t \in Reach(S, ChildG(p), s)}
    BY <1>4, BeyondGathers DEF Gather
  <2> HIDE DEF H, f, E, D
  <2>9. QED  BY <2>3, <2>4, <2>5, <2>7, <2>8
<1>7. \A b : <<s, b>> \in Closure(R) <=> b \in Beyond(D, H, s)
  <2>1. PICK T, Q : T = D /\ Q = R
    OBVIOUS
  <2>2. Q \in SUBSET (T \X T) /\ IsFiniteSet(Middle(Q)) /\ StepsOf(T, Q) = H /\ s \in T
    BY <1>2, <1>3, <2>1
  <2>3. \A a, b : <<a, b>> \in Closure(Q) <=> a \in T /\ b \in Beyond(T, StepsOf(T, Q), a)
    BY <2>2, ClosureWalks
  <2> HIDE DEF D, R, H
  <2>4. QED  BY <2>1, <2>2, <2>3
<1>8. Reach(S, ChildG(p), s) = {s} \cup Beyond(S, ChildG(p), s) /\ Beyond(S, ChildG(p), s) \subseteq S
  BY <1>4, BeyondInside
<1>9. Inside(p, s) = {s} \cup {t \in S : <<s, t>> \in Closure(R)}
  BY DEF Inside
<1> HIDE DEF R, H, D
<1>10. QED  BY <1>6, <1>7, <1>8, <1>9 DEF In

LEMMA RunByIs ==
    ASSUME NEW p \in Programs, NEW s \in Statements(p)
    PROVE  RunBy(p, s) = RunsAll(p, s)
<1>1. In(p, s) \subseteq Statements(p)
  BY ProgramsAssumption, TreeWalks, ReachLeast DEF In
<1>2. \A c \in In(p, s) : kind(p, c) = "call" => get_proc_called(p, c) \in Procs(p)
  BY <1>1, ProgramsAssumption, AheadWalks
<1>3. RunBy(p, s) = In(p, s) \cup
        UNION {{t \in Statements(p) : get_proc(p, t) \in Running(p, get_proc_called(p, c))} :
                 c \in {w \in In(p, s) : kind(p, w) = "call"}}
  BY InsideIs DEF RunBy
<1>4. \A c \in In(p, s) : kind(p, c) = "call" =>
         Running(p, get_proc_called(p, c)) = Runs(p, get_proc_called(p, c))
  BY <1>2, ProgramsAssumption, RunningIs
<1>5. ASSUME NEW t
      PROVE  t \in RunBy(p, s)
               <=> \/ t \in In(p, s)
                   \/ \E c \in In(p, s) : /\ kind(p, c) = "call" /\ t \in Statements(p)
                                          /\ get_proc(p, t) \in Runs(p, get_proc_called(p, c))
  BY <1>3, <1>4
<1>6. ASSUME NEW t
      PROVE  t \in RunsAll(p, s)
               <=> \/ t \in In(p, s)
                   \/ \E c \in In(p, s) : /\ kind(p, c) = "call" /\ t \in Statements(p)
                                          /\ get_proc(p, t) \in Runs(p, get_proc_called(p, c))
  BY DEF RunsAll, StatementsIn, RunIn, CalledIn
<1>7. QED  BY <1>5, <1>6

LEMMA WalkIndexes ==
    ASSUME NEW p \in Programs, NEW effect, NEW t \in Statements(p)
    PROVE  EffectsWalked(p, effect, StmtNode(t))
             = extract(p, effect, t)
               \cup UNION {EffectsWalked(p, effect, StmtNode(u)) : u \in RunG(p)[t]}
<1> DEFINE S == Nodes(p)
           G == NodeG(p)
           EW(m) == EffectsWalked(p, effect, m)
<1>1. /\ G \in [S -> SUBSET S]
      /\ \A m \in S : WalkOf(p, m) = Reach(S, G, m)
      /\ \A u \in Statements(p) : StmtNode(u) \in S
      /\ \A n \in Procs(p) : ProcNode(n) \in S
  BY NodeWalks
<1>2. ASSUME NEW m \in S PROVE EW(m) = Own(p, effect, m) \cup UNION {EW(k) : k \in G[m]}
  <2>1. PICK base : base = [k \in S |-> Own(p, effect, k)]
    OBVIOUS
  <2>2. \A k \in S : EW(k) = Gather(S, G, base, k)
    <3>1. ASSUME NEW k \in S PROVE EW(k) = Gather(S, G, base, k)
      <4>1. Reach(S, G, k) \subseteq S
        BY <1>1, ReachLeast
      <4>2. \A x \in Reach(S, G, k) : base[x] = Own(p, effect, x)
        BY <2>1, <4>1
      <4>3. QED  BY <1>1, <4>2 DEF EffectsWalked, Gather
    <3>2. QED  BY <3>1
  <2>3. Gather(S, G, base, m) = base[m] \cup UNION {Gather(S, G, base, k) : k \in G[m]}
    BY <1>1, GatherUnfold
  <2>4. UNION {Gather(S, G, base, k) : k \in G[m]} = UNION {EW(k) : k \in G[m]}
    <3>1. G[m] \subseteq S
      BY <1>1
    <3>2. QED  BY <2>2, <3>1
  <2>5. QED  BY <2>1, <2>2, <2>3, <2>4
<1>3. /\ Own(p, effect, StmtNode(t)) = extract(p, effect, t)
      /\ \A n : Own(p, effect, ProcNode(n)) = {}
  BY DEF Own, StmtNode, ProcNode
<1>4. CASE kind(p, t) = "call"
  <2>1. PICK n \in Procs(p) : n = get_proc_called(p, t)
    BY <1>4, ProgramsAssumption, AheadWalks
  <2>2. G[StmtNode(t)] = {ProcNode(n)}
    BY <1>4, <2>1, NodeSteps
  <2>3. G[ProcNode(n)] = {StmtNode(u) : u \in RunG(p)[t]}
    BY <1>4, <2>1, NodeSteps DEF RunG
  <2>4. EW(StmtNode(t)) = extract(p, effect, t) \cup EW(ProcNode(n))
    <3> HIDE DEF EW, G
    <3>1. QED  BY <1>1, <1>2, <1>3, <2>2
  <2>5. EW(ProcNode(n)) = UNION {EW(k) : k \in G[ProcNode(n)]}
    <3> HIDE DEF EW, G
    <3>1. QED  BY <1>1, <1>2, <1>3
  <2>6. UNION {EW(k) : k \in G[ProcNode(n)]} = UNION {EW(StmtNode(u)) : u \in RunG(p)[t]}
    <3> HIDE DEF EW, G
    <3>1. QED  BY <2>3
  <2>7. QED  BY <2>4, <2>5, <2>6
<1>5. CASE kind(p, t) # "call"
  <2>1. G[StmtNode(t)] = {StmtNode(u) : u \in RunG(p)[t]}
    BY <1>5, NodeSteps DEF RunG
  <2>2. EW(StmtNode(t)) = extract(p, effect, t) \cup UNION {EW(k) : k \in G[StmtNode(t)]}
    <3> HIDE DEF EW, G
    <3>1. QED  BY <1>1, <1>2, <1>3
  <2>3. UNION {EW(k) : k \in G[StmtNode(t)]} = UNION {EW(StmtNode(u)) : u \in RunG(p)[t]}
    <3> HIDE DEF EW, G
    <3>1. QED  BY <2>1
  <2>4. QED  BY <2>2, <2>3
<1>6. QED  BY <1>4, <1>5

LEMMA IndexIsWalk ==
    ASSUME NEW p \in Programs, NEW effect, RunsFounded(p), NEW s \in Statements(p)
    PROVE  index_variables(p, effect, s) = EffectsWalked(p, effect, StmtNode(s))
<1>1. PICK g : g = [t \in Statements(p) |-> EffectsWalked(p, effect, StmtNode(t))]
  OBVIOUS
<1>2. ASSUME NEW t \in Statements(p) PROVE g[t] = IndexHere(p, effect, g, t)
  <2>1. RunG(p)[t] \subseteq Statements(p)
    BY ProgramsAssumption, RunWalk
  <2>2. \A u \in RunG(p)[t] : g[u] = EffectsWalked(p, effect, StmtNode(u))
    BY <1>1, <2>1
  <2>3. g[t] = EffectsWalked(p, effect, StmtNode(t))
    BY <1>1
  <2>4. QED  BY <2>2, <2>3, WalkIndexes DEF IndexHere
<1>3. g = [t \in Statements(p) |-> g[t]]
  BY <1>1
<1>4. index_variables(p, effect, s) = g[s]
  BY <1>2, <1>3, ProgramsAssumption, IndexUnique
<1>5. QED  BY <1>1, <1>4

LEMMA EveryStatementWalked ==
    ASSUME NEW p \in Programs, NEW s \in Statements(p)
    PROVE  /\ get_proc(p, s) \in Procs(p)
           /\ StmtNode(s) \in WalkOf(p, ProcNode(get_proc(p, s)))
<1>1. get_proc(p, s) \in Procs(p)
  BY ProgramsAssumption, AheadWalks
<1>2. PICK x \in Nodes(p) : x = ProcNode(get_proc(p, s))
  BY <1>1, NodeWalks
<1>3. StmtNode(s) \in Beyond(Nodes(p), NodeG(p), x)
  BY <1>2, StatementsOfProc
<1>4. Reach(Nodes(p), NodeG(p), x) = {x} \cup Beyond(Nodes(p), NodeG(p), x)
  BY NodeWalks, BeyondInside
<1>5. WalkOf(p, x) = Reach(Nodes(p), NodeG(p), x)
  BY NodeWalks
<1>6. QED  BY <1>1, <1>2, <1>3, <1>4, <1>5

LEMMA RunsAreFounded ==
    ASSUME IndexInv, EntriesFounded, EntriesAreWalks, Indexed
    PROVE  RunsFounded(program)
<1> DEFINE p == program
           S == Statements(p)
<1>1. p \in Programs /\ "uses" \in Effects
  BY DEF IndexInv, IndexTypeOK, Effects
<1> SUFFICES ASSUME NEW T \in SUBSET S, T # {}, \A t \in T : RunG(p)[t] \cap T # {}
             PROVE  FALSE
  BY DEF RunsFounded
<1> DEFINE list(n) == Reach(S, NextG(p), get_statement(p, n))
           N == {n \in Procs(p) : list(n) \cap T # {}}
           C == {<<"uses", StmtNode(t)>> : t \in T} \cup {<<"uses", ProcNode(n)>> : n \in N}
<1>2. \A t \in S : <<"uses", StmtNode(t)>> \in DOMAIN left
  BY <1>1, EveryStatementWalked DEF EntriesAreWalks
<1>3. \A n \in Procs(p) : <<"uses", ProcNode(n)>> \in DOMAIN left
  <2>1. ASSUME NEW n \in Procs(p) PROVE ProcNode(n) \in WalkOf(p, ProcNode(n))
    BY <1>1, NodeWalks, ReachLeast
  <2>2. QED  BY <1>1, <2>1 DEF EntriesAreWalks
<1>4. C \in SUBSET DOMAIN left /\ C # {}
  BY <1>2, <1>3
<1>5. PICK key \in C : ChildKeys(p, key[1], key[2]) \cap C = {}
  <2> HIDE DEF C
  <2>1. QED  BY <1>4 DEF EntriesFounded, Grounded
<1>6. \A m \in Nodes(p) : \A y \in NodeG(p)[m] : <<"uses", y>> \in ChildKeys(p, "uses", m)
  BY DEF NodeG, ChildKeys, Members
<1>7. ASSUME NEW t \in T, key = <<"uses", StmtNode(t)>> PROVE FALSE
  <2>1. key[1] = "uses" /\ key[2] = StmtNode(t) /\ StmtNode(t) \in Nodes(p)
    BY <1>1, <1>7, NodeWalks
  <2>2. \A y \in NodeG(p)[StmtNode(t)] : <<"uses", y>> \notin C
    BY <1>5, <1>6, <2>1
  <2>3. PICK u \in RunG(p)[t] : u \in T
    OBVIOUS
  <2>4. CASE kind(p, t) = "call"
    <3>1. PICK n \in Procs(p) : n = get_proc_called(p, t)
      BY <1>1, <2>4, ProgramsAssumption, AheadWalks
    <3>2. ProcNode(n) \in NodeG(p)[StmtNode(t)]
      BY <1>1, <2>4, <3>1, NodeSteps
    <3>3. u \in list(n)
      BY <2>3, <2>4, <3>1 DEF RunG
    <3>4. n \in N
      BY <2>3, <3>3
    <3>5. <<"uses", ProcNode(n)>> \in C
      BY <3>4
    <3>6. QED  BY <2>2, <3>2, <3>5
  <2>5. CASE kind(p, t) # "call"
    <3>1. u \in ChildG(p)[t]
      BY <2>3, <2>5 DEF RunG
    <3>2. StmtNode(u) \in NodeG(p)[StmtNode(t)]
      BY <1>1, <2>5, <3>1, NodeSteps
    <3>3. <<"uses", StmtNode(u)>> \in C
      BY <2>3
    <3>4. QED  BY <2>2, <3>2, <3>3
  <2>6. QED  BY <2>4, <2>5
<1>8. ASSUME NEW n \in N, key = <<"uses", ProcNode(n)>> PROVE FALSE
  <2>1. key[1] = "uses" /\ key[2] = ProcNode(n) /\ ProcNode(n) \in Nodes(p) /\ n \in Procs(p)
    BY <1>1, <1>8, NodeWalks
  <2>2. \A y \in NodeG(p)[ProcNode(n)] : <<"uses", y>> \notin C
    BY <1>5, <1>6, <2>1
  <2>3. PICK t \in list(n) : t \in T
    OBVIOUS
  <2>4. StmtNode(t) \in NodeG(p)[ProcNode(n)]
    BY <1>1, <2>1, <2>3, NodeSteps
  <2>5. <<"uses", StmtNode(t)>> \in C
    BY <2>3
  <2>6. QED  BY <2>2, <2>4, <2>5
<1>9. QED  BY <1>5, <1>7, <1>8

LEMMA EffectsWhenBuilt ==
    ASSUME IndexInv, EntriesFounded, EntriesAreWalks
    PROVE  EffectsOfAllThatRuns
<1> DEFINE p == program
<1>1. SUFFICES ASSUME TableBuilt, NEW effect \in Effects
      PROVE  /\ \A s \in Statements(p) :
                  /\ get_right_vars(effect, Stmt(s))
                       = UNION {extract(p, effect, t) : t \in RunBy(p, s)}
                  /\ get_right_vars(effect, Stmt(s)) = index_variables(p, effect, s)
             /\ \A proc \in Procedures :
                  get_right_vars(effect, Proc(proc))
                    = UNION {extract(p, effect, t) :
                               t \in {u \in Statements(p) : get_proc(p, u) \in Running(p, proc)}}
  BY DEF EffectsOfAllThatRuns
<1>2. p \in Programs /\ Indexed /\ Procs(p) = Procedures
  BY <1>1, ProgramsAssumption DEF IndexInv, IndexTypeOK, TableBuilt
<1>3. ASSUME NEW s \in Statements(p)
      PROVE  /\ get_right_vars(effect, Stmt(s))
                  = UNION {extract(p, effect, t) : t \in RunBy(p, s)}
             /\ get_right_vars(effect, Stmt(s)) = index_variables(p, effect, s)
  <2>1. get_right_vars(effect, StmtNode(s)) = EffectsWalked(p, effect, StmtNode(s))
    BY <1>2, EveryStatementWalked DEF EntriesAreWalks
  <2>2. EffectsWalked(p, effect, StmtNode(s)) = UNION {extract(p, effect, t) : t \in RunBy(p, s)}
    BY <1>2, EffectsOfRuns, RunByIs
  <2>3. EffectsWalked(p, effect, StmtNode(s)) = index_variables(p, effect, s)
    BY <1>2, RunsAreFounded, IndexIsWalk
  <2>4. Stmt(s) = StmtNode(s)
    BY DEF Stmt, StmtNode
  <2>5. QED  BY <2>1, <2>2, <2>3, <2>4
<1>4. ASSUME NEW n \in Procedures
      PROVE  get_right_vars(effect, Proc(n))
               = UNION {extract(p, effect, t) :
                          t \in {u \in Statements(p) : get_proc(p, u) \in Running(p, n)}}
  <2>1. ProcNode(n) \in WalkOf(p, ProcNode(n))
    BY <1>2, NodeWalks, ReachLeast
  <2>2. get_right_vars(effect, ProcNode(n)) = EffectsWalked(p, effect, ProcNode(n))
    BY <1>2, <2>1 DEF EntriesAreWalks
  <2>3. EffectsWalked(p, effect, ProcNode(n))
          = UNION {extract(p, effect, t) : t \in StatementsIn(p, Runs(p, n))}
    BY <1>2, EffectsOfRuns
  <2>4. StatementsIn(p, Runs(p, n)) = {u \in Statements(p) : get_proc(p, u) \in Running(p, n)}
    BY <1>2, ProgramsAssumption, RunningIs DEF StatementsIn
  <2>5. Proc(n) = ProcNode(n)
    BY DEF Proc, ProcNode
  <2>6. QED  BY <2>2, <2>3, <2>4, <2>5
<1>5. QED  BY <1>3, <1>4

\* What Modifies and Uses say of a statement or a procedure is what all the
\* statements contribute that run when it does (assign.cpp), on every program
\* whose construction ends: with the call graph's closure for the calls and
\* the parents' for the containers.  The recursive form of the walk that the
\* other solvers rest on finds the same.
THEOREM EffectsAlwaysOfAllThatRuns == TableSpec => []EffectsOfAllThatRuns
BY AlwaysText, EffectsWhenBuilt, PTL
==============================================================================
