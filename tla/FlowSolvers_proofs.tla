-------------------------- MODULE FlowSolvers_proofs -------------------------
(***************************************************************************)
(* Proofs about GraphSearch, for every set of programs, queries, points    *)
(* and steps: the calls in progress neither lose nor invent a point, so    *)
(* the search implements SearchContract.                                   *)
(*                                                                         *)
(* And about the points and steps of FlowSolvers, for every program: the   *)
(* three forms of Next are the flow, and the answers of the searches for   *)
(* Next*, Affects and Affects* are what the text means by them.  What a    *)
(* search reaches lies within a set that its steps do not leave, and holds *)
(* every walk that its steps follow; for Affects both are the walks along  *)
(* the flow that no statement on the way kills.                            *)
(***************************************************************************)
EXTENDS FlowSolvers, ProgramLemmas

------------------------------------------------------------------------------
(* Reachable is closed under the steps, and the least such set.            *)
LEMMA ReachableClosed ==
    ASSUME NEW p \in Program, NEW q \in Queries(p)
    PROVE  /\ Contract!Reachable(p, q) \subseteq Points(p, q)
           /\ Start(p, q) \subseteq Contract!Reachable(p, q)
           /\ \A n \in Contract!Reachable(p, q) :
                 /\ Succ(p, q, n) \subseteq Contract!Reachable(p, q)
                 /\ Emit(p, q, n) \subseteq Contract!Answer(p, q)
<1>1. Contract!Reachable(p, q) \subseteq Points(p, q)
  BY DEF Contract!Reachable
<1>2. Start(p, q) \subseteq Contract!Reachable(p, q)
  BY SearchAssumption DEF Contract!Reachable, Contract!Closed
<1>3. ASSUME NEW n \in Contract!Reachable(p, q)
      PROVE  Succ(p, q, n) \subseteq Contract!Reachable(p, q)
  <2>1. Succ(p, q, n) \subseteq Points(p, q)
    BY <1>1, SearchAssumption
  <2>2. ASSUME NEW C \in SUBSET Points(p, q), Contract!Closed(p, q, C)
        PROVE  Succ(p, q, n) \subseteq C
    BY <2>2 DEF Contract!Reachable, Contract!Closed
  <2>3. QED  BY <2>1, <2>2 DEF Contract!Reachable
<1>4. ASSUME NEW n \in Contract!Reachable(p, q)
      PROVE  Emit(p, q, n) \subseteq Contract!Answer(p, q)
  BY DEF Contract!Answer
<1>5. QED  BY <1>1, <1>2, <1>3, <1>4

LEMMA ReachableLeast ==
    ASSUME NEW p \in Program, NEW q \in Queries(p),
           NEW C \in SUBSET Points(p, q), Contract!Closed(p, q, C)
    PROVE  Contract!Reachable(p, q) \subseteq C
BY DEF Contract!Reachable

------------------------------------------------------------------------------
(* What a stack of calls has pending and gathered, taken apart and put     *)
(* together one call at a time.                                            *)
LEMMA TopCall ==
    ASSUME NEW S, NEW s \in Seq(S), s # <<>>
    PROVE  /\ Head(s) \in S
           /\ Tail(s) \in Seq(S)
           /\ Pending(s)  = Head(s).todo  \cup Pending(Tail(s))
           /\ Gathered(s) = Head(s).found \cup Gathered(Tail(s))
<1>1. /\ Head(s) \in S /\ Tail(s) \in Seq(S)
      /\ Len(Tail(s)) = Len(s) - 1
      /\ \A i \in 1 .. Len(Tail(s)) : Tail(s)[i] = s[i + 1]
  BY HeadTailProperties
<1>2. /\ Len(s) \in Nat \ {0} /\ DOMAIN s = 1 .. Len(s)
      /\ DOMAIN Tail(s) = 1 .. Len(s) - 1
  BY <1>1, LenProperties, EmptySeq
<1>3. Head(s) = s[1]
  BY <1>2
<1>4. ASSUME NEW i \in DOMAIN s, i # 1
      PROVE  i - 1 \in DOMAIN Tail(s) /\ Tail(s)[i - 1] = s[i]
  BY <1>1, <1>2, <1>4
<1>5. ASSUME NEW j \in DOMAIN Tail(s)
      PROVE  j + 1 \in DOMAIN s /\ s[j + 1] = Tail(s)[j]
  BY <1>1, <1>2
<1>6. 1 \in DOMAIN s
  BY <1>2
<1>7. Pending(s) = Head(s).todo \cup Pending(Tail(s))
  <2>1. ASSUME NEW x \in Pending(s)
        PROVE  x \in Head(s).todo \cup Pending(Tail(s))
    <3>1. PICK i \in DOMAIN s : x \in s[i].todo
      BY DEF Pending
    <3>2. CASE i = 1
      BY <1>3, <3>1, <3>2
    <3>3. CASE i # 1
      <4>1. i - 1 \in DOMAIN Tail(s) /\ x \in Tail(s)[i - 1].todo
        BY <1>4, <3>1, <3>3
      <4>2. QED  BY <4>1 DEF Pending
    <3>4. QED  BY <3>2, <3>3
  <2>2. Head(s).todo \subseteq Pending(s)
    BY <1>3, <1>6 DEF Pending
  <2>3. ASSUME NEW x \in Pending(Tail(s)) PROVE x \in Pending(s)
    <3>1. PICK j \in DOMAIN Tail(s) : x \in Tail(s)[j].todo
      BY DEF Pending
    <3>2. j + 1 \in DOMAIN s /\ x \in s[j + 1].todo
      BY <1>5, <3>1
    <3>3. QED  BY <3>2 DEF Pending
  <2>4. QED  BY <2>1, <2>2, <2>3
<1>8. Gathered(s) = Head(s).found \cup Gathered(Tail(s))
  <2>1. ASSUME NEW x \in Gathered(s)
        PROVE  x \in Head(s).found \cup Gathered(Tail(s))
    <3>1. PICK i \in DOMAIN s : x \in s[i].found
      BY DEF Gathered
    <3>2. CASE i = 1
      BY <1>3, <3>1, <3>2
    <3>3. CASE i # 1
      <4>1. i - 1 \in DOMAIN Tail(s) /\ x \in Tail(s)[i - 1].found
        BY <1>4, <3>1, <3>3
      <4>2. QED  BY <4>1 DEF Gathered
    <3>4. QED  BY <3>2, <3>3
  <2>2. Head(s).found \subseteq Gathered(s)
    BY <1>3, <1>6 DEF Gathered
  <2>3. ASSUME NEW x \in Gathered(Tail(s)) PROVE x \in Gathered(s)
    <3>1. PICK j \in DOMAIN Tail(s) : x \in Tail(s)[j].found
      BY DEF Gathered
    <3>2. j + 1 \in DOMAIN s /\ x \in s[j + 1].found
      BY <1>5, <3>1
    <3>3. QED  BY <3>2 DEF Gathered
  <2>4. QED  BY <2>1, <2>2, <2>3
<1>9. QED  BY <1>1, <1>7, <1>8

LEMMA SecondCall ==
    ASSUME NEW S, NEW s \in Seq(S), s # <<>>
    PROVE  /\ Len(s) = 1 => Tail(s) = <<>>
           /\ Len(s) > 1 => Tail(s) # <<>> /\ Head(Tail(s)) = s[2]
<1>1. /\ Tail(s) \in Seq(S) /\ Len(Tail(s)) = Len(s) - 1
      /\ \A i \in 1 .. Len(Tail(s)) : Tail(s)[i] = s[i + 1]
  BY HeadTailProperties
<1>2. Len(s) \in Nat
  BY LenProperties
<1>3. CASE Len(s) = 1
  <2>1. Len(Tail(s)) = 0
    BY <1>1, <1>3
  <2>2. PICK t \in Seq(S) : t = Tail(s)
    BY <1>1
  <2>3. t = <<>>
    BY <2>1, <2>2, EmptySeq
  <2>4. QED  BY <1>3, <2>2, <2>3
<1>4. CASE Len(s) > 1
  <2>1. Len(Tail(s)) \in Nat \ {0} /\ Tail(s)[1] = s[2]
    BY <1>1, <1>2, <1>4
  <2>2. Tail(s) # <<>>
    BY <2>1, EmptySeq
  <2>3. Head(Tail(s)) = Tail(s)[1]
    BY <1>1, <2>2, HeadTailProperties
  <2>4. QED  BY <1>4, <2>1, <2>2, <2>3
<1>5. QED  BY <1>2, <1>3, <1>4

LEMMA PushCall ==
    ASSUME NEW S, NEW s \in Seq(S), NEW f \in S
    PROVE  /\ <<f>> \o s \in Seq(S) /\ <<f>> \o s # <<>>
           /\ Pending(<<f>> \o s)  = f.todo  \cup Pending(s)
           /\ Gathered(<<f>> \o s) = f.found \cup Gathered(s)
<1>1. /\ <<f>> \o s \in Seq(S) /\ <<f>> \o s # <<>>
      /\ Head(<<f>> \o s) = f /\ Tail(<<f>> \o s) = s
  <2>1. <<f>> \in Seq(S) /\ Len(<<f>>) = 1 /\ <<f>>[1] = f
    OBVIOUS
  <2>2. /\ <<f>> \o s \in Seq(S)
        /\ Len(<<f>> \o s) = 1 + Len(s)
        /\ \A i \in 1 .. 1 + Len(s) :
              (<<f>> \o s)[i] = IF i <= 1 THEN <<f>>[i] ELSE s[i - 1]
    BY <2>1, ConcatProperties
  <2>3. Len(s) \in Nat
    BY LenProperties
  <2>4. <<f>> \o s # <<>> /\ Head(<<f>> \o s) = f
    BY <2>1, <2>2, <2>3
  <2>5. /\ Tail(<<f>> \o s) \in Seq(S)
        /\ Len(Tail(<<f>> \o s)) = Len(s)
        /\ \A i \in 1 .. Len(s) : Tail(<<f>> \o s)[i] = s[i]
    BY <2>2, <2>3, <2>4, HeadTailProperties
  <2>6. Tail(<<f>> \o s) = s
    BY <2>5, SeqEqual
  <2>7. QED  BY <2>2, <2>4, <2>6
<1>2. QED  BY <1>1, TopCall

------------------------------------------------------------------------------
(***************************************************************************)
(* The inductive invariant: a search in progress has neither lost nor      *)
(* invented anything.                                                      *)
(***************************************************************************)
SearchInv == ast \in Program /\ NothingInvented /\ NothingForgotten

LEMMA InitInv == Init => SearchInv
BY DEF Init, SearchInv, NothingInvented, NothingForgotten, Idle

(* A query starts with the whole of its first loop pending.                *)
LEMMA AskInv ==
    ASSUME SearchInv, NEW q \in Queries(ast), Ask(q) PROVE SearchInv'
<1> DEFINE R == Contract!Reachable(ast, q)
           V == Contract!Answer(ast, q)
           f == Frame(Start(ast, q), {})
<1>1. ast' = ast /\ asked' = q /\ cache' = cache /\ visited' = {} /\ stack' = <<f>>
  BY DEF Ask
<1>2. ast \in Program /\ Start(ast, q) \subseteq R
  BY ReachableClosed DEF SearchInv
<1>3. f \in Frames(R, V)
  BY <1>2 DEF Frame, Frames
<1>4. stack' \in Seq(Frames(R, V))
  BY <1>1, <1>3
<1>5. Pending(stack') = Start(ast, q)
  BY <1>1 DEF Pending, Frame
<1>6. NothingInvented'
  BY <1>1, <1>4 DEF Ask, NothingInvented
<1>7. NothingForgotten'
  BY <1>1, <1>5 DEF NothingForgotten, Covered
<1>8. QED  BY <1>1, <1>2, <1>6, <1>7 DEF SearchInv

(***************************************************************************)
(* What every step of a search works with: its innermost call, and what    *)
(* lies behind it.                                                         *)
(***************************************************************************)
LEMMA InProgress ==
    ASSUME SearchInv, ~Idle
    PROVE  /\ ast \in Program
           /\ asked \in Queries(ast) \ DOMAIN cache
           /\ visited \subseteq Contract!Reachable(ast, asked)
           /\ stack \in Seq(Frames(Contract!Reachable(ast, asked),
                                   Contract!Answer(ast, asked)))
           /\ Head(stack) \in Frames(Contract!Reachable(ast, asked),
                                     Contract!Answer(ast, asked))
           /\ Tail(stack) \in Seq(Frames(Contract!Reachable(ast, asked),
                                         Contract!Answer(ast, asked)))
           /\ Pending(stack)  = Head(stack).todo  \cup Pending(Tail(stack))
           /\ Gathered(stack) = Head(stack).found \cup Gathered(Tail(stack))
           /\ Covered(ast, asked, visited, stack)
<1>1. stack # <<>>
  BY DEF Idle
<1>2. /\ asked \in Queries(ast) \ DOMAIN cache
      /\ visited \subseteq Contract!Reachable(ast, asked)
      /\ stack \in Seq(Frames(Contract!Reachable(ast, asked),
                              Contract!Answer(ast, asked)))
  BY DEF SearchInv, NothingInvented
<1>3. QED  BY <1>1, <1>2, TopCall DEF SearchInv, NothingForgotten

(* A step that keeps the query keeps the invariant, if it keeps the three  *)
(* facts about it.                                                         *)
LEMMA StillInv ==
    ASSUME SearchInv, ~Idle, UNCHANGED <<ast, cache, asked>>,
           visited' \subseteq Contract!Reachable(ast, asked),
           stack' \in Seq(Frames(Contract!Reachable(ast, asked),
                                 Contract!Answer(ast, asked))),
           Covered(ast, asked, visited', stack')
    PROVE  SearchInv'
<1>1. NothingInvented'
  BY InProgress DEF NothingInvented
<1>2. NothingForgotten'
  BY DEF NothingForgotten
<1>3. QED  BY <1>1, <1>2 DEF SearchInv

(* A point that is skipped was visited, so it stays covered.               *)
LEMMA SkipInv ==
    ASSUME SearchInv, ~Idle, NEW n \in Head(stack).todo, Skip(n)
    PROVE  SearchInv'
<1> DEFINE F == Frames(Contract!Reachable(ast, asked),
                       Contract!Answer(ast, asked))
           f == Frame(Head(stack).todo \ {n}, Head(stack).found)
<1>1. /\ n \in visited
      /\ stack' = <<f>> \o Tail(stack)
      /\ UNCHANGED <<ast, cache, asked, visited>>
  BY DEF Skip
<1>2. /\ f \in F
      /\ f.todo = Head(stack).todo \ {n} /\ f.found = Head(stack).found
  BY InProgress DEF Frames, Frame
<1>3. Tail(stack) \in Seq(F)
  BY InProgress
<1>4. /\ stack' \in Seq(F)
      /\ Pending(stack')  = f.todo \cup Pending(Tail(stack))
      /\ Gathered(stack') = f.found \cup Gathered(Tail(stack))
  BY <1>1, <1>2, <1>3, PushCall
<1>5. /\ Pending(stack) \subseteq Pending(stack') \cup visited
      /\ Gathered(stack) = Gathered(stack')
  BY <1>1, <1>2, <1>4, InProgress
<1>6. Covered(ast, asked, visited', stack')
  BY <1>1, <1>5, InProgress DEF Covered
<1>7. visited' \subseteq Contract!Reachable(ast, asked)
  BY <1>1, InProgress
<1>8. QED  BY <1>1, <1>4, <1>6, <1>7, StillInv

(* A point that is entered brings its successors along.                    *)
LEMMA EnterInv ==
    ASSUME SearchInv, ~Idle, NEW n \in Head(stack).todo, Enter(n)
    PROVE  SearchInv'
<1> DEFINE R == Contract!Reachable(ast, asked)
           F == Frames(R, Contract!Answer(ast, asked))
           f == Frame(Head(stack).todo \ {n}, Head(stack).found)
           g == Frame(Succ(ast, asked, n), Emit(ast, asked, n))
           t == <<f>> \o Tail(stack)
<1>1. /\ visited' = visited \cup {n}
      /\ stack' = <<g, f>> \o Tail(stack)
      /\ UNCHANGED <<ast, cache, asked>>
  BY DEF Enter
<1>2. /\ f \in F
      /\ f.todo = Head(stack).todo \ {n} /\ f.found = Head(stack).found
  BY InProgress DEF Frames, Frame
<1>3. n \in R
  BY InProgress DEF Frames
<1>4. /\ g \in F
      /\ g.todo = Succ(ast, asked, n) /\ g.found = Emit(ast, asked, n)
  BY <1>3, InProgress, ReachableClosed DEF Frames, Frame
<1>5. Tail(stack) \in Seq(F)
  BY InProgress
<1>6. /\ t \in Seq(F)
      /\ Pending(t)  = f.todo \cup Pending(Tail(stack))
      /\ Gathered(t) = f.found \cup Gathered(Tail(stack))
  BY <1>2, <1>5, PushCall
<1>7. stack' = <<g>> \o t
  <2>1. <<g>> \in Seq(F) /\ <<f>> \in Seq(F) /\ <<g, f>> = <<g>> \o <<f>>
    BY <1>2, <1>4
  <2>2. <<g>> \o (<<f>> \o Tail(stack)) = (<<g>> \o <<f>>) \o Tail(stack)
    BY <2>1, <1>5, ConcatAssociative
  <2>3. QED  BY <1>1, <2>1, <2>2
<1>8. /\ stack' \in Seq(F)
      /\ Pending(stack')  = g.todo \cup Pending(t)
      /\ Gathered(stack') = g.found \cup Gathered(t)
  <2>1. PICK rest \in Seq(F), h \in F : rest = t /\ h = g
    BY <1>4, <1>6
  <2>2. /\ <<h>> \o rest \in Seq(F)
        /\ Pending(<<h>> \o rest)  = h.todo \cup Pending(rest)
        /\ Gathered(<<h>> \o rest) = h.found \cup Gathered(rest)
    BY PushCall
  <2>3. stack' = <<h>> \o rest
    BY <1>7, <2>1
  <2>4. QED  BY <2>1, <2>2, <2>3
<1>9. /\ Pending(stack) \subseteq Pending(stack') \cup {n}
      /\ Succ(ast, asked, n) \subseteq Pending(stack')
      /\ Gathered(stack) \cup Emit(ast, asked, n) \subseteq Gathered(stack')
  BY <1>2, <1>4, <1>6, <1>8, InProgress
<1>10. Covered(ast, asked, visited', stack')
  BY <1>1, <1>9, InProgress DEF Covered
<1>11. visited' \subseteq R
  BY <1>1, <1>3, InProgress
<1>12. QED  BY <1>1, <1>8, <1>10, <1>11, StillInv

(* A call that returns has nothing pending, and what it found is found.    *)
LEMMA ReturnInv ==
    ASSUME SearchInv, ~Idle, Return PROVE SearchInv'
<1> DEFINE F == Frames(Contract!Reachable(ast, asked),
                       Contract!Answer(ast, asked))
           s == Tail(stack)
           f == Frame(stack[2].todo, stack[2].found \cup Head(stack).found)
<1>1. /\ Len(stack) > 1 /\ Head(stack).todo = {}
      /\ stack' = <<f>> \o Tail(Tail(stack))
      /\ UNCHANGED <<ast, cache, asked, visited>>
  BY DEF Return
<1>2. s \in Seq(F) /\ s # <<>> /\ Head(s) = stack[2]
  <2>1. PICK c \in Seq(F) : c = stack
    BY InProgress
  <2>2. c # <<>> /\ Len(c) > 1
    BY <1>1, <2>1 DEF Idle
  <2>3. Tail(c) # <<>> /\ Head(Tail(c)) = c[2]
    BY <2>2, SecondCall
  <2>4. QED  BY <2>1, <2>3, InProgress
<1>3. /\ Head(s) \in F /\ Tail(s) \in Seq(F)
      /\ Pending(s)  = Head(s).todo  \cup Pending(Tail(s))
      /\ Gathered(s) = Head(s).found \cup Gathered(Tail(s))
  BY <1>2, TopCall
<1>4. /\ f \in F
      /\ f.todo = Head(s).todo /\ f.found = Head(s).found \cup Head(stack).found
  BY <1>2, <1>3, InProgress DEF Frames, Frame
<1>5. /\ stack' \in Seq(F)
      /\ Pending(stack')  = f.todo \cup Pending(Tail(s))
      /\ Gathered(stack') = f.found \cup Gathered(Tail(s))
  <2>1. PICK rest \in Seq(F), h \in F : rest = Tail(s) /\ h = f
    BY <1>3, <1>4
  <2>2. /\ <<h>> \o rest \in Seq(F)
        /\ Pending(<<h>> \o rest)  = h.todo \cup Pending(rest)
        /\ Gathered(<<h>> \o rest) = h.found \cup Gathered(rest)
    BY PushCall
  <2>3. stack' = <<h>> \o rest
    BY <1>1, <2>1
  <2>4. QED  BY <2>1, <2>2, <2>3
<1>6. Pending(stack) = Pending(stack') /\ Gathered(stack) = Gathered(stack')
  BY <1>1, <1>3, <1>4, <1>5, InProgress
<1>7. Covered(ast, asked, visited', stack')
  BY <1>1, <1>6, InProgress DEF Covered
<1>8. visited' \subseteq Contract!Reachable(ast, asked)
  BY <1>1, InProgress
<1>9. QED  BY <1>1, <1>5, <1>7, <1>8, StillInv

(***************************************************************************)
(* When the query's own loop is done nothing is pending, so the visited    *)
(* points are closed under the steps and hold all reachable ones: what was *)
(* gathered is the answer.                                                 *)
(***************************************************************************)
LEMMA ConcludeAnswers ==
    ASSUME SearchInv, ~Idle, Conclude
    PROVE  Head(stack).found = Contract!Answer(ast, asked)
<1>1. Len(stack) = 1 /\ Head(stack).todo = {}
  BY DEF Conclude
<1>2. Tail(stack) = <<>>
  <2>1. PICK s \in Seq(Frames(Contract!Reachable(ast, asked),
                              Contract!Answer(ast, asked))) : s = stack
    BY InProgress
  <2>2. s # <<>> /\ Len(s) = 1
    BY <1>1, <2>1 DEF Idle
  <2>3. QED  BY <2>1, <2>2, SecondCall
<1>3. Pending(stack) = {} /\ Gathered(stack) = Head(stack).found
  BY <1>1, <1>2, InProgress DEF Pending, Gathered
<1>4. Contract!Closed(ast, asked, visited)
  BY <1>3, InProgress DEF Covered, Contract!Closed
<1>5. visited \in SUBSET Points(ast, asked)
  BY InProgress, ReachableClosed
<1>6. Contract!Reachable(ast, asked) \subseteq visited
  BY <1>4, <1>5, InProgress, ReachableLeast
<1>7. Contract!Answer(ast, asked) \subseteq Head(stack).found
  BY <1>3, <1>6, InProgress DEF Contract!Answer, Covered
<1>8. Head(stack).found \subseteq Contract!Answer(ast, asked)
  BY InProgress DEF Frames
<1>9. QED  BY <1>7, <1>8

LEMMA ConcludeInv ==
    ASSUME SearchInv, ~Idle, Conclude PROVE SearchInv'
BY DEF Conclude, SearchInv, NothingInvented, NothingForgotten, Idle

LEMMA NextInv == ASSUME SearchInv, [Next]_vars PROVE SearchInv'
<1>1. CASE \E q \in Queries(ast) : Ask(q)
  BY <1>1, AskInv
<1>2. CASE Search
  BY <1>2, SkipInv, EnterInv, ReturnInv, ConcludeInv DEF Search
<1>3. CASE UNCHANGED vars
  BY <1>3 DEF vars, SearchInv, NothingInvented, NothingForgotten, Idle, Covered,
              Pending, Gathered
<1>4. QED  BY <1>1, <1>2, <1>3 DEF Next

------------------------------------------------------------------------------
(***************************************************************************)
(* At every step, whatever the points and steps are, each visited point's  *)
(* contribution is in the result of a call in progress and its successors  *)
(* are visited or pending (the recursions of inext.cpp and affects.cpp).   *)
(***************************************************************************)
THEOREM NeverForgets == Spec => []NothingForgotten
<1>1. SearchInv => NothingForgotten
  BY DEF SearchInv
<1>2. QED  BY <1>1, InitInv, NextInv, PTL DEF Spec

(***************************************************************************)
(* A search visits only what its own query reaches, and a query that was   *)
(* answered is never searched again (the result caches, _visit_cache).     *)
(***************************************************************************)
THEOREM NeverInvents == Spec => []NothingInvented
<1>1. SearchInv => NothingInvented
  BY DEF SearchInv
<1>2. QED  BY <1>1, InitInv, NextInv, PTL DEF Spec

(***************************************************************************)
(* The depth-first searches implement their contract: an answer is what    *)
(* the points reachable from the start emit, and stays (inext.cpp:40-101,  *)
(* affects.cpp:91-105, 145-180, 229-300).                                  *)
(***************************************************************************)
THEOREM SearchImplementsContract == Spec => ImplementsSearchContract
<1>1. Init => Contract!Init
  BY DEF Init, Contract!Init
<1>2. ASSUME SearchInv, [Next]_vars
      PROVE  [Contract!Next]_<<ast, cache>>
  <2>1. CASE \E q \in Queries(ast) : Ask(q)
    BY <2>1 DEF Ask
  <2>2. CASE Search /\ ~Conclude
    BY <2>2 DEF Search, Skip, Enter, Return
  <2>3. CASE Search /\ Conclude
    <3>1. ~Idle /\ asked \in Queries(ast) \ DOMAIN cache
      BY <2>3, <1>2, InProgress DEF Search
    <3>2. Head(stack).found = Contract!Answer(ast, asked)
      BY <2>3, <3>1, <1>2, ConcludeAnswers
    <3>3. Contract!Learn(asked)
      BY <2>3, <3>2 DEF Conclude, Contract!Learn
    <3>4. QED  BY <3>1, <3>3 DEF Contract!Next
  <2>4. CASE UNCHANGED vars
    BY <2>4 DEF vars
  <2>5. QED  BY <1>2, <2>1, <2>2, <2>3, <2>4 DEF Next
<1>3. QED  BY <1>1, <1>2, InitInv, NextInv, PTL
              DEF Spec, ImplementsSearchContract, Contract!Spec

------------------------------------------------------------------------------
(***************************************************************************)
(* The three forms of Next decide the control flow.                        *)
(***************************************************************************)
FlowG(p) == [s \in Statements(p) |-> solve_next(p, s)]
BackG(p) == [s \in Statements(p) |-> solve_previous(p, s)]

LEMMA PreviousInside ==
    ASSUME NEW p, IsProgram(p), NEW t \in Statements(p)
    PROVE  solve_previous(p, t) \subseteq Statements(p)
<1>1. ASSUME NEW s \in solve_previous(p, t) PROVE s \in Statements(p)
  <2>1. \/ prev(p, t) # NoStmt /\ s \in solve_last_previous(p, prev(p, t))
        \/ get_parent(p, t) # NoStmt /\ s = get_parent(p, t)
        \/ kind(p, t) = "while" /\ s \in solve_last_previous(p, LastOf(p, get_body(p, t)))
    BY DEF solve_previous
  <2>2. CASE prev(p, t) # NoStmt /\ s \in solve_last_previous(p, prev(p, t))
    BY <2>2, TreeLines, EndsFollow
  <2>3. CASE get_parent(p, t) # NoStmt /\ s = get_parent(p, t)
    BY <2>3, TreeLines
  <2>4. CASE kind(p, t) = "while" /\ s \in solve_last_previous(p, LastOf(p, get_body(p, t)))
    <3>1. get_body(p, t) \in Branches(p, t)
      BY <2>4, ContainerShape
    <3>2. PICK y \in Statements(p) : y = LastOf(p, get_body(p, t))
      BY <3>1, BranchEnds
    <3>3. QED  BY <2>4, <3>2, EndsFollow
  <2>5. QED  BY <2>1, <2>2, <2>3, <2>4
<1>2. QED  BY <1>1

LEMMA FlowSteps ==
    ASSUME NEW p, IsProgram(p)
    PROVE  /\ Flow(p) \in SUBSET (Statements(p) \X Statements(p))
           /\ \A s, t \in Statements(p) : <<s, t>> \in Flow(p) <=> t \in solve_next(p, s)
           /\ FlowG(p) \in [Statements(p) -> SUBSET Statements(p)]
           /\ BackG(p) \in [Statements(p) -> SUBSET Statements(p)]
           /\ \A s, t \in Statements(p) : t \in FlowG(p)[s] <=> s \in BackG(p)[t]
           /\ StepsOf(Statements(p), Flow(p)) = FlowG(p)
<1> DEFINE S == Statements(p)
<1>1. \A s \in S : solve_next(p, s) \subseteq S
  BY EndPlaces
<1>2. \A s, t \in S : t \in solve_next(p, s) <=> s \in solve_previous(p, t)
  BY NextForms
<1>3. \A s \in S : solve_previous(p, s) \subseteq S
  BY PreviousInside
<1>4. Flow(p) \in SUBSET (S \X S) /\ \A s, t \in S : <<s, t>> \in Flow(p) <=> t \in solve_next(p, s)
  BY FlowIsNext DEF Flows
<1>5. /\ FlowG(p) \in [S -> SUBSET S] /\ BackG(p) \in [S -> SUBSET S]
      /\ \A s, t \in S : t \in FlowG(p)[s] <=> s \in BackG(p)[t]
  BY <1>1, <1>2, <1>3 DEF FlowG, BackG
<1>6. \A s \in S : {t \in S : <<s, t>> \in Flow(p)} = solve_next(p, s)
  BY <1>1, <1>4
<1>7. StepsOf(S, Flow(p)) = FlowG(p)
  BY <1>6 DEF StepsOf, FlowG
<1>8. QED  BY <1>4, <1>5, <1>7

THEOREM NextIsFlow == Spec => []NextSolversAgree
<1>1. SearchInv => NextSolversAgree
  <2>1. ASSUME SearchInv, NEW s \in Statements(ast), NEW t \in Statements(ast)
        PROVE  /\ (<<s, t>> \in Flow(ast)) <=> (t \in solve_next(ast, s))
               /\ (<<s, t>> \in Flow(ast)) <=> (s \in solve_previous(ast, t))
               /\ (<<s, t>> \in Flow(ast)) <=> validate_next(ast, s, t)
    <3>1. IsProgram(ast)
      BY <2>1, SolversAssumption DEF SearchInv
    <3>2. QED  BY <3>1, FlowSteps, NextForms
  <2>2. QED  BY <2>1 DEF NextSolversAgree
<1>2. QED  BY <1>1, InitInv, NextInv, PTL DEF Spec
------------------------------------------------------------------------------
(***************************************************************************)
(* What a statement does to a variable on the way: the calls kill what the *)
(* text says their procedures modify.                                      *)
(***************************************************************************)
LEMMA ModifiedIs ==
    ASSUME NEW p, IsProgram(p), Acyclic(p), NEW n \in Procs(p)
    PROVE  index_proc_variables(p, "modifies", n) = ModifiedByProc(p, n)
<1> DEFINE S == Statements(p)
           E == Extracts(p, "modifies")
           list == Reach(S, NextG(p), get_statement(p, n))
<1>1. get_statement(p, n) \in S /\ list \subseteq S
  BY ProcWalk, SameProc
<1>2. ListFrom(p, get_statement(p, n)) = list
  BY <1>1, ListFromReach
<1>3. \A s \in list : index_variables(p, "modifies", s) = Gather(S, RunG(p), E, s)
  BY <1>1, RunsEnd, IndexGathers
<1>4. index_proc_variables(p, "modifies", n) = UNION {Gather(S, RunG(p), E, s) : s \in list}
  BY <1>2, <1>3 DEF index_proc_variables
<1>5. UNION {Gather(S, RunG(p), E, s) : s \in list} = UNION {E[t] : t \in ListRuns(p, n)}
  BY DEF Gather, ListRuns
<1>6. ListRuns(p, n) = StatementsIn(p, Running(p, n))
  BY ListRunsIs, RunningIs
<1>7. ASSUME NEW v
      PROVE  v \in UNION {E[t] : t \in StatementsIn(p, Running(p, n))} <=> v \in ModifiedByProc(p, n)
  <2>1. ASSUME NEW t \in S
        PROVE  E[t] = IF kind(p, t) = "assign" THEN {get_variable(p, t)} ELSE {}
    BY DEF Extracts, extract
  <2>2. QED  BY <2>1 DEF StatementsIn, ModifiedByProc, OfKind
<1>8. QED  BY <1>4, <1>5, <1>6, <1>7

LEMMA CallKillsIs ==
    ASSUME NEW p, IsProgram(p), Acyclic(p), NEW s \in Statements(p), NEW v, kind(p, s) = "call"
    PROVE  CallKills(p, FALSE, s, v) <=> Kills(p, s, v)
<1>1. get_proc_called(p, s) \in Procs(p)
  BY AheadWalks
<1>2. QED  BY <1>1, ModifiedIs DEF CallKills, Kills

Unstacked(N) == {<<t, <<>>>> : t \in N}

PointsFor(V, N) == {<<w, m[1], m[2]>> : w \in V, m \in Unstacked(N)}

LEMMA PointsOf ==
    ASSUME NEW V, NEW N
    PROVE  \A n : n \in PointsFor(V, N)
                    <=> \E w \in V : \E x \in N : n = <<w, x, <<>>>>
<1>1. \A x : <<x, <<>>>>[1] = x /\ <<x, <<>>>>[2] = <<>>
  OBVIOUS
<1>2. \A m : m \in Unstacked(N) <=> \E x \in N : m = <<x, <<>>>>
  BY DEF Unstacked
<1>3. \A n : n \in PointsFor(V, N)
               <=> \E w \in V : \E m \in Unstacked(N) : n = <<w, m[1], m[2]>>
  BY DEF PointsFor
<1>4. ASSUME NEW n, NEW w \in V, NEW m \in Unstacked(N), n = <<w, m[1], m[2]>>
      PROVE  \E x \in N : n = <<w, x, <<>>>>
  <2>1. PICK x \in N : m = <<x, <<>>>>
    BY <1>2
  <2>2. m[1] = x /\ m[2] = <<>>
    BY <1>1, <2>1
  <2>3. QED  BY <1>4, <2>2
<1>5. ASSUME NEW n, NEW w \in V, NEW x \in N, n = <<w, x, <<>>>>
      PROVE  \E m \in Unstacked(N) : n = <<w, m[1], m[2]>>
  <2>1. PICK m \in Unstacked(N) : m = <<x, <<>>>>
    BY <1>2
  <2>2. m[1] = x /\ m[2] = <<>>
    BY <1>1, <2>1
  <2>3. QED  BY <1>5, <2>2
<1>6. QED  BY <1>3, <1>4, <1>5

LEMMA ForwardSteps ==
    ASSUME NEW p, IsProgram(p), Acyclic(p), NEW s \in Statements(p), NEW v, NEW star \in BOOLEAN
    PROVE  \A n : n \in solve_affected_by_var(p, FALSE, star, v, s, <<>>)
             <=> \E w, x : /\ n = <<w, x, <<>>>> /\ x \in solve_next(p, s)
                           /\ \/ w = v /\ ~Kills(p, s, v)
                              \/ /\ star /\ kind(p, s) = "assign"
                                 /\ v \in get_expr_vars(p, s) /\ w = get_variable(p, s)
<1> DEFINE kept == CASE kind(p, s) = "assign" -> affected_by_var_assignment(p, star, v, s)
                     [] kind(p, s) = "call" /\ CallKills(p, FALSE, s, v) -> {}
                     [] OTHER -> {v}
<1>1. solve_affected_by_var(p, FALSE, star, v, s, <<>>)
        = PointsFor(kept, solve_next(p, s))
  BY DEF solve_affected_by_var, solve_next_affected_by_var, NextPoints, Unstacked, PointsFor
<1>2. \A w : w \in kept <=> \/ w = v /\ ~Kills(p, s, v)
                            \/ /\ star /\ kind(p, s) = "assign"
                               /\ v \in get_expr_vars(p, s) /\ w = get_variable(p, s)
  <2>1. CASE kind(p, s) = "assign"
    BY <2>1 DEF Kills, affected_by_var_assignment
  <2>2. CASE kind(p, s) = "call"
    BY <2>2, CallKillsIs
  <2>3. CASE kind(p, s) \notin {"assign", "call"}
    BY <2>3 DEF Kills
  <2>4. QED  BY <2>1, <2>2, <2>3
<1> HIDE DEF kept
<1>3. \A n : n \in solve_affected_by_var(p, FALSE, star, v, s, <<>>)
               <=> \E w \in kept : \E x \in solve_next(p, s) : n = <<w, x, <<>>>>
  <2>1. PICK V, N : V = kept /\ N = solve_next(p, s)
    OBVIOUS
  <2>2. \A n : n \in PointsFor(V, N) <=> \E w \in V : \E x \in N : n = <<w, x, <<>>>>
    BY PointsOf
  <2>3. QED  BY <1>1, <2>1, <2>2
<1>4. QED  BY <1>2, <1>3

LEMMA BackSteps ==
    ASSUME NEW p, IsProgram(p), Acyclic(p), NEW s \in Statements(p), NEW v, NEW star \in BOOLEAN
    PROVE  \A n : n \in solve_affecting_with_var(p, FALSE, star, v, s, <<>>)
             <=> \E w, x : /\ n = <<w, x, <<>>>> /\ x \in solve_previous(p, s)
                           /\ \/ w = v /\ ~Kills(p, s, v)
                              \/ /\ star /\ kind(p, s) = "assign"
                                 /\ w \in get_expr_vars(p, s) /\ v = get_variable(p, s)
<1> DEFINE kept == CASE kind(p, s) = "assign" -> affecting_with_var_assignment(p, star, v, s)
                     [] kind(p, s) = "call" /\ CallKills(p, FALSE, s, v) -> {}
                     [] OTHER -> {v}
<1>1. solve_affecting_with_var(p, FALSE, star, v, s, <<>>)
        = PointsFor(kept, solve_previous(p, s))
  BY DEF solve_affecting_with_var, solve_prev_affecting_with_var, PrevPoints, Unstacked, PointsFor
<1>2. \A w : w \in kept <=> \/ w = v /\ ~Kills(p, s, v)
                            \/ /\ star /\ kind(p, s) = "assign"
                               /\ w \in get_expr_vars(p, s) /\ v = get_variable(p, s)
  <2>1. CASE kind(p, s) = "assign"
    BY <2>1 DEF Kills, affecting_with_var_assignment
  <2>2. CASE kind(p, s) = "call"
    BY <2>2, CallKillsIs
  <2>3. CASE kind(p, s) \notin {"assign", "call"}
    BY <2>3 DEF Kills
  <2>4. QED  BY <2>1, <2>2, <2>3
<1> HIDE DEF kept
<1>3. \A n : n \in solve_affecting_with_var(p, FALSE, star, v, s, <<>>)
               <=> \E w \in kept : \E x \in solve_previous(p, s) : n = <<w, x, <<>>>>
  <2>1. PICK V, N : V = kept /\ N = solve_previous(p, s)
    OBVIOUS
  <2>2. \A n : n \in PointsFor(V, N) <=> \E w \in V : \E x \in N : n = <<w, x, <<>>>>
    BY PointsOf
  <2>3. QED  BY <1>1, <2>1, <2>2
<1>4. QED  BY <1>2, <1>3

------------------------------------------------------------------------------
(***************************************************************************)
(* Affects in terms of walks: over the flow without what leaves statements *)
(* that kill the variable.                                                 *)
(***************************************************************************)
KeepG(p, v) == [s \in Statements(p) |-> IF Kills(p, s, v) THEN {} ELSE solve_next(p, s)]

\* What v holds behind s may still be in v at t.
Carries(p, v, s, t) == \E x \in solve_next(p, s) : t \in Reach(Statements(p), KeepG(p, v), x)

LEMMA KeepSteps ==
    ASSUME NEW p, IsProgram(p), NEW v
    PROVE  /\ KeepG(p, v) \in [Statements(p) -> SUBSET Statements(p)]
           /\ \A x, y : <<x, y>> \in Closure({e \in Flow(p) : ~Kills(p, e[1], v)})
                          <=> x \in Statements(p) /\ y \in Beyond(Statements(p), KeepG(p, v), x)
<1> DEFINE S == Statements(p)
           R == {e \in Flow(p) : ~Kills(p, e[1], v)}
<1>1. KeepG(p, v) \in [S -> SUBSET S]
  BY EndPlaces DEF KeepG
<1>2. R \in SUBSET (S \X S)
  BY FlowSteps
<1>3. IsFiniteSet(Middle(R))
  <2>1. Middle(R) \in SUBSET S
    BY <1>2 DEF Middle
  <2>2. QED  BY <2>1, ProgramFinite, FS_Subset
<1>4. StepsOf(S, R) = KeepG(p, v)
  <2>1. ASSUME NEW x \in S
        PROVE  {y \in S : <<x, y>> \in R} = IF Kills(p, x, v) THEN {} ELSE solve_next(p, x)
    BY FlowSteps, EndPlaces
  <2>2. QED  BY <2>1 DEF StepsOf, KeepG
<1>5. PICK T, Q : T = S /\ Q = R
  OBVIOUS
<1>6. Q \in SUBSET (T \X T) /\ IsFiniteSet(Middle(Q)) /\ StepsOf(T, Q) = KeepG(p, v)
  BY <1>2, <1>3, <1>4, <1>5
<1>7. \A x, y : <<x, y>> \in Closure(Q) <=> x \in T /\ y \in Beyond(T, StepsOf(T, Q), x)
  BY <1>6, ClosureWalks
<1>8. QED  BY <1>1, <1>5, <1>6, <1>7

LEMMA AffectsAre ==
    ASSUME NEW p, IsProgram(p)
    PROVE  /\ AffectsPairs(p) \in SUBSET (Statements(p) \X Statements(p))
           /\ \A a, b : <<a, b>> \in AffectsPairs(p)
                <=> /\ a \in OfKind(p, "assign") /\ b \in OfKind(p, "assign")
                    /\ get_variable(p, a) \in get_expr_vars(p, b)
                    /\ Carries(p, get_variable(p, a), a, b)
<1> DEFINE S == Statements(p)
           Through(v) == Closure({e \in Flow(p) : ~Kills(p, e[1], v)})
           Leads(a, b, v) == \E e \in Flow(p) : /\ e[1] = a
                                                /\ e[2] = b \/ <<e[2], b>> \in Through(v)
<1>1. \A a, b : <<a, b>> \in AffectsPairs(p)
        <=> /\ a \in OfKind(p, "assign") /\ b \in OfKind(p, "assign")
            /\ get_variable(p, a) \in get_expr_vars(p, b)
            /\ Leads(a, b, get_variable(p, a))
  BY DEF AffectsPairs
<1>2. ASSUME NEW a \in S, NEW b \in S, NEW v
      PROVE  Leads(a, b, v) <=> Carries(p, v, a, b)
  <2>1. \A x : <<a, x>> \in Flow(p) <=> x \in solve_next(p, a)
    BY FlowSteps, EndPlaces
  <2>2. ASSUME NEW x \in solve_next(p, a)
        PROVE  (x = b \/ <<x, b>> \in Through(v)) <=> b \in Reach(S, KeepG(p, v), x)
    <3>1. x \in S
      BY EndPlaces
    <3>2. Reach(S, KeepG(p, v), x) = {x} \cup Beyond(S, KeepG(p, v), x)
      BY <3>1, KeepSteps, BeyondInside
    <3>3. <<x, b>> \in Through(v) <=> b \in Beyond(S, KeepG(p, v), x)
      BY <3>1, KeepSteps
    <3> HIDE DEF Through
    <3>4. QED  BY <3>2, <3>3
  <2>3. Leads(a, b, v) <=> \E x : /\ <<a, x>> \in Flow(p)
                                  /\ x = b \/ <<x, b>> \in Through(v)
    <3>1. \A e \in Flow(p) : e = <<e[1], e[2]>>
      BY FlowSteps
    <3> HIDE DEF Through
    <3>2. QED  BY <3>1
  <2> HIDE DEF Leads, Through
  <2>4. QED  BY <2>1, <2>2, <2>3 DEF Carries
<1>3. AffectsPairs(p) \in SUBSET (S \X S)
  BY DEF AffectsPairs, OfKind
<1> HIDE DEF Leads
<1>4. QED  BY <1>1, <1>2, <1>3 DEF OfKind
------------------------------------------------------------------------------
(***************************************************************************)
(* The searches.  What a search reaches is characterised from above by a   *)
(* set that its steps stay in, and from below by walks that it follows.    *)
(***************************************************************************)
AffG(p)     == [a \in Statements(p) |-> {b \in Statements(p) : <<a, b>> \in AffectsPairs(p)}]
AffBackG(p) == [b \in Statements(p) |-> {a \in Statements(p) : <<a, b>> \in AffectsPairs(p)}]

LEMMA QueryFacts ==
    ASSUME NEW p \in Program, NEW q \in Queries(p)
    PROVE  /\ IsProgram(p) /\ Acyclic(p)
           /\ q.of \in Statements(p) /\ q.rel.solver \in {"inext", "affects", "iaffects"}
           /\ q.rel.bip \in BOOLEAN /\ q.rel.fixed \in {"left", "right"}
           /\ Start(p, q) = FlowStart(p, q)
           /\ \A n \in Points(p, q) :
                Succ(p, q, n) = FlowSucc(p, q, n) /\ Emit(p, q, n) = FlowEmit(p, q, n)
BY SolversAssumption DEF FlowQueries, Relations

LEMMA ReachableInside ==
    ASSUME NEW p \in Program, NEW q \in Queries(p), NEW X,
           Start(p, q) \subseteq X,
           \A n \in Points(p, q) : n \in X => Succ(p, q, n) \subseteq X
    PROVE  Contract!Reachable(p, q) \subseteq X
<1>1. PICK C \in SUBSET Points(p, q) : C = X \cap Points(p, q)
  OBVIOUS
<1>2. Contract!Closed(p, q, C)
  BY <1>1, SearchAssumption DEF Contract!Closed
<1>3. QED  BY <1>1, <1>2, ReachableLeast

LEMMA WalkAnswers ==
    ASSUME NEW p \in Program, NEW q \in Queries(p),
           NEW G \in [Statements(p) -> SUBSET Statements(p)],
           Start(p, q) = {<<q.of, <<>>>>},
           \A n \in Points(p, q) : \A t \in Statements(p) :
             n = <<t, <<>>>> => Succ(p, q, n) = Unstacked(G[t]) /\ Emit(p, q, n) = G[t]
    PROVE  Contract!Answer(p, q) = Beyond(Statements(p), G, q.of)
<1> DEFINE S == Statements(p)
           R == Contract!Reachable(p, q)
<1>1. q.of \in S
  BY QueryFacts
<1>2. PICK W : W = Reach(S, G, q.of)
  OBVIOUS
<1>3. q.of \in W /\ W \subseteq S /\ \A d \in W : G[d] \subseteq W
  BY <1>1, <1>2, ReachLeast
<1>4. R \subseteq Unstacked(W)
  <2>1. Start(p, q) \subseteq Unstacked(W)
    BY <1>3 DEF Unstacked
  <2>2. ASSUME NEW n \in Points(p, q), n \in Unstacked(W) PROVE Succ(p, q, n) \subseteq Unstacked(W)
    <3>1. PICK t \in W : n = <<t, <<>>>>
      BY <2>2 DEF Unstacked
    <3>2. Succ(p, q, n) = Unstacked(G[t]) /\ G[t] \subseteq W
      BY <1>3, <3>1
    <3>3. QED  BY <3>2 DEF Unstacked
  <2>3. QED  BY <2>1, <2>2, ReachableInside
<1>5. R \subseteq Points(p, q) /\ Start(p, q) \subseteq R /\ \A n \in R : Succ(p, q, n) \subseteq R
  BY ReachableClosed
<1>6. Unstacked(W) \subseteq R
  <2>1. PICK Y \in SUBSET S : Y = {t \in S : <<t, <<>>>> \in R}
    OBVIOUS
  <2>2. q.of \in Y
    BY <1>1, <1>5, <2>1
  <2>3. ASSUME NEW t \in Y PROVE G[t] \subseteq Y
    <3>1. Unstacked(G[t]) \subseteq R
      BY <1>5, <2>1
    <3>2. QED  BY <2>1, <3>1 DEF Unstacked
  <2>4. W \subseteq Y
    BY <1>1, <1>2, <2>2, <2>3, ReachLeast
  <2>5. QED  BY <2>1, <2>4 DEF Unstacked
<1>7. ASSUME NEW x PROVE x \in Contract!Answer(p, q) <=> \E t \in W : x \in G[t]
  <2>1. x \in Contract!Answer(p, q) <=> \E n \in R : x \in Emit(p, q, n)
    BY DEF Contract!Answer
  <2>2. \A n \in R : \E t \in W : n = <<t, <<>>>> /\ Emit(p, q, n) = G[t]
    BY <1>3, <1>4, <1>5 DEF Unstacked
  <2>3. \A t \in W : <<t, <<>>>> \in R /\ Emit(p, q, <<t, <<>>>>) = G[t]
    BY <1>3, <1>5, <1>6 DEF Unstacked
  <2>4. ASSUME NEW n \in R, x \in Emit(p, q, n) PROVE \E t \in W : x \in G[t]
    BY <2>2, <2>4
  <2>5. ASSUME NEW t \in W, x \in G[t] PROVE \E n \in R : x \in Emit(p, q, n)
    BY <2>3, <2>5
  <2> HIDE DEF R
  <2>6. QED  BY <2>1, <2>4, <2>5
<1>8. Beyond(S, G, q.of) = UNION {G[t] : t \in W}
  BY <1>1, <1>2, BeyondGathers DEF Gather
<1>9. QED  BY <1>7, <1>8

LEMMA NextAnswers ==
    ASSUME NEW p \in Program, NEW q \in Queries(p), q.rel.solver = "inext", ~q.rel.bip
    PROVE  Contract!Answer(p, q)
             = Beyond(Statements(p), IF q.rel.fixed = "left" THEN FlowG(p) ELSE BackG(p), q.of)
<1>1. PICK G : G = IF q.rel.fixed = "left" THEN FlowG(p) ELSE BackG(p)
  OBVIOUS
<1>2. G \in [Statements(p) -> SUBSET Statements(p)]
  BY <1>1, QueryFacts, FlowSteps
<1>3. Start(p, q) = {<<q.of, <<>>>>}
  BY QueryFacts DEF FlowStart
<1>4. ASSUME NEW n \in Points(p, q), NEW t \in Statements(p), n = <<t, <<>>>>
      PROVE  Succ(p, q, n) = Unstacked(G[t]) /\ Emit(p, q, n) = G[t]
  <2>1. n[1] = t /\ n[2] = <<>>
    BY <1>4
  <2>2. DirectPoints(p, q.rel, t, <<>>) = Unstacked(G[t])
    BY <1>1 DEF DirectPoints, NextPoints, PrevPoints, FlowG, BackG, Unstacked
  <2>3. Succ(p, q, n) = DirectPoints(p, q.rel, n[1], n[2])
    BY QueryFacts DEF FlowSucc
  <2>4. Emit(p, q, n) = {d[1] : d \in DirectPoints(p, q.rel, n[1], n[2])}
    BY QueryFacts DEF FlowEmit
  <2>5. {d[1] : d \in Unstacked(G[t])} = G[t]
    <3>1. PICK V : V = G[t]
      OBVIOUS
    <3>2. \A x : <<x, <<>>>>[1] = x
      OBVIOUS
    <3>3. \A d : d \in Unstacked(V) <=> \E x \in V : d = <<x, <<>>>>
      BY DEF Unstacked
    <3>4. ASSUME NEW d \in Unstacked(V) PROVE d[1] \in V
      BY <3>2, <3>3
    <3>5. ASSUME NEW x \in V PROVE \E d \in Unstacked(V) : d[1] = x
      <4>1. PICK d \in Unstacked(V) : d = <<x, <<>>>>
        BY <3>3
      <4>2. d[1] = x
        BY <3>2, <4>1
      <4>3. QED  BY <4>2
    <3>6. QED  BY <3>1, <3>4, <3>5
  <2>6. QED  BY <2>1, <2>2, <2>3, <2>4, <2>5
<1>5. QED  BY <1>1, <1>2, <1>3, <1>4, WalkAnswers
(* Values move forwards with the flow, and backwards against it.           *)
LEMMA CarriesOn ==
    ASSUME NEW p, IsProgram(p), NEW v, NEW s \in Statements(p)
    PROVE  /\ \A t : Carries(p, v, s, t) => t \in Statements(p)
           /\ \A x \in solve_next(p, s) : Carries(p, v, s, x)
           /\ \A t \in Statements(p) : Carries(p, v, s, t) /\ ~Kills(p, t, v) =>
                \A x \in solve_next(p, t) : Carries(p, v, s, x)
           /\ \A Y \in SUBSET Statements(p) :
                /\ solve_next(p, s) \subseteq Y
                /\ \A t \in Y : ~Kills(p, t, v) => solve_next(p, t) \subseteq Y
                => \A t : Carries(p, v, s, t) => t \in Y
<1> DEFINE S == Statements(p)
<1>1. solve_next(p, s) \subseteq S
  BY EndPlaces
<1>2. KeepG(p, v) \in [S -> SUBSET S]
  BY KeepSteps
<1>3. PICK G \in [S -> SUBSET S] : G = KeepG(p, v)
  BY <1>2
<1>4. \A t \in S : G[t] = IF Kills(p, t, v) THEN {} ELSE solve_next(p, t)
  BY <1>3 DEF KeepG
<1>5. ASSUME NEW x \in S
      PROVE  /\ x \in Reach(S, G, x) /\ Reach(S, G, x) \subseteq S
             /\ \A d \in Reach(S, G, x) : G[d] \subseteq Reach(S, G, x)
             /\ \A C \in SUBSET S : x \in C /\ (\A d \in C : G[d] \subseteq C)
                  => Reach(S, G, x) \subseteq C
  BY ReachLeast
<1>6. \A t : Carries(p, v, s, t) <=> \E x \in solve_next(p, s) : t \in Reach(S, G, x)
  BY <1>3 DEF Carries
<1>7. ASSUME NEW Y \in SUBSET S, solve_next(p, s) \subseteq Y,
             \A t \in Y : ~Kills(p, t, v) => solve_next(p, t) \subseteq Y,
             NEW t, Carries(p, v, s, t)
      PROVE  t \in Y
  <2>1. PICK x \in solve_next(p, s) : t \in Reach(S, G, x)
    BY <1>6, <1>7
  <2>2. \A d \in Y : G[d] \subseteq Y
    BY <1>4, <1>7
  <2>3. QED  BY <1>1, <1>5, <1>7, <2>1, <2>2
<1>8. QED  BY <1>1, <1>4, <1>5, <1>6, <1>7

LEMMA CarriesBack ==
    ASSUME NEW p, IsProgram(p), NEW v, NEW c \in Statements(p)
    PROVE  /\ \A s \in solve_previous(p, c) : Carries(p, v, s, c)
           /\ \A t \in Statements(p) : Carries(p, v, t, c) /\ ~Kills(p, t, v) =>
                \A s \in solve_previous(p, t) : Carries(p, v, s, c)
           /\ \A Y \in SUBSET Statements(p) :
                /\ solve_previous(p, c) \subseteq Y
                /\ \A t \in Y : ~Kills(p, t, v) => solve_previous(p, t) \subseteq Y
                => \A t \in Statements(p) : Carries(p, v, t, c) => t \in Y
<1> DEFINE S == Statements(p)
<1>1. /\ \A x \in S : solve_next(p, x) \subseteq S /\ solve_previous(p, x) \subseteq S
      /\ \A x, y \in S : y \in solve_next(p, x) <=> x \in solve_previous(p, y)
  BY EndPlaces, PreviousInside, NextForms
<1>2. PICK G \in [S -> SUBSET S] : G = KeepG(p, v)
  BY KeepSteps
<1>3. \A t \in S : G[t] = IF Kills(p, t, v) THEN {} ELSE solve_next(p, t)
  BY <1>2 DEF KeepG
<1>4. \A s, t : Carries(p, v, s, t) <=> \E x \in solve_next(p, s) : t \in Reach(S, G, x)
  BY <1>2 DEF Carries
<1>5. ASSUME NEW s \in solve_previous(p, c) PROVE Carries(p, v, s, c)
  <2>1. c \in solve_next(p, s) /\ c \in Reach(S, G, c)
    BY <1>1, ReachLeast
  <2>2. QED  BY <1>4, <2>1
<1>6. ASSUME NEW t \in S, Carries(p, v, t, c), ~Kills(p, t, v), NEW s \in solve_previous(p, t)
      PROVE  Carries(p, v, s, c)
  <2>1. PICK x \in solve_next(p, t) : c \in Reach(S, G, x)
    BY <1>4, <1>6
  <2>2. x \in G[t]
    BY <1>3, <1>6, <2>1
  <2>3. Reach(S, G, t) = {t} \cup UNION {Reach(S, G, d) : d \in G[t]}
    BY ReachUnfold
  <2>4. c \in Reach(S, G, t) /\ t \in solve_next(p, s)
    BY <1>1, <1>6, <2>1, <2>2, <2>3
  <2>5. QED  BY <1>4, <2>4
<1>7. ASSUME NEW Y \in SUBSET S, solve_previous(p, c) \subseteq Y,
             \A t \in Y : ~Kills(p, t, v) => solve_previous(p, t) \subseteq Y,
             NEW t \in S, Carries(p, v, t, c)
      PROVE  t \in Y
  <2>1. PICK H \in [S -> SUBSET S] : H = [d \in S |-> {s \in S : d \in G[s]}]
    OBVIOUS
  <2>2. PICK Z \in SUBSET S : Z = {x \in S : solve_previous(p, x) \subseteq Y}
    OBVIOUS
  <2>3. c \in Z
    BY <1>7, <2>2
  <2>4. ASSUME NEW x \in Z PROVE H[x] \subseteq Z
    <3>1. ASSUME NEW s \in H[x] PROVE s \in Z
      <4>1. x \in S /\ s \in S /\ x \in G[s]
        BY <2>1, <2>2
      <4>2. ~Kills(p, s, v) /\ x \in solve_next(p, s)
        BY <1>3, <4>1
      <4>3. s \in Y
        BY <1>1, <2>2, <4>1, <4>2
      <4>4. QED  BY <1>7, <2>2, <4>1, <4>2, <4>3
    <3>2. QED  BY <3>1
  <2>5. Reach(S, H, c) \subseteq Z
    BY <2>3, <2>4, ReachLeast
  <2>6. PICK x \in solve_next(p, t) : c \in Reach(S, G, x)
    BY <1>4, <1>7
  <2>7. x \in S
    BY <1>1, <2>6
  <2>8. \A d, e \in S : e \in G[d] => d \in H[e]
    BY <2>1
  <2>9. x \in Reach(S, H, c)
    BY <2>6, <2>7, <2>8, ReachBack
  <2>10. QED  BY <1>1, <2>2, <2>5, <2>6, <2>7, <2>9
<1>8. QED  BY <1>5, <1>6, <1>7
LEMMA AffSteps ==
    ASSUME NEW p, IsProgram(p)
    PROVE  /\ AffG(p) \in [Statements(p) -> SUBSET Statements(p)]
           /\ AffBackG(p) \in [Statements(p) -> SUBSET Statements(p)]
           /\ \A a, b \in Statements(p) :
                /\ b \in AffG(p)[a] <=> a \in AffBackG(p)[b]
                /\ b \in AffG(p)[a] <=>
                     /\ kind(p, a) = "assign" /\ kind(p, b) = "assign"
                     /\ get_variable(p, a) \in get_expr_vars(p, b)
                     /\ Carries(p, get_variable(p, a), a, b)
                /\ b \in AffG(p)[a] <=> <<a, b>> \in AffectsPairs(p)
<1>1. \A a, b \in Statements(p) : b \in AffG(p)[a] <=> <<a, b>> \in AffectsPairs(p)
  BY DEF AffG
<1>2. \A a, b \in Statements(p) : a \in AffBackG(p)[b] <=> <<a, b>> \in AffectsPairs(p)
  BY DEF AffBackG
<1>3. \A a, b \in Statements(p) : <<a, b>> \in AffectsPairs(p) <=>
        /\ kind(p, a) = "assign" /\ kind(p, b) = "assign"
        /\ get_variable(p, a) \in get_expr_vars(p, b)
        /\ Carries(p, get_variable(p, a), a, b)
  BY AffectsAre DEF OfKind
<1>4. /\ AffG(p) \in [Statements(p) -> SUBSET Statements(p)]
      /\ AffBackG(p) \in [Statements(p) -> SUBSET Statements(p)]
  BY DEF AffG, AffBackG
<1>5. QED  BY <1>1, <1>2, <1>3, <1>4

\* The assignments whose values a search follows: the fixed one and, in a
\* starred search, those it affects or is affected by.
Followed(p, star, G, a, N) ==
  /\ N \in SUBSET OfKind(p, "assign") /\ a \in N
  /\ star => \A c \in N : G[c] \subseteq N
  /\ \A M \in SUBSET Statements(p) :
       a \in M /\ (star => \A c \in M : G[c] \subseteq M) => N \subseteq M

CarriedFrom(p, N) ==
  {n \in {<<get_variable(p, c), t, <<>>>> : c \in N, t \in Statements(p)} :
     \E c \in N : \E t \in Statements(p) :
       Carries(p, get_variable(p, c), c, t) /\ n = <<get_variable(p, c), t, <<>>>>}

LEMMA ForwardAnswers ==
    ASSUME NEW p \in Program, NEW q \in Queries(p), ~q.rel.bip,
           q.rel.solver # "inext", q.rel.fixed = "left", kind(p, q.of) = "assign",
           NEW star \in BOOLEAN, star = (q.rel.solver = "iaffects"),
           NEW N, Followed(p, star, AffG(p), q.of, N)
    PROVE  Contract!Answer(p, q) = UNION {AffG(p)[c] : c \in N}
<1> DEFINE S == Statements(p)
           R == Contract!Reachable(p, q)
           var(c) == get_variable(p, c)
<1>1. PICK a \in S : a = q.of
  BY QueryFacts
<1>2. /\ IsProgram(p) /\ Acyclic(p) /\ kind(p, a) = "assign"
      /\ \A x \in S : solve_next(p, x) \subseteq S
  BY <1>1, QueryFacts, EndPlaces
<1>3. \A n : n \in Start(p, q) <=> \E x \in solve_next(p, a) : n = <<var(a), x, <<>>>>
  <2>1. Start(p, q) = solve_affected_statements(p, FALSE, a)
    BY <1>1, QueryFacts DEF FlowStart
  <2>2. solve_affected_statements(p, FALSE, a) = PointsFor({var(a)}, solve_next(p, a))
    BY <1>2 DEF solve_affected_statements, solve_next_affected_by_var, NextPoints, Unstacked, PointsFor
  <2>3. PICK V, X : V = {var(a)} /\ X = solve_next(p, a)
    OBVIOUS
  <2>4. \A n : n \in PointsFor(V, X) <=> \E w \in V : \E x \in X : n = <<w, x, <<>>>>
    BY PointsOf
  <2>5. Start(p, q) = PointsFor(V, X)
    BY <2>1, <2>2, <2>3
  <2>6. \A w : w \in V <=> w = var(a)
    BY <2>3
  <2>7. \A n : n \in PointsFor(V, X) <=> \E x \in X : n = <<var(a), x, <<>>>>
    BY <2>4, <2>6
  <2>8. QED  BY <2>3, <2>5, <2>7
<1>4. ASSUME NEW v, NEW t \in S, <<v, t, <<>>>> \in Points(p, q)
      PROVE  /\ \A n : n \in Succ(p, q, <<v, t, <<>>>>)
                  <=> \E w, x : /\ n = <<w, x, <<>>>> /\ x \in solve_next(p, t)
                                /\ \/ w = v /\ ~Kills(p, t, v)
                                   \/ /\ star /\ kind(p, t) = "assign"
                                      /\ v \in get_expr_vars(p, t) /\ w = var(t)
             /\ Emit(p, q, <<v, t, <<>>>>)
                  = IF kind(p, t) = "assign" /\ v \in get_expr_vars(p, t) THEN {t} ELSE {}
  <2>1. PICK n : n = <<v, t, <<>>>>
    OBVIOUS
  <2>2. n[1] = v /\ n[2] = t /\ n[3] = <<>> /\ n \in Points(p, q)
    BY <1>4, <2>1
  <2>3. Succ(p, q, n) = solve_affected_by_var(p, FALSE, star, v, t, <<>>)
    BY <2>2, QueryFacts DEF FlowSucc
  <2>4. Emit(p, q, n) = IF kind(p, t) = "assign" /\ v \in get_expr_vars(p, t) THEN {t} ELSE {}
    BY <2>2, QueryFacts DEF FlowEmit, IsAffected
  <2>5. \A m : m \in solve_affected_by_var(p, FALSE, star, v, t, <<>>)
                 <=> \E w, x : /\ m = <<w, x, <<>>>> /\ x \in solve_next(p, t)
                               /\ \/ w = v /\ ~Kills(p, t, v)
                                  \/ /\ star /\ kind(p, t) = "assign"
                                     /\ v \in get_expr_vars(p, t) /\ w = var(t)
    BY <1>2, ForwardSteps
  <2>6. QED  BY <2>1, <2>3, <2>4, <2>5
<1>5. /\ N \subseteq S /\ a \in N /\ \A c \in N : kind(p, c) = "assign"
      /\ star => \A c \in N : AffG(p)[c] \subseteq N
  BY <1>1 DEF Followed, OfKind
<1>6. PICK X : X = CarriedFrom(p, N)
  OBVIOUS
<1>7. \A n : n \in X <=> \E c \in N : \E t \in S : Carries(p, var(c), c, t) /\ n = <<var(c), t, <<>>>>
  BY <1>6 DEF CarriedFrom
<1>8. R \subseteq X
  <2>1. Start(p, q) \subseteq X
    BY <1>2, <1>3, <1>5, <1>7, CarriesOn
  <2>2. ASSUME NEW n \in Points(p, q), n \in X PROVE Succ(p, q, n) \subseteq X
    <3>1. PICK c \in N, t \in S : Carries(p, var(c), c, t) /\ n = <<var(c), t, <<>>>>
      BY <1>7, <2>2
    <3>2. ASSUME NEW m \in Succ(p, q, n) PROVE m \in X
      <4>1. PICK w, x : /\ m = <<w, x, <<>>>> /\ x \in solve_next(p, t)
                        /\ \/ w = var(c) /\ ~Kills(p, t, var(c))
                           \/ /\ star /\ kind(p, t) = "assign"
                              /\ var(c) \in get_expr_vars(p, t) /\ w = var(t)
        BY <1>4, <2>2, <3>1, <3>2
      <4>2. x \in S /\ c \in S
        BY <1>2, <1>5, <4>1
      <4>3. CASE w = var(c) /\ ~Kills(p, t, var(c))
        <5>1. Carries(p, var(c), c, x)
          BY <1>2, <3>1, <4>1, <4>2, <4>3, CarriesOn
        <5>2. QED  BY <1>7, <4>1, <4>2, <4>3, <5>1
      <4>4. CASE star /\ kind(p, t) = "assign" /\ var(c) \in get_expr_vars(p, t) /\ w = var(t)
        <5>1. t \in AffG(p)[c]
          BY <1>2, <1>5, <3>1, <4>2, <4>4, AffSteps
        <5>2. t \in N
          BY <1>5, <4>4, <5>1
        <5>3. Carries(p, var(t), t, x)
          BY <1>2, <4>1, CarriesOn
        <5>4. QED  BY <1>7, <4>1, <4>2, <4>4, <5>2, <5>3
      <4>5. QED  BY <4>1, <4>3, <4>4
    <3>3. QED  BY <3>2
  <2>3. QED  BY <2>1, <2>2, ReachableInside
<1>9. /\ R \subseteq Points(p, q) /\ Start(p, q) \subseteq R
      /\ \A n \in R : Succ(p, q, n) \subseteq R
  BY ReachableClosed
<1>10. ASSUME NEW c \in S, \A x \in solve_next(p, c) : <<var(c), x, <<>>>> \in R
       PROVE  \A t : Carries(p, var(c), c, t) => <<var(c), t, <<>>>> \in R
  <2>1. PICK Y \in SUBSET S : Y = {t \in S : <<var(c), t, <<>>>> \in R}
    OBVIOUS
  <2>2. solve_next(p, c) \subseteq Y
    BY <1>2, <1>10, <2>1
  <2>3. ASSUME NEW t \in Y, ~Kills(p, t, var(c)) PROVE solve_next(p, t) \subseteq Y
    <3>1. ASSUME NEW x \in solve_next(p, t) PROVE <<var(c), x, <<>>>> \in R
      <4>1. <<var(c), t, <<>>>> \in R /\ t \in S /\ <<var(c), t, <<>>>> \in Points(p, q)
        BY <1>9, <2>1
      <4>2. <<var(c), x, <<>>>> \in Succ(p, q, <<var(c), t, <<>>>>)
        BY <1>4, <2>3, <3>1, <4>1
      <4>3. QED  BY <1>9, <4>1, <4>2
    <3>2. QED  BY <1>2, <2>1, <3>1
  <2>4. \A t : Carries(p, var(c), c, t) => t \in Y
    BY <1>2, <2>2, <2>3, CarriesOn
  <2>5. QED  BY <2>1, <2>4
<1>11. \A c \in N : \A t : Carries(p, var(c), c, t) => <<var(c), t, <<>>>> \in R
  <2>1. PICK M \in SUBSET S : M = {c \in S : \A t : Carries(p, var(c), c, t) => <<var(c), t, <<>>>> \in R}
    OBVIOUS
  <2>2. a \in M
    BY <1>3, <1>9, <1>10, <2>1
  <2>3. ASSUME star, NEW c \in M PROVE AffG(p)[c] \subseteq M
    <3>1. ASSUME NEW d \in AffG(p)[c] PROVE d \in M
      <4>1. d \in S /\ c \in S
        BY <1>2, <2>1, <3>1, AffSteps
      <4>2. /\ kind(p, d) = "assign" /\ var(c) \in get_expr_vars(p, d)
            /\ Carries(p, var(c), c, d)
        BY <1>2, <3>1, <4>1, AffSteps
      <4>3. <<var(c), d, <<>>>> \in R
        BY <2>1, <4>2
      <4>4. ASSUME NEW x \in solve_next(p, d) PROVE <<var(d), x, <<>>>> \in R
        <5>1. <<var(c), d, <<>>>> \in Points(p, q)
          BY <1>9, <4>3
        <5>2. <<var(d), x, <<>>>> \in Succ(p, q, <<var(c), d, <<>>>>)
          BY <1>4, <2>3, <4>1, <4>2, <4>4, <5>1
        <5>3. QED  BY <1>9, <4>3, <5>2
      <4>5. QED  BY <1>10, <2>1, <4>1, <4>4
    <3>2. QED  BY <3>1
  <2>4. N \subseteq M
    BY <1>1, <2>2, <2>3 DEF Followed
  <2>5. QED  BY <2>1, <2>4
<1>12. \A v : \A t \in S : <<v, t, <<>>>> \in Points(p, q) =>
         Emit(p, q, <<v, t, <<>>>>)
           = IF kind(p, t) = "assign" /\ v \in get_expr_vars(p, t) THEN {t} ELSE {}
  BY <1>4
<1>13. ASSUME NEW t \in Contract!Answer(p, q) PROVE \E c \in N : t \in AffG(p)[c]
  <2>1. PICK n \in R : t \in Emit(p, q, n)
    BY DEF Contract!Answer
  <2>2. PICK c \in N, u \in S : Carries(p, var(c), c, u) /\ n = <<var(c), u, <<>>>>
    BY <1>7, <1>8
  <2>3. kind(p, u) = "assign" /\ var(c) \in get_expr_vars(p, u) /\ t = u
    BY <1>12, <1>9, <2>1, <2>2
  <2>4. QED  BY <1>2, <1>5, <2>2, <2>3, AffSteps
<1>14. ASSUME NEW c \in N, NEW t \in AffG(p)[c] PROVE t \in Contract!Answer(p, q)
  <2>1. c \in S /\ t \in S
    BY <1>2, <1>5, AffSteps
  <2>2. kind(p, t) = "assign" /\ var(c) \in get_expr_vars(p, t) /\ Carries(p, var(c), c, t)
    BY <1>2, <2>1, AffSteps
  <2>3. <<var(c), t, <<>>>> \in R
    BY <1>11, <2>2
  <2>4. <<var(c), t, <<>>>> \in Points(p, q)
    BY <1>9, <2>3
  <2>5. t \in Emit(p, q, <<var(c), t, <<>>>>)
    BY <1>12, <2>1, <2>2, <2>4
  <2>6. QED  BY <2>3, <2>5 DEF Contract!Answer
<1>15. QED  BY <1>13, <1>14

CarriedTo(p, N) ==
  {n \in {<<v, t, <<>>>> : v \in UNION {get_expr_vars(p, c) : c \in N}, t \in Statements(p)} :
     \E c \in N : \E v \in get_expr_vars(p, c) : \E t \in Statements(p) :
       Carries(p, v, t, c) /\ n = <<v, t, <<>>>>}

LEMMA BackAnswers ==
    ASSUME NEW p \in Program, NEW q \in Queries(p), ~q.rel.bip,
           q.rel.solver # "inext", q.rel.fixed = "right", kind(p, q.of) = "assign",
           NEW star \in BOOLEAN, star = (q.rel.solver = "iaffects"),
           NEW N, Followed(p, star, AffBackG(p), q.of, N)
    PROVE  Contract!Answer(p, q) = UNION {AffBackG(p)[c] : c \in N}
<1> DEFINE S == Statements(p)
           R == Contract!Reachable(p, q)
           var(c) == get_variable(p, c)
           uses(c) == get_expr_vars(p, c)
<1>1. PICK b \in S : b = q.of
  BY QueryFacts
<1>2. /\ IsProgram(p) /\ Acyclic(p) /\ kind(p, b) = "assign"
      /\ \A x \in S : solve_previous(p, x) \subseteq S
  BY <1>1, QueryFacts, PreviousInside
<1>3. \A n : n \in Start(p, q)
               <=> \E v \in uses(b) : \E x \in solve_previous(p, b) : n = <<v, x, <<>>>>
  <2>1. Start(p, q) = solve_affecting_statements(p, FALSE, b)
    BY <1>1, QueryFacts DEF FlowStart
  <2>2. solve_affecting_statements(p, FALSE, b) = PointsFor(uses(b), solve_previous(p, b))
    BY <1>2 DEF solve_affecting_statements, solve_prev_affecting_with_var, PrevPoints, Unstacked, PointsFor
  <2>3. PICK V, X : V = uses(b) /\ X = solve_previous(p, b)
    OBVIOUS
  <2>4. \A n : n \in PointsFor(V, X) <=> \E w \in V : \E x \in X : n = <<w, x, <<>>>>
    BY PointsOf
  <2>5. Start(p, q) = PointsFor(V, X)
    BY <2>1, <2>2, <2>3
  <2>6. QED  BY <2>3, <2>4, <2>5
<1>4. ASSUME NEW v, NEW t \in S, <<v, t, <<>>>> \in Points(p, q)
      PROVE  /\ \A n : n \in Succ(p, q, <<v, t, <<>>>>)
                  <=> \E w, x : /\ n = <<w, x, <<>>>> /\ x \in solve_previous(p, t)
                                /\ \/ w = v /\ ~Kills(p, t, v)
                                   \/ /\ star /\ kind(p, t) = "assign"
                                      /\ w \in uses(t) /\ v = var(t)
             /\ Emit(p, q, <<v, t, <<>>>>)
                  = IF kind(p, t) = "assign" /\ var(t) = v THEN {t} ELSE {}
  <2>1. PICK n : n = <<v, t, <<>>>>
    OBVIOUS
  <2>2. n[1] = v /\ n[2] = t /\ n[3] = <<>> /\ n \in Points(p, q)
    BY <1>4, <2>1
  <2>3. Succ(p, q, n) = solve_affecting_with_var(p, FALSE, star, v, t, <<>>)
    BY <2>2, QueryFacts DEF FlowSucc
  <2>4. Emit(p, q, n) = IF kind(p, t) = "assign" /\ var(t) = v THEN {t} ELSE {}
    BY <2>2, QueryFacts DEF FlowEmit, IsAffecting
  <2>5. \A m : m \in solve_affecting_with_var(p, FALSE, star, v, t, <<>>)
                 <=> \E w, x : /\ m = <<w, x, <<>>>> /\ x \in solve_previous(p, t)
                               /\ \/ w = v /\ ~Kills(p, t, v)
                                  \/ /\ star /\ kind(p, t) = "assign"
                                     /\ w \in uses(t) /\ v = var(t)
    BY <1>2, BackSteps
  <2>6. QED  BY <2>1, <2>3, <2>4, <2>5
<1>5. /\ N \subseteq S /\ b \in N /\ \A c \in N : kind(p, c) = "assign"
      /\ star => \A c \in N : AffBackG(p)[c] \subseteq N
  BY <1>1 DEF Followed, OfKind
<1>6. PICK X : X = CarriedTo(p, N)
  OBVIOUS
<1>7. \A n : n \in X <=> \E c \in N : \E v \in uses(c) : \E t \in S :
                          Carries(p, v, t, c) /\ n = <<v, t, <<>>>>
  BY <1>6 DEF CarriedTo
<1>8. R \subseteq X
  <2>1. Start(p, q) \subseteq X
    BY <1>2, <1>3, <1>5, <1>7, CarriesBack
  <2>2. ASSUME NEW n \in Points(p, q), n \in X PROVE Succ(p, q, n) \subseteq X
    <3>1. PICK c \in N : \E v \in uses(c) : \E t \in S : Carries(p, v, t, c) /\ n = <<v, t, <<>>>>
      BY <1>7, <2>2
    <3>2. PICK v \in uses(c), t \in S : Carries(p, v, t, c) /\ n = <<v, t, <<>>>>
      BY <3>1
    <3>3. ASSUME NEW m \in Succ(p, q, n) PROVE m \in X
      <4>1. PICK w, x : /\ m = <<w, x, <<>>>> /\ x \in solve_previous(p, t)
                        /\ \/ w = v /\ ~Kills(p, t, v)
                           \/ /\ star /\ kind(p, t) = "assign"
                              /\ w \in uses(t) /\ v = var(t)
        BY <1>4, <2>2, <3>2, <3>3
      <4>2. x \in S /\ c \in S
        BY <1>2, <1>5, <4>1
      <4>3. CASE w = v /\ ~Kills(p, t, v)
        <5>1. Carries(p, v, x, c)
          BY <1>2, <3>2, <4>1, <4>2, <4>3, CarriesBack
        <5>2. QED  BY <1>7, <4>1, <4>2, <4>3, <5>1
      <4>4. CASE star /\ kind(p, t) = "assign" /\ w \in uses(t) /\ v = var(t)
        <5>1. t \in AffBackG(p)[c]
          BY <1>2, <1>5, <3>2, <4>2, <4>4, AffSteps
        <5>2. t \in N
          BY <1>5, <4>4, <5>1
        <5>3. Carries(p, w, x, t)
          BY <1>2, <4>1, CarriesBack
        <5>4. QED  BY <1>7, <4>1, <4>2, <4>4, <5>2, <5>3
      <4>5. QED  BY <4>1, <4>3, <4>4
    <3>4. QED  BY <3>3
  <2>3. QED  BY <2>1, <2>2, ReachableInside
<1>9. /\ R \subseteq Points(p, q) /\ Start(p, q) \subseteq R
      /\ \A n \in R : Succ(p, q, n) \subseteq R
  BY ReachableClosed
<1>10. ASSUME NEW c \in S, NEW v, \A x \in solve_previous(p, c) : <<v, x, <<>>>> \in R
       PROVE  \A t \in S : Carries(p, v, t, c) => <<v, t, <<>>>> \in R
  <2>1. PICK Y \in SUBSET S : Y = {t \in S : <<v, t, <<>>>> \in R}
    OBVIOUS
  <2>2. solve_previous(p, c) \subseteq Y
    BY <1>2, <1>10, <2>1
  <2>3. ASSUME NEW t \in Y, ~Kills(p, t, v) PROVE solve_previous(p, t) \subseteq Y
    <3>1. ASSUME NEW x \in solve_previous(p, t) PROVE <<v, x, <<>>>> \in R
      <4>1. <<v, t, <<>>>> \in R /\ t \in S /\ <<v, t, <<>>>> \in Points(p, q)
        BY <1>9, <2>1
      <4>2. <<v, x, <<>>>> \in Succ(p, q, <<v, t, <<>>>>)
        BY <1>4, <2>3, <3>1, <4>1
      <4>3. QED  BY <1>9, <4>1, <4>2
    <3>2. QED  BY <1>2, <2>1, <3>1
  <2>4. \A t \in S : Carries(p, v, t, c) => t \in Y
    BY <1>2, <2>2, <2>3, CarriesBack
  <2>5. QED  BY <2>1, <2>4
<1>11. \A c \in N : \A v \in uses(c) : \A t \in S :
          Carries(p, v, t, c) => <<v, t, <<>>>> \in R
  <2>1. PICK M \in SUBSET S :
          M = {c \in S : \A v \in uses(c) : \A t \in S :
                            Carries(p, v, t, c) => <<v, t, <<>>>> \in R}
    OBVIOUS
  <2>2. b \in M
    BY <1>3, <1>9, <1>10, <2>1
  <2>3. ASSUME star, NEW c \in M PROVE AffBackG(p)[c] \subseteq M
    <3>1. ASSUME NEW d \in AffBackG(p)[c] PROVE d \in M
      <4>1. d \in S /\ c \in S
        BY <1>2, <2>1, <3>1, AffSteps
      <4>2. /\ kind(p, d) = "assign" /\ var(d) \in uses(c)
            /\ Carries(p, var(d), d, c)
        BY <1>2, <3>1, <4>1, AffSteps
      <4>3. <<var(d), d, <<>>>> \in R
        BY <2>1, <4>1, <4>2
      <4>4. ASSUME NEW v \in uses(d), NEW x \in solve_previous(p, d) PROVE <<v, x, <<>>>> \in R
        <5>1. <<var(d), d, <<>>>> \in Points(p, q)
          BY <1>9, <4>3
        <5>2. <<v, x, <<>>>> \in Succ(p, q, <<var(d), d, <<>>>>)
          BY <1>4, <2>3, <4>1, <4>2, <4>4, <5>1
        <5>3. QED  BY <1>9, <4>3, <5>2
      <4>5. QED  BY <1>10, <2>1, <4>1, <4>4
    <3>2. QED  BY <3>1
  <2>4. N \subseteq M
    BY <1>1, <2>2, <2>3 DEF Followed
  <2>5. QED  BY <2>1, <2>4
<1>12. \A v : \A t \in S : <<v, t, <<>>>> \in Points(p, q) =>
         Emit(p, q, <<v, t, <<>>>>) = IF kind(p, t) = "assign" /\ var(t) = v THEN {t} ELSE {}
  BY <1>4
<1>13. ASSUME NEW t \in Contract!Answer(p, q) PROVE \E c \in N : t \in AffBackG(p)[c]
  <2>1. PICK n \in R : t \in Emit(p, q, n)
    BY DEF Contract!Answer
  <2>2. PICK c \in N : \E v \in uses(c) : \E u \in S : Carries(p, v, u, c) /\ n = <<v, u, <<>>>>
    BY <1>7, <1>8
  <2>3. PICK v \in uses(c), u \in S : Carries(p, v, u, c) /\ n = <<v, u, <<>>>>
    BY <2>2
  <2>4. kind(p, u) = "assign" /\ var(u) = v /\ t = u
    BY <1>12, <1>9, <2>1, <2>3
  <2>5. QED  BY <1>2, <1>5, <2>3, <2>4, AffSteps
<1>14. ASSUME NEW c \in N, NEW t \in AffBackG(p)[c] PROVE t \in Contract!Answer(p, q)
  <2>1. c \in S /\ t \in S
    BY <1>2, <1>5, AffSteps
  <2>2. kind(p, t) = "assign" /\ var(t) \in uses(c) /\ Carries(p, var(t), t, c)
    BY <1>2, <2>1, AffSteps
  <2>3. <<var(t), t, <<>>>> \in R
    BY <1>11, <2>1, <2>2
  <2>4. <<var(t), t, <<>>>> \in Points(p, q)
    BY <1>9, <2>3
  <2>5. t \in Emit(p, q, <<var(t), t, <<>>>>)
    BY <1>12, <2>1, <2>2, <2>4
  <2>6. QED  BY <2>3, <2>5 DEF Contract!Answer
<1>15. QED  BY <1>13, <1>14
LEMMA AffectsAnswers ==
    ASSUME NEW p \in Program, NEW q \in Queries(p), q.rel.solver # "inext", ~q.rel.bip,
           NEW G, G = IF q.rel.fixed = "left" THEN AffG(p) ELSE AffBackG(p)
    PROVE  Contract!Answer(p, q)
             = IF q.rel.solver = "affects" THEN G[q.of] ELSE Beyond(Statements(p), G, q.of)
<1> DEFINE S == Statements(p)
<1>1. IsProgram(p) /\ q.of \in S /\ q.rel.solver \in {"affects", "iaffects"}
      /\ q.rel.fixed \in {"left", "right"}
  BY QueryFacts
<1>2. /\ G \in [S -> SUBSET S]
      /\ \A a, b \in S : b \in G[a] => kind(p, a) = "assign" /\ kind(p, b) = "assign"
  BY <1>1, AffSteps
<1>3. CASE kind(p, q.of) = "assign"
  <2>1. PICK star \in BOOLEAN : star = (q.rel.solver = "iaffects")
    OBVIOUS
  <2>2. PICK N : N = IF star THEN Reach(S, G, q.of) ELSE {q.of}
    OBVIOUS
  <2>3. Followed(p, star, G, q.of, N)
    <3>1. CASE star
      <4>1. /\ q.of \in N /\ N \subseteq S /\ \A c \in N : G[c] \subseteq N
            /\ \A M \in SUBSET S : q.of \in M /\ (\A c \in M : G[c] \subseteq M) => N \subseteq M
        BY <1>1, <1>2, <2>2, <3>1, ReachLeast
      <4>2. PICK A \in SUBSET S : A = OfKind(p, "assign")
        BY DEF OfKind
      <4>3. q.of \in A /\ \A c \in A : G[c] \subseteq A
        BY <1>1, <1>2, <1>3, <4>2 DEF OfKind
      <4>4. N \subseteq A
        BY <4>1, <4>3
      <4>5. QED  BY <3>1, <4>1, <4>2, <4>4 DEF Followed
    <3>2. CASE ~star
      BY <1>1, <1>3, <2>2, <3>2 DEF Followed, OfKind
    <3>3. QED  BY <3>1, <3>2
  <2>4. Contract!Answer(p, q) = UNION {G[c] : c \in N}
    <3>1. CASE q.rel.fixed = "left"
      <4>1. G = AffG(p)
        BY <3>1
      <4>2. Followed(p, star, AffG(p), q.of, N)
        BY <2>3, <4>1
      <4>3. Contract!Answer(p, q) = UNION {AffG(p)[c] : c \in N}
        BY <1>1, <1>3, <2>1, <3>1, <4>2, ForwardAnswers
      <4>4. QED  BY <4>1, <4>3
    <3>2. CASE q.rel.fixed = "right"
      <4>1. G = AffBackG(p)
        BY <3>2
      <4>2. Followed(p, star, AffBackG(p), q.of, N)
        BY <2>3, <4>1
      <4>3. Contract!Answer(p, q) = UNION {AffBackG(p)[c] : c \in N}
        BY <1>1, <1>3, <2>1, <3>2, <4>2, BackAnswers
      <4>4. QED  BY <4>1, <4>3
    <3>3. QED  BY <1>1, <3>1, <3>2
  <2>5. CASE q.rel.solver = "affects"
    <3>1. N = {q.of}
      BY <2>1, <2>2, <2>5
    <3>2. UNION {G[c] : c \in N} = G[q.of]
      BY <3>1
    <3>3. QED  BY <2>4, <2>5, <3>2
  <2>6. CASE q.rel.solver = "iaffects"
    <3>1. N = Reach(S, G, q.of)
      BY <2>1, <2>2, <2>6
    <3>2. Beyond(S, G, q.of) = UNION {G[c] : c \in N}
      BY <1>1, <1>2, <3>1, BeyondGathers DEF Gather
    <3>3. QED  BY <2>4, <2>6, <3>2
  <2>7. QED  BY <1>1, <2>5, <2>6
<1>4. CASE kind(p, q.of) # "assign"
  <2>1. FlowStart(p, q) = {}
    BY <1>1, <1>4 DEF FlowStart, solve_affected_statements, solve_affecting_statements
  <2>2. Start(p, q) = {}
    BY <2>1, QueryFacts
  <2>3. Contract!Reachable(p, q) \subseteq {}
    BY <2>2, ReachableInside
  <2>4. Contract!Answer(p, q) = {}
    BY <2>3 DEF Contract!Answer
  <2>5. G[q.of] = {}
    BY <1>1, <1>2, <1>4
  <2>6. Beyond(S, G, q.of) = {}
    BY <2>5 DEF Beyond
  <2>7. QED  BY <2>4, <2>5, <2>6
<1>5. QED  BY <1>3, <1>4

(* The closure of a relation is the walk over it, and its reverse the walk *)
(* back.                                                                   *)
LEMMA ClosureBothWays ==
    ASSUME NEW p, IsProgram(p), NEW R \in SUBSET (Statements(p) \X Statements(p)),
           NEW G \in [Statements(p) -> SUBSET Statements(p)],
           NEW H \in [Statements(p) -> SUBSET Statements(p)],
           \A a, b \in Statements(p) : b \in G[a] <=> <<a, b>> \in R,
           \A a, b \in Statements(p) : b \in G[a] <=> a \in H[b],
           NEW c \in Statements(p)
    PROVE  /\ Beyond(Statements(p), G, c) = {s \in Statements(p) : <<c, s>> \in Closure(R)}
           /\ Beyond(Statements(p), H, c) = {s \in Statements(p) : <<s, c>> \in Closure(R)}
<1> DEFINE S == Statements(p)
<1>1. IsFiniteSet(Middle(R))
  <2>1. Middle(R) \in SUBSET S
    BY DEF Middle
  <2>2. QED  BY <2>1, ProgramFinite, FS_Subset
<1>2. StepsOf(S, R) = G
  <2>1. \A a \in S : {b \in S : <<a, b>> \in R} = G[a]
    OBVIOUS
  <2>2. QED  BY <2>1 DEF StepsOf
<1>3. \A a, b : <<a, b>> \in Closure(R) <=> a \in S /\ b \in Beyond(S, G, a)
  BY <1>1, <1>2, ClosureWalks
<1>4. Beyond(S, G, c) \subseteq S /\ Beyond(S, H, c) \subseteq S
  BY BeyondInside
<1>5. \A s \in S : c \in Beyond(S, G, s) <=> s \in Beyond(S, H, c)
  BY BeyondBack
<1>6. Beyond(S, G, c) = {s \in S : <<c, s>> \in Closure(R)}
  BY <1>3, <1>4
<1>7. Beyond(S, H, c) = {s \in S : <<s, c>> \in Closure(R)}
  BY <1>3, <1>4, <1>5
<1>8. QED  BY <1>6, <1>7

LEMMA AnswerMeans ==
    ASSUME NEW p \in Program, NEW q \in Queries(p), ~q.rel.bip
    PROVE  Contract!Answer(p, q)
             = {s \in Statements(p) : (IF q.rel.fixed = "left" THEN <<q.of, s>> ELSE <<s, q.of>>)
                                         \in Meaning(p, q.rel.solver)}
<1> DEFINE S == Statements(p)
<1>1. /\ IsProgram(p) /\ q.of \in S /\ q.rel.solver \in {"inext", "affects", "iaffects"}
      /\ q.rel.fixed \in {"left", "right"}
  BY QueryFacts
<1>2. CASE q.rel.solver = "inext"
  <2>1. /\ Beyond(S, FlowG(p), q.of) = {s \in S : <<q.of, s>> \in Closure(Flow(p))}
        /\ Beyond(S, BackG(p), q.of) = {s \in S : <<s, q.of>> \in Closure(Flow(p))}
    <3>1. /\ FlowG(p) \in [S -> SUBSET S] /\ BackG(p) \in [S -> SUBSET S]
          /\ Flow(p) \in SUBSET (S \X S)
          /\ \A a, b \in S : b \in FlowG(p)[a] <=> <<a, b>> \in Flow(p)
          /\ \A a, b \in S : b \in FlowG(p)[a] <=> a \in BackG(p)[b]
      BY <1>1, FlowSteps DEF FlowG
    <3>2. QED  BY <1>1, <3>1, ClosureBothWays
  <2>2. Meaning(p, q.rel.solver) = Closure(Flow(p))
    BY <1>2 DEF Meaning
  <2>3. Contract!Answer(p, q) = IF q.rel.fixed = "left" THEN Beyond(S, FlowG(p), q.of)
                                ELSE Beyond(S, BackG(p), q.of)
    BY <1>2, NextAnswers
  <2>4. QED  BY <1>1, <2>1, <2>2, <2>3
<1>3. CASE q.rel.solver # "inext"
  <2>1. /\ AffG(p) \in [S -> SUBSET S] /\ AffBackG(p) \in [S -> SUBSET S]
        /\ AffectsPairs(p) \in SUBSET (S \X S)
        /\ \A a, b \in S : b \in AffG(p)[a] <=> <<a, b>> \in AffectsPairs(p)
        /\ \A a, b \in S : b \in AffG(p)[a] <=> a \in AffBackG(p)[b]
    BY <1>1, AffSteps, AffectsAre
  <2>2. /\ Beyond(S, AffG(p), q.of) = {s \in S : <<q.of, s>> \in Closure(AffectsPairs(p))}
        /\ Beyond(S, AffBackG(p), q.of) = {s \in S : <<s, q.of>> \in Closure(AffectsPairs(p))}
    BY <1>1, <2>1, ClosureBothWays
  <2>3. /\ AffG(p)[q.of] = {s \in S : <<q.of, s>> \in AffectsPairs(p)}
        /\ AffBackG(p)[q.of] = {s \in S : <<s, q.of>> \in AffectsPairs(p)}
    BY <1>1, <2>1
  <2>4. PICK G : G = IF q.rel.fixed = "left" THEN AffG(p) ELSE AffBackG(p)
    OBVIOUS
  <2>5. Contract!Answer(p, q)
          = IF q.rel.solver = "affects" THEN G[q.of] ELSE Beyond(S, G, q.of)
    BY <1>3, <2>4, AffectsAnswers
  <2>6. Meaning(p, q.rel.solver) = IF q.rel.solver = "affects" THEN AffectsPairs(p)
                                   ELSE Closure(AffectsPairs(p))
    BY <1>1, <1>3 DEF Meaning
  <2>7. CASE q.rel.fixed = "left"
    BY <1>1, <2>2, <2>3, <2>4, <2>5, <2>6, <2>7
  <2>8. CASE q.rel.fixed = "right"
    BY <1>1, <2>2, <2>3, <2>4, <2>5, <2>6, <2>8
  <2>9. QED  BY <1>1, <2>7, <2>8
<1>4. QED  BY <1>2, <1>3

(***************************************************************************)
(* The answers given are those of the contract, and stay.                  *)
(***************************************************************************)
AnswersInv ==
  /\ ast \in Program
  /\ \A q \in DOMAIN cache : q \in Queries(ast) /\ cache[q] = Contract!Answer(ast, q)

LEMMA AnswersStart == ASSUME Init PROVE AnswersInv
BY DEF Init, AnswersInv

LEMMA AnswersStep ==
    ASSUME AnswersInv, SearchInv, [Next]_vars
    PROVE  AnswersInv'
<1>1. CASE UNCHANGED <<ast, cache>>
  <2>1. ast' = ast /\ cache' = cache
    BY <1>1
  <2>2. ASSUME NEW q \in DOMAIN cache'
        PROVE  q \in Queries(ast') /\ cache'[q] = Contract!Answer(ast', q)
    BY <2>1, <2>2 DEF AnswersInv
  <2>3. QED  BY <2>1, <2>2 DEF AnswersInv
<1>2. CASE Search /\ Conclude
  <2>1. ~Idle /\ asked \in Queries(ast)
    BY <1>2, InProgress DEF Search
  <2>2. Head(stack).found = Contract!Answer(ast, asked)
    BY <1>2, <2>1, ConcludeAnswers
  <2>3. /\ ast' = ast
        /\ cache' = [r \in DOMAIN cache \cup {asked} |->
                       IF r = asked THEN Head(stack).found ELSE cache[r]]
    BY <1>2 DEF Conclude
  <2>4. ASSUME NEW q \in DOMAIN cache'
        PROVE  q \in Queries(ast') /\ cache'[q] = Contract!Answer(ast', q)
    BY <2>1, <2>2, <2>3, <2>4 DEF AnswersInv
  <2>5. QED  BY <2>3, <2>4 DEF AnswersInv
<1>3. CASE Search /\ ~Conclude
  BY <1>1, <1>3 DEF Search, Skip, Enter, Return
<1>4. CASE \E q \in Queries(ast) : Ask(q)
  BY <1>1, <1>4 DEF Ask
<1>5. CASE UNCHANGED vars
  BY <1>1, <1>5 DEF vars
<1>6. QED  BY <1>2, <1>3, <1>4, <1>5 DEF Next

LEMMA AnswersMean ==
    ASSUME AnswersInv
    PROVE  AnswersMeanRelations
BY AnswerMeans DEF AnswersInv, AnswersMeanRelations

\* Whatever is asked in whatever order, every answer of the solvers of Next*,
\* Affects and Affects* is what the text means by the relation: the searches
\* with their visit caches, from either side, follow the flow as far as the
\* variable is not modified on the way (inext.cpp, affects.cpp, iaffects.cpp).
THEOREM AnswersAlwaysMean == Spec => []AnswersMeanRelations
<1>1. Init => AnswersInv /\ SearchInv
  BY AnswersStart, InitInv
<1>2. AnswersInv /\ SearchInv /\ [Next]_vars => AnswersInv' /\ SearchInv'
  BY AnswersStep, NextInv
<1>3. AnswersInv => AnswersMeanRelations
  BY AnswersMean
<1>4. QED  BY <1>1, <1>2, <1>3, PTL DEF Spec

------------------------------------------------------------------------------
(***************************************************************************)
(* Whatever a solver can answer is a part of the program that the walk of  *)
(* the predicates meets: a procedure, a statement, or a variable that a    *)
(* statement names.                                                        *)
(***************************************************************************)
Parts(p) == {Proc(n) : n \in Procs(p)} \cup {Stmt(s) : s \in Statements(p)}
            \cup {Var(v) : v \in Variables(p)}

LEMMA PartsInSets ==
    ASSUME ast \in Program, NEW c \in Parts(ast)
    PROVE  c \in global_set(ast, WordFor(c)) /\ c \in global_set(ast, "wildcard")
<1>1. Walked(ast) = Statements(ast)
  BY AllWalked, SolversAssumption
<1>2. ASSUME NEW n \in Procs(ast), c = Proc(n)
      PROVE  c \in global_set(ast, WordFor(c)) /\ c \in global_set(ast, "wildcard")
  <2>1. WordFor(c) = "procedure"
    BY <1>2 DEF WordFor, Proc
  <2>2. QED  BY <1>2, <2>1 DEF global_set, Accepted, evaluate
<1>3. ASSUME NEW s \in Statements(ast), NEW word,
             c \in visit_statement(ast, word, s)
      PROVE  c \in global_set(ast, word)
  BY <1>1, <1>3 DEF global_set
<1>4. ASSUME NEW s \in Statements(ast), c = Stmt(s)
      PROVE  c \in global_set(ast, WordFor(c)) /\ c \in global_set(ast, "wildcard")
  <2>1. WordFor(c) = kind(ast, s)
    BY <1>4 DEF WordFor, Stmt
  <2>2. /\ c \in visit_statement(ast, kind(ast, s), s)
        /\ c \in visit_statement(ast, "wildcard", s)
    BY <1>4 DEF visit_statement, Accepted, evaluate
  <2>3. QED  BY <1>3, <2>1, <2>2
<1>5. ASSUME NEW v \in Variables(ast), c = Var(v)
      PROVE  c \in global_set(ast, WordFor(c)) /\ c \in global_set(ast, "wildcard")
  <2>1. PICK s \in Statements(ast) :
               v \in get_expr_vars(ast, s) \cup ({get_variable(ast, s)} \ {NoVar})
    BY <1>5 DEF Variables
  <2>2. WordFor(c) = "var"
    BY <1>5 DEF WordFor, Var
  <2>3. /\ c \in visit_statement(ast, "var", s)
        /\ c \in visit_statement(ast, "wildcard", s)
    BY <1>5, <2>1 DEF visit_statement, Accepted, evaluate
  <2>4. QED  BY <1>3, <2>2, <2>3
<1>6. QED  BY <1>2, <1>4, <1>5 DEF Parts

\* A statement's variable is one, unless the statement is a call.
LEMMA VariableOf ==
    ASSUME NEW p, IsProgram(p), NEW s \in Statements(p)
    PROVE  /\ get_expr_vars(p, s) \subseteq Variables(p)
           /\ kind(p, s) # "call" => get_variable(p, s) \in Variables(p)
<1>1. kind(p, s) # "call" => get_variable(p, s) # NoVar
  BY DEF IsProgram
<1>2. QED  BY <1>1 DEF Variables

LEMMA ContainsParts ==
    ASSUME NEW p, IsProgram(p), NEW e \in contains_index(p, TRUE)
    PROVE  {e[1], e[2]} \subseteq Parts(p)
<1> DEFINE S == Statements(p)
<1>1. ASSUME NEW s \in S PROVE HeldG(p)[s] \subseteq Parts(p)
  <2>1. InnerG(p)[s] \subseteq S
    BY InnerWalk
  <2>2. VarsHere(p, s) \subseteq {Var(v) : v \in Variables(p)}
    BY DEF VarsHere, Variables
  <2>3. QED  BY <2>1, <2>2 DEF HeldG, Parts
<1>2. ASSUME NEW s \in S PROVE contained(p, TRUE, s) \subseteq Parts(p)
  <2>1. contained(p, TRUE, s) = UNION {HeldG(p)[u] : u \in Reach(S, InnerG(p), s)}
    BY ContainedMade DEF Gather
  <2>2. Reach(S, InnerG(p), s) \subseteq S
    BY InnerWalk, ReachLeast
  <2>3. QED  BY <1>1, <2>1, <2>2
<1>3. ASSUME NEW n \in Procs(p) PROVE ListFrom(p, get_statement(p, n)) \subseteq S
  BY ProcWalk, ListFromReach, ReachLeast, TreeWalks
<1>4. ASSUME NEW s \in S PROVE HandedUp(p, TRUE, s, contained(p, TRUE, s)) \subseteq Parts(p)
  BY <1>2 DEF HandedUp, Parts
<1>5. \/ \E n \in Procs(p) : \E s \in ListFrom(p, get_statement(p, n)) :
           e[1] = Proc(n) /\ e[2] \in HandedUp(p, TRUE, s, contained(p, TRUE, s))
      \/ \E s \in Walked(p) : e[1] = Stmt(s) /\ e[2] \in contained(p, TRUE, s)
  <2>1. \/ \E n \in Procs(p) :
             e \in {Proc(n)} \X UNION {HandedUp(p, TRUE, s, contained(p, TRUE, s)) :
                                      s \in ListFrom(p, get_statement(p, n))}
        \/ \E s \in {t \in Walked(p) : kind(p, t) # "call"} :
             e \in {Stmt(s)} \X contained(p, TRUE, s)
    BY Zenon DEF contains_index
  <2>2. \A X, Y : \A x \in X \X Y : x[1] \in X /\ x[2] \in Y
    OBVIOUS
  <2>3. CASE \E n \in Procs(p) :
               e \in {Proc(n)} \X UNION {HandedUp(p, TRUE, s, contained(p, TRUE, s)) :
                                        s \in ListFrom(p, get_statement(p, n))}
    <3>1. PICK n \in Procs(p) :
                 e \in {Proc(n)} \X UNION {HandedUp(p, TRUE, s, contained(p, TRUE, s)) :
                                          s \in ListFrom(p, get_statement(p, n))}
      BY <2>3
    <3>2. e[1] = Proc(n) /\ e[2] \in UNION {HandedUp(p, TRUE, s, contained(p, TRUE, s)) :
                                            s \in ListFrom(p, get_statement(p, n))}
      BY <2>2, <3>1
    <3>3. QED  BY <3>2
  <2>4. CASE \E s \in {t \in Walked(p) : kind(p, t) # "call"} :
               e \in {Stmt(s)} \X contained(p, TRUE, s)
    BY <2>2, <2>4
  <2>5. QED  BY <2>1, <2>3, <2>4
<1>6. QED  BY <1>2, <1>3, <1>4, <1>5, AllWalked DEF Parts

LEMMA SiblingParts ==
    ASSUME NEW p, IsProgram(p), NEW e \in sibling_index(p)
    PROVE  {e[1], e[2]} \subseteq Parts(p)
<1> DEFINE S == Statements(p)
<1>1. \A C : \A x \in Among(C) : x[1] \in C /\ x[2] \in C
  BY DEF Among
<1>2. ASSUME NEW h \in Heads(p) PROVE ListFrom(p, h) \subseteq S
  <2>1. h \in S
    BY DEF Heads, IsProgram, WellFormed, InTextOrder
  <2>2. QED  BY <2>1, ListFromReach, ReachLeast, TreeWalks
<1>3. ASSUME NEW s \in S, NEW x \in sibling_statement(p, s)
      PROVE  {x[1], x[2]} \subseteq Parts(p)
  <2>1. \A a, b : \A y \in index_siblings(a, b) : {y[1], y[2]} = {a, b}
    BY DEF index_siblings
  <2>2. /\ get_expr_vars(p, s) \subseteq Variables(p)
        /\ kind(p, s) # "call" => get_variable(p, s) \in Variables(p)
    BY VariableOf
  <2>3. /\ kind(p, s) \in {"while", "if"} => get_body(p, s) \in S /\ get_then_branch(p, s) \in S
        /\ kind(p, s) = "if" => get_else_branch(p, s) \in S
    BY DEF IsProgram, WellFormed, InTextOrder, Branches, get_body, get_then_branch, get_else_branch
  <2>4. CASE kind(p, s) = "assign"
    <3>1. PICK v \in get_expr_vars(p, s) : x \in index_siblings(Var(get_variable(p, s)), Var(v))
      BY <2>4 DEF sibling_statement
    <3>2. {x[1], x[2]} = {Var(get_variable(p, s)), Var(v)}
      BY <2>1, <3>1
    <3>3. QED  BY <2>2, <2>4, <3>2 DEF Parts
  <2>5. CASE kind(p, s) = "while"
    <3>1. x \in index_siblings(Var(get_variable(p, s)), Stmt(get_body(p, s)))
      BY <2>5 DEF sibling_statement
    <3>2. {x[1], x[2]} = {Var(get_variable(p, s)), Stmt(get_body(p, s))}
      BY <2>1, <3>1
    <3>3. QED  BY <2>2, <2>3, <2>5, <3>2 DEF Parts
  <2>6. CASE kind(p, s) = "if"
    <3>1. \E a, b \in {Var(get_variable(p, s)), Stmt(get_then_branch(p, s)),
                       Stmt(get_else_branch(p, s))} : x \in index_siblings(a, b)
      BY <2>6 DEF sibling_statement
    <3>2. {x[1], x[2]} \subseteq {Var(get_variable(p, s)), Stmt(get_then_branch(p, s)),
                                  Stmt(get_else_branch(p, s))}
      BY <2>1, <3>1
    <3>3. QED  BY <2>2, <2>3, <2>6, <3>2 DEF Parts
  <2>7. CASE kind(p, s) \notin {"assign", "while", "if"}
    BY <2>7 DEF sibling_statement
  <2>8. QED  BY <2>4, <2>5, <2>6, <2>7
<1>4. \/ e \in Among({Proc(n) : n \in Procs(p)})
      \/ \E h \in Heads(p) : e \in Among({Stmt(s) : s \in ListFrom(p, h)})
      \/ \E s \in Walked(p) : e \in sibling_statement(p, s)
  BY DEF sibling_index
<1>5. CASE e \in Among({Proc(n) : n \in Procs(p)})
  BY <1>1, <1>5 DEF Parts
<1>6. CASE \E h \in Heads(p) : e \in Among({Stmt(s) : s \in ListFrom(p, h)})
  BY <1>1, <1>2, <1>6 DEF Parts
<1>7. CASE \E s \in Walked(p) : e \in sibling_statement(p, s)
  BY <1>3, <1>7, AllWalked
<1>8. QED  BY <1>4, <1>5, <1>6, <1>7

LEMMA EffectParts ==
    ASSUME NEW p, IsProgram(p), Acyclic(p), NEW effect, NEW s \in Statements(p)
    PROVE  index_variables(p, effect, s) \subseteq Variables(p)
<1> DEFINE S == Statements(p)
<1>1. ASSUME NEW t \in S PROVE Extracts(p, effect)[t] \subseteq Variables(p)
  BY VariableOf DEF Extracts, extract
<1>2. index_variables(p, effect, s)
        = UNION {Extracts(p, effect)[t] : t \in Reach(S, RunG(p), s)}
  BY RunsEnd, IndexGathers DEF Gather
<1>3. Reach(S, RunG(p), s) \subseteq S
  BY RunWalk, ReachLeast
<1>4. QED  BY <1>1, <1>2, <1>3

AllEffects(p) ==
  UNION {index_variables(p, effect, s) : effect \in Effects, s \in Statements(p)}

LEMMA AnsweredParts ==
    ASSUME ast \in Program
    PROVE  Answered \subseteq Parts(ast)
<1>1. IsProgram(ast) /\ Acyclic(ast)
  BY SolversAssumption
<1>2. ASSUME NEW c \in Answered PROVE c \in Parts(ast)
  <2>1. \/ \E e \in contains_index(ast, TRUE) \cup sibling_index(ast) : c \in {e[1], e[2]}
        \/ \E e \in direct_uses_index(ast) : c \in {Stmt(e[2]), Var(e[1])}
        \/ \E effect \in Effects, s \in Statements(ast) :
             \E v \in index_variables(ast, effect, s) : c = Var(v)
    <3>1. PICK X : X = UNION {{e[1], e[2]} :
                                e \in contains_index(ast, TRUE) \cup sibling_index(ast)}
      OBVIOUS
    <3>2. PICK Y : Y = UNION {{Stmt(e[2]), Var(e[1])} : e \in direct_uses_index(ast)}
      OBVIOUS
    <3>3. PICK Z : Z = AllEffects(ast)
      OBVIOUS
    <3>4. Answered = X \cup Y \cup {Var(v) : v \in Z}
      BY <3>1, <3>2, <3>3 DEF Answered, AllEffects
    <3>5. CASE c \in X
      BY <3>1, <3>5
    <3>6. CASE c \in Y
      BY <3>2, <3>6
    <3>7. CASE c \in {Var(v) : v \in Z}
      <4>1. PICK v \in Z : c = Var(v)
        BY <3>7
      <4>2. \E effect \in Effects, s \in Statements(ast) : v \in index_variables(ast, effect, s)
        BY <3>3, <4>1 DEF AllEffects
      <4>3. QED  BY <4>1, <4>2
    <3>8. QED  BY <1>2, <3>4, <3>5, <3>6, <3>7
  <2>2. ASSUME NEW e \in direct_uses_index(ast)
        PROVE  {Stmt(e[2]), Var(e[1])} \subseteq Parts(ast)
    <3>1. PICK t \in Walked(ast) : kind(ast, t) # "call" /\ e = <<get_variable(ast, t), t>>
      BY DEF direct_uses_index
    <3>2. t \in Statements(ast) /\ get_variable(ast, t) \in Variables(ast)
      BY <1>1, <3>1, AllWalked, VariableOf
    <3>3. QED  BY <3>1, <3>2 DEF Parts
  <2>3. QED  BY <1>1, <2>1, <2>2, ContainsParts, SiblingParts, EffectParts DEF Parts
<1>3. QED  BY <1>2

\* Nothing a solver answers is lost in the linker: what the walks of
\* contains.cpp, sibling.cpp, direct_uses.cpp and assign.cpp find, the walk of
\* predicate.cpp gives a variable of the fitting predicate, and the wildcard.
THEOREM AnswersAlwaysWithin == Spec => []AnswersWithinPredicates
<1>1. Init => ast \in Program
  BY DEF Init
<1>2. ast \in Program /\ [Next]_vars => (ast \in Program)'
  BY DEF Next, Ask, Search, Conclude, Skip, Enter, Return, vars
<1>3. ast \in Program => AnswersWithinPredicates
  BY AnsweredParts, PartsInSets DEF AnswersWithinPredicates
<1>4. QED  BY <1>1, <1>2, <1>3, PTL DEF Spec
==============================================================================
