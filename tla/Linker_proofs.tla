---------------------------- MODULE Linker_proofs ----------------------------
(***************************************************************************)
(* Proofs about Linker and LinkerTuples, for every set of query variables, *)
(* conditions, declarations and requests: the type invariant; links are    *)
(* symmetric between calls; no solution of the requests is ever lost, so   *)
(* that an invalid state has none, every step is one LinkerContract allows *)
(* and the tuples of a selection miss no answer.                           *)
(*                                                                         *)
(* And the other way: nothing a request rules out comes back, on any graph *)
(* and in the middle of a cascade; when the links form a forest, what is   *)
(* left is exact, because a solution can be put together from the leaves   *)
(* up; and on a forest a tuple found has a solution behind it.             *)
(***************************************************************************)
EXTENDS LinkerTuples, SequenceTheorems, FiniteSetTheorems, WellFoundedInduction, TLAPS

-----------------------------------------------------------------------------
(* The frames of a stack, as frames are pushed and popped.                 *)
LEMMA FramesConcat ==
    ASSUME NEW s \in Seq(AllFrames), NEW t \in Seq(AllFrames)
    PROVE  /\ s \o t \in Seq(AllFrames)
           /\ Frames(s \o t) = Frames(s) \cup Frames(t)
<1>1. /\ s \o t \in Seq(AllFrames)
      /\ Len(s \o t) = Len(s) + Len(t)
      /\ \A i \in 1 .. Len(s) + Len(t) :
            (s \o t)[i] = IF i <= Len(s) THEN s[i] ELSE t[i - Len(s)]
  BY ConcatProperties
<1>2. /\ Len(s) \in Nat /\ Len(t) \in Nat
      /\ DOMAIN s = 1 .. Len(s) /\ DOMAIN t = 1 .. Len(t)
      /\ DOMAIN (s \o t) = 1 .. Len(s) + Len(t)
  BY <1>1, LenProperties
<1>3. ASSUME NEW f \in Frames(s \o t) PROVE f \in Frames(s) \cup Frames(t)
  <2>1. PICK i \in 1 .. Len(s) + Len(t) : f = (s \o t)[i]
    BY <1>2 DEF Frames
  <2>2. CASE i <= Len(s)
    BY <1>1, <1>2, <2>1, <2>2 DEF Frames
  <2>3. CASE ~(i <= Len(s))
    <3>1. i - Len(s) \in 1 .. Len(t) /\ f = t[i - Len(s)]
      BY <1>1, <1>2, <2>1, <2>3
    <3>2. QED  BY <3>1, <1>2 DEF Frames
  <2>4. QED  BY <2>2, <2>3
<1>4. ASSUME NEW f \in Frames(s) PROVE f \in Frames(s \o t)
  <2>1. PICK i \in 1 .. Len(s) : f = s[i]
    BY <1>2 DEF Frames
  <2>2. i \in 1 .. Len(s) + Len(t) /\ (s \o t)[i] = f
    BY <1>1, <1>2, <2>1
  <2>3. QED  BY <1>2, <2>2 DEF Frames
<1>5. ASSUME NEW f \in Frames(t) PROVE f \in Frames(s \o t)
  <2>1. PICK i \in 1 .. Len(t) : f = t[i]
    BY <1>2 DEF Frames
  <2>2. i + Len(s) \in 1 .. Len(s) + Len(t) /\ (s \o t)[i + Len(s)] = f
    BY <1>1, <1>2, <2>1
  <2>3. QED  BY <1>2, <2>2 DEF Frames
<1>6. QED  BY <1>1, <1>3, <1>4, <1>5

LEMMA FramesTail ==
    ASSUME NEW s \in Seq(AllFrames), s # <<>>
    PROVE  /\ Tail(s) \in Seq(AllFrames) /\ Head(s) \in AllFrames
           /\ Frames(s) = {Head(s)} \cup Frames(Tail(s))
<1>1. /\ Head(s) \in AllFrames /\ Tail(s) \in Seq(AllFrames)
      /\ Len(Tail(s)) = Len(s) - 1
      /\ \A i \in 1 .. Len(Tail(s)) : Tail(s)[i] = s[i + 1]
  BY HeadTailProperties
<1>2. /\ Len(s) \in Nat \ {0} /\ DOMAIN s = 1 .. Len(s)
      /\ DOMAIN Tail(s) = 1 .. Len(s) - 1
  BY <1>1, LenProperties, EmptySeq
<1>3. Head(s) \in Frames(s)
  BY <1>2 DEF Frames
<1>4. ASSUME NEW f \in Frames(Tail(s)) PROVE f \in Frames(s)
  <2>1. PICK i \in 1 .. Len(s) - 1 : f = Tail(s)[i]
    BY <1>2 DEF Frames
  <2>2. i + 1 \in 1 .. Len(s) /\ s[i + 1] = f
    BY <1>1, <1>2, <2>1
  <2>3. QED  BY <1>2, <2>2 DEF Frames
<1>5. ASSUME NEW f \in Frames(s) PROVE f \in {Head(s)} \cup Frames(Tail(s))
  <2>1. PICK i \in 1 .. Len(s) : f = s[i]
    BY <1>2 DEF Frames
  <2>2. CASE i = 1
    BY <1>2, <2>1, <2>2
  <2>3. CASE i # 1
    <3>1. i - 1 \in 1 .. Len(s) - 1 /\ Tail(s)[i - 1] = f
      BY <1>1, <1>2, <2>1, <2>3
    <3>2. QED  BY <1>2, <3>1 DEF Frames
  <2>4. QED  BY <2>2, <2>3
<1>6. QED  BY <1>1, <1>3, <1>4, <1>5

LEMMA FramesShort ==
    ASSUME NEW f \in AllFrames, NEW g \in AllFrames
    PROVE  /\ <<f>> \in Seq(AllFrames) /\ Frames(<<f>>) = {f}
           /\ <<f, g>> \in Seq(AllFrames) /\ Frames(<<f, g>>) = {f, g}
<1>1. <<f>> \in Seq(AllFrames) /\ <<f, g>> \in Seq(AllFrames)
  OBVIOUS
<1>2. DOMAIN <<f>> = {1} /\ DOMAIN <<f, g>> = {1, 2}
  OBVIOUS
<1>3. QED  BY <1>1, <1>2 DEF Frames

LEMMA FramesEmpty == Frames(<<>>) = {}
BY DEF Frames

(* What a push over a stack, or over its tail, does to the set of frames.  *)
LEMMA PushAll ==
    ASSUME NEW s \in Seq(AllFrames), NEW u \in Seq(AllFrames), NEW t, t = u \o s
    PROVE  t \in Seq(AllFrames) /\ Frames(t) = Frames(u) \cup Frames(s)
BY FramesConcat

LEMMA PushOne ==
    ASSUME NEW s \in Seq(AllFrames), NEW f \in AllFrames, NEW t, t = <<f>> \o s
    PROVE  t \in Seq(AllFrames) /\ Frames(t) = {f} \cup Frames(s)
<1>1. <<f>> \in Seq(AllFrames) /\ Frames(<<f>>) = {f}
  BY FramesShort
<1>2. QED  BY <1>1, PushAll, Zenon

LEMMA PushTwo ==
    ASSUME NEW s \in Seq(AllFrames), NEW f \in AllFrames, NEW g \in AllFrames,
           NEW t, t = <<f, g>> \o s
    PROVE  t \in Seq(AllFrames) /\ Frames(t) = {f, g} \cup Frames(s)
<1>1. <<f, g>> \in Seq(AllFrames) /\ Frames(<<f, g>>) = {f, g}
  BY FramesShort
<1>2. QED  BY <1>1, PushAll, Zenon

LEMMA FramesThree ==
    ASSUME NEW f \in AllFrames, NEW g \in AllFrames, NEW h \in AllFrames
    PROVE  <<f, g, h>> \in Seq(AllFrames) /\ Frames(<<f, g, h>>) = {f, g, h}
<1>1. <<f, g, h>> \in Seq(AllFrames) /\ DOMAIN <<f, g, h>> = {1, 2, 3}
  OBVIOUS
<1>2. QED  BY <1>1 DEF Frames

(* The op of a frame tells its fields.                                     *)
LEMMA FrameKinds ==
    ASSUME NEW f \in AllFrames
    PROVE  /\ f.op = "update_results" => f \in UpdateFrames
           /\ f.op = "remove_condition" => f \in UnlinkFrames
           /\ f.op = "break_link" => f \in BreakFrames
           /\ f.op = "break_both_links" => f \in BothFrames
           /\ f.op = "update_links" => f \in RegisterFrames
BY DEF AllFrames, UpdateFrames, UnlinkFrames, BreakFrames, BothFrames, RegisterFrames

(* The constructors build frames.                                          *)
LEMMA FrameMade ==
    /\ \A q \in Qvars : \A keep \in SUBSET Conds : UpdateFrame(q, keep) \in AllFrames
    /\ \A q \in Qvars : \A c \in Conds : \A todo \in SUBSET Qvars :
          UnlinkFrame(q, c, todo) \in AllFrames
    /\ \A todo \in SUBSET Arcs : BreakFrame(todo) \in AllFrames
    /\ \A todo \in SUBSET Arcs : BothFrame(todo) \in AllFrames
    /\ \A q, p \in Qvars : RegisterFrame(q, p) \in AllFrames
BY DEF AllFrames, UpdateFrames, UnlinkFrames, BreakFrames, BothFrames, RegisterFrames,
       UpdateFrame, UnlinkFrame, BreakFrame, BothFrame, RegisterFrame

-----------------------------------------------------------------------------
(* Type correctness.                                                       *)

(* A frame in progress stays well formed while variables are initialised   *)
(* and pairs registered.                                                   *)
LEMMA FrameOKKept ==
    ASSUME NEW f, FrameOK(f), initialized \subseteq initialized', linked \subseteq linked'
    PROVE  FrameOK(f)'
BY DEF FrameOK, HasLink, LinkedTo

LEMMA FramesOKKept ==
    ASSUME TypeOK, initialized \subseteq initialized', linked \subseteq linked'
    PROVE  \A f \in Frames(stack) : FrameOK(f)'
<1>1. \A f \in Frames(stack) : FrameOK(f)
  BY DEF TypeOK
<1>2. QED  BY <1>1, FrameOKKept

(* A linker built from a predicate table of known variables.               *)
TableOK(d) == DOMAIN d \subseteq Qvars /\ \A q \in DOMAIN d : d[q] \subseteq Conds

LEMMA StartType == ASSUME NEW d, TableOK(d), InitWith(d) PROVE TypeOK
<1>1. stack \in Seq(AllFrames) /\ Frames(stack) = {}
  BY FramesEmpty DEF InitWith
<1>2. initialized \in SUBSET Qvars /\ values \in [Qvars -> SUBSET Conds]
  BY DEF InitWith, TableOK
<1>3. QED  BY <1>1, <1>2 DEF InitWith, TypeOK

LEMMA InitStarts == ASSUME Init PROVE \E d \in Domains : TableOK(d) /\ InitWith(d)
BY LinkerAssumption DEF Init, TableOK, LinkerAssumption

LEMMA InitType == ASSUME Init PROVE TypeOK
BY InitStarts, StartType

(* remove_condition keeps the tables typed, whatever it returns to.        *)
LEMMA RemoveType ==
    ASSUME TypeOK, UNCHANGED <<initialized, linked>>,
           NEW q \in initialized, NEW c \in Conds, NEW rest \in Seq(AllFrames),
           \A f \in Frames(rest) : FrameOK(f)',
           RemoveCondition(q, c, rest)
    PROVE  /\ values' \in [Qvars -> SUBSET Conds]
           /\ valid' \in BOOLEAN
           /\ stack' \in Seq(AllFrames)
           /\ \A f \in Frames(stack') : FrameOK(f)'
<1>1. PICK f : f = UnlinkFrame(q, c, LinkedTo(q))
  OBVIOUS
<1>2. q \in Qvars /\ LinkedTo(q) \in SUBSET Qvars
  BY DEF TypeOK, LinkedTo
<1>3. f \in AllFrames
  BY <1>1, <1>2, FrameMade
<1>4. FrameOK(f)'
  BY <1>1 DEF FrameOK, UnlinkFrame, LinkedTo, HasLink
<1>5. stack' = <<f>> \o rest \/ stack' = rest
  BY <1>1 DEF RemoveCondition
<1>6. /\ stack' \in Seq(AllFrames)
      /\ Frames(stack') = {f} \cup Frames(rest) \/ Frames(stack') = Frames(rest)
  BY <1>3, <1>5, PushOne, Zenon
<1>7. \A g \in Frames(stack') : FrameOK(g)'
  BY <1>4, <1>6, Zenon
<1>8. values' \in [Qvars -> SUBSET Conds] /\ valid' \in BOOLEAN
  BY DEF RemoveCondition, TypeOK
<1>9. QED  BY <1>6, <1>7, <1>8

(* What the type invariant says of the innermost frame.                    *)
LEMMA HeadTyped ==
    ASSUME TypeOK, stack # <<>>
    PROVE  /\ Head(stack) \in AllFrames /\ Head(stack) \in Frames(stack)
           /\ FrameOK(Head(stack))
           /\ Tail(stack) \in Seq(AllFrames)
           /\ Frames(Tail(stack)) \subseteq Frames(stack)
           /\ Frames(stack) = {Head(stack)} \cup Frames(Tail(stack))
<1>1. stack \in Seq(AllFrames) /\ \A f \in Frames(stack) : FrameOK(f)
  BY DEF TypeOK
<1>2. QED  BY <1>1, FramesTail, Zenon

LEMMA UpdateResultsType ==
    ASSUME TypeOK, NEW q \in Qvars, NEW new \in SUBSET Conds, UpdateResults(q, new)
    PROVE  TypeOK'
<1>1. \A f \in Frames(stack) : FrameOK(f)'
  BY FramesOKKept DEF UpdateResults
<1>2. CASE q \in initialized
  <2>1. PICK f : f = UpdateFrame(q, new)
    OBVIOUS
  <2>2. f \in AllFrames
    BY <2>1, FrameMade
  <2>3. stack' = <<f>> \o stack /\ stack \in Seq(AllFrames)
    BY <1>2, <2>1 DEF UpdateResults, Call, TypeOK
  <2>4. stack' \in Seq(AllFrames) /\ Frames(stack') = {f} \cup Frames(stack)
    BY <2>2, <2>3, PushOne, Zenon
  <2>5. FrameOK(f)'
    BY <1>2, <2>1 DEF UpdateResults, FrameOK, UpdateFrame
  <2>6. \A g \in Frames(stack') : FrameOK(g)'
    BY <1>1, <2>4, <2>5, Zenon
  <2>7. QED  BY <1>2, <2>4, <2>6 DEF UpdateResults, TypeOK
<1>3. CASE q \notin initialized
  <2>1. UNCHANGED <<stack, arcs, linked, valid>>
    BY <1>3 DEF UpdateResults
  <2>2. \A f \in Frames(stack') : FrameOK(f)'
    BY <1>1, <2>1, Zenon
  <2>3. QED  BY <1>3, <2>1, <2>2 DEF UpdateResults, TypeOK
<1>4. QED  BY <1>2, <1>3

LEMMA GetConditionsType ==
    ASSUME TypeOK, NEW q \in Qvars, GetConditions(q) PROVE TypeOK'
<1>1. \A f \in Frames(stack) : FrameOK(f)'
  BY FramesOKKept DEF GetConditions
<1>2. stack' = stack
  BY DEF GetConditions
<1>3. \A f \in Frames(stack') : FrameOK(f)'
  BY <1>1, <1>2, Zenon
<1>4. QED  BY <1>3, LinkerAssumption DEF GetConditions, TypeOK, LinkerAssumption

LEMMA InvalidateStateType == ASSUME TypeOK, InvalidateState PROVE TypeOK'
<1>1. \A f \in Frames(stack) : FrameOK(f)'
  BY FramesOKKept DEF InvalidateState
<1>2. stack' = stack
  BY DEF InvalidateState
<1>3. \A f \in Frames(stack') : FrameOK(f)'
  BY <1>1, <1>2, Zenon
<1>4. QED  BY <1>3 DEF InvalidateState, TypeOK

LEMMA RequestedTyped ==
    ASSUME TypeOK, NEW q \in Qvars, NEW p \in Qvars, NEW rel
    PROVE  /\ ValuesFor(q, p) \in [Qvars -> SUBSET Conds]
           /\ Surviving(q, p, rel) \subseteq solutions
BY LinkerAssumption DEF ValuesFor, Surviving, TypeOK, LinkerAssumption

LEMMA UpdateOldLinksType ==
    ASSUME TypeOK, NEW q \in Qvars, NEW p \in Qvars, NEW rel,
           UpdateOldLinks(q, p, rel)
    PROVE  TypeOK'
<1>1. \A f \in Frames(stack) : FrameOK(f)'
  BY FramesOKKept DEF UpdateOldLinks
<1>2. PICK todo : todo = {a \in LinksBetween(q, p) : <<a[2], a[4]>> \notin rel}
  OBVIOUS
<1>3. PICK f : f = BothFrame(todo)
  OBVIOUS
<1>4. todo \in SUBSET Arcs /\ \A a \in todo : HasLink(a[1], a[3])
  BY <1>2 DEF LinksBetween, TypeOK, UpdateOldLinks
<1>5. f \in AllFrames
  BY <1>3, <1>4, FrameMade
<1>6. stack' = <<f>> \o stack /\ stack \in Seq(AllFrames)
  BY <1>2, <1>3 DEF UpdateOldLinks, Call, TypeOK
<1>7. stack' \in Seq(AllFrames) /\ Frames(stack') = {f} \cup Frames(stack)
  BY <1>5, <1>6, PushOne, Zenon
<1>8. FrameOK(f)'
  BY <1>3, <1>4 DEF UpdateOldLinks, FrameOK, BothFrame, HasLink
<1>9. \A g \in Frames(stack') : FrameOK(g)'
  BY <1>1, <1>7, <1>8, Zenon
<1>10. QED  BY <1>7, <1>9, RequestedTyped DEF UpdateOldLinks, TypeOK

LEMMA UpdateNewLinksType ==
    ASSUME TypeOK, NEW q \in Qvars, NEW p \in Qvars, NEW rel \in SUBSET (Conds \X Conds),
           UpdateNewLinks(q, p, rel)
    PROVE  TypeOK'
<1>1. \A f \in Frames(stack) : FrameOK(f)'
  BY FramesOKKept DEF UpdateNewLinks
<1>2. PICK accepted : accepted = {l \in rel : /\ l[1] \in ValuesFor(q, p)[q]
                                            /\ l[2] \in ValuesFor(q, p)[p]}
  OBVIOUS
<1>3. accepted \in SUBSET (Conds \X Conds)
  BY <1>2
<1>4. PICK f : f = UpdateFrame(q, {l[1] : l \in accepted})
  OBVIOUS
<1>5. PICK g : g = UpdateFrame(p, {l[2] : l \in accepted})
  OBVIOUS
<1>6. PICK h : h = RegisterFrame(q, p)
  OBVIOUS
<1>7. {l[1] : l \in accepted} \in SUBSET Conds /\ {l[2] : l \in accepted} \in SUBSET Conds
  BY <1>3
<1>8. f \in AllFrames /\ g \in AllFrames /\ h \in AllFrames
  BY <1>4, <1>5, <1>6, <1>7, FrameMade, Zenon
<1>9. stack' = <<f, g, h>> \o stack /\ stack \in Seq(AllFrames)
  BY <1>2, <1>4, <1>5, <1>6 DEF UpdateNewLinks, TypeOK
<1>10. stack' \in Seq(AllFrames) /\ Frames(stack') = {f, g, h} \cup Frames(stack)
  <2>1. <<f, g, h>> \in Seq(AllFrames) /\ Frames(<<f, g, h>>) = {f, g, h}
    BY <1>8, FramesThree, Zenon
  <2>2. QED  BY <1>9, <2>1, PushAll, Zenon
<1>11. FrameOK(f)' /\ FrameOK(g)' /\ FrameOK(h)'
  BY <1>4, <1>5, <1>6 DEF UpdateNewLinks, FrameOK, UpdateFrame, RegisterFrame
<1>12. \A k \in Frames(stack') : FrameOK(k)'
  BY <1>1, <1>10, <1>11, Zenon
<1>13. arcs' \in SUBSET Arcs
  <2>1. arcs' = arcs \cup {Arc(q, l[1], p, l[2]) : l \in accepted}
                     \cup {Arc(p, l[2], q, l[1]) : l \in accepted}
    BY <1>2 DEF UpdateNewLinks
  <2>2. QED  BY <1>3, <2>1 DEF Arcs, Arc, TypeOK
<1>14. QED  BY <1>10, <1>12, <1>13, RequestedTyped DEF UpdateNewLinks, TypeOK

LEMMA RequestType == ASSUME TypeOK, Request PROVE TypeOK'
<1>1. \A j \in Joinable : j[1] \in Qvars /\ j[2] \in Qvars
  BY LinkerAssumption DEF LinkerAssumption
<1>2. Relations \subseteq SUBSET (Conds \X Conds)
  BY LinkerAssumption DEF LinkerAssumption
<1>3. QED  BY <1>1, <1>2, UpdateResultsType, GetConditionsType, InvalidateStateType,
              UpdateOldLinksType, UpdateNewLinksType DEF Request, UpdateLinks

LEMMA UpdateStepType == ASSUME TypeOK, UpdateStep PROVE TypeOK'
<1>1. /\ stack # <<>> /\ Head(stack).op = "update_results"
      /\ UNCHANGED <<initialized, arcs, linked, solutions>>
  BY DEF UpdateStep, Top
<1>2. PICK c \in values[Head(stack).q] : RemoveCondition(Head(stack).q, c, stack)
  BY DEF UpdateStep
<1>3. Head(stack).q \in initialized
  BY <1>1, HeadTyped DEF FrameOK
<1>4. c \in Conds
  BY <1>2, <1>3 DEF TypeOK
<1>5. \A f \in Frames(stack) : FrameOK(f)'
  BY <1>1, FramesOKKept
<1>6. stack \in Seq(AllFrames)
  BY DEF TypeOK
<1>7. /\ values' \in [Qvars -> SUBSET Conds] /\ valid' \in BOOLEAN
      /\ stack' \in Seq(AllFrames) /\ \A f \in Frames(stack') : FrameOK(f)'
  BY <1>1, <1>2, <1>3, <1>4, <1>5, <1>6, RemoveType
<1>8. QED  BY <1>1, <1>7 DEF TypeOK

LEMMA UnlinkStepType == ASSUME TypeOK, UnlinkStep PROVE TypeOK'
<1>1. PICK f : f = Head(stack)
  OBVIOUS
<1>2. /\ stack # <<>> /\ f.op = "remove_condition"
      /\ UNCHANGED <<initialized, values, linked, valid, solutions>>
  BY <1>1 DEF UnlinkStep, Top
<1>3. PICK p \in f.todo :
         /\ arcs' = arcs \ LinksOf(f.q, f.c, p)
         /\ stack' = << BreakFrame({Rev(a) : a \in LinksOf(f.q, f.c, p)}),
                        UnlinkFrame(f.q, f.c, f.todo \ {p}) >> \o Tail(stack)
  BY <1>1 DEF UnlinkStep
<1>4. /\ f \in UnlinkFrames /\ FrameOK(f) /\ Tail(stack) \in Seq(AllFrames)
      /\ Frames(Tail(stack)) \subseteq Frames(stack)
  BY <1>1, <1>2, HeadTyped, FrameKinds
<1>5. f.q \in Qvars /\ f.c \in Conds /\ f.todo \in SUBSET Qvars
  BY <1>4 DEF UnlinkFrames
<1>6. f.q \in initialized /\ f.todo \subseteq LinkedTo(f.q)
  BY <1>2, <1>4 DEF FrameOK
<1>7. PICK back : back = {Rev(a) : a \in LinksOf(f.q, f.c, p)}
  OBVIOUS
<1>8. back \in SUBSET Arcs /\ \A a \in back : HasLink(a[1], a[3])
  <2>1. p \in Qvars /\ HasLink(f.q, p) /\ HasLink(p, f.q)
    BY <1>5, <1>6 DEF LinkedTo, HasLink, TypeOK
  <2>2. ASSUME NEW a \in back
        PROVE  a \in Arcs /\ HasLink(a[1], a[3])
    <3>1. PICK b \in LinksOf(f.q, f.c, p) : a = Rev(b)
      BY <1>7
    <3>2. b \in Arcs /\ b[1] = f.q /\ b[2] = f.c /\ b[3] = p
      BY DEF LinksOf, LinksBetween, TypeOK
    <3>3. QED  BY <2>1, <3>1, <3>2 DEF Arcs, Rev
  <2>3. QED  BY <2>2
<1>9. PICK g : g = BreakFrame(back)
  OBVIOUS
<1>10. PICK h : h = UnlinkFrame(f.q, f.c, f.todo \ {p})
  OBVIOUS
<1>11. g \in AllFrames /\ h \in AllFrames
  BY <1>5, <1>8, <1>9, <1>10, FrameMade
<1>12. stack' = <<g, h>> \o Tail(stack)
  BY <1>3, <1>7, <1>9, <1>10
<1>13. stack' \in Seq(AllFrames) /\ Frames(stack') = {g, h} \cup Frames(Tail(stack))
  BY <1>4, <1>11, <1>12, PushTwo, Zenon
<1>14. FrameOK(g)' /\ FrameOK(h)'
  BY <1>2, <1>6, <1>8, <1>9, <1>10 DEF FrameOK, BreakFrame, UnlinkFrame, LinkedTo, HasLink
<1>15. \A k \in Frames(stack) : FrameOK(k)'
  BY <1>2, FramesOKKept
<1>16. \A k \in Frames(stack') : FrameOK(k)'
  BY <1>4, <1>13, <1>14, <1>15, Zenon
<1>17. arcs' \subseteq arcs
  BY <1>3
<1>18. QED  BY <1>2, <1>13, <1>16, <1>17 DEF TypeOK

LEMMA BreakStepType == ASSUME TypeOK, BreakStep PROVE TypeOK'
<1>1. PICK f : f = Head(stack)
  OBVIOUS
<1>2. /\ stack # <<>> /\ f.op = "break_link"
      /\ UNCHANGED <<initialized, linked, solutions>>
  BY <1>1 DEF BreakStep, Top
<1>3. /\ f \in BreakFrames /\ FrameOK(f) /\ Tail(stack) \in Seq(AllFrames)
      /\ Frames(Tail(stack)) \subseteq Frames(stack)
  BY <1>1, <1>2, HeadTyped, FrameKinds
<1>4. PICK a \in f.todo :
         LET rest == <<BreakFrame(f.todo \ {a})>> \o Tail(stack)
         IN  /\ arcs' = arcs \ {a}
             /\ IF Partners(a[1], a[2], a[3]) \subseteq {a[4]}
                THEN RemoveCondition(a[1], a[2], rest)
                ELSE stack' = rest /\ UNCHANGED <<values, valid>>
  BY <1>1, Zenon DEF BreakStep
<1>5. f.todo \in SUBSET Arcs /\ \A b \in f.todo : HasLink(b[1], b[3])
  BY <1>2, <1>3 DEF FrameOK, BreakFrames
<1>6. a[1] \in initialized /\ a[2] \in Conds
  BY <1>4, <1>5 DEF HasLink, TypeOK, Arcs
<1>7. PICK g : g = BreakFrame(f.todo \ {a})
  OBVIOUS
<1>8. g \in AllFrames
  BY <1>5, <1>7, FrameMade
<1>9. PICK rest : rest = <<g>> \o Tail(stack)
  OBVIOUS
<1>10. rest \in Seq(AllFrames) /\ Frames(rest) = {g} \cup Frames(Tail(stack))
  BY <1>3, <1>8, <1>9, PushOne, Zenon
<1>11. FrameOK(g)'
  BY <1>2, <1>5, <1>7 DEF FrameOK, BreakFrame, HasLink
<1>12. \A k \in Frames(stack) : FrameOK(k)'
  BY <1>2, FramesOKKept
<1>13. \A k \in Frames(rest) : FrameOK(k)'
  BY <1>3, <1>10, <1>11, <1>12, Zenon
<1>14. /\ values' \in [Qvars -> SUBSET Conds] /\ valid' \in BOOLEAN
       /\ stack' \in Seq(AllFrames) /\ \A k \in Frames(stack') : FrameOK(k)'
  <2>1. CASE RemoveCondition(a[1], a[2], rest)
    BY <1>2, <1>6, <1>10, <1>13, <2>1, RemoveType
  <2>2. CASE stack' = rest /\ UNCHANGED <<values, valid>>
    <3>1. \A k \in Frames(stack') : FrameOK(k)'
      BY <1>13, <2>2, Zenon
    <3>2. QED  BY <1>10, <2>2, <3>1 DEF TypeOK
  <2>3. QED  BY <1>4, <1>7, <1>9, <2>1, <2>2, Zenon
<1>15. arcs' \subseteq arcs
  BY <1>4
<1>16. QED  BY <1>2, <1>14, <1>15 DEF TypeOK

LEMMA BreakBothStepType == ASSUME TypeOK, BreakBothStep PROVE TypeOK'
<1>1. PICK f : f = Head(stack)
  OBVIOUS
<1>2. /\ stack # <<>> /\ f.op = "break_both_links"
      /\ UNCHANGED <<initialized, values, arcs, linked, valid, solutions>>
  BY <1>1 DEF BreakBothStep, Top
<1>3. /\ f \in BothFrames /\ FrameOK(f) /\ Tail(stack) \in Seq(AllFrames)
      /\ Frames(Tail(stack)) \subseteq Frames(stack)
  BY <1>1, <1>2, HeadTyped, FrameKinds
<1>4. PICK a \in f.todo :
         stack' = << BreakFrame({a}), BreakFrame({Rev(a)}), BothFrame(f.todo \ {a}) >>
                     \o Tail(stack)
  BY <1>1, Zenon DEF BreakBothStep
<1>5. f.todo \in SUBSET Arcs /\ \A b \in f.todo : HasLink(b[1], b[3])
  BY <1>2, <1>3 DEF FrameOK, BothFrames
<1>6. /\ {a} \in SUBSET Arcs /\ {Rev(a)} \in SUBSET Arcs /\ f.todo \ {a} \in SUBSET Arcs
      /\ HasLink(a[1], a[3]) /\ HasLink(Rev(a)[1], Rev(a)[3])
  BY <1>4, <1>5 DEF Arcs, Rev, HasLink, TypeOK
<1>7. PICK g : g = BreakFrame({a})
  OBVIOUS
<1>8. PICK h : h = BreakFrame({Rev(a)})
  OBVIOUS
<1>9. PICK k : k = BothFrame(f.todo \ {a})
  OBVIOUS
<1>10. g \in AllFrames /\ h \in AllFrames /\ k \in AllFrames
  BY <1>6, <1>7, <1>8, <1>9, FrameMade, Zenon
<1>11. stack' \in Seq(AllFrames) /\ Frames(stack') = {g, h, k} \cup Frames(Tail(stack))
  <2>1. stack' = <<g, h, k>> \o Tail(stack)
    BY <1>4, <1>7, <1>8, <1>9
  <2>2. <<g, h, k>> \in Seq(AllFrames) /\ Frames(<<g, h, k>>) = {g, h, k}
    BY <1>10, FramesThree, Zenon
  <2>3. QED  BY <1>3, <2>1, <2>2, PushAll, Zenon
<1>12. FrameOK(g)' /\ FrameOK(h)' /\ FrameOK(k)'
  BY <1>2, <1>5, <1>6, <1>7, <1>8, <1>9 DEF FrameOK, BreakFrame, BothFrame, HasLink
<1>13. \A m \in Frames(stack) : FrameOK(m)'
  BY <1>2, FramesOKKept
<1>14. \A m \in Frames(stack') : FrameOK(m)'
  BY <1>3, <1>11, <1>12, <1>13, Zenon
<1>15. QED  BY <1>2, <1>11, <1>14 DEF TypeOK

LEMMA RegisterStepType == ASSUME TypeOK, RegisterStep PROVE TypeOK'
<1>1. PICK f : f = Head(stack)
  OBVIOUS
<1>2. /\ stack # <<>> /\ f.op = "update_links"
      /\ linked' = linked \cup {<<f.q, f.p>>, <<f.p, f.q>>}
      /\ stack' = Tail(stack)
      /\ UNCHANGED <<initialized, values, arcs, valid, solutions>>
  BY <1>1 DEF RegisterStep, Top
<1>3. /\ FrameOK(f) /\ Tail(stack) \in Seq(AllFrames)
      /\ Frames(Tail(stack)) \subseteq Frames(stack)
  BY <1>1, <1>2, HeadTyped
<1>4. f.q \in initialized /\ f.p \in initialized
  BY <1>2, <1>3 DEF FrameOK
<1>5. \A k \in Frames(stack) : FrameOK(k)'
  BY <1>2, FramesOKKept
<1>6. \A k \in Frames(stack') : FrameOK(k)'
  BY <1>2, <1>3, <1>5, Zenon
<1>7. QED  BY <1>2, <1>3, <1>4, <1>6 DEF TypeOK

LEMMA ReturnType == ASSUME TypeOK, Return PROVE TypeOK'
<1>1. /\ stack # <<>> /\ stack' = Tail(stack)
      /\ UNCHANGED <<initialized, values, arcs, linked, valid, solutions>>
  BY DEF Return
<1>2. Tail(stack) \in Seq(AllFrames) /\ Frames(Tail(stack)) \subseteq Frames(stack)
  BY <1>1, HeadTyped
<1>3. \A k \in Frames(stack) : FrameOK(k)'
  BY <1>1, FramesOKKept
<1>4. \A k \in Frames(stack') : FrameOK(k)'
  BY <1>1, <1>2, <1>3, Zenon
<1>5. QED  BY <1>1, <1>2, <1>4 DEF TypeOK

LEMMA IdleType == ASSUME TypeOK, UNCHANGED linkerVars PROVE TypeOK'
<1>1. /\ stack' = stack
      /\ UNCHANGED <<initialized, values, arcs, linked, valid, solutions>>
  BY DEF linkerVars
<1>2. \A k \in Frames(stack) : FrameOK(k)'
  BY <1>1, FramesOKKept
<1>3. \A k \in Frames(stack') : FrameOK(k)'
  BY <1>1, <1>2, Zenon
<1>4. QED  BY <1>1, <1>3 DEF TypeOK

(* The tables stay well typed and every call in progress works on          *)
(* initialised variables and registered links, through any interleaving of *)
(* the recursive loops of update_results, remove_condition and break_link. *)
THEOREM TypeCorrect == Spec => []TypeOK
<1>1. Init => TypeOK
  BY InitType
<1>2. ASSUME TypeOK, [Next]_linkerVars PROVE TypeOK'
  <2>1. CASE Request            BY <1>2, <2>1, RequestType
  <2>2. CASE UpdateStep         BY <1>2, <2>2, UpdateStepType
  <2>3. CASE UnlinkStep         BY <1>2, <2>3, UnlinkStepType
  <2>4. CASE BreakStep          BY <1>2, <2>4, BreakStepType
  <2>5. CASE BreakBothStep      BY <1>2, <2>5, BreakBothStepType
  <2>6. CASE RegisterStep       BY <1>2, <2>6, RegisterStepType
  <2>7. CASE Return             BY <1>2, <2>7, ReturnType
  <2>8. CASE UNCHANGED linkerVars  BY <1>2, <2>8, IdleType
  <2>9. QED
    BY <1>2, <2>1, <2>2, <2>3, <2>4, <2>5, <2>6, <2>7, <2>8 DEF Next, Cascade
<1>3. QED  BY <1>1, <1>2, PTL DEF Spec
-----------------------------------------------------------------------------
(* Links are symmetric between calls.  In the middle of a cascade they are *)
(* not, but then a loop of break_link still has to remove what is left of  *)
(* the pair: that is the invariant.  A link some loop will remove has      *)
(* already lost its reverse, or a loop will remove that one, too.          *)
Owes(frames, a) == \E f \in frames : f.op = "break_link" /\ a \in f.todo
Owed(a) == Owes(Frames(stack), a)

RemovalsOwed ==
    /\ \A a \in arcs : Rev(a) \in arcs \/ Owed(a)
    /\ \A a \in Arcs : Owed(a) => Rev(a) \notin arcs \/ Owed(Rev(a))

(* The requests of any caller: a pool of relations, as Relations, only     *)
(* bounds what TLC explores.                                               *)
AnyRequest ==
    \/ \E q \in Qvars : \E new \in SUBSET Conds : UpdateResults(q, new)
    \/ \E q \in Qvars : GetConditions(q)
    \/ \E q, p \in Qvars : \E rel \in SUBSET (Conds \X Conds) :
          q # p /\ UpdateLinks(q, p, rel)
    \/ InvalidateState

LEMMA RequestsAre == Request => AnyRequest
<1>1. \A j \in Joinable : j[1] \in Qvars /\ j[2] \in Qvars /\ j[1] # j[2]
  BY LinkerAssumption DEF LinkerAssumption
<1>2. Relations \subseteq SUBSET (Conds \X Conds)
  BY LinkerAssumption DEF LinkerAssumption
<1>3. QED  BY <1>1, <1>2 DEF Request, AnyRequest

LEMMA RequestsIdle == AnyRequest => Idle
<1>1. \A q, new : UpdateResults(q, new) => Idle
  BY Zenon DEF UpdateResults
<1>2. \A q : GetConditions(q) => Idle
  BY Zenon DEF GetConditions
<1>3. \A q, p, rel : UpdateLinks(q, p, rel) => Idle
  <2>1. \A q, p, rel : UpdateOldLinks(q, p, rel) => Idle
    BY Zenon DEF UpdateOldLinks
  <2>2. \A q, p, rel : UpdateNewLinks(q, p, rel) => Idle
    BY DEF UpdateNewLinks
  <2>3. QED  BY <2>1, <2>2, Zenon DEF UpdateLinks
<1>4. InvalidateState => Idle
  BY Zenon DEF InvalidateState
<1>5. QED  BY <1>1, <1>2, <1>3, <1>4, Zenon DEF AnyRequest

LEMMA RevRev == ASSUME NEW a \in Arcs PROVE Rev(a) \in Arcs /\ Rev(Rev(a)) = a
BY DEF Arcs, Rev

(* A request finds the links symmetric and leaves no break_link loop.      *)
LEMMA RequestFrames ==
    ASSUME TypeOK, AnyRequest
    PROVE  \A f \in Frames(stack') : f.op # "break_link"
<1>1. /\ stack = <<>> /\ stack \in Seq(AllFrames) /\ Frames(stack) = {}
  BY FramesEmpty, RequestsIdle DEF Idle, TypeOK
<1>2. CASE UNCHANGED stack
  <2>1. Frames(stack') = {}
    BY <1>1, <1>2, Zenon
  <2>2. QED  BY <2>1
<1>3. ASSUME NEW q \in Qvars, NEW new \in SUBSET Conds, UpdateResults(q, new)
      PROVE  \A f \in Frames(stack') : f.op # "break_link"
  <2>1. PICK f : f = UpdateFrame(q, new)
    OBVIOUS
  <2>2. f \in AllFrames /\ f.op # "break_link"
    BY <2>1, FrameMade DEF UpdateFrame
  <2>3. stack' = <<f>> \o stack \/ stack' = stack
    BY <1>3, <2>1 DEF UpdateResults, Call
  <2>4. Frames(stack') = {f} \cup Frames(stack) \/ Frames(stack') = Frames(stack)
    BY <1>1, <2>2, <2>3, PushOne, Zenon
  <2>5. QED  BY <1>1, <2>2, <2>4
<1>4. ASSUME NEW q \in Qvars, NEW p \in Qvars, NEW rel, UpdateOldLinks(q, p, rel)
      PROVE  \A f \in Frames(stack') : f.op # "break_link"
  <2>1. PICK todo : todo = {a \in LinksBetween(q, p) : <<a[2], a[4]>> \notin rel}
    OBVIOUS
  <2>2. todo \in SUBSET Arcs
    BY <2>1 DEF LinksBetween, TypeOK
  <2>3. PICK f : f = BothFrame(todo)
    OBVIOUS
  <2>4. f \in AllFrames /\ f.op # "break_link"
    BY <2>2, <2>3, FrameMade DEF BothFrame
  <2>5. stack' = <<f>> \o stack
    BY <1>4, <2>1, <2>3 DEF UpdateOldLinks, Call
  <2>6. Frames(stack') = {f} \cup Frames(stack)
    BY <1>1, <2>4, <2>5, PushOne, Zenon
  <2>7. QED  BY <1>1, <2>4, <2>6
<1>5. ASSUME NEW q \in Qvars, NEW p \in Qvars, NEW rel \in SUBSET (Conds \X Conds),
             UpdateNewLinks(q, p, rel)
      PROVE  \A f \in Frames(stack') : f.op # "break_link"
  <2>1. PICK accepted : accepted = {l \in rel : /\ l[1] \in ValuesFor(q, p)[q]
                                              /\ l[2] \in ValuesFor(q, p)[p]}
    OBVIOUS
  <2>2. {l[1] : l \in accepted} \in SUBSET Conds /\ {l[2] : l \in accepted} \in SUBSET Conds
    BY <2>1
  <2>3. PICK f, g, h : /\ f = UpdateFrame(q, {l[1] : l \in accepted})
                       /\ g = UpdateFrame(p, {l[2] : l \in accepted})
                       /\ h = RegisterFrame(q, p)
    OBVIOUS
  <2>4. /\ f \in AllFrames /\ g \in AllFrames /\ h \in AllFrames
        /\ f.op # "break_link" /\ g.op # "break_link" /\ h.op # "break_link"
    BY <2>2, <2>3, FrameMade DEF UpdateFrame, RegisterFrame
  <2>5. stack' = <<f, g, h>> \o stack
    BY <1>5, <2>1, <2>3 DEF UpdateNewLinks
  <2>6. <<f, g, h>> \in Seq(AllFrames) /\ Frames(<<f, g, h>>) = {f, g, h}
    BY <2>4, FramesThree, Zenon
  <2>7. Frames(stack') = {f, g, h} \cup Frames(stack)
    <3>1. stack \in Seq(AllFrames)
      BY <1>1
    <3>2. QED  BY <2>5, <2>6, <3>1, PushAll, Zenon
  <2>8. QED  BY <1>1, <2>4, <2>7
<1>6. QED
  BY <1>1, <1>2, <1>3, <1>4, <1>5 DEF AnyRequest, UpdateLinks, GetConditions, InvalidateState

LEMMA RequestOwed == ASSUME TypeOK, RemovalsOwed, AnyRequest PROVE RemovalsOwed'
<1>1. stack = <<>>
  BY RequestsIdle DEF Idle
<1>2. \A a \in arcs : Rev(a) \in arcs
  <2>1. \A a : ~Owed(a)
    BY <1>1, FramesEmpty, Zenon DEF Owed, Owes
  <2>2. QED  BY <2>1 DEF RemovalsOwed
<1>3. \A a \in arcs' : Rev(a) \in arcs'
  <2>1. ASSUME NEW q \in Qvars, NEW p \in Qvars, NEW rel, UpdateNewLinks(q, p, rel)
        PROVE  \A a \in arcs' : Rev(a) \in arcs'
    <3>1. PICK accepted : accepted = {l \in rel : /\ l[1] \in ValuesFor(q, p)[q]
                                                /\ l[2] \in ValuesFor(q, p)[p]}
      OBVIOUS
    <3>2. arcs' = arcs \cup {Arc(q, l[1], p, l[2]) : l \in accepted}
                       \cup {Arc(p, l[2], q, l[1]) : l \in accepted}
      BY <2>1, <3>1 DEF UpdateNewLinks
    <3>3. \A c, d : /\ Rev(Arc(q, c, p, d)) = Arc(p, d, q, c)
                    /\ Rev(Arc(p, d, q, c)) = Arc(q, c, p, d)
      BY DEF Rev, Arc
    <3>4. QED  BY <1>2, <3>2, <3>3
  <2>2. CASE UNCHANGED arcs
    BY <1>2, <2>2
  <2>3. QED
    BY <2>1, <2>2 DEF AnyRequest, UpdateResults, GetConditions, UpdateLinks,
                              UpdateOldLinks, InvalidateState
<1>4. \A a : ~Owes(Frames(stack'), a)
  BY RequestFrames DEF Owes
<1>5. QED  BY <1>3, <1>4 DEF RemovalsOwed, Owed

(* Steps that neither take links away nor enter or leave a break_link loop *)
(* with links to remove.                                                   *)
LEMMA OwedStays ==
    ASSUME RemovalsOwed, arcs' = arcs,
           \A a : Owes(Frames(stack'), a) <=> Owes(Frames(stack), a)
    PROVE  RemovalsOwed'
BY DEF RemovalsOwed, Owed

LEMMA UpdateStepOwed == ASSUME TypeOK, RemovalsOwed, UpdateStep PROVE RemovalsOwed'
<1>1. /\ stack # <<>> /\ Head(stack).op = "update_results" /\ arcs' = arcs
  BY DEF UpdateStep, Top
<1>2. PICK c \in values[Head(stack).q] : RemoveCondition(Head(stack).q, c, stack)
  BY DEF UpdateStep
<1>3. PICK q, f : q = Head(stack).q /\ f = UnlinkFrame(q, c, LinkedTo(q))
  OBVIOUS
<1>4. q \in Qvars /\ c \in Conds /\ LinkedTo(q) \in SUBSET Qvars
  BY <1>1, <1>2, <1>3, HeadTyped DEF FrameOK, TypeOK, LinkedTo
<1>5. f \in AllFrames /\ f.op # "break_link"
  BY <1>3, <1>4, FrameMade DEF UnlinkFrame
<1>6. stack' = <<f>> \o stack \/ stack' = stack
  BY <1>2, <1>3 DEF RemoveCondition
<1>7. Frames(stack') = {f} \cup Frames(stack) \/ Frames(stack') = Frames(stack)
  <2>1. stack \in Seq(AllFrames)
    BY DEF TypeOK
  <2>2. QED  BY <1>5, <1>6, <2>1, PushOne, Zenon
<1>8. QED  BY <1>1, <1>5, <1>7, OwedStays DEF Owes

(* The links moved out of the table are exactly the ones whose reverses    *)
(* the new loop removes.                                                   *)
LEMMA UnlinkStepOwed == ASSUME TypeOK, RemovalsOwed, UnlinkStep PROVE RemovalsOwed'
<1>1. PICK f : f = Head(stack)
  OBVIOUS
<1>2. /\ stack # <<>> /\ f.op = "remove_condition"
  BY <1>1 DEF UnlinkStep, Top
<1>3. PICK p \in f.todo :
         /\ arcs' = arcs \ LinksOf(f.q, f.c, p)
         /\ stack' = << BreakFrame({Rev(a) : a \in LinksOf(f.q, f.c, p)}),
                        UnlinkFrame(f.q, f.c, f.todo \ {p}) >> \o Tail(stack)
  BY <1>1 DEF UnlinkStep
<1>4. /\ f \in UnlinkFrames /\ Tail(stack) \in Seq(AllFrames)
      /\ Frames(stack) = {f} \cup Frames(Tail(stack))
  BY <1>1, <1>2, HeadTyped, FrameKinds
<1>5. f.q \in Qvars /\ f.c \in Conds /\ f.todo \in SUBSET Qvars
  BY <1>4 DEF UnlinkFrames
<1>6. PICK gone : gone = LinksOf(f.q, f.c, p)
  OBVIOUS
<1>7. gone \in SUBSET arcs /\ arcs \in SUBSET Arcs
  BY <1>6 DEF LinksOf, LinksBetween, TypeOK
<1>8. PICK g, h : g = BreakFrame({Rev(a) : a \in gone}) /\ h = UnlinkFrame(f.q, f.c, f.todo \ {p})
  OBVIOUS
<1>9. g \in AllFrames /\ h \in AllFrames /\ h.op # "break_link"
  <2>1. {Rev(a) : a \in gone} \in SUBSET Arcs
    BY <1>7, RevRev
  <2>2. QED  BY <1>5, <1>8, <2>1, FrameMade DEF UnlinkFrame
<1>10. Frames(stack') = {g, h} \cup Frames(Tail(stack))
  <2>1. stack' = <<g, h>> \o Tail(stack)
    BY <1>3, <1>6, <1>8
  <2>2. QED  BY <1>4, <1>9, <2>1, PushTwo, Zenon
<1>11. \A a : Owes(Frames(stack'), a) <=> Owes(Frames(stack), a) \/ a \in {Rev(b) : b \in gone}
  BY <1>2, <1>4, <1>8, <1>9, <1>10 DEF Owes, BreakFrame
<1>12. arcs' = arcs \ gone
  BY <1>3, <1>6
<1>13. ASSUME NEW a \in arcs' PROVE Rev(a) \in arcs' \/ Owes(Frames(stack'), a)
  <2>1. Rev(a) \in arcs \/ Owes(Frames(stack), a)
    BY <1>12 DEF RemovalsOwed, Owed
  <2>2. CASE Rev(a) \in gone
    <3>1. a = Rev(Rev(a))
      BY <1>7, <1>12, RevRev
    <3>2. QED  BY <1>11, <2>2, <3>1
  <2>3. QED  BY <1>11, <1>12, <2>1, <2>2
<1>14. ASSUME NEW a \in Arcs, Owes(Frames(stack'), a)
       PROVE  Rev(a) \notin arcs' \/ Owes(Frames(stack'), Rev(a))
  <2>1. CASE Owes(Frames(stack), a)
    BY <1>11, <1>12, <2>1 DEF RemovalsOwed, Owed
  <2>2. CASE a \in {Rev(b) : b \in gone}
    <3>1. Rev(a) \in gone
      BY <1>7, <2>2, RevRev
    <3>2. QED  BY <1>12, <3>1
  <2>3. QED  BY <1>11, <1>14, <2>1, <2>2
<1>15. QED  BY <1>13, <1>14 DEF RemovalsOwed, Owed

LEMMA BreakStepOwed == ASSUME TypeOK, RemovalsOwed, BreakStep PROVE RemovalsOwed'
<1>1. PICK f : f = Head(stack)
  OBVIOUS
<1>2. stack # <<>> /\ f.op = "break_link"
  BY <1>1 DEF BreakStep, Top
<1>3. /\ f \in BreakFrames /\ FrameOK(f) /\ Tail(stack) \in Seq(AllFrames)
      /\ Frames(stack) = {f} \cup Frames(Tail(stack))
  BY <1>1, <1>2, HeadTyped, FrameKinds
<1>4. PICK a \in f.todo :
         LET rest == <<BreakFrame(f.todo \ {a})>> \o Tail(stack)
         IN  /\ arcs' = arcs \ {a}
             /\ IF Partners(a[1], a[2], a[3]) \subseteq {a[4]}
                THEN RemoveCondition(a[1], a[2], rest)
                ELSE stack' = rest
  BY <1>1, Zenon DEF BreakStep
<1>5. f.todo \in SUBSET Arcs /\ a \in Arcs
  BY <1>3, <1>4 DEF BreakFrames
<1>6. PICK g, h : /\ g = BreakFrame(f.todo \ {a})
                  /\ h = UnlinkFrame(a[1], a[2], LinkedTo(a[1]))
  OBVIOUS
<1>7. /\ g \in AllFrames /\ h \in AllFrames /\ h.op # "break_link"
      /\ g.op = "break_link" /\ g.todo = f.todo \ {a}
  <2>1. a[1] \in Qvars /\ a[2] \in Conds /\ LinkedTo(a[1]) \in SUBSET Qvars
    BY <1>5 DEF Arcs, LinkedTo
  <2>2. QED  BY <1>5, <1>6, <2>1, FrameMade DEF BreakFrame, UnlinkFrame
<1>8. PICK rest : rest = <<g>> \o Tail(stack)
  OBVIOUS
<1>9. rest \in Seq(AllFrames) /\ Frames(rest) = {g} \cup Frames(Tail(stack))
  BY <1>3, <1>7, <1>8, PushOne, Zenon
<1>10. stack' = <<h>> \o rest \/ stack' = rest
  BY <1>4, <1>6, <1>8 DEF RemoveCondition
<1>11. \/ Frames(stack') = {h, g} \cup Frames(Tail(stack))
       \/ Frames(stack') = {g} \cup Frames(Tail(stack))
  <2>1. stack' = <<h>> \o rest => Frames(stack') = {h} \cup Frames(rest)
    BY <1>7, <1>9, PushOne, Zenon
  <2>2. QED  BY <1>9, <1>10, <2>1
<1>12. arcs' = arcs \ {a} /\ Owes(Frames(stack), a)
  BY <1>2, <1>3, <1>4 DEF Owes
<1>13. \A b : /\ Owes(Frames(stack'), b) => Owes(Frames(stack), b)
              /\ b # a /\ Owes(Frames(stack), b) => Owes(Frames(stack'), b)
  BY <1>2, <1>3, <1>7, <1>11 DEF Owes
<1>14. ASSUME NEW b \in arcs' PROVE Rev(b) \in arcs' \/ Owes(Frames(stack'), b)
  <2>1. b \in arcs /\ b # a /\ b \in Arcs
    BY <1>12 DEF TypeOK
  <2>2. Rev(b) \in arcs \/ Owes(Frames(stack), b)
    BY <2>1 DEF RemovalsOwed, Owed
  <2>3. CASE Rev(b) = a
    <3>1. b = Rev(a)
      BY <2>1, <2>3, RevRev
    <3>2. Owes(Frames(stack), b)
      BY <1>5, <1>12, <2>1, <3>1 DEF RemovalsOwed, Owed
    <3>3. QED  BY <1>13, <2>1, <3>2
  <2>4. QED  BY <1>12, <1>13, <2>1, <2>2, <2>3
<1>15. ASSUME NEW b \in Arcs, Owes(Frames(stack'), b)
       PROVE  Rev(b) \notin arcs' \/ Owes(Frames(stack'), Rev(b))
  <2>1. Rev(b) \notin arcs \/ Owes(Frames(stack), Rev(b))
    BY <1>13, <1>15 DEF RemovalsOwed, Owed
  <2>2. QED  BY <1>12, <1>13, <2>1
<1>16. QED  BY <1>14, <1>15 DEF RemovalsOwed, Owed

LEMMA BreakBothStepOwed == ASSUME TypeOK, RemovalsOwed, BreakBothStep PROVE RemovalsOwed'
<1>1. PICK f : f = Head(stack)
  OBVIOUS
<1>2. /\ stack # <<>> /\ f.op = "break_both_links" /\ arcs' = arcs
  BY <1>1 DEF BreakBothStep, Top
<1>3. /\ f \in BothFrames /\ Tail(stack) \in Seq(AllFrames)
      /\ Frames(stack) = {f} \cup Frames(Tail(stack))
  BY <1>1, <1>2, HeadTyped, FrameKinds
<1>4. PICK a \in f.todo :
         stack' = << BreakFrame({a}), BreakFrame({Rev(a)}), BothFrame(f.todo \ {a}) >>
                     \o Tail(stack)
  BY <1>1, Zenon DEF BreakBothStep
<1>5. f.todo \in SUBSET Arcs /\ a \in Arcs /\ Rev(a) \in Arcs /\ Rev(Rev(a)) = a
  BY <1>3, <1>4, RevRev DEF BothFrames
<1>6. PICK g, h, k : /\ g = BreakFrame({a}) /\ h = BreakFrame({Rev(a)})
                     /\ k = BothFrame(f.todo \ {a})
  OBVIOUS
<1>7. g \in AllFrames /\ h \in AllFrames /\ k \in AllFrames /\ k.op # "break_link"
  BY <1>5, <1>6, FrameMade DEF BothFrame
<1>8. Frames(stack') = {g, h, k} \cup Frames(Tail(stack))
  <2>1. stack' = <<g, h, k>> \o Tail(stack)
    BY <1>4, <1>6
  <2>2. <<g, h, k>> \in Seq(AllFrames) /\ Frames(<<g, h, k>>) = {g, h, k}
    BY <1>7, FramesThree, Zenon
  <2>3. QED  BY <1>3, <2>1, <2>2, PushAll, Zenon
<1>9. \A b : Owes(Frames(stack'), b) <=> Owes(Frames(stack), b) \/ b \in {a, Rev(a)}
  BY <1>2, <1>3, <1>6, <1>7, <1>8 DEF Owes, BreakFrame
<1>10. QED  BY <1>2, <1>5, <1>9 DEF RemovalsOwed, Owed

LEMMA PopOwed ==
    ASSUME TypeOK, RemovalsOwed, stack # <<>>, stack' = Tail(stack), arcs' = arcs,
           Head(stack).op = "break_link" => Head(stack).todo = {}
    PROVE  RemovalsOwed'
<1>1. Frames(stack) = {Head(stack)} \cup Frames(stack')
  BY HeadTyped
<1>2. QED  BY <1>1, OwedStays DEF Owes

LEMMA OwedSteps ==
    ASSUME TypeOK, RemovalsOwed, AnyRequest \/ Cascade \/ UNCHANGED linkerVars
    PROVE  RemovalsOwed'
<1>1. CASE AnyRequest     BY <1>1, RequestOwed
<1>2. CASE UpdateStep     BY <1>2, UpdateStepOwed
<1>3. CASE UnlinkStep     BY <1>3, UnlinkStepOwed
<1>4. CASE BreakStep      BY <1>4, BreakStepOwed
<1>5. CASE BreakBothStep  BY <1>5, BreakBothStepOwed
<1>6. CASE RegisterStep
  BY <1>6, PopOwed DEF RegisterStep, Top
<1>7. CASE Return
  BY <1>7, PopOwed DEF Return, Finished
<1>8. CASE UNCHANGED linkerVars
  BY <1>8, OwedStays DEF linkerVars
<1>9. QED
  BY <1>1, <1>2, <1>3, <1>4, <1>5, <1>6, <1>7, <1>8 DEF Cascade

LEMMA StartOwed == ASSUME NEW d, InitWith(d) PROVE RemovalsOwed
BY FramesEmpty DEF InitWith, RemovalsOwed, Owed, Owes

LEMMA OwedMeans == RemovalsOwed => LinksSymmetric
<1>1. stack = <<>> => \A a : ~Owed(a)
  BY FramesEmpty, Zenon DEF Owed, Owes
<1>2. QED  BY <1>1 DEF RemovalsOwed, LinksSymmetric, Idle

(* Between calls every link is in _condition_link_table under both of its  *)
(* ends, for every set of variables, conditions and requests: whatever the *)
(* recursion of remove_condition and break_link interleaves, one half of a *)
(* link is never left behind.                                              *)
THEOREM LinksStaySymmetric == Spec => []LinksSymmetric
<1>1. Init => RemovalsOwed
  BY StartOwed DEF Init
<1>2. TypeOK /\ RemovalsOwed /\ [Next]_linkerVars => RemovalsOwed'
  BY RequestsAre, OwedSteps DEF Next
<1>3. QED  BY <1>1, <1>2, OwedMeans, TypeCorrect, PTL DEF Spec
-----------------------------------------------------------------------------
(* Solutions.  NoSolutionLost is not inductive: what a loop will still     *)
(* remove is on the stack.  The invariant that is, SolutionInv, adds that  *)
(* no frame works against a solution (WorkHarmless).                       *)
SolutionInv == TypeOK /\ NoSolutionLost /\ WorkHarmless

(* The two halves of NoSolutionLost.                                       *)
CandidatesKept == \A s \in solutions : \A q \in initialized : s[q] \in values[q]
LinksKept ==
    \A s \in solutions : \A l \in linked : Arc(l[1], s[l[1]], l[2], s[l[2]]) \in arcs

LEMMA Halves == NoSolutionLost <=> CandidatesKept /\ LinksKept
BY DEF NoSolutionLost, CandidatesKept, LinksKept

-----------------------------------------------------------------------------
(* While no link a solution uses is broken, frames stay harmless and       *)
(* registered pairs keep a link for every solution.                        *)
LEMMA HarmlessKept ==
    ASSUME WorkHarmless, solutions' \subseteq solutions,
           \A s \in solutions' : \A a \in arcs : Uses(s, a) => a \in arcs'
    PROVE  \A s \in solutions' : \A f \in Frames(stack) : Harmless(f, s)'
<1>1. ASSUME NEW s \in solutions', NEW f \in Frames(stack) PROVE Harmless(f, s)'
  <2>1. Harmless(f, s)
    BY DEF WorkHarmless
  <2>2. /\ Uses(s, Arc(f.q, s[f.q], f.p, s[f.p]))
        /\ Uses(s, Arc(f.p, s[f.p], f.q, s[f.q]))
    BY DEF Uses, Arc
  <2>3. CASE f.op = "update_links"
    <3>1. /\ Arc(f.q, s[f.q], f.p, s[f.p]) \in arcs'
          /\ Arc(f.p, s[f.p], f.q, s[f.q]) \in arcs'
      BY <2>1, <2>2, <2>3 DEF Harmless
    <3>2. QED  BY <2>3, <3>1 DEF Harmless
  <2>4. CASE f.op # "update_links"
    BY <2>1, <2>4 DEF Harmless
  <2>5. QED  BY <2>3, <2>4
<1>2. QED  BY <1>1

LEMMA LinksStay ==
    ASSUME NoSolutionLost, solutions' \subseteq solutions, linked' = linked,
           \A s \in solutions' : \A a \in arcs : Uses(s, a) => a \in arcs'
    PROVE  LinksKept'
<1>1. ASSUME NEW s \in solutions', NEW l \in linked
      PROVE  Arc(l[1], s[l[1]], l[2], s[l[2]]) \in arcs'
  <2>1. Arc(l[1], s[l[1]], l[2], s[l[2]]) \in arcs
    BY DEF NoSolutionLost
  <2>2. Uses(s, Arc(l[1], s[l[1]], l[2], s[l[2]]))
    BY DEF Uses, Arc
  <2>3. QED  BY <2>1, <2>2
<1>2. QED  BY <1>1 DEF LinksKept

(* remove_condition on a condition no solution uses.                       *)
LEMMA RemoveHarmless ==
    ASSUME TypeOK, CandidatesKept, UNCHANGED <<initialized, solutions>>,
           NEW q \in initialized, NEW c, NEW rest \in Seq(AllFrames), c \in Conds,
           \A s \in solutions : s[q] # c,
           \A s \in solutions : \A f \in Frames(rest) : Harmless(f, s)',
           RemoveCondition(q, c, rest)
    PROVE  /\ CandidatesKept'
           /\ \A s \in solutions : \A f \in Frames(stack') : Harmless(f, s)'
           /\ valid /\ ~valid' => solutions = {}
<1>1. PICK f : f = UnlinkFrame(q, c, LinkedTo(q))
  OBVIOUS
<1>2. q \in Qvars /\ LinkedTo(q) \in SUBSET Qvars
  BY DEF TypeOK, LinkedTo
<1>3. f \in AllFrames
  BY <1>1, <1>2, FrameMade
<1>4. \A s \in solutions : Harmless(f, s)'
  BY <1>1 DEF Harmless, UnlinkFrame
<1>5. stack' = <<f>> \o rest \/ stack' = rest
  BY <1>1 DEF RemoveCondition
<1>6. Frames(stack') = {f} \cup Frames(rest) \/ Frames(stack') = Frames(rest)
  BY <1>3, <1>5, PushOne, Zenon
<1>7. \A s \in solutions : \A g \in Frames(stack') : Harmless(g, s)'
  BY <1>4, <1>6, Zenon
<1>8. CandidatesKept'
  <2>1. \A r \in Qvars : values'[r] = values[r] \/ (r = q /\ values'[r] = values[r] \ {c})
    BY DEF RemoveCondition, TypeOK
  <2>2. ASSUME NEW s \in solutions, NEW r \in initialized PROVE s[r] \in values'[r]
    BY <2>1 DEF CandidatesKept, TypeOK
  <2>3. QED  BY <2>2 DEF CandidatesKept
<1>9. valid /\ ~valid' => solutions = {}
  BY DEF RemoveCondition, CandidatesKept
<1>10. QED  BY <1>7, <1>8, <1>9

-----------------------------------------------------------------------------
(* Requests.  The linker is idle, and a request adds frames that aim only  *)
(* at what the assignments it leaves among the solutions do not use.       *)
LEMMA UpdateResultsSolutions ==
    ASSUME SolutionInv, NEW q \in Qvars, NEW new \in SUBSET Conds, UpdateResults(q, new)
    PROVE  NoSolutionLost' /\ WorkHarmless'
<1>1. /\ solutions' = {s \in solutions : s[q] \in new}
      /\ UNCHANGED <<arcs, linked, valid>>
  BY DEF UpdateResults
<1>2. LinksKept'
  BY <1>1, LinksStay DEF SolutionInv
<1>3. \A s \in solutions' : \A f \in Frames(stack) : Harmless(f, s)'
  BY <1>1, HarmlessKept DEF SolutionInv
<1>4. CandidatesKept'
  BY <1>1 DEF UpdateResults, SolutionInv, NoSolutionLost, CandidatesKept, TypeOK
<1>5. PICK f : f = UpdateFrame(q, new)
  OBVIOUS
<1>6. f \in AllFrames /\ \A s \in solutions' : Harmless(f, s)'
  BY <1>1, <1>5, FrameMade DEF Harmless, UpdateFrame
<1>7. stack' = <<f>> \o stack \/ stack' = stack
  BY <1>5 DEF UpdateResults, Call
<1>8. Frames(stack') = {f} \cup Frames(stack) \/ Frames(stack') = Frames(stack)
  <2>1. stack \in Seq(AllFrames)
    BY DEF SolutionInv, TypeOK
  <2>2. QED  BY <1>6, <1>7, <2>1, PushOne, Zenon
<1>9. WorkHarmless'
  <2>1. \A s \in solutions' : \A g \in Frames(stack') : Harmless(g, s)'
    BY <1>3, <1>6, <1>8, Zenon
  <2>2. QED  BY <2>1 DEF WorkHarmless
<1>10. QED  BY <1>2, <1>4, <1>9, Halves DEF NoSolutionLost, CandidatesKept, LinksKept

LEMMA GetConditionsSolutions ==
    ASSUME SolutionInv, NEW q \in Qvars, GetConditions(q)
    PROVE  NoSolutionLost' /\ WorkHarmless'
<1>1. /\ solutions' = {s \in solutions : s[q] \in GlobalSet}
      /\ UNCHANGED <<arcs, linked, valid, stack>>
  BY DEF GetConditions
<1>2. LinksKept'
  BY <1>1, LinksStay DEF SolutionInv
<1>3. \A s \in solutions' : \A f \in Frames(stack) : Harmless(f, s)'
  BY <1>1, HarmlessKept DEF SolutionInv
<1>4. CandidatesKept'
  BY DEF GetConditions, SolutionInv, NoSolutionLost, CandidatesKept, TypeOK
<1>5. WorkHarmless'
  <2>1. \A s \in solutions' : \A g \in Frames(stack') : Harmless(g, s)'
    BY <1>1, <1>3, Zenon
  <2>2. QED  BY <2>1 DEF WorkHarmless
<1>6. QED  BY <1>2, <1>4, <1>5 DEF NoSolutionLost, CandidatesKept, LinksKept

LEMMA InvalidateStateSolutions ==
    ASSUME InvalidateState PROVE NoSolutionLost' /\ WorkHarmless'
BY DEF InvalidateState, NoSolutionLost, WorkHarmless

(* Initialising the two variables of a clause from the global set.         *)
LEMMA CandidatesRequested ==
    ASSUME SolutionInv, NEW q \in Qvars, NEW p \in Qvars, NEW rel,
           NEW s \in Surviving(q, p, rel), NEW r \in initialized \cup {q, p}
    PROVE  /\ s \in solutions /\ <<s[q], s[p]>> \in rel
           /\ s[r] \in ValuesFor(q, p)[r]
BY DEF Surviving, ValuesFor, SolutionInv, TypeOK, NoSolutionLost

LEMMA UpdateOldLinksSolutions ==
    ASSUME SolutionInv, NEW q \in Qvars, NEW p \in Qvars, NEW rel, UpdateOldLinks(q, p, rel)
    PROVE  NoSolutionLost' /\ WorkHarmless'
<1>1. /\ solutions' = Surviving(q, p, rel) /\ values' = ValuesFor(q, p)
      /\ initialized' = initialized \cup {q, p} /\ UNCHANGED <<arcs, linked, valid>>
  BY DEF UpdateOldLinks
<1>2. solutions' \subseteq solutions /\ \A s \in solutions' : <<s[q], s[p]>> \in rel
  BY <1>1, CandidatesRequested
<1>3. LinksKept'
  BY <1>1, <1>2, LinksStay DEF SolutionInv
<1>4. \A s \in solutions' : \A f \in Frames(stack) : Harmless(f, s)'
  BY <1>1, <1>2, HarmlessKept DEF SolutionInv
<1>5. CandidatesKept'
  BY <1>1, CandidatesRequested DEF CandidatesKept
<1>6. PICK todo : todo = {a \in LinksBetween(q, p) : <<a[2], a[4]>> \notin rel}
  OBVIOUS
<1>7. PICK f : f = BothFrame(todo)
  OBVIOUS
<1>8. todo \in SUBSET Arcs /\ \A a \in todo : \A s \in solutions' : ~Uses(s, a)
  BY <1>2, <1>6 DEF LinksBetween, SolutionInv, TypeOK, Uses
<1>9. f \in AllFrames /\ \A s \in solutions' : Harmless(f, s)'
  BY <1>7, <1>8, FrameMade DEF Harmless, BothFrame
<1>10. stack' = <<f>> \o stack /\ stack \in Seq(AllFrames)
  BY <1>6, <1>7 DEF UpdateOldLinks, Call, SolutionInv, TypeOK
<1>11. Frames(stack') = {f} \cup Frames(stack)
  BY <1>9, <1>10, PushOne, Zenon
<1>12. WorkHarmless'
  <2>1. \A s \in solutions' : \A g \in Frames(stack') : Harmless(g, s)'
    BY <1>4, <1>9, <1>11, Zenon
  <2>2. QED  BY <2>1 DEF WorkHarmless
<1>13. QED  BY <1>3, <1>5, <1>12 DEF NoSolutionLost, CandidatesKept, LinksKept

LEMMA UpdateNewLinksSolutions ==
    ASSUME SolutionInv, NEW q \in Qvars, NEW p \in Qvars,
           NEW rel \in SUBSET (Conds \X Conds), UpdateNewLinks(q, p, rel)
    PROVE  NoSolutionLost' /\ WorkHarmless'
<1>1. PICK accepted : accepted = {l \in rel : /\ l[1] \in ValuesFor(q, p)[q]
                                            /\ l[2] \in ValuesFor(q, p)[p]}
  OBVIOUS
<1>2. PICK f : f = UpdateFrame(q, {l[1] : l \in accepted})
  OBVIOUS
<1>3. PICK g : g = UpdateFrame(p, {l[2] : l \in accepted})
  OBVIOUS
<1>4. PICK h : h = RegisterFrame(q, p)
  OBVIOUS
<1>5. /\ solutions' = Surviving(q, p, rel) /\ values' = ValuesFor(q, p)
      /\ initialized' = initialized \cup {q, p} /\ UNCHANGED <<linked, valid>>
      /\ arcs' = arcs \cup {Arc(q, l[1], p, l[2]) : l \in accepted}
                      \cup {Arc(p, l[2], q, l[1]) : l \in accepted}
      /\ stack' = <<f, g, h>> \o stack
  BY <1>1, <1>2, <1>3, <1>4 DEF UpdateNewLinks
<1>6. solutions' \subseteq solutions /\ \A s \in solutions' : <<s[q], s[p]>> \in accepted
  BY <1>1, <1>5, CandidatesRequested
<1>7. LinksKept'
  BY <1>5, <1>6, LinksStay DEF SolutionInv
<1>8. \A s \in solutions' : \A k \in Frames(stack) : Harmless(k, s)'
  BY <1>5, <1>6, HarmlessKept DEF SolutionInv
<1>9. CandidatesKept'
  BY <1>5, CandidatesRequested DEF CandidatesKept
<1>10. \A s \in solutions' : Harmless(f, s)' /\ Harmless(g, s)' /\ Harmless(h, s)'
  <2>1. ASSUME NEW s \in solutions' PROVE Harmless(f, s)' /\ Harmless(g, s)' /\ Harmless(h, s)'
    <3>1. PICK l \in accepted : l = <<s[q], s[p]>>
      BY <1>6
    <3>2. s[q] \in {k[1] : k \in accepted} /\ s[p] \in {k[2] : k \in accepted}
      BY <3>1
    <3>3. Arc(q, s[q], p, s[p]) \in arcs' /\ Arc(p, s[p], q, s[q]) \in arcs'
      BY <1>5, <3>1
    <3>4. QED  BY <1>2, <1>3, <1>4, <3>2, <3>3 DEF Harmless, UpdateFrame, RegisterFrame
  <2>2. QED  BY <2>1
<1>11. f \in AllFrames /\ g \in AllFrames /\ h \in AllFrames
  <2>1. accepted \in SUBSET (Conds \X Conds)
    BY <1>1
  <2>2. {l[1] : l \in accepted} \in SUBSET Conds /\ {l[2] : l \in accepted} \in SUBSET Conds
    BY <2>1
  <2>3. QED  BY <1>2, <1>3, <1>4, <2>2, FrameMade, Zenon
<1>12. Frames(stack') = {f, g, h} \cup Frames(stack)
  <2>1. <<f, g, h>> \in Seq(AllFrames) /\ DOMAIN <<f, g, h>> = {1, 2, 3}
    BY <1>11
  <2>2. Frames(<<f, g, h>>) = {f, g, h}
    BY <2>1 DEF Frames
  <2>3. stack \in Seq(AllFrames)
    BY DEF SolutionInv, TypeOK
  <2>4. QED  BY <1>5, <2>1, <2>2, <2>3, PushAll, Zenon
<1>13. WorkHarmless'
  <2>1. \A s \in solutions' : \A k \in Frames(stack') : Harmless(k, s)'
    BY <1>8, <1>10, <1>12, Zenon
  <2>2. QED  BY <2>1 DEF WorkHarmless
<1>14. QED  BY <1>7, <1>9, <1>13 DEF NoSolutionLost, CandidatesKept, LinksKept

LEMMA RequestSolutions ==
    ASSUME SolutionInv, Request PROVE NoSolutionLost' /\ WorkHarmless'
<1>1. /\ \A j \in Joinable : j[1] \in Qvars /\ j[2] \in Qvars
      /\ Relations \subseteq SUBSET (Conds \X Conds)
  BY LinkerAssumption DEF LinkerAssumption
<1>2. QED  BY <1>1, UpdateResultsSolutions, GetConditionsSolutions,
              InvalidateStateSolutions, UpdateOldLinksSolutions,
              UpdateNewLinksSolutions DEF Request, UpdateLinks

-----------------------------------------------------------------------------
(* Cascades.                                                               *)

(* What every cascade step keeps.                                          *)
Progress ==
    /\ NoSolutionLost'
    /\ WorkHarmless'
    /\ valid /\ ~valid' => solutions = {}

LEMMA UpdateStepSolutions == ASSUME SolutionInv, UpdateStep PROVE Progress
<1>1. PICK f : f = Head(stack)
  OBVIOUS
<1>2. /\ stack # <<>> /\ f.op = "update_results"
      /\ UNCHANGED <<initialized, arcs, linked, solutions>>
  BY <1>1 DEF UpdateStep, Top
<1>3. PICK c \in values[f.q] \ f.keep : RemoveCondition(f.q, c, stack)
  BY <1>1 DEF UpdateStep
<1>4. TypeOK /\ f \in Frames(stack) /\ FrameOK(f)
  BY <1>1, <1>2, HeadTyped DEF SolutionInv
<1>5. f.q \in initialized /\ c \in Conds /\ stack \in Seq(AllFrames)
  BY <1>2, <1>3, <1>4 DEF FrameOK, TypeOK
<1>6. \A s \in solutions : s[f.q] # c
  BY <1>2, <1>3, <1>4 DEF SolutionInv, WorkHarmless, Harmless
<1>7. \A s \in solutions : \A g \in Frames(stack) : Harmless(g, s)'
  BY <1>2, HarmlessKept DEF SolutionInv
<1>8. LinksKept'
  BY <1>2, LinksStay DEF SolutionInv
<1>9. CandidatesKept
  BY Halves DEF SolutionInv
<1>10. /\ CandidatesKept'
       /\ \A s \in solutions : \A g \in Frames(stack') : Harmless(g, s)'
       /\ valid /\ ~valid' => solutions = {}
  BY <1>2, <1>3, <1>4, <1>5, <1>6, <1>7, <1>9, RemoveHarmless
<1>11. QED
  BY <1>2, <1>8, <1>10 DEF Progress, NoSolutionLost, CandidatesKept, LinksKept, WorkHarmless

LEMMA UnlinkStepSolutions == ASSUME SolutionInv, UnlinkStep PROVE Progress
<1>1. PICK f : f = Head(stack)
  OBVIOUS
<1>2. /\ stack # <<>> /\ f.op = "remove_condition"
      /\ UNCHANGED <<initialized, values, linked, valid, solutions>>
  BY <1>1 DEF UnlinkStep, Top
<1>3. PICK p \in f.todo :
         /\ arcs' = arcs \ LinksOf(f.q, f.c, p)
         /\ stack' = << BreakFrame({Rev(a) : a \in LinksOf(f.q, f.c, p)}),
                        UnlinkFrame(f.q, f.c, f.todo \ {p}) >> \o Tail(stack)
  BY <1>1 DEF UnlinkStep
<1>4. TypeOK /\ f \in Frames(stack) /\ f \in UnlinkFrames
      /\ Tail(stack) \in Seq(AllFrames) /\ Frames(Tail(stack)) \subseteq Frames(stack)
  BY <1>1, <1>2, HeadTyped, FrameKinds DEF SolutionInv
<1>5. f.q \in Qvars /\ f.c \in Conds /\ f.todo \in SUBSET Qvars
  BY <1>4 DEF UnlinkFrames
<1>6. \A s \in solutions : s[f.q] # f.c
  BY <1>2, <1>4 DEF SolutionInv, WorkHarmless, Harmless
<1>7. \A s \in solutions : \A a \in LinksOf(f.q, f.c, p) : ~Uses(s, a) /\ ~Uses(s, Rev(a))
  BY <1>6 DEF LinksOf, LinksBetween, Uses, Rev
<1>8. LinksKept'
  BY <1>2, <1>3, <1>7, LinksStay DEF SolutionInv
<1>9. \A s \in solutions : \A k \in Frames(stack) : Harmless(k, s)'
  BY <1>2, <1>3, <1>7, HarmlessKept DEF SolutionInv
<1>10. PICK g : g = BreakFrame({Rev(a) : a \in LinksOf(f.q, f.c, p)})
  OBVIOUS
<1>11. PICK h : h = UnlinkFrame(f.q, f.c, f.todo \ {p})
  OBVIOUS
<1>12. g \in AllFrames /\ h \in AllFrames
  <2>1. {Rev(a) : a \in LinksOf(f.q, f.c, p)} \in SUBSET Arcs
    BY <1>4 DEF LinksOf, LinksBetween, Rev, Arcs, TypeOK
  <2>2. QED  BY <1>5, <1>10, <1>11, <2>1, FrameMade
<1>13. stack' = <<g, h>> \o Tail(stack)
  BY <1>3, <1>10, <1>11
<1>14. Frames(stack') = {g, h} \cup Frames(Tail(stack))
  BY <1>4, <1>12, <1>13, PushTwo, Zenon
<1>15. \A s \in solutions : Harmless(g, s)' /\ Harmless(h, s)'
  BY <1>6, <1>7, <1>10, <1>11 DEF Harmless, BreakFrame, UnlinkFrame
<1>16. \A s \in solutions : \A k \in Frames(stack') : Harmless(k, s)'
  BY <1>4, <1>9, <1>14, <1>15, Zenon
<1>17. NoSolutionLost'
  BY <1>2, <1>8 DEF SolutionInv, NoSolutionLost, LinksKept
<1>18. QED  BY <1>2, <1>16, <1>17 DEF Progress, WorkHarmless

(* break_link removes a condition only when it sees no other link to the   *)
(* other variable; a solution that uses the condition has such a link, and *)
(* the one being broken is not it.                                         *)
LEMMA BreakStepSolutions == ASSUME SolutionInv, BreakStep PROVE Progress
<1>1. PICK f : f = Head(stack)
  OBVIOUS
<1>2. /\ stack # <<>> /\ f.op = "break_link"
      /\ UNCHANGED <<initialized, linked, solutions>>
  BY <1>1 DEF BreakStep, Top
<1>3. /\ TypeOK /\ f \in Frames(stack) /\ f \in BreakFrames /\ FrameOK(f)
      /\ Tail(stack) \in Seq(AllFrames) /\ Frames(Tail(stack)) \subseteq Frames(stack)
  BY <1>1, <1>2, HeadTyped, FrameKinds DEF SolutionInv
<1>4. PICK a \in f.todo :
         LET rest == <<BreakFrame(f.todo \ {a})>> \o Tail(stack)
         IN  /\ arcs' = arcs \ {a}
             /\ IF Partners(a[1], a[2], a[3]) \subseteq {a[4]}
                THEN RemoveCondition(a[1], a[2], rest)
                ELSE stack' = rest /\ UNCHANGED <<values, valid>>
  BY <1>1, Zenon DEF BreakStep
<1>5. f.todo \in SUBSET Arcs /\ \A b \in f.todo : HasLink(b[1], b[3])
  BY <1>2, <1>3 DEF FrameOK, BreakFrames
<1>6. a[1] \in initialized /\ a[2] \in Conds /\ a[3] \in Qvars
  BY <1>3, <1>4, <1>5 DEF HasLink, TypeOK, Arcs
<1>7. \A s \in solutions : \A b \in f.todo : ~Uses(s, b)
  BY <1>2, <1>3 DEF SolutionInv, WorkHarmless, Harmless
<1>8. arcs' = arcs \ {a}
  BY <1>4
<1>9. LinksKept'
  BY <1>2, <1>4, <1>7, <1>8, LinksStay DEF SolutionInv
<1>10. \A s \in solutions : \A k \in Frames(stack) : Harmless(k, s)'
  BY <1>2, <1>4, <1>7, <1>8, HarmlessKept DEF SolutionInv
<1>11. PICK g : g = BreakFrame(f.todo \ {a})
  OBVIOUS
<1>12. g \in AllFrames /\ \A s \in solutions : Harmless(g, s)'
  BY <1>5, <1>7, <1>11, FrameMade DEF Harmless, BreakFrame
<1>13. PICK rest : rest = <<g>> \o Tail(stack)
  OBVIOUS
<1>14. rest \in Seq(AllFrames) /\ Frames(rest) = {g} \cup Frames(Tail(stack))
  BY <1>3, <1>12, <1>13, PushOne, Zenon
<1>15. \A s \in solutions : \A k \in Frames(rest) : Harmless(k, s)'
  BY <1>3, <1>10, <1>12, <1>14, Zenon
<1>16. CandidatesKept
  BY Halves DEF SolutionInv
<1>17. /\ CandidatesKept'
       /\ \A s \in solutions : \A k \in Frames(stack') : Harmless(k, s)'
       /\ valid /\ ~valid' => solutions = {}
  <2>1. CASE /\ Partners(a[1], a[2], a[3]) \subseteq {a[4]}
             /\ RemoveCondition(a[1], a[2], rest)
    <3>1. ASSUME NEW s \in solutions PROVE s[a[1]] # a[2]
      <4>1. Arc(a[1], s[a[1]], a[3], s[a[3]]) \in arcs /\ s[a[3]] \in Conds
        BY <1>4, <1>5, <1>6, <1>3 DEF SolutionInv, NoSolutionLost, HasLink, TypeOK, Assignments
      <4>2. s[a[1]] = a[2] => s[a[3]] \in Partners(a[1], a[2], a[3])
        BY <4>1 DEF Partners
      <4>3. QED  BY <1>4, <1>7, <2>1, <4>2 DEF Uses
    <3>2. QED  BY <1>2, <1>3, <1>6, <1>14, <1>15, <1>16, <2>1, <3>1, RemoveHarmless
  <2>2. CASE stack' = rest /\ UNCHANGED <<values, valid>>
    <3>1. \A s \in solutions : \A k \in Frames(stack') : Harmless(k, s)'
      BY <1>15, <2>2, Zenon
    <3>2. QED  BY <1>2, <1>16, <2>2, <3>1 DEF CandidatesKept
  <2>3. QED  BY <1>4, <1>11, <1>13, <2>1, <2>2, Zenon
<1>18. QED
  BY <1>2, <1>9, <1>17 DEF Progress, NoSolutionLost, CandidatesKept, LinksKept, WorkHarmless

LEMMA BreakBothStepSolutions == ASSUME SolutionInv, BreakBothStep PROVE Progress
<1>1. PICK f : f = Head(stack)
  OBVIOUS
<1>2. /\ stack # <<>> /\ f.op = "break_both_links"
      /\ UNCHANGED <<initialized, values, arcs, linked, valid, solutions>>
  BY <1>1 DEF BreakBothStep, Top
<1>3. /\ f \in Frames(stack) /\ f \in BothFrames
      /\ Tail(stack) \in Seq(AllFrames) /\ Frames(Tail(stack)) \subseteq Frames(stack)
  BY <1>1, <1>2, HeadTyped, FrameKinds DEF SolutionInv
<1>4. PICK a \in f.todo :
         stack' = << BreakFrame({a}), BreakFrame({Rev(a)}), BothFrame(f.todo \ {a}) >>
                     \o Tail(stack)
  BY <1>1, Zenon DEF BreakBothStep
<1>5. /\ {a} \in SUBSET Arcs /\ {Rev(a)} \in SUBSET Arcs /\ f.todo \ {a} \in SUBSET Arcs
  BY <1>3, <1>4 DEF Arcs, Rev, BothFrames
<1>6. \A s \in solutions : \A b \in f.todo : ~Uses(s, b) /\ ~Uses(s, Rev(b))
  BY <1>2, <1>3 DEF SolutionInv, WorkHarmless, Harmless, Uses, Rev
<1>7. PICK g : g = BreakFrame({a})
  OBVIOUS
<1>8. PICK h : h = BreakFrame({Rev(a)})
  OBVIOUS
<1>9. PICK k : k = BothFrame(f.todo \ {a})
  OBVIOUS
<1>10. g \in AllFrames /\ h \in AllFrames /\ k \in AllFrames
  BY <1>5, <1>7, <1>8, <1>9, FrameMade, Zenon
<1>11. Frames(stack') = {g, h, k} \cup Frames(Tail(stack))
  <2>1. <<g, h, k>> \in Seq(AllFrames) /\ DOMAIN <<g, h, k>> = {1, 2, 3}
    BY <1>10
  <2>2. Frames(<<g, h, k>>) = {g, h, k}
    BY <2>1 DEF Frames
  <2>3. stack' = <<g, h, k>> \o Tail(stack)
    BY <1>4, <1>7, <1>8, <1>9
  <2>4. QED  BY <1>3, <2>1, <2>2, <2>3, PushAll, Zenon
<1>12. \A s \in solutions : Harmless(g, s)' /\ Harmless(h, s)' /\ Harmless(k, s)'
  BY <1>4, <1>6, <1>7, <1>8, <1>9 DEF Harmless, BreakFrame, BothFrame
<1>13. \A s \in solutions : \A m \in Frames(stack) : Harmless(m, s)'
  BY <1>2, HarmlessKept DEF SolutionInv
<1>14. \A s \in solutions : \A m \in Frames(stack') : Harmless(m, s)'
  BY <1>3, <1>11, <1>12, <1>13, Zenon
<1>15. NoSolutionLost'
  BY <1>2 DEF SolutionInv, NoSolutionLost
<1>16. QED  BY <1>2, <1>14, <1>15 DEF Progress, WorkHarmless

LEMMA RegisterStepSolutions == ASSUME SolutionInv, RegisterStep PROVE Progress
<1>1. PICK f : f = Head(stack)
  OBVIOUS
<1>2. /\ stack # <<>> /\ f.op = "update_links"
      /\ linked' = linked \cup {<<f.q, f.p>>, <<f.p, f.q>>}
      /\ stack' = Tail(stack)
      /\ UNCHANGED <<initialized, values, arcs, valid, solutions>>
  BY <1>1 DEF RegisterStep, Top
<1>3. f \in Frames(stack) /\ Frames(Tail(stack)) \subseteq Frames(stack)
  BY <1>1, <1>2, HeadTyped DEF SolutionInv
<1>4. \A s \in solutions : /\ Arc(f.q, s[f.q], f.p, s[f.p]) \in arcs
                           /\ Arc(f.p, s[f.p], f.q, s[f.q]) \in arcs
  BY <1>2, <1>3 DEF SolutionInv, WorkHarmless, Harmless
<1>5. NoSolutionLost'
  BY <1>2, <1>4 DEF SolutionInv, NoSolutionLost
<1>6. \A s \in solutions : \A k \in Frames(stack) : Harmless(k, s)'
  BY <1>2, HarmlessKept DEF SolutionInv
<1>7. \A s \in solutions : \A k \in Frames(stack') : Harmless(k, s)'
  BY <1>2, <1>3, <1>6, Zenon
<1>8. QED  BY <1>2, <1>5, <1>7 DEF Progress, WorkHarmless

LEMMA ReturnSolutions == ASSUME SolutionInv, Return PROVE Progress
<1>1. /\ stack # <<>> /\ stack' = Tail(stack)
      /\ UNCHANGED <<initialized, values, arcs, linked, valid, solutions>>
  BY DEF Return
<1>2. Frames(Tail(stack)) \subseteq Frames(stack)
  BY <1>1, HeadTyped DEF SolutionInv
<1>3. \A s \in solutions : \A k \in Frames(stack) : Harmless(k, s)'
  BY <1>1, HarmlessKept DEF SolutionInv
<1>4. \A s \in solutions : \A k \in Frames(stack') : Harmless(k, s)'
  BY <1>1, <1>2, <1>3, Zenon
<1>5. NoSolutionLost'
  BY <1>1 DEF SolutionInv, NoSolutionLost
<1>6. QED  BY <1>1, <1>4, <1>5 DEF Progress, WorkHarmless

LEMMA CascadeSolutions == ASSUME SolutionInv, Cascade PROVE Progress
BY UpdateStepSolutions, UnlinkStepSolutions, BreakStepSolutions, BreakBothStepSolutions,
   RegisterStepSolutions, ReturnSolutions DEF Cascade

-----------------------------------------------------------------------------
LEMMA StartSolutions ==
    ASSUME NEW d, TableOK(d), InitWith(d) PROVE SolutionInv /\ InvalidMeansUnsatisfiable
<1>1. stack = <<>> /\ Frames(stack) = {}
  BY FramesEmpty DEF InitWith
<1>2. NoSolutionLost /\ WorkHarmless /\ InvalidMeansUnsatisfiable
  BY <1>1 DEF InitWith, NoSolutionLost, WorkHarmless, InvalidMeansUnsatisfiable
<1>3. QED  BY <1>2, StartType DEF SolutionInv

LEMMA InitSolutions == ASSUME Init PROVE SolutionInv /\ InvalidMeansUnsatisfiable
BY InitStarts, StartSolutions

LEMMA StepType == ASSUME TypeOK, [Next]_linkerVars PROVE TypeOK'
BY RequestType, UpdateStepType, UnlinkStepType, BreakStepType, BreakBothStepType,
   RegisterStepType, ReturnType, IdleType DEF Next, Cascade

LEMMA SolutionsShrink ==
    ASSUME Request PROVE /\ solutions' \subseteq solutions
                         /\ valid' = valid \/ (valid' = FALSE /\ solutions' = {})
BY DEF Request, UpdateResults, GetConditions, UpdateLinks, UpdateOldLinks, UpdateNewLinks,
       InvalidateState, Surviving

LEMMA CascadeKeepsSolutions == ASSUME Cascade PROVE UNCHANGED <<initialized, solutions>>
BY DEF Cascade, UpdateStep, UnlinkStep, BreakStep, BreakBothStep, RegisterStep, Return

LEMMA InvSteps ==
    ASSUME SolutionInv, InvalidMeansUnsatisfiable, [Next]_linkerVars
    PROVE  SolutionInv' /\ InvalidMeansUnsatisfiable'
<1>1. TypeOK'
  BY StepType DEF SolutionInv
<1>2. CASE Request
  BY <1>1, <1>2, RequestSolutions, SolutionsShrink DEF SolutionInv, InvalidMeansUnsatisfiable
<1>3. CASE Cascade
  BY <1>1, <1>3, CascadeSolutions, CascadeKeepsSolutions
     DEF SolutionInv, Progress, InvalidMeansUnsatisfiable
<1>4. CASE UNCHANGED linkerVars
  <2>1. /\ stack' = stack
        /\ UNCHANGED <<initialized, values, arcs, linked, valid, solutions>>
    BY <1>4 DEF linkerVars
  <2>2. NoSolutionLost' /\ InvalidMeansUnsatisfiable'
    BY <2>1 DEF SolutionInv, NoSolutionLost, InvalidMeansUnsatisfiable
  <2>3. \A s \in solutions : \A f \in Frames(stack) : Harmless(f, s)'
    BY <2>1, HarmlessKept DEF SolutionInv
  <2>4. \A s \in solutions' : \A f \in Frames(stack') : Harmless(f, s)'
    BY <2>1, <2>3, Zenon
  <2>5. QED  BY <1>1, <2>2, <2>4 DEF SolutionInv, WorkHarmless
<1>5. QED  BY <1>2, <1>3, <1>4 DEF Next

(* SolutionInv is invariant, and with it that an invalid state is right.   *)
LEMMA SolutionInvHolds == Spec => [](SolutionInv /\ InvalidMeansUnsatisfiable)
<1>1. Init => SolutionInv /\ InvalidMeansUnsatisfiable
  BY InitSolutions
<1>2. SolutionInv /\ InvalidMeansUnsatisfiable /\ [Next]_linkerVars
          => (SolutionInv /\ InvalidMeansUnsatisfiable)'
  BY InvSteps
<1>3. QED  BY <1>1, <1>2, PTL DEF Spec

(* An assignment that satisfies every request keeps its conditions and its *)
(* links in every state, whatever remove_condition and break_link do on    *)
(* the way, on every graph of linked variables.                            *)
THEOREM NeverLosesASolution == Spec => []NoSolutionLost
<1>1. SolutionInv => NoSolutionLost
  BY DEF SolutionInv
<1>2. QED  BY <1>1, SolutionInvHolds, PTL

(* No call or loop in progress is about to remove or break what a solution *)
(* uses.                                                                   *)
THEOREM WorkStaysHarmless == Spec => []WorkHarmless
<1>1. SolutionInv => WorkHarmless
  BY DEF SolutionInv
<1>2. QED  BY <1>1, SolutionInvHolds, PTL

(* When is_valid_state answers false, the requests have no solution.       *)
THEOREM InvalidIsRight == Spec => []InvalidMeansUnsatisfiable
BY SolutionInvHolds, PTL
-----------------------------------------------------------------------------
(* The stack machine of Linker implements LinkerContract: initial states   *)
(* are initial states of the contract, a request is a Narrow step, a       *)
(* condition that remove_condition erases is a Drop step, and the rest of  *)
(* a cascade is invisible.                                                 *)

(* What the contract sees of a state.                                      *)
Visible == <<initialized, values, valid, solutions>>

LEMMA InitContract == ASSUME Init PROVE Contract!Init
<1>1. TypeOK
  BY InitType
<1>2. QED  BY <1>1 DEF Init, InitWith, TypeOK, Assignments, Contract!Init

LEMMA RequestNarrows ==
    ASSUME TypeOK, TypeOK', NoSolutionLost', Request PROVE Contract!Narrow
<1>1. initialized \subseteq initialized' /\ initialized' \in SUBSET Qvars
  BY DEF TypeOK, Request, UpdateResults, GetConditions, UpdateLinks, UpdateOldLinks,
         UpdateNewLinks, InvalidateState
<1>2. /\ solutions' \in SUBSET solutions
      /\ valid' = valid \/ (valid' = FALSE /\ solutions' = {})
  BY SolutionsShrink
<1>3. values' \in [Qvars -> SUBSET Conds]
  BY DEF TypeOK
<1>4. \A q \in initialized : values'[q] = values[q]
  BY DEF TypeOK, Request, UpdateResults, GetConditions, UpdateLinks, UpdateOldLinks,
         UpdateNewLinks, InvalidateState, ValuesFor
<1>5. \A q \in initialized' \ initialized : Contract!Used(q, solutions') \subseteq values'[q]
  BY DEF NoSolutionLost, Contract!Used
<1>6. QED  BY <1>1, <1>2, <1>3, <1>4, <1>5 DEF Contract!Narrow

(* No solution used the condition, since every solution still has its      *)
(* conditions now that it is gone.                                         *)
LEMMA RemoveDrops ==
    ASSUME TypeOK, NoSolutionLost', UNCHANGED <<initialized, solutions>>,
           NEW q \in initialized, NEW c, NEW rest, RemoveCondition(q, c, rest)
    PROVE  Contract!Drop \/ UNCHANGED Visible
<1>1. CASE c \in values[q]
  <2>1. /\ values' = [values EXCEPT ![q] = @ \ {c}]
        /\ valid' = (valid /\ values[q] # {c})
    BY <1>1 DEF RemoveCondition
  <2>2. q \in Qvars /\ values'[q] = values[q] \ {c}
    BY <2>1 DEF TypeOK
  <2>3. \A s \in solutions : s[q] # c
    BY <2>2 DEF NoSolutionLost
  <2>4. c \in values[q] \ Contract!Used(q, solutions)
    BY <1>1, <2>3 DEF Contract!Used
  <2>5. QED  BY <2>1, <2>4 DEF Contract!Drop
<1>2. CASE c \notin values[q]
  BY <1>2 DEF RemoveCondition, Visible
<1>3. QED  BY <1>1, <1>2

LEMMA CascadeDrops ==
    ASSUME TypeOK, NoSolutionLost', Cascade PROVE Contract!Drop \/ UNCHANGED Visible
<1>1. UNCHANGED <<initialized, solutions>>
  BY CascadeKeepsSolutions
<1>2. CASE UpdateStep
  <2>1. stack # <<>> /\ Head(stack).op = "update_results"
    BY <1>2 DEF UpdateStep, Top
  <2>2. PICK c \in values[Head(stack).q] : RemoveCondition(Head(stack).q, c, stack)
    BY <1>2 DEF UpdateStep
  <2>3. Head(stack).q \in initialized
    BY <2>1, HeadTyped DEF FrameOK
  <2>4. QED  BY <1>1, <2>2, <2>3, RemoveDrops
<1>3. CASE BreakStep
  <2>1. PICK f : f = Head(stack)
    OBVIOUS
  <2>2. stack # <<>> /\ f.op = "break_link"
    BY <1>3, <2>1 DEF BreakStep, Top
  <2>3. PICK a \in f.todo :
           LET rest == <<BreakFrame(f.todo \ {a})>> \o Tail(stack)
           IN  IF Partners(a[1], a[2], a[3]) \subseteq {a[4]}
               THEN RemoveCondition(a[1], a[2], rest)
               ELSE stack' = rest /\ UNCHANGED <<values, valid>>
    BY <1>3, <2>1, Zenon DEF BreakStep
  <2>4. HasLink(a[1], a[3])
    BY <2>1, <2>2, <2>3, HeadTyped DEF FrameOK
  <2>5. a[1] \in initialized
    BY <2>4 DEF HasLink, TypeOK
  <2>6. PICK rest : RemoveCondition(a[1], a[2], rest) \/ UNCHANGED <<values, valid>>
    BY <2>3, Zenon
  <2>7. QED  BY <1>1, <2>5, <2>6, RemoveDrops DEF Visible
<1>4. CASE UnlinkStep \/ BreakBothStep \/ RegisterStep \/ Return
  BY <1>4 DEF UnlinkStep, BreakBothStep, RegisterStep, Return, Visible
<1>5. QED  BY <1>2, <1>3, <1>4 DEF Cascade

(* Every behaviour of the linker is one the contract of simple/linker.h    *)
(* allows: requests narrow the solutions, and a cascade drops, one at a    *)
(* time, candidates that no solution uses.                                 *)
THEOREM LinkerImplementsContract == Spec => ImplementsContract
<1>1. Init => Contract!Init
  BY InitContract
<1>2. TypeOK /\ TypeOK' /\ NoSolutionLost' /\ [Next]_linkerVars
          => [Contract!Next]_(Contract!contractVars)
  <2>1. SUFFICES ASSUME TypeOK, TypeOK', NoSolutionLost', [Next]_linkerVars
                 PROVE  Contract!Narrow \/ Contract!Drop \/ UNCHANGED Visible
    BY DEF Contract!Next, Contract!contractVars, Visible
  <2>2. CASE Request               BY <2>1, <2>2, RequestNarrows
  <2>3. CASE Cascade               BY <2>1, <2>3, CascadeDrops
  <2>4. CASE UNCHANGED linkerVars  BY <2>4 DEF linkerVars, Visible
  <2>5. QED  BY <2>1, <2>2, <2>3, <2>4 DEF Next
<1>3. QED
  BY <1>1, <1>2, TypeCorrect, NeverLosesASolution, PTL
     DEF Spec, ImplementsContract, Contract!Spec
-----------------------------------------------------------------------------
(* The tuples of a selection.  The searches of LinkerTuples are recursive  *)
(* functions; each is the CHOOSE of an equation, which has a solution      *)
(* because its right side is monotone.                                     *)
LEMMA FixedPoint ==
    ASSUME NEW U, NEW G \in [SUBSET U -> SUBSET U],
           \A X, Y \in SUBSET U : X \subseteq Y => G[X] \subseteq G[Y]
    PROVE  \E X \in SUBSET U : G[X] = X
<1> DEFINE X == {x \in U : \A Y \in SUBSET U : G[Y] \subseteq Y => x \in Y}
<1>1. X \in SUBSET U /\ G[X] \in SUBSET U
  OBVIOUS
<1>2. \A Y \in SUBSET U : G[Y] \subseteq Y => X \subseteq Y
  OBVIOUS
<1>3. \A Y \in SUBSET U : G[Y] \subseteq Y => G[X] \subseteq Y
  BY <1>1, <1>2
<1>4. G[X] \subseteq X
  BY <1>1, <1>3
<1>5. G[G[X]] \subseteq G[X]
  BY <1>1, <1>4
<1>6. X \subseteq G[X]
  BY <1>1, <1>2, <1>5
<1>7. QED  BY <1>1, <1>4, <1>6

(* has_indirect_links.                                                     *)
ReachEquation(f, p) ==
    f = [visited \in SUBSET Qvars |->
            {r \in Qvars : \/ HasLink(r, p)
                           \/ \E m \in LinkedTo(r) \ visited :
                                 m \in f[VisitedAt(r, m, visited)]}]

LEMMA Visiting ==
    ASSUME NEW r \in Qvars, NEW v \in SUBSET Qvars, NEW m \in LinkedTo(r) \ v
    PROVE  /\ m \in Qvars /\ HasLink(r, m)
           /\ VisitedAt(r, m, v) \in SUBSET Qvars
           /\ v \subseteq VisitedAt(r, m, v) /\ m \in VisitedAt(r, m, v)
           /\ m \notin v
<1>1. m \in Qvars /\ Rank[m] \in Nat
  BY TuplesAssumption DEF LinkedTo
<1>2. QED  BY <1>1 DEF LinkedTo, VisitedAt

LEMMA ReachSolvable == ASSUME NEW p \in Qvars PROVE \E f : ReachEquation(f, p)
<1> DEFINE U == (SUBSET Qvars) \X Qvars
           H(X) == {u \in U : \/ HasLink(u[2], p)
                              \/ \E m \in LinkedTo(u[2]) \ u[1] :
                                    <<VisitedAt(u[2], m, u[1]), m>> \in X}
           G == [X \in SUBSET U |-> H(X)]
<1>1. G \in [SUBSET U -> SUBSET U]
  OBVIOUS
<1>2. ASSUME NEW X \in SUBSET U, NEW Y \in SUBSET U, X \subseteq Y
      PROVE  G[X] \subseteq G[Y]
  BY <1>2
<1>3. PICK X \in SUBSET U : G[X] = X
  <2> HIDE DEF G, U
  <2>1. QED  BY <1>1, <1>2, FixedPoint
<1> DEFINE f == [v \in SUBSET Qvars |-> {r \in Qvars : <<v, r>> \in X}]
           Body(v) == {r \in Qvars : \/ HasLink(r, p)
                                     \/ \E m \in LinkedTo(r) \ v :
                                           m \in f[VisitedAt(r, m, v)]}
<1>4. \A v \in SUBSET Qvars : f[v] = Body(v)
  <2>1. TAKE v \in SUBSET Qvars
  <2>2. ASSUME NEW r \in Qvars PROVE r \in f[v] <=> r \in Body(v)
    <3>1. <<v, r>> \in U
      OBVIOUS
    <3>2. <<v, r>> \in X <=> <<v, r>> \in H(X)
      BY <1>3
    <3>3. <<v, r>> \in H(X) <=> \/ HasLink(r, p)
                                \/ \E m \in LinkedTo(r) \ v : <<VisitedAt(r, m, v), m>> \in X
      BY <3>1, Zenon
    <3>4. \A m \in LinkedTo(r) \ v :
             <<VisitedAt(r, m, v), m>> \in X <=> m \in f[VisitedAt(r, m, v)]
      <4> HIDE DEF U, H, G
      <4>1. QED  BY Visiting
    <3>5. r \in f[v] <=> <<v, r>> \in X
      BY Zenon
    <3> HIDE DEF f, H, G, U
    <3>6. QED  BY <3>2, <3>3, <3>4, <3>5
  <2>3. QED  BY <2>2
<1>5. ReachEquation(f, p)
  <2>1. f = [v \in SUBSET Qvars |-> f[v]]
    OBVIOUS
  <2>2. QED  BY <2>1, <1>4, Zenon DEF ReachEquation
<1>6. QED  BY <1>5

(* What has_indirect_links finds, it finds along a link.                   *)
LEMMA ReachesAre ==
    ASSUME NEW p \in Qvars
    PROVE  \E f : /\ \A q \in Qvars : HasIndirectLinks(q, p) <=> q \in f[{}]
                  /\ \A v \in SUBSET Qvars : \A r \in f[v] :
                        \/ HasLink(r, p)
                        \/ \E m \in LinkedTo(r) \ v : m \in f[VisitedAt(r, m, v)]
<1> DEFINE f == CHOOSE g : ReachEquation(g, p)
<1>1. ReachEquation(f, p)
  BY ReachSolvable
<1>2. \A q \in Qvars : HasIndirectLinks(q, p) <=> q \in f[{}]
  BY DEF HasIndirectLinks, ReachEquation
<1> HIDE DEF f
<1>3. \A v \in SUBSET Qvars : \A r \in f[v] :
         \/ HasLink(r, p)
         \/ \E m \in LinkedTo(r) \ v : m \in f[VisitedAt(r, m, v)]
  BY <1>1 DEF ReachEquation
<1>4. QED  BY <1>2, <1>3
(* get_indirect_links.                                                     *)
LeadEquation(f, p) ==
    f = [visited \in SUBSET Qvars |-> [r \in Qvars |-> [d \in Conds |->
            IF HasLink(r, p)
            THEN Partners(r, d, p)
            ELSE UNION { UNION { f[VisitedAt(r, m, visited)][m][e] :
                                    e \in Partners(r, d, m) } :
                         m \in LinkedTo(r) \ visited }]]]

LEMMA LeadSolvable == ASSUME NEW p \in Qvars PROVE \E f : LeadEquation(f, p)
<1> DEFINE U == (SUBSET Qvars) \X Qvars \X Conds \X Conds
           Found(X, v, r, d, e) ==
              IF HasLink(r, p)
              THEN e \in Partners(r, d, p)
              ELSE \E m \in LinkedTo(r) \ v : \E x \in Partners(r, d, m) :
                      <<VisitedAt(r, m, v), m, x, e>> \in X
           H(X) == {u \in U : Found(X, u[1], u[2], u[3], u[4])}
           G == [X \in SUBSET U |-> H(X)]
<1>1. G \in [SUBSET U -> SUBSET U]
  OBVIOUS
<1>2. ASSUME NEW X \in SUBSET U, NEW Y \in SUBSET U, X \subseteq Y
      PROVE  G[X] \subseteq G[Y]
  BY <1>2
<1>3. PICK X \in SUBSET U : G[X] = X
  <2> HIDE DEF G, U
  <2>1. QED  BY <1>1, <1>2, FixedPoint
<1> DEFINE f == [v \in SUBSET Qvars |-> [r \in Qvars |-> [d \in Conds |->
                    {e \in Conds : <<v, r, d, e>> \in X}]]]
           Body(v, r, d) ==
              IF HasLink(r, p)
              THEN Partners(r, d, p)
              ELSE UNION { UNION { f[VisitedAt(r, m, v)][m][e] :
                                      e \in Partners(r, d, m) } :
                           m \in LinkedTo(r) \ v }
<1>4. \A v \in SUBSET Qvars : \A r \in Qvars : \A d \in Conds : f[v][r][d] = Body(v, r, d)
  <2>1. TAKE v \in SUBSET Qvars
  <2>2. TAKE r \in Qvars
  <2>3. TAKE d \in Conds
  <2>4. ASSUME NEW e \in Conds PROVE e \in f[v][r][d] <=> e \in Body(v, r, d)
    <3>1. <<v, r, d, e>> \in U
      OBVIOUS
    <3>2. <<v, r, d, e>> \in X <=> <<v, r, d, e>> \in H(X)
      BY <1>3
    <3>3. <<v, r, d, e>> \in H(X) <=> Found(X, v, r, d, e)
      BY <3>1, Zenon
    <3>4. \A m \in LinkedTo(r) \ v : \A x \in Conds :
             <<VisitedAt(r, m, v), m, x, e>> \in X <=> e \in f[VisitedAt(r, m, v)][m][x]
      <4> HIDE DEF U, H, G
      <4>1. QED  BY Visiting
    <3>5. e \in f[v][r][d] <=> <<v, r, d, e>> \in X
      BY Zenon
    <3>6. Partners(r, d, p) \subseteq Conds /\ \A m : Partners(r, d, m) \subseteq Conds
      BY DEF Partners
    <3> HIDE DEF f, H, G, U
    <3>7. Found(X, v, r, d, e) <=> e \in Body(v, r, d)
      <4>1. CASE HasLink(r, p)
        BY <4>1
      <4>2. CASE ~HasLink(r, p)
        <5>1. Found(X, v, r, d, e) <=>
                 \E m \in LinkedTo(r) \ v : \E x \in Partners(r, d, m) :
                    <<VisitedAt(r, m, v), m, x, e>> \in X
          BY <4>2
        <5>2. e \in Body(v, r, d) <=>
                 \E m \in LinkedTo(r) \ v : \E x \in Partners(r, d, m) :
                    e \in f[VisitedAt(r, m, v)][m][x]
          BY <4>2
        <5>3. QED  BY <5>1, <5>2, <3>4, <3>6
      <4>3. QED  BY <4>1, <4>2
    <3> HIDE DEF Found, Body
    <3>8. QED  BY <3>2, <3>3, <3>5, <3>7
  <2>5. f[v][r][d] \subseteq Conds
    BY Zenon
  <2>6. Body(v, r, d) \subseteq Conds
    <3>1. Partners(r, d, p) \subseteq Conds /\ \A m : Partners(r, d, m) \subseteq Conds
      BY DEF Partners
    <3>2. \A m \in LinkedTo(r) \ v : \A x \in Conds : f[VisitedAt(r, m, v)][m][x] \subseteq Conds
      <4> HIDE DEF U, H, G
      <4>1. QED  BY Visiting
    <3> HIDE DEF f
    <3>3. QED  BY <3>1, <3>2
  <2> HIDE DEF f, Body
  <2>7. QED  BY <2>4, <2>5, <2>6
<1>5. LeadEquation(f, p)
  <2>1. f = [v \in SUBSET Qvars |-> [r \in Qvars |-> [d \in Conds |-> f[v][r][d]]]]
    OBVIOUS
  <2> DEFINE g == [v \in SUBSET Qvars |-> [r \in Qvars |-> [d \in Conds |-> Body(v, r, d)]]]
  <2>2. [v \in SUBSET Qvars |-> [r \in Qvars |-> [d \in Conds |-> f[v][r][d]]]] = g
    <3> HIDE DEF f, Body
    <3>1. QED  BY <1>4
  <2>3. f = g
    <3> HIDE DEF f, g
    <3>1. QED  BY <2>1, <2>2
  <2>4. QED  BY <2>3, Zenon DEF LeadEquation
<1>6. QED  BY <1>5

(* What get_indirect_links is bound to return: the partners along a direct *)
(* link, or else all that the neighbours not visited yet lead to.          *)
LEMMA LeadsAre ==
    ASSUME NEW p \in Qvars
    PROVE  \E f : /\ \A q \in Qvars : \A c \in Conds : IndirectLinks(q, p, c) = f[{}][q][c]
                  /\ \A v \in SUBSET Qvars : \A r \in Qvars : \A d \in Conds :
                        /\ HasLink(r, p) => f[v][r][d] = Partners(r, d, p)
                        /\ ~HasLink(r, p) =>
                              \A m \in LinkedTo(r) \ v : \A e \in Partners(r, d, m) :
                                 f[VisitedAt(r, m, v)][m][e] \subseteq f[v][r][d]
<1> DEFINE f == CHOOSE g : LeadEquation(g, p)
<1>1. LeadEquation(f, p)
  BY LeadSolvable
<1>2. \A q \in Qvars : \A c \in Conds : IndirectLinks(q, p, c) = f[{}][q][c]
  BY DEF IndirectLinks, LeadEquation
<1> DEFINE Body(v, r, d) ==
              IF HasLink(r, p)
              THEN Partners(r, d, p)
              ELSE UNION { UNION { f[VisitedAt(r, m, v)][m][e] :
                                      e \in Partners(r, d, m) } :
                           m \in LinkedTo(r) \ v }
<1> HIDE DEF f
<1>3. \A v \in SUBSET Qvars : \A r \in Qvars : \A d \in Conds : f[v][r][d] = Body(v, r, d)
  <2>1. f = [v \in SUBSET Qvars |-> [r \in Qvars |-> [d \in Conds |-> Body(v, r, d)]]]
    BY <1>1, Zenon DEF LeadEquation
  <2> HIDE DEF Body
  <2>2. QED  BY <2>1
<1>4. ASSUME NEW v \in SUBSET Qvars, NEW r \in Qvars, NEW d \in Conds
      PROVE  /\ HasLink(r, p) => f[v][r][d] = Partners(r, d, p)
             /\ ~HasLink(r, p) =>
                   \A m \in LinkedTo(r) \ v : \A e \in Partners(r, d, m) :
                      f[VisitedAt(r, m, v)][m][e] \subseteq f[v][r][d]
  <2>1. f[v][r][d] = Body(v, r, d)
    BY <1>3
  <2>2. QED  BY <2>1
<1>5. QED  BY <1>2, <1>4, Zenon

(* And it returns nothing else.                                            *)
LeadsIn(f, p, v, r, d) ==
    /\ HasLink(r, p) => f[v][r][d] = Partners(r, d, p)
    /\ ~HasLink(r, p) => \A x \in f[v][r][d] :
          \E m \in LinkedTo(r) \ v : \E e \in Partners(r, d, m) :
             x \in f[VisitedAt(r, m, v)][m][e]

LEMMA LeadsFrom ==
    ASSUME NEW p \in Qvars
    PROVE  \E f : /\ \A q \in Qvars : \A c \in Conds : IndirectLinks(q, p, c) = f[{}][q][c]
                  /\ \A v \in SUBSET Qvars : \A r \in Qvars : \A d \in Conds :
                        LeadsIn(f, p, v, r, d)
<1> DEFINE f == CHOOSE g : LeadEquation(g, p)
<1>1. LeadEquation(f, p)
  BY LeadSolvable
<1>2. \A q \in Qvars : \A c \in Conds : IndirectLinks(q, p, c) = f[{}][q][c]
  BY DEF IndirectLinks, LeadEquation
<1> DEFINE Body(v, r, d) ==
              IF HasLink(r, p)
              THEN Partners(r, d, p)
              ELSE UNION { UNION { f[VisitedAt(r, m, v)][m][e] :
                                      e \in Partners(r, d, m) } :
                           m \in LinkedTo(r) \ v }
<1> HIDE DEF f
<1>3. \A v \in SUBSET Qvars : \A r \in Qvars : \A d \in Conds : f[v][r][d] = Body(v, r, d)
  <2>1. f = [v \in SUBSET Qvars |-> [r \in Qvars |-> [d \in Conds |-> Body(v, r, d)]]]
    BY <1>1, Zenon DEF LeadEquation
  <2> HIDE DEF Body
  <2>2. QED  BY <2>1
<1>4. ASSUME NEW v \in SUBSET Qvars, NEW r \in Qvars, NEW d \in Conds
      PROVE  LeadsIn(f, p, v, r, d)
  <2>1. f[v][r][d] = Body(v, r, d)
    BY <1>3
  <2>2. QED  BY <2>1 DEF LeadsIn
<1> HIDE DEF Body
<1>5. QED  BY <1>2, <1>4

(* A smallest set of unvisited variables.                                  *)
LEMMA LargestVisited ==
    ASSUME NEW T \in SUBSET (SUBSET Qvars), T # {}
    PROVE  \E v \in T : \A w \in T : v \subseteq w => w = v
<1> DEFINE Left == {Qvars \ v : v \in T}
           Smaller == StrictSubsetOrdering(Qvars)
<1>1. IsFiniteSet(Qvars)
  BY TuplesAssumption
<1>2. IsWellFoundedOn(Smaller, FiniteSubsetsOf(Qvars))
  BY <1>1, FS_StrictSubsetOrderingWellFounded
<1>3. Left \subseteq FiniteSubsetsOf(Qvars) /\ Left # {}
  <2>1. Left \subseteq SUBSET Qvars
    OBVIOUS
  <2>2. PICK v : v \in T
    OBVIOUS
  <2>3. Qvars \ v \in Left
    BY <2>2
  <2>4. FiniteSubsetsOf(Qvars) = SUBSET Qvars
    BY <1>1, FS_FiniteSubsetsOfFinite
  <2> HIDE DEF Left
  <2>5. QED  BY <2>1, <2>3, <2>4
<1>4. PICK x \in Left : \A y \in Left : <<y, x>> \notin Smaller
  <2> HIDE DEF Left, Smaller
  <2>1. QED  BY <1>2, <1>3, WFMin
<1>5. PICK v \in T : x = Qvars \ v
  OBVIOUS
<1>6. ASSUME NEW w \in T, v \subseteq w, w # v PROVE FALSE
  <2>1. Qvars \ w \in Left /\ Qvars \ w \subseteq x /\ Qvars \ w # x
    BY <1>5, <1>6
  <2>2. <<Qvars \ w, x>> \in Smaller
    BY <2>1, <1>5 DEF StrictSubsetOrdering
  <2>3. QED  BY <1>4, <2>1, <2>2
<1>7. QED  BY <1>6
(* A link that a solution uses is found, and so is a chain of them: the    *)
(* search that reaches p from q gathers the condition every solution gives *)
(* p, although it goes no further from a variable already visited.         *)
LEMMA SolutionLinked ==
    ASSUME NoSolutionLost, TypeOK, NEW s \in solutions,
           NEW q \in Qvars, NEW p \in Qvars, HasLink(q, p)
    PROVE  s[q] \in Conds /\ s[p] \in Partners(q, s[q], p)
<1>1. s \in Assignments
  BY DEF TypeOK
<1>2. Arc(q, s[q], p, s[p]) \in arcs
  BY DEF NoSolutionLost, HasLink
<1>3. QED  BY <1>1, <1>2 DEF Assignments, Partners

LEMMA SolutionFound ==
    ASSUME NoSolutionLost, TypeOK, NEW s \in solutions,
           NEW q \in Qvars, NEW p \in Qvars, HasIndirectLinks(q, p)
    PROVE  s[p] \in IndirectLinks(q, p, s[q])
<1>1. s \in [Qvars -> Conds]
  BY DEF TypeOK, Assignments
<1>2. PICK reaching :
         /\ \A r \in Qvars : HasIndirectLinks(r, p) <=> r \in reaching[{}]
         /\ \A v \in SUBSET Qvars : \A r \in reaching[v] :
               \/ HasLink(r, p)
               \/ \E m \in LinkedTo(r) \ v : m \in reaching[VisitedAt(r, m, v)]
  BY ReachesAre
<1>3. PICK leads :
         /\ \A r \in Qvars : \A c \in Conds : IndirectLinks(r, p, c) = leads[{}][r][c]
         /\ \A v \in SUBSET Qvars : \A r \in Qvars : \A d \in Conds :
               /\ HasLink(r, p) => leads[v][r][d] = Partners(r, d, p)
               /\ ~HasLink(r, p) =>
                     \A m \in LinkedTo(r) \ v : \A e \in Partners(r, d, m) :
                        leads[VisitedAt(r, m, v)][m][e] \subseteq leads[v][r][d]
  BY LeadsAre
<1> DEFINE Found(v, r) == s[p] \in leads[v][r][s[r]]
           Lost == {v \in SUBSET Qvars : \E r \in Qvars : r \in reaching[v] /\ ~Found(v, r)}
<1>4. ASSUME Lost # {} PROVE FALSE
  <2>1. PICK v \in Lost : \A w \in Lost : v \subseteq w => w = v
    <3>1. Lost \in SUBSET (SUBSET Qvars)
      OBVIOUS
    <3> HIDE DEF Lost
    <3>2. QED  BY <1>4, <3>1, LargestVisited
  <2>2. v \in SUBSET Qvars
    OBVIOUS
  <2>3. PICK r \in Qvars : r \in reaching[v] /\ ~Found(v, r)
    OBVIOUS
  <2>4. s[r] \in Conds
    BY <1>1
  <2>5. ~HasLink(r, p)
    <3>1. SUFFICES ASSUME HasLink(r, p) PROVE FALSE
      OBVIOUS
    <3>2. s[p] \in Partners(r, s[r], p)
      BY <3>1, SolutionLinked
    <3>3. leads[v][r][s[r]] = Partners(r, s[r], p)
      BY <3>1, <1>3, <2>2, <2>4
    <3>4. QED  BY <2>3, <3>2, <3>3
  <2>6. PICK m \in LinkedTo(r) \ v : m \in reaching[VisitedAt(r, m, v)]
    BY <1>2, <2>2, <2>3, <2>5
  <2>7. PICK w : w = VisitedAt(r, m, v)
    OBVIOUS
  <2>8. /\ m \in Qvars /\ HasLink(r, m)
        /\ w \in SUBSET Qvars /\ v \subseteq w /\ w # v
    BY <2>2, <2>6, <2>7, Visiting
  <2>9. Found(w, m)
    <3>1. w \notin Lost
      BY <2>1, <2>8
    <3>2. QED  BY <2>6, <2>7, <2>8, <3>1
  <2>10. s[m] \in Partners(r, s[r], m)
    BY <2>8, SolutionLinked
  <2>11. leads[w][m][s[m]] \subseteq leads[v][r][s[r]]
    BY <1>3, <2>2, <2>4, <2>5, <2>6, <2>7, <2>10
  <2>12. QED  BY <2>3, <2>9, <2>11
<1>5. Found({}, q)
  BY <1>2, <1>4
<1>6. QED  BY <1>1, <1>3, <1>5

(* The greatest of some positions of a list.                               *)
LEMMA GreatestOf ==
    ASSUME NEW n \in Nat, NEW T \in SUBSET (1 .. n), T # {}
    PROVE  \E m \in T : \A k \in T : k <= m
<1> DEFINE U == {n - k : k \in T}
       Below == OpToRel(<, Nat)
<1>1. U \subseteq Nat /\ U # {}
  OBVIOUS
<1>2. \A x, y \in Nat : <<y, x>> \in Below <=> y < x
  BY DEF OpToRel
<1>3. IsWellFoundedOn(Below, Nat)
  BY NatLessThanWellFounded
<1> HIDE DEF U, Below
<1>4. PICK x \in U : \A y \in U : <<y, x>> \notin Below
  BY <1>1, <1>3, WFMin
<1>5. ASSUME NEW y \in U PROVE x <= y
  <2>1. x \in Nat /\ y \in Nat
    BY <1>1
  <2>2. <<y, x>> \notin Below
    BY <1>4
  <2>3. ~ (y < x)
    BY <1>2, <2>1, <2>2
  <2>4. QED  BY <2>1, <2>3
<1> USE DEF U
<1>6. PICK m \in T : x = n - m
  OBVIOUS
<1>7. ASSUME NEW k \in T PROVE k <= m
  <2>1. n - m <= n - k
    BY <1>5, <1>6
  <2>2. QED  BY <2>1
<1>8. QED  BY <1>7
(* make_tuples, from the last selected variable to the first.              *)
InFront(c, t) == <<c>> \o t

TupleEquation(f, qs) ==
    f = [i \in 1..Len(qs) |->
            IF i = Len(qs)
            THEN {<<c>> : c \in values[qs[i]]}
            ELSE { <<ct[1]>> \o ct[2] : ct \in
                     { ct \in values[qs[i]] \X f[i + 1] :
                         ValidTuple(qs[i], ct[1], SubSeq(qs, i + 1, Len(qs)), ct[2]) } }]

LEMMA InFrontTyped ==
    ASSUME NEW c \in Conds, NEW t \in Seq(Conds)
    PROVE  <<c>> \in Seq(Conds) /\ InFront(c, t) \in Seq(Conds)
BY ConcatProperties DEF InFront

LEMMA TuplesSolvable ==
    ASSUME TypeOK, NEW qs \in Seq(Qvars)
    PROVE  \E f : TupleEquation(f, qs)
<1> DEFINE U == (1 .. Len(qs)) \X Seq(Conds)
           Fits(i, c, t) == ValidTuple(qs[i], c, SubSeq(qs, i + 1, Len(qs)), t)
           Formed(X, i, u) ==
              IF i = Len(qs)
              THEN \E c \in values[qs[i]] : u = <<c>>
              ELSE \E c \in values[qs[i]] : \E t \in Seq(Conds) :
                      <<i + 1, t>> \in X /\ Fits(i, c, t) /\ u = InFront(c, t)
           H(X) == {u \in U : Formed(X, u[1], u[2])}
           G == [X \in SUBSET U |-> H(X)]
<1>1. G \in [SUBSET U -> SUBSET U]
  OBVIOUS
<1>2. ASSUME NEW X \in SUBSET U, NEW Y \in SUBSET U, X \subseteq Y
      PROVE  G[X] \subseteq G[Y]
  <2> HIDE DEF Fits
  <2>1. QED  BY <1>2
<1>3. PICK X \in SUBSET U : G[X] = X
  <2> HIDE DEF G, U
  <2>1. QED  BY <1>1, <1>2, FixedPoint
<1>4. /\ Len(qs) \in Nat
      /\ \A i \in 1 .. Len(qs) : values[qs[i]] \subseteq Conds
      /\ \A i \in 1 .. Len(qs) : i # Len(qs) => i + 1 \in 1 .. Len(qs)
  BY DEF TypeOK
<1> DEFINE f == [i \in 1..Len(qs) |-> {t \in Seq(Conds) : <<i, t>> \in X}]
           Pairs(i) == {ct \in values[qs[i]] \X f[i + 1] : Fits(i, ct[1], ct[2])}
           Body(i) ==
              IF i = Len(qs)
              THEN {<<c>> : c \in values[qs[i]]}
              ELSE {InFront(ct[1], ct[2]) : ct \in Pairs(i)}
<1>5. \A i \in 1..Len(qs) : f[i] = Body(i)
  <2>1. TAKE i \in 1..Len(qs)
  <2>2. ASSUME NEW u \in Seq(Conds) PROVE u \in f[i] <=> u \in Body(i)
    <3>1. <<i, u>> \in U
      OBVIOUS
    <3>2. <<i, u>> \in X <=> <<i, u>> \in H(X)
      BY <1>3
    <3>3. <<i, u>> \in H(X) <=> Formed(X, i, u)
      BY <3>1, Zenon
    <3>4. u \in f[i] <=> <<i, u>> \in X
      BY Zenon
    <3>5. i # Len(qs) => \A t : t \in f[i + 1] <=> t \in Seq(Conds) /\ <<i + 1, t>> \in X
      <4> HIDE DEF U, H, G
      <4>1. QED  BY <1>4
    <3> HIDE DEF f, H, G, U, Fits
    <3>6. Formed(X, i, u) <=> u \in Body(i)
      <4>1. CASE i = Len(qs)
        BY <4>1
      <4>2. CASE i # Len(qs)
        <5>1. Formed(X, i, u) <=>
                 \E c \in values[qs[i]] : \E t \in f[i + 1] : Fits(i, c, t) /\ u = InFront(c, t)
          BY <4>2, <3>5
        <5>2. u \in Body(i) <=>
                 \E c \in values[qs[i]] : \E t \in f[i + 1] : Fits(i, c, t) /\ u = InFront(c, t)
          <6>1. ASSUME NEW ct \in Pairs(i)
                PROVE  ct[1] \in values[qs[i]] /\ ct[2] \in f[i + 1] /\ Fits(i, ct[1], ct[2])
            OBVIOUS
          <6>2. ASSUME NEW c \in values[qs[i]], NEW t \in f[i + 1], Fits(i, c, t)
                PROVE  <<c, t>> \in Pairs(i) /\ <<c, t>>[1] = c /\ <<c, t>>[2] = t
            BY <6>2
          <6> HIDE DEF Pairs
          <6>3. u \in Body(i) <=> \E ct \in Pairs(i) : u = InFront(ct[1], ct[2])
            BY <4>2
          <6> HIDE DEF Body
          <6>4. ASSUME NEW c \in values[qs[i]], NEW t \in f[i + 1],
                       Fits(i, c, t), u = InFront(c, t)
                PROVE  u \in Body(i)
            <7>1. PICK ct \in Pairs(i) : ct[1] = c /\ ct[2] = t
              BY <6>2, <6>4
            <7>2. QED  BY <6>3, <6>4, <7>1
          <6>5. QED  BY <6>1, <6>3, <6>4
        <5>3. QED  BY <5>1, <5>2
      <4>3. QED  BY <4>1, <4>2
    <3> HIDE DEF Formed, Body
    <3>7. QED  BY <3>2, <3>3, <3>4, <3>6
  <2>3. f[i] \subseteq Seq(Conds)
    BY Zenon
  <2>4. Body(i) \subseteq Seq(Conds)
    <3>1. i # Len(qs) => f[i + 1] \subseteq Seq(Conds)
      <4> HIDE DEF U, H, G
      <4>1. QED  BY <1>4
    <3>2. \A c \in values[qs[i]] : <<c>> \in Seq(Conds)
      BY <1>4, InFrontTyped
    <3>3. \A ct \in Pairs(i) : i # Len(qs) => InFront(ct[1], ct[2]) \in Seq(Conds)
      <4> HIDE DEF f, Fits
      <4>1. \A ct \in Pairs(i) : ct[1] \in values[qs[i]] /\ ct[2] \in f[i + 1]
        OBVIOUS
      <4> HIDE DEF Pairs
      <4>2. QED  BY <1>4, <3>1, <4>1, InFrontTyped
    <3> HIDE DEF Pairs
    <3>4. QED  BY <3>2, <3>3
  <2> HIDE DEF f, Body
  <2>5. QED  BY <2>2, <2>3, <2>4
<1>6. TupleEquation(f, qs)
  <2>1. f = [i \in 1..Len(qs) |-> f[i]]
    OBVIOUS
  <2> DEFINE g == [i \in 1..Len(qs) |-> Body(i)]
  <2>2. [i \in 1..Len(qs) |-> f[i]] = g
    <3> HIDE DEF f, Body
    <3>1. QED  BY <1>5
  <2>3. f = g
    <3> HIDE DEF f, g
    <3>1. QED  BY <2>1, <2>2
  <2>4. QED  BY <2>3, Zenon DEF TupleEquation, InFront
<1>7. QED  BY <1>6

LEMMA TuplesAre ==
    ASSUME TypeOK, NEW qs \in Seq(Qvars)
    PROVE  \E f : /\ MakeTuples(qs) = f[1]
                  /\ \A i \in 1 .. Len(qs) : \A c \in values[qs[i]] :
                        /\ i = Len(qs) => <<c>> \in f[i]
                        /\ i # Len(qs) =>
                              \A t \in f[i + 1] :
                                 ValidTuple(qs[i], c, SubSeq(qs, i + 1, Len(qs)), t)
                                    => InFront(c, t) \in f[i]
                  /\ \A i \in 1 .. Len(qs) : \A u \in f[i] : \E c \in values[qs[i]] :
                        /\ i = Len(qs) => u = <<c>>
                        /\ i # Len(qs) =>
                              \E t \in f[i + 1] :
                                 /\ ValidTuple(qs[i], c, SubSeq(qs, i + 1, Len(qs)), t)
                                 /\ u = InFront(c, t)
<1> DEFINE f == CHOOSE g : TupleEquation(g, qs)
           Fits(i, c, t) == ValidTuple(qs[i], c, SubSeq(qs, i + 1, Len(qs)), t)
           Pairs(i) == {ct \in values[qs[i]] \X f[i + 1] : Fits(i, ct[1], ct[2])}
           Body(i) ==
              IF i = Len(qs)
              THEN {<<c>> : c \in values[qs[i]]}
              ELSE {InFront(ct[1], ct[2]) : ct \in Pairs(i)}
<1>1. TupleEquation(f, qs)
  BY TuplesSolvable
<1>2. MakeTuples(qs) = f[1]
  BY DEF MakeTuples, TupleEquation
<1> HIDE DEF f
<1>3. \A i \in 1 .. Len(qs) : f[i] = Body(i)
  <2>1. f = [i \in 1 .. Len(qs) |-> Body(i)]
    BY <1>1, Zenon DEF TupleEquation, InFront
  <2> HIDE DEF Body
  <2>2. QED  BY <2>1
<1>4. ASSUME NEW i \in 1 .. Len(qs), NEW c \in values[qs[i]]
      PROVE  /\ i = Len(qs) => <<c>> \in f[i]
             /\ i # Len(qs) => \A t \in f[i + 1] : Fits(i, c, t) => InFront(c, t) \in f[i]
  <2>1. CASE i = Len(qs)
    BY <1>3, <2>1
  <2>2. CASE i # Len(qs)
    <3>1. ASSUME NEW t \in f[i + 1], Fits(i, c, t) PROVE InFront(c, t) \in f[i]
      <4> HIDE DEF Fits
      <4>1. <<c, t>> \in Pairs(i) /\ <<c, t>>[1] = c /\ <<c, t>>[2] = t
        BY <3>1
      <4> HIDE DEF Pairs
      <4>2. InFront(c, t) \in Body(i)
        BY <2>2, <4>1
      <4> HIDE DEF Body
      <4>3. QED  BY <1>3, <4>2
    <3>2. QED  BY <2>2, <3>1
  <2>3. QED  BY <2>1, <2>2
<1>5. ASSUME NEW i \in 1 .. Len(qs), NEW u \in f[i]
      PROVE  \E c \in values[qs[i]] :
                /\ i = Len(qs) => u = <<c>>
                /\ i # Len(qs) => \E t \in f[i + 1] : Fits(i, c, t) /\ u = InFront(c, t)
  <2> HIDE DEF Fits
  <2>0. u \in Body(i)
    <3> HIDE DEF Body
    <3>1. QED  BY <1>3
  <2>1. CASE i = Len(qs)
    <3>1. \E c \in values[qs[i]] : u = <<c>>
      <4> HIDE DEF Pairs
      <4>1. QED  BY <2>0, <2>1
    <3>2. QED  BY <2>1, <3>1
  <2>2. CASE i # Len(qs)
    <3>1. PICK ct \in Pairs(i) : u = InFront(ct[1], ct[2])
      <4> HIDE DEF Pairs
      <4>1. QED  BY <2>0, <2>2
    <3>2. ct[1] \in values[qs[i]] /\ ct[2] \in f[i + 1] /\ Fits(i, ct[1], ct[2])
      OBVIOUS
    <3> HIDE DEF Pairs
    <3>3. QED  BY <2>2, <3>1, <3>2
  <2>3. QED  BY <2>1, <2>2
<1>6. QED  BY <1>2, <1>4, <1>5, Zenon

(* What a solution gives the selected variables from the i-th on.          *)
Chosen(s, qs, i) == [k \in 1 .. (Len(qs) - i + 1) |-> s[qs[i + k - 1]]]

LEMMA ChosenStep ==
    ASSUME NEW s \in [Qvars -> Conds], NEW qs \in Seq(Qvars), NEW i \in 1 .. Len(qs)
    PROVE  /\ i = Len(qs) => Chosen(s, qs, i) = <<s[qs[i]]>>
           /\ i # Len(qs) => Chosen(s, qs, i) = InFront(s[qs[i]], Chosen(s, qs, i + 1))
<1>1. Len(qs) \in Nat /\ \A j \in 1 .. Len(qs) : s[qs[j]] \in Conds
  OBVIOUS
<1>2. CASE i = Len(qs)
  BY <1>1, <1>2 DEF Chosen
<1>3. CASE i # Len(qs)
  <2>1. PICK n \in Nat : n = Len(qs) - i
    BY <1>1
  <2>2. PICK t : t = Chosen(s, qs, i + 1)
    OBVIOUS
  <2>3. t = [k \in 1 .. n |-> s[qs[i + k]]]
    BY <1>1, <2>1, <2>2 DEF Chosen
  <2>4. \A k \in 1 .. n : i + k \in 1 .. Len(qs)
    BY <1>1, <2>1
  <2>5. t \in Seq(Conds) /\ Len(t) = n
    BY <1>1, <2>3, <2>4
  <2>6. PICK c \in Conds : c = s[qs[i]]
    BY <1>1
  <2>7. /\ <<c>> \in Seq(Conds) /\ Len(<<c>>) = 1 /\ <<c>>[1] = c
    OBVIOUS
  <2>8. /\ <<c>> \o t \in Seq(Conds) /\ Len(<<c>> \o t) = n + 1
        /\ \A k \in 1 .. n + 1 : (<<c>> \o t)[k] = IF k <= 1 THEN <<c>>[k] ELSE t[k - 1]
    <3>1. PICK u \in Seq(Conds) : u = <<c>>
      BY <2>7
    <3>2. /\ u \o t \in Seq(Conds) /\ Len(u \o t) = Len(u) + Len(t)
          /\ \A k \in 1 .. Len(u) + Len(t) :
                (u \o t)[k] = IF k <= Len(u) THEN u[k] ELSE t[k - Len(u)]
      BY <2>5, ConcatProperties
    <3>3. Len(u) = 1 /\ Len(u) + Len(t) = n + 1
      BY <2>1, <2>5, <2>7, <3>1
    <3>4. QED  BY <3>1, <3>2, <3>3
  <2>9. Chosen(s, qs, i) = [k \in 1 .. n + 1 |-> s[qs[i + k - 1]]]
    BY <1>1, <2>1 DEF Chosen
  <2>10. \A k \in 1 .. n + 1 : (<<c>> \o t)[k] = s[qs[i + k - 1]]
    <3>1. TAKE k \in 1 .. n + 1
    <3>2. CASE k = 1
      BY <1>1, <2>6, <2>7, <2>8, <3>2
    <3>3. CASE k # 1
      <4>1. k - 1 \in 1 .. n /\ i + (k - 1) = i + k - 1
        BY <2>1, <3>3
      <4>2. (<<c>> \o t)[k] = t[k - 1]
        BY <2>1, <2>8, <3>3
      <4>3. t[k - 1] = s[qs[i + (k - 1)]]
        BY <2>3, <4>1
      <4>4. QED  BY <4>1, <4>2, <4>3
    <3>4. QED  BY <3>2, <3>3
  <2>11. \A k \in 1 .. n + 1 : s[qs[i + k - 1]] \in Conds
    BY <1>1, <2>1
  <2>12. Chosen(s, qs, i) \in Seq(Conds) /\ Len(Chosen(s, qs, i)) = n + 1
    BY <2>1, <2>9, <2>11
  <2>13. Chosen(s, qs, i) = <<c>> \o t
    BY <2>8, <2>9, <2>10, <2>12, SeqEqual
  <2>14. QED  BY <1>3, <2>2, <2>6, <2>13 DEF InFront
<1>4. QED  BY <1>2, <1>3

LEMMA TupleHolds ==
    ASSUME NoSolutionLost, TypeOK, NEW s \in solutions, NEW qs \in Seq(Qvars),
           qs # <<>>, \A i \in DOMAIN qs : qs[i] \in initialized
    PROVE  [i \in DOMAIN qs |-> s[qs[i]]] \in MakeTuples(qs)
<1>1. /\ s \in [Qvars -> Conds] /\ Len(qs) \in Nat /\ DOMAIN qs = 1 .. Len(qs)
      /\ \A i \in 1 .. Len(qs) : qs[i] \in Qvars /\ s[qs[i]] \in values[qs[i]]
  BY DEF TypeOK, Assignments, NoSolutionLost
<1>2. Len(qs) \in Nat /\ Len(qs) >= 1
  BY EmptySeq
<1>3. PICK f :
         /\ MakeTuples(qs) = f[1]
         /\ \A i \in 1 .. Len(qs) : \A c \in values[qs[i]] :
               /\ i = Len(qs) => <<c>> \in f[i]
               /\ i # Len(qs) =>
                     \A t \in f[i + 1] :
                        ValidTuple(qs[i], c, SubSeq(qs, i + 1, Len(qs)), t)
                           => InFront(c, t) \in f[i]
  BY TuplesAre
<1>4. ASSUME NEW i \in 1 .. Len(qs), i # Len(qs)
      PROVE  ValidTuple(qs[i], s[qs[i]], SubSeq(qs, i + 1, Len(qs)), Chosen(s, qs, i + 1))
  <2>1. PICK n \in Nat : n = Len(qs) - i
    BY <1>2
  <2>2. PICK rest : rest = SubSeq(qs, i + 1, Len(qs))
    OBVIOUS
  <2>3. rest = [k \in 1 .. n |-> qs[i + k]]
    BY <1>1, <2>1, <2>2
  <2>4. Chosen(s, qs, i + 1) = [k \in 1 .. n |-> s[qs[i + k]]]
    BY <1>1, <2>1 DEF Chosen
  <2>5. ASSUME NEW k \in 1 .. n
        PROVE  /\ rest[k] \in Qvars
               /\ Chosen(s, qs, i + 1)[k] = s[rest[k]]
    <3>1. i + k \in 1 .. Len(qs)
      BY <1>1, <2>1
    <3>2. QED  BY <1>1, <2>3, <2>4, <3>1
  <2>6. ASSUME NEW k \in 1 .. n, HasIndirectLinks(qs[i], rest[k])
        PROVE  s[rest[k]] \in IndirectLinks(qs[i], rest[k], s[qs[i]])
    BY <1>1, <2>5, <2>6, SolutionFound
  <2>7. DOMAIN rest = 1 .. n
    BY <2>3
  <2>8. QED  BY <2>2, <2>5, <2>6, <2>7 DEF ValidTuple
<1> DEFINE Missing == {i \in 1 .. Len(qs) : Chosen(s, qs, i) \notin f[i]}
<1>5. ASSUME Missing # {} PROVE FALSE
  <2>1. PICK i \in Missing : \A k \in Missing : k <= i
    <3>1. Missing \in SUBSET (1 .. Len(qs))
      OBVIOUS
    <3> HIDE DEF Missing
    <3>2. QED  BY <1>1, <1>5, <3>1, GreatestOf
  <2>2. i \in 1 .. Len(qs) /\ Chosen(s, qs, i) \notin f[i]
    OBVIOUS
  <2>3. CASE i = Len(qs)
    BY <1>1, <1>3, <2>2, <2>3, ChosenStep
  <2>4. CASE i # Len(qs)
    <3>1. i + 1 \in 1 .. Len(qs) /\ ~(i + 1 <= i)
      BY <1>2, <2>2, <2>4
    <3>2. Chosen(s, qs, i + 1) \in f[i + 1]
      BY <2>1, <3>1
    <3>3. InFront(s[qs[i]], Chosen(s, qs, i + 1)) \in f[i]
      BY <1>1, <1>3, <1>4, <2>2, <2>4, <3>2
    <3>4. Chosen(s, qs, i) = InFront(s[qs[i]], Chosen(s, qs, i + 1))
      BY <1>1, <2>2, <2>4, ChosenStep
    <3>5. QED  BY <2>2, <3>3, <3>4
  <2>5. QED  BY <2>3, <2>4
<1>6. 1 \in 1 .. Len(qs)
  BY <1>2
<1>7. Chosen(s, qs, 1) \in f[1]
  BY <1>5, <1>6
<1>8. Chosen(s, qs, 1) = [i \in DOMAIN qs |-> s[qs[i]]]
  BY <1>1 DEF Chosen
<1>9. QED  BY <1>3, <1>7, <1>8

(* Between calls make_tuples misses none of the answers to a selection,    *)
(* whatever the variables are linked to and however long the way from one  *)
(* to another.                                                             *)
THEOREM TuplesMissNothing == Spec => []TuplesComplete
<1>1. TypeOK /\ NoSolutionLost => TuplesComplete
  <2>1. SUFFICES ASSUME TypeOK, NoSolutionLost, NEW qs \in Answerable
                 PROVE  SolutionTuples(qs) \subseteq MakeTuples(qs)
    BY DEF TuplesComplete
  <2>2. /\ qs \in Seq(Qvars) /\ qs # <<>>
        /\ \A i \in DOMAIN qs : qs[i] \in initialized
    BY TuplesAssumption DEF Answerable
  <2>3. QED  BY <2>1, <2>2, TupleHolds DEF SolutionTuples
<1>2. QED  BY <1>1, TypeCorrect, NeverLosesASolution, PTL

-----------------------------------------------------------------------------
(* Forests.  L is a set of ordered pairs of variables.                     *)
EdgesOf(L) == {{l[1], l[2]} : l \in L}
Within(L, S) == {e \in EdgesOf(L) : e \subseteq S}
Forest(L) == \A S \in (SUBSET Qvars) \ {{}} : Cardinality(Within(L, S)) < Cardinality(S)

(* A set of variables with as many pairs inside as a tree on it has.       *)
Tight(L, S) == Cardinality(S) <= Cardinality(Within(L, S)) + 1

LEMMA ForestMeans == LinksFormForest <=> Forest(linked)
BY DEF LinksFormForest, Forest, Within, EdgesOf

LEMMA Inhabited ==
    ASSUME NEW S \in SUBSET Qvars, NEW x \in S PROVE S \in (SUBSET Qvars) \ {{}}
<1>1. S # {}
  OBVIOUS
<1>2. S \notin {{}}
  BY <1>1, Zenon
<1>3. QED  BY <1>2

LEMMA FiniteWithin ==
    ASSUME NEW L \in SUBSET (Qvars \X Qvars), NEW S \in SUBSET Qvars
    PROVE  /\ IsFiniteSet(S) /\ Cardinality(S) \in Nat
           /\ IsFiniteSet(Within(L, S)) /\ Cardinality(Within(L, S)) \in Nat
<1>1. IsFiniteSet(Qvars)
  BY TuplesAssumption
<1>2. IsFiniteSet(S) /\ IsFiniteSet(SUBSET Qvars)
  BY <1>1, FS_Subset, FS_SUBSET
<1>3. Within(L, S) \subseteq SUBSET Qvars
  BY DEF Within
<1>4. IsFiniteSet(Within(L, S))
  BY <1>2, <1>3, FS_Subset
<1>5. QED  BY <1>2, <1>4, FS_CardinalityType

(* A part of a forest is a forest.                                         *)
LEMMA PartOfForest ==
    ASSUME NEW M \in SUBSET (Qvars \X Qvars), Forest(M), NEW L \in SUBSET M
    PROVE  Forest(L)
<1>1. ASSUME NEW S \in (SUBSET Qvars) \ {{}}
      PROVE  Cardinality(Within(L, S)) < Cardinality(S)
  <2>1. Within(L, S) \subseteq Within(M, S)
    BY DEF Within, EdgesOf
  <2>2. IsFiniteSet(Within(M, S)) /\ Cardinality(Within(M, S)) \in Nat
        /\ Cardinality(Within(L, S)) \in Nat /\ Cardinality(S) \in Nat
    BY FiniteWithin
  <2>3. Cardinality(Within(L, S)) <= Cardinality(Within(M, S))
    BY <2>1, <2>2, FS_Subset
  <2>4. Cardinality(Within(M, S)) < Cardinality(S)
    BY DEF Forest
  <2>5. QED  BY <2>2, <2>3, <2>4
<1>2. QED  BY <1>1 DEF Forest

LEMMA NoLoops ==
    ASSUME NEW L \in SUBSET (Qvars \X Qvars), Forest(L), NEW l \in L
    PROVE  l[1] # l[2]
<1>1. SUFFICES ASSUME l[1] = l[2] PROVE FALSE
  OBVIOUS
<1>2. PICK S : S = {l[1]}
  OBVIOUS
<1>3. S \in (SUBSET Qvars) \ {{}} /\ S \in Within(L, S)
  <2>1. l[1] \in S /\ l[1] \in Qvars /\ S = {l[1], l[2]}
    BY <1>1, <1>2
  <2>2. S \in EdgesOf(L) /\ S \in SUBSET Qvars
    BY <1>2, <2>1 DEF EdgesOf
  <2>3. QED  BY <2>1, <2>2, Inhabited DEF Within
<1>4. Cardinality(S) = 1
  BY <1>2, FS_Singleton
<1>5. Cardinality(Within(L, S)) < 1 /\ Cardinality(Within(L, S)) \in Nat /\ IsFiniteSet(Within(L, S))
  BY <1>3, <1>4, FiniteWithin DEF Forest
<1>6. Within(L, S) = {}
  BY <1>5, FS_EmptySet
<1>7. QED  BY <1>3, <1>6

(* An edge more inside.                                                    *)
LEMMA OneMoreEdge ==
    ASSUME NEW L \in SUBSET (Qvars \X Qvars), NEW S \in SUBSET Qvars,
           NEW T \in SUBSET Qvars, S \subseteq T, NEW e \in Within(L, T), e \notin Within(L, S)
    PROVE  Cardinality(Within(L, S)) + 1 <= Cardinality(Within(L, T))
<1>1. IsFiniteSet(Within(L, S)) /\ Cardinality(Within(L, S)) \in Nat
      /\ IsFiniteSet(Within(L, T)) /\ Cardinality(Within(L, T)) \in Nat
  BY FiniteWithin
<1>2. Within(L, S) \cup {e} \subseteq Within(L, T)
  BY DEF Within
<1>3. /\ Cardinality(Within(L, S) \cup {e}) = Cardinality(Within(L, S)) + 1
      /\ IsFiniteSet(Within(L, S) \cup {e})
  BY <1>1, FS_AddElement
<1>4. Cardinality(Within(L, S) \cup {e}) <= Cardinality(Within(L, T))
  BY <1>1, <1>2, FS_Subset
<1>5. QED  BY <1>1, <1>3, <1>4

LEMMA TwoMoreEdges ==
    ASSUME NEW L \in SUBSET (Qvars \X Qvars), NEW S \in SUBSET Qvars,
           NEW T \in SUBSET Qvars, S \subseteq T, NEW e \in Within(L, T), e \notin Within(L, S),
           NEW f \in Within(L, T), f \notin Within(L, S), e # f
    PROVE  Cardinality(Within(L, S)) + 2 <= Cardinality(Within(L, T))
<1>1. IsFiniteSet(Within(L, S)) /\ Cardinality(Within(L, S)) \in Nat
      /\ IsFiniteSet(Within(L, T)) /\ Cardinality(Within(L, T)) \in Nat
  BY FiniteWithin
<1>2. PICK W : W = Within(L, S) \cup {e}
  OBVIOUS
<1>3. IsFiniteSet(W) /\ Cardinality(W) = Cardinality(Within(L, S)) + 1
  BY <1>1, <1>2, FS_AddElement
<1>4. IsFiniteSet(W \cup {f}) /\ Cardinality(W \cup {f}) = Cardinality(W) + 1
  BY <1>2, <1>3, FS_AddElement
<1>5. W \cup {f} \subseteq Within(L, T)
  BY <1>2 DEF Within
<1>6. Cardinality(W \cup {f}) <= Cardinality(Within(L, T))
  BY <1>1, <1>5, FS_Subset
<1>7. QED  BY <1>1, <1>3, <1>4, <1>6

(* A variable outside a tree of a forest is linked to one of its variables *)
(* at most, and the two together are a tree.                               *)
LEMMA OneNeighbour ==
    ASSUME NEW L \in SUBSET (Qvars \X Qvars), Forest(L),
           NEW S \in SUBSET Qvars, Tight(L, S), NEW v \in Qvars \ S,
           NEW u \in S, NEW w \in S, <<u, v>> \in L, <<w, v>> \in L
    PROVE  u = w
<1>1. SUFFICES ASSUME u # w PROVE FALSE
  OBVIOUS
<1>2. PICK T : T = S \cup {v}
  OBVIOUS
<1>3. T \in (SUBSET Qvars) \ {{}} /\ S \subseteq T
  <2>1. v \in T /\ T \in SUBSET Qvars /\ S \subseteq T
    BY <1>2
  <2>2. QED  BY <2>1, Inhabited
<1>4. {u, v} \in Within(L, T) /\ {w, v} \in Within(L, T)
  BY <1>2 DEF Within, EdgesOf
<1>5. {u, v} \notin Within(L, S) /\ {w, v} \notin Within(L, S) /\ {u, v} # {w, v}
  BY <1>1 DEF Within
<1>6. Cardinality(Within(L, S)) + 2 <= Cardinality(Within(L, T))
  BY <1>3, <1>4, <1>5, TwoMoreEdges
<1>7. Cardinality(T) = Cardinality(S) + 1
  BY <1>2, FiniteWithin, FS_AddElement
<1>8. Cardinality(Within(L, T)) < Cardinality(T)
  BY <1>3 DEF Forest
<1>9. /\ Cardinality(S) \in Nat /\ Cardinality(Within(L, S)) \in Nat
      /\ Cardinality(Within(L, T)) \in Nat
  BY <1>3, FiniteWithin
<1>10. QED  BY <1>6, <1>7, <1>8, <1>9 DEF Tight

LEMMA StaysTight ==
    ASSUME NEW L \in SUBSET (Qvars \X Qvars), NEW S \in SUBSET Qvars, Tight(L, S),
           NEW v \in Qvars \ S, NEW u \in S, <<u, v>> \in L
    PROVE  Tight(L, S \cup {v})
<1>1. PICK T : T = S \cup {v}
  OBVIOUS
<1>2. T \in SUBSET Qvars /\ S \subseteq T
  BY <1>1
<1>3. {u, v} \in Within(L, T) /\ {u, v} \notin Within(L, S)
  BY <1>1 DEF Within, EdgesOf
<1>4. Cardinality(Within(L, S)) + 1 <= Cardinality(Within(L, T))
  BY <1>2, <1>3, OneMoreEdge
<1>5. Cardinality(T) = Cardinality(S) + 1
  BY <1>1, FiniteWithin, FS_AddElement
<1>6. /\ Cardinality(S) \in Nat /\ Cardinality(Within(L, S)) \in Nat
      /\ Cardinality(Within(L, T)) \in Nat
  BY <1>2, FiniteWithin
<1>7. Tight(L, T)
  BY <1>4, <1>5, <1>6 DEF Tight
<1>8. QED  BY <1>1, <1>7

(* Both ends of a pair that a forest can still take are never in one tree. *)
LEMMA TreesApart ==
    ASSUME NEW L \in SUBSET (Qvars \X Qvars), NEW q \in Qvars, NEW p \in Qvars,
           <<q, p>> \notin L, <<p, q>> \notin L,
           NEW M \in SUBSET (Qvars \X Qvars), L \subseteq M, <<q, p>> \in M, Forest(M),
           NEW T \in SUBSET Qvars, Tight(L, T), q \in T
    PROVE  p \notin T
<1>1. SUFFICES ASSUME p \in T PROVE FALSE
  OBVIOUS
<1>2. {q, p} \notin EdgesOf(L)
  <2>1. ASSUME NEW l \in L, {l[1], l[2]} = {q, p} PROVE FALSE
    <3>1. l = <<l[1], l[2]>>
      OBVIOUS
    <3>2. (l[1] = q /\ l[2] = p) \/ (l[1] = p /\ l[2] = q)
      BY <2>1
    <3>3. QED  BY <3>1, <3>2
  <2>2. QED  BY <2>1 DEF EdgesOf
<1>3. Within(L, T) \cup {{q, p}} \subseteq Within(M, T)
  BY <1>1 DEF Within, EdgesOf
<1>4. /\ IsFiniteSet(Within(L, T)) /\ Cardinality(Within(L, T)) \in Nat
      /\ IsFiniteSet(Within(M, T)) /\ Cardinality(Within(M, T)) \in Nat
      /\ Cardinality(T) \in Nat
  BY FiniteWithin
<1>5. Cardinality(Within(L, T) \cup {{q, p}}) = Cardinality(Within(L, T)) + 1
  <2>1. {q, p} \notin Within(L, T)
    BY <1>2 DEF Within
  <2>2. QED  BY <1>4, <2>1, FS_AddElement
<1>6. Cardinality(Within(L, T) \cup {{q, p}}) <= Cardinality(Within(M, T))
  BY <1>3, <1>4, FS_Subset
<1>7. Cardinality(Within(M, T)) < Cardinality(T)
  <2>1. T \in (SUBSET Qvars) \ {{}}
    BY Inhabited
  <2>2. QED  BY <2>1 DEF Forest
<1>8. QED  BY <1>4, <1>5, <1>6, <1>7 DEF Tight
-----------------------------------------------------------------------------
(* Assignments along the links of a forest.  L are linked pairs, A the     *)
(* links of their conditions, V the conditions each variable has.          *)
Closed(L, T) == \A l \in L : l[1] \in T => l[2] \in T
Mirrored(L) == \A l \in L : <<l[2], l[1]>> \in L
Backed(L, A, V) ==
    \A l \in L : \A c \in V[l[1]] : \E d \in V[l[2]] :
        Arc(l[1], c, l[2], d) \in A /\ Arc(l[2], d, l[1], c) \in A
Consistent(L, A, V, T, g) ==
    /\ \A v \in T : g[v] \in V[v]
    /\ \A l \in L : l[1] \in T /\ l[2] \in T => Arc(l[1], g[l[1]], l[2], g[l[2]]) \in A

Agree(S, g, h) == \A x \in S : g[x] = h[x]

(* One variable more: its one neighbour in the tree has a partner for it.  *)
LEMMA TreeGrows ==
    ASSUME NEW L \in SUBSET (Qvars \X Qvars), Mirrored(L), Forest(L),
           NEW A, NEW V, Backed(L, A, V),
           NEW S \in SUBSET Qvars, Tight(L, S), NEW v \in Qvars \ S, V[v] \subseteq Conds,
           NEW u \in S, <<u, v>> \in L,
           NEW g \in Assignments, Consistent(L, A, V, S, g)
    PROVE  \E h \in Assignments : /\ \A x \in S : h[x] = g[x]
                                  /\ Consistent(L, A, V, S \cup {v}, h)
<1>1. PICK d \in V[v] : Arc(u, g[u], v, d) \in A /\ Arc(v, d, u, g[u]) \in A
  <2>1. PICK l \in L : l = <<u, v>>
    OBVIOUS
  <2>2. g[u] \in V[u] /\ l[1] = u /\ l[2] = v
    BY <2>1 DEF Consistent
  <2>3. QED  BY <2>1, <2>2 DEF Backed
<1>2. PICK h : h = [g EXCEPT ![v] = d]
  OBVIOUS
<1>3. /\ h \in Assignments /\ h[v] = d /\ \A x \in Qvars \ {v} : h[x] = g[x]
  BY <1>1, <1>2 DEF Assignments
<1>4. \A x \in S : h[x] = g[x]
  BY <1>3
<1>5. \A x \in S \cup {v} : h[x] \in V[x]
  BY <1>1, <1>3, <1>4 DEF Consistent
<1>6. ASSUME NEW l \in L, l[1] \in S \cup {v}, l[2] \in S \cup {v}
      PROVE  Arc(l[1], h[l[1]], l[2], h[l[2]]) \in A
  <2>1. l[1] # l[2] /\ l = <<l[1], l[2]>> /\ <<l[2], l[1]>> \in L
    BY NoLoops DEF Mirrored
  <2>2. CASE l[1] \in S /\ l[2] \in S
    BY <1>4, <2>2 DEF Consistent
  <2>3. CASE l[1] \in S /\ l[2] = v
    <3>1. l[1] = u
      BY <2>1, <2>3, OneNeighbour
    <3>2. QED  BY <1>1, <1>3, <1>4, <2>3, <3>1
  <2>4. CASE l[1] = v /\ l[2] \in S
    <3>1. l[2] = u
      BY <2>1, <2>4, OneNeighbour
    <3>2. QED  BY <1>1, <1>3, <1>4, <2>4, <3>1
  <2>5. QED  BY <1>6, <2>1, <2>2, <2>3, <2>4
<1>7. QED  BY <1>3, <1>4, <1>5, <1>6 DEF Consistent

(* A tree with consistent conditions grows until it is closed under the    *)
(* links.                                                                  *)
LEMMA TreeFrom ==
    ASSUME NEW I \in SUBSET Qvars,
           NEW L \in SUBSET (I \X I), Mirrored(L), Forest(L),
           NEW A, NEW V, Backed(L, A, V), \A v \in I : V[v] \subseteq Conds,
           NEW S \in SUBSET I, Tight(L, S),
           NEW g0 \in Assignments, Consistent(L, A, V, S, g0)
    PROVE  \E T \in SUBSET I : \E g \in Assignments :
               /\ S \subseteq T /\ Tight(L, T) /\ Closed(L, T)
               /\ Agree(S, g, g0)
               /\ Consistent(L, A, V, T, g)
<1> DEFINE Good(T, g) == /\ S \subseteq T /\ Tight(L, T)
                         /\ Agree(S, g, g0)
                         /\ Consistent(L, A, V, T, g)
           Trees == {T \in SUBSET I : \E g \in Assignments : Good(T, g)}
<1>1. L \in SUBSET (Qvars \X Qvars)
  OBVIOUS
<1>2. Good(S, g0)
  BY DEF Agree
<1>3. Trees \in SUBSET (SUBSET Qvars) /\ Trees # {}
  <2>1. S \in Trees
    BY <1>2
  <2>2. QED  BY <2>1
<1>4. PICK T \in Trees : \A W \in Trees : T \subseteq W => W = T
  <2> HIDE DEF Trees
  <2>1. QED  BY <1>3, LargestVisited
<1>5. T \in SUBSET I
  OBVIOUS
<1>6. PICK g \in Assignments : Good(T, g)
  OBVIOUS
<1>7. Closed(L, T)
  <2>1. SUFFICES ASSUME NEW l \in L, l[1] \in T, l[2] \notin T PROVE FALSE
    BY DEF Closed
  <2>2. PICK v : v = l[2]
    OBVIOUS
  <2>3. PICK u : u = l[1]
    OBVIOUS
  <2>4. l = <<u, v>> /\ u \in T /\ v \in I /\ v \in Qvars \ T
    BY <2>1, <2>2, <2>3
  <2>5. Tight(L, T) /\ Consistent(L, A, V, T, g) /\ S \subseteq T /\ Agree(S, g, g0)
    BY <1>6
  <2>6. T \in SUBSET Qvars /\ V[v] \subseteq Conds /\ <<u, v>> \in L
    BY <1>5, <2>4
  <2>7. PICK h \in Assignments : /\ \A x \in T : h[x] = g[x]
                                 /\ Consistent(L, A, V, T \cup {v}, h)
    <3> HIDE DEF Trees, Good
    <3>1. QED  BY <1>1, <2>4, <2>5, <2>6, TreeGrows
  <2>8. Tight(L, T \cup {v})
    <3> HIDE DEF Trees, Good
    <3>1. QED  BY <1>1, <2>4, <2>5, <2>6, StaysTight
  <2>9. Good(T \cup {v}, h)
    BY <2>5, <2>7, <2>8 DEF Agree
  <2>10. T \cup {v} \in SUBSET I
    BY <1>5, <2>4
  <2>11. T \cup {v} \in Trees
    BY <2>9, <2>10
  <2>12. QED
    <3> HIDE DEF Trees, Good
    <3>1. QED  BY <1>4, <2>4, <2>11
<1>8. QED  BY <1>5, <1>6, <1>7

(* One variable is a tree.                                                 *)
LEMMA OneIsTight ==
    ASSUME NEW L \in SUBSET (Qvars \X Qvars), NEW r \in Qvars PROVE Tight(L, {r})
<1>1. Cardinality({r}) = 1 /\ Cardinality(Within(L, {r})) \in Nat
  BY FS_Singleton, FiniteWithin
<1>2. QED  BY <1>1 DEF Tight

LEMMA OneIsConsistent ==
    ASSUME NEW L \in SUBSET (Qvars \X Qvars), Forest(L), NEW A, NEW V,
           NEW r \in Qvars, NEW e \in V[r], e \in Conds
    PROVE  /\ [x \in Qvars |-> e] \in Assignments
           /\ Consistent(L, A, V, {r}, [x \in Qvars |-> e])
<1>1. \A l \in L : ~(l[1] \in {r} /\ l[2] \in {r})
  BY NoLoops
<1>2. QED  BY <1>1 DEF Consistent, Assignments

(* Around every condition that is left there is a tree, closed under the   *)
(* links, with one condition for each of its variables that agrees with    *)
(* every link.                                                             *)
LEMMA TreeAround ==
    ASSUME NEW I \in SUBSET Qvars,
           NEW L \in SUBSET (I \X I), Mirrored(L), Forest(L),
           NEW A, NEW V, Backed(L, A, V), \A v \in I : V[v] \subseteq Conds,
           NEW r \in I, NEW e \in V[r]
    PROVE  \E T \in SUBSET I : \E g \in Assignments :
               /\ r \in T /\ Tight(L, T) /\ Closed(L, T)
               /\ g[r] = e /\ Consistent(L, A, V, T, g)
<1>1. L \in SUBSET (Qvars \X Qvars) /\ r \in Qvars /\ e \in Conds
  OBVIOUS
<1>2. PICK S \in SUBSET I : S = {r}
  OBVIOUS
<1>3. PICK g0 \in Assignments : g0[r] = e /\ Consistent(L, A, V, S, g0)
  BY <1>1, <1>2, OneIsConsistent DEF Assignments
<1>4. Tight(L, S)
  BY <1>1, <1>2, OneIsTight
<1>5. \E T \in SUBSET I : \E g \in Assignments :
         /\ S \subseteq T /\ Tight(L, T) /\ Closed(L, T)
         /\ Agree(S, g, g0)
         /\ Consistent(L, A, V, T, g)
  BY <1>3, <1>4, TreeFrom
<1>6. QED  BY <1>2, <1>3, <1>5 DEF Agree

(* Two connected parts of a forest: one that is closed under the links     *)
(* contains every tree that it meets.                                      *)
LEMMA TreesMeet ==
    ASSUME NEW L \in SUBSET (Qvars \X Qvars), Mirrored(L), Forest(L),
           NEW T \in SUBSET Qvars, Tight(L, T), NEW C \in SUBSET Qvars, Closed(L, C),
           NEW r \in T, r \in C
    PROVE  T \subseteq C
<1>1. PICK X, Y : X = T \cap C /\ Y = T \ C
  OBVIOUS
<1>2. SUFFICES ASSUME Y # {} PROVE FALSE
  BY <1>1
<1>3. /\ X \in (SUBSET Qvars) \ {{}} /\ Y \in (SUBSET Qvars) \ {{}}
      /\ X \cup Y = T /\ X \cap Y = {}
  <2>1. PICK y \in Y : TRUE
    BY <1>2
  <2>2. X \in SUBSET Qvars /\ Y \in SUBSET Qvars /\ r \in X /\ X \cup Y = T /\ X \cap Y = {}
    BY <1>1
  <2>3. QED  BY <2>1, <2>2, Inhabited
<1>4. Within(L, T) \subseteq Within(L, X) \cup Within(L, Y)
  <2>1. ASSUME NEW l \in L, {l[1], l[2]} \subseteq T
        PROVE  {l[1], l[2]} \subseteq X \/ {l[1], l[2]} \subseteq Y
    <3>1. PICK m \in L : m = <<l[2], l[1]>>
      BY DEF Mirrored
    <3>2. (l[1] \in C => l[2] \in C) /\ (l[2] \in C => l[1] \in C)
      BY <3>1 DEF Closed
    <3>3. QED  BY <1>1, <2>1, <3>2
  <2>2. QED  BY <2>1 DEF Within, EdgesOf
<1>5. /\ IsFiniteSet(Within(L, X)) /\ Cardinality(Within(L, X)) \in Nat
      /\ IsFiniteSet(Within(L, Y)) /\ Cardinality(Within(L, Y)) \in Nat
      /\ IsFiniteSet(X) /\ Cardinality(X) \in Nat /\ IsFiniteSet(Y) /\ Cardinality(Y) \in Nat
      /\ Cardinality(Within(L, T)) \in Nat
  BY <1>3, FiniteWithin
<1>6. PICK U : U = Within(L, X) \cup Within(L, Y)
  OBVIOUS
<1>7. /\ IsFiniteSet(U) /\ Cardinality(U) \in Nat
      /\ Cardinality(U) <= Cardinality(Within(L, X)) + Cardinality(Within(L, Y))
  <2>1. /\ IsFiniteSet(U)
        /\ Cardinality(U) = Cardinality(Within(L, X)) + Cardinality(Within(L, Y))
                               - Cardinality(Within(L, X) \cap Within(L, Y))
    BY <1>5, <1>6, FS_Union
  <2>2. Cardinality(Within(L, X) \cap Within(L, Y)) \in Nat
    BY <1>5, FS_Subset, FS_CardinalityType
  <2>3. QED  BY <1>5, <2>1, <2>2, FS_CardinalityType
<1>8. Cardinality(Within(L, T)) <= Cardinality(U)
  BY <1>4, <1>6, <1>7, FS_Subset
<1>9. Cardinality(T) = Cardinality(X) + Cardinality(Y)
  <2>1. Cardinality(X \cap Y) = 0
    BY <1>3, FS_EmptySet
  <2>2. Cardinality(X \cup Y) = Cardinality(X) + Cardinality(Y) - Cardinality(X \cap Y)
    BY <1>5, FS_Union
  <2>3. Cardinality(X \cup Y) = Cardinality(T)
    BY <1>3, Zenon
  <2>4. QED  BY <1>5, <2>1, <2>2, <2>3
<1>10. /\ Cardinality(Within(L, X)) < Cardinality(X)
       /\ Cardinality(Within(L, Y)) < Cardinality(Y)
  BY <1>3 DEF Forest
<1>11. Cardinality(T) <= Cardinality(Within(L, T)) + 1
  BY DEF Tight
<1>12. QED  BY <1>5, <1>7, <1>8, <1>9, <1>10, <1>11


(* No detour: variables of S that are linked at all, however long the way, *)
(* are linked through variables of S.  A part X of S that no pair leaves   *)
(* within S is what S has in common with a closed set of variables.        *)
NoDetour(L, S) ==
    \A X \in SUBSET S :
        (\A l \in L : (l[1] \in X /\ l[2] \in S) => l[2] \in X)
            => \E C \in SUBSET Qvars : Closed(L, C) /\ S \cap C = X

LEMMA TightPart ==
    ASSUME NEW L \in SUBSET (Qvars \X Qvars), Mirrored(L), Forest(L),
           NEW S \in SUBSET Qvars, NoDetour(L, S),
           NEW T \in SUBSET Qvars, Tight(L, T), Closed(L, T), NEW r \in S \cap T
    PROVE  Tight(L, S \cap T)
<1> DEFINE Parts == {X \in SUBSET (S \cap T) : r \in X /\ Tight(L, X)}
<1>1. Parts \in SUBSET (SUBSET Qvars) /\ Parts # {}
  <2>1. {r} \in Parts
    BY OneIsTight
  <2>2. QED  BY <2>1
<1>2. PICK X \in Parts : \A W \in Parts : X \subseteq W => W = X
  <2> HIDE DEF Parts
  <2>1. QED  BY <1>1, LargestVisited
<1>3. X \in SUBSET (S \cap T) /\ r \in X /\ Tight(L, X) /\ X \in SUBSET Qvars
  OBVIOUS
<1>4. ASSUME NEW l \in L, l[1] \in X, l[2] \in S PROVE l[2] \in X
  <2>1. l[2] \in T
    BY <1>3, <1>4 DEF Closed
  <2>2. SUFFICES ASSUME l[2] \notin X PROVE FALSE
    OBVIOUS
  <2>3. PICK W : W = X \cup {l[2]}
    OBVIOUS
  <2>4. Tight(L, W)
    <3>1. <<l[1], l[2]>> \in L /\ l[2] \in Qvars \ X
      BY <2>2
    <3>2. QED
      <4> HIDE DEF Parts
      <4>1. QED  BY <1>3, <1>4, <2>3, <3>1, StaysTight
  <2>5. W \in Parts
    BY <1>3, <1>4, <2>1, <2>3, <2>4
  <2>6. QED
    <3> HIDE DEF Parts
    <3>1. QED  BY <1>2, <2>2, <2>3, <2>5
<1>5. PICK C \in SUBSET Qvars : Closed(L, C) /\ S \cap C = X
  <2> HIDE DEF Parts
  <2>1. QED  BY <1>3, <1>4 DEF NoDetour
<1>6. T \subseteq C
  <2> HIDE DEF Parts
  <2>1. QED  BY <1>3, <1>5, TreesMeet
<1>7. X = S \cap T
  BY <1>3, <1>5, <1>6
<1>8. QED  BY <1>3, <1>7

(* Trees add up: when no variable is empty, conditions for some variables  *)
(* without detours that agree with every link among them are part of an    *)
(* assignment of all the variables that agrees with every link.            *)
LEMMA WholeFrom ==
    ASSUME NEW I \in SUBSET Qvars,
           NEW L \in SUBSET (I \X I), Mirrored(L), Forest(L),
           NEW A, NEW V, Backed(L, A, V), \A v \in I : V[v] \subseteq Conds /\ V[v] # {},
           NEW S \in SUBSET I, NoDetour(L, S),
           NEW g0 \in Assignments, Consistent(L, A, V, S, g0)
    PROVE  \E g \in Assignments : /\ Agree(S, g, g0)
                                  /\ Consistent(L, A, V, I, g)
<1> DEFINE Good(D, g) == /\ Closed(L, D) /\ Consistent(L, A, V, D, g)
                         /\ \A x \in S \cap D : g[x] = g0[x]
           Parts == {D \in SUBSET I : \E g \in Assignments : Good(D, g)}
<1>1. L \in SUBSET (Qvars \X Qvars)
  OBVIOUS
<1>2. Parts \in SUBSET (SUBSET Qvars) /\ Parts # {}
  <2>1. Good({}, g0)
    BY DEF Closed, Consistent
  <2>2. {} \in Parts
    BY <2>1
  <2>3. QED  BY <2>2
<1>3. PICK D \in Parts : \A W \in Parts : D \subseteq W => W = D
  <2> HIDE DEF Parts
  <2>1. QED  BY <1>2, LargestVisited
<1>4. D \in SUBSET I
  OBVIOUS
<1>5. PICK g \in Assignments : Good(D, g)
  OBVIOUS
<1>6. ASSUME NEW v \in I
      PROVE  \E T \in SUBSET I : \E k \in Assignments :
                /\ v \in T /\ Closed(L, T) /\ Consistent(L, A, V, T, k)
                /\ \A x \in S \cap T : k[x] = g0[x]
  <2> HIDE DEF Parts, Good
  <2>1. PICK d \in V[v] : TRUE
    OBVIOUS
  <2>2. PICK T \in SUBSET I, k \in Assignments :
           v \in T /\ Tight(L, T) /\ Closed(L, T) /\ Consistent(L, A, V, T, k)
    BY TreeAround
  <2>3. CASE S \cap T = {}
    BY <2>2, <2>3
  <2>4. CASE S \cap T # {}
    <3>1. PICK r \in S \cap T : TRUE
      BY <2>4
    <3>2. PICK R \in SUBSET I : R = S \cap T
      OBVIOUS
    <3>3. Tight(L, R)
      BY <1>1, <2>2, <3>1, <3>2, TightPart
    <3>4. Consistent(L, A, V, R, g0)
      BY <3>2 DEF Consistent
    <3>5. \E W \in SUBSET I : \E h \in Assignments :
             /\ R \subseteq W /\ Tight(L, W) /\ Closed(L, W)
             /\ Agree(R, h, g0)
             /\ Consistent(L, A, V, W, h)
      BY <3>3, <3>4, TreeFrom
    <3>6. PICK W \in SUBSET I, h \in Assignments :
             /\ R \subseteq W /\ Tight(L, W) /\ Closed(L, W)
             /\ Agree(R, h, g0)
             /\ Consistent(L, A, V, W, h)
      BY <3>5
    <3>7. r \in T /\ r \in W /\ T \in SUBSET Qvars /\ W \in SUBSET Qvars
      BY <3>1, <3>2, <3>6
    <3>8. T \subseteq W
      BY <1>1, <2>2, <3>6, <3>7, TreesMeet
    <3>9. W \subseteq T
      BY <1>1, <2>2, <3>6, <3>7, TreesMeet
    <3>10. v \in W /\ \A x \in S \cap W : h[x] = g0[x]
      BY <2>2, <3>2, <3>6, <3>8, <3>9 DEF Agree
    <3>11. QED  BY <3>6, <3>10
  <2>5. QED  BY <2>3, <2>4
<1>7. D = I
  <2>1. SUFFICES ASSUME D # I PROVE FALSE
    OBVIOUS
  <2>2. PICK v \in I : v \notin D
    BY <1>4, <2>1
  <2>3. PICK T \in SUBSET I, k \in Assignments :
           /\ v \in T /\ Closed(L, T) /\ Consistent(L, A, V, T, k)
           /\ \A x \in S \cap T : k[x] = g0[x]
    BY <1>6
  <2>4. PICK h : h = [x \in Qvars |-> IF x \in D THEN g[x] ELSE k[x]]
    OBVIOUS
  <2>5. /\ h \in Assignments /\ \A x \in D : h[x] = g[x]
        /\ \A x \in T \ D : h[x] = k[x]
    BY <1>4, <2>4 DEF Assignments
  <2>6. Closed(L, D) /\ Consistent(L, A, V, D, g) /\ \A x \in S \cap D : g[x] = g0[x]
    BY <1>5
  <2>7. \A x \in D \cup T : h[x] \in V[x]
    BY <2>3, <2>5, <2>6 DEF Consistent
  <2>8. ASSUME NEW l \in L, l[1] \in D \cup T, l[2] \in D \cup T
        PROVE  Arc(l[1], h[l[1]], l[2], h[l[2]]) \in A
    <3>1. CASE l[1] \in D
      <4>1. l[2] \in D
        BY <2>6, <3>1 DEF Closed
      <4>2. QED  BY <2>5, <2>6, <3>1, <4>1 DEF Consistent
    <3>2. CASE l[1] \notin D
      <4>1. PICK m \in L : m = <<l[2], l[1]>>
        BY DEF Mirrored
      <4>2. l[2] \notin D
        <5>1. m[1] = l[2] /\ m[2] = l[1]
          BY <4>1
        <5>2. QED  BY <2>6, <3>2, <5>1 DEF Closed
      <4>3. l[1] \in T \ D /\ l[2] \in T \ D
        BY <2>8, <3>2, <4>2
      <4>4. QED  BY <2>3, <2>5, <4>3 DEF Consistent
    <3>3. QED  BY <3>1, <3>2
  <2>9. Closed(L, D \cup T)
    BY <2>3, <2>6 DEF Closed
  <2>10. Consistent(L, A, V, D \cup T, h)
    BY <2>7, <2>8 DEF Consistent
  <2>11. \A x \in S \cap (D \cup T) : h[x] = g0[x]
    BY <2>3, <2>5, <2>6
  <2>12. Good(D \cup T, h)
    BY <2>9, <2>10, <2>11
  <2>13. D \cup T \in SUBSET I
    BY <1>4
  <2>14. D \cup T \in Parts
    BY <2>5, <2>12, <2>13
  <2>15. QED
    <3> HIDE DEF Parts, Good
    <3>1. QED  BY <1>3, <2>2, <2>3, <2>14
<1>8. Agree(S, g, g0)
  BY <1>5, <1>7 DEF Agree
<1>9. QED  BY <1>5, <1>7, <1>8

(* One variable is without detours, so every condition left belongs to an  *)
(* assignment of all the variables that agrees with every link.            *)
LEMMA WholeAssignment ==
    ASSUME NEW I \in SUBSET Qvars,
           NEW L \in SUBSET (I \X I), Mirrored(L), Forest(L),
           NEW A, NEW V, Backed(L, A, V), \A v \in I : V[v] \subseteq Conds /\ V[v] # {},
           NEW r \in I, NEW e \in V[r]
    PROVE  \E g \in Assignments : g[r] = e /\ Consistent(L, A, V, I, g)
<1>1. L \in SUBSET (Qvars \X Qvars) /\ r \in Qvars /\ e \in Conds
  OBVIOUS
<1>2. PICK S \in SUBSET I : S = {r}
  OBVIOUS
<1>3. PICK g0 \in Assignments : g0[r] = e /\ Consistent(L, A, V, S, g0)
  BY <1>1, <1>2, OneIsConsistent DEF Assignments
<1>4. NoDetour(L, S)
  <2>1. ASSUME NEW X \in SUBSET S
        PROVE  \E C \in SUBSET Qvars : Closed(L, C) /\ S \cap C = X
    <3>1. Closed(L, {}) /\ Closed(L, Qvars)
      BY <1>1 DEF Closed
    <3>2. CASE X = {}
      BY <3>1, <3>2
    <3>3. CASE X = S
      BY <1>1, <1>2, <3>1, <3>3
    <3>4. QED  BY <1>2, <2>1, <3>2, <3>3
  <2>2. QED  BY <2>1 DEF NoDetour
<1>5. \E g \in Assignments : Agree(S, g, g0) /\ Consistent(L, A, V, I, g)
  BY <1>3, <1>4, WholeFrom
<1>6. QED  BY <1>2, <1>3, <1>5 DEF Agree
-----------------------------------------------------------------------------
(* Steps of a cascade as they look from the set of frames: f is the        *)
(* innermost frame, R the set of the frames under it.  update_links is     *)
(* the outermost call whenever it is in progress.                          *)
OnlyLast(s) == \A i \in 1 .. Len(s) : s[i].op = "update_links" => i = Len(s)

Innermost(f, R) == /\ f \in AllFrames /\ FrameOK(f) /\ R \subseteq AllFrames
                   /\ Frames(stack) = {f} \cup R
                   /\ OnlyLast(stack) => OnlyLast(stack')

Removes(q, c, R) ==
    \/ /\ c \in values[q]
       /\ values' = [values EXCEPT ![q] = @ \ {c}]
       /\ valid' => valid /\ values[q] # {c}
       /\ Frames(stack') = {UnlinkFrame(q, c, LinkedTo(q))} \cup R
    \/ /\ c \notin values[q]
       /\ Frames(stack') = R
       /\ UNCHANGED <<values, valid>>

UpdateEffect(f, R) ==
    /\ f \in UpdateFrames /\ f.q \in initialized
    /\ \E c \in values[f.q] \ f.keep : c \in Conds /\ Removes(f.q, c, {f} \cup R)
    /\ UNCHANGED <<initialized, arcs, linked, solutions>>

UnlinkEffect(f, R) ==
    /\ f \in UnlinkFrames /\ f.q \in initialized /\ f.todo \subseteq LinkedTo(f.q)
    /\ \E p \in f.todo :
          /\ arcs' = arcs \ LinksOf(f.q, f.c, p)
          /\ Frames(stack') = {BreakFrame({Rev(a) : a \in LinksOf(f.q, f.c, p)}),
                               UnlinkFrame(f.q, f.c, f.todo \ {p})} \cup R
    /\ UNCHANGED <<initialized, values, linked, valid, solutions>>

BreakEffect(f, R) ==
    /\ f \in BreakFrames /\ \A a \in f.todo : a \in Arcs /\ HasLink(a[1], a[3])
    /\ \E a \in f.todo :
          /\ arcs' = arcs \ {a}
          /\ \/ /\ Partners(a[1], a[2], a[3]) \subseteq {a[4]}
                /\ Removes(a[1], a[2], {BreakFrame(f.todo \ {a})} \cup R)
             \/ /\ ~(Partners(a[1], a[2], a[3]) \subseteq {a[4]})
                /\ Frames(stack') = {BreakFrame(f.todo \ {a})} \cup R
                /\ UNCHANGED <<values, valid>>
    /\ UNCHANGED <<initialized, linked, solutions>>

BothEffect(f, R) ==
    /\ f \in BothFrames /\ \A a \in f.todo : a \in Arcs /\ HasLink(a[1], a[3])
    /\ \E a \in f.todo :
          Frames(stack') = {BreakFrame({a}), BreakFrame({Rev(a)}), BothFrame(f.todo \ {a})} \cup R
    /\ UNCHANGED <<initialized, values, arcs, linked, valid, solutions>>

RegisterEffect(f, R) ==
    /\ f \in RegisterFrames
    /\ OnlyLast(stack) => R = {}
    /\ linked' = linked \cup {<<f.q, f.p>>, <<f.p, f.q>>}
    /\ Frames(stack') = R
    /\ UNCHANGED <<initialized, values, arcs, valid, solutions>>

ReturnEffect(f, R) ==
    /\ Finished(f)
    /\ Frames(stack') = R
    /\ UNCHANGED <<initialized, values, arcs, linked, valid, solutions>>

LEMMA OnlyLastPush ==
    ASSUME NEW u \in Seq(AllFrames), \A f \in Frames(u) : f.op # "update_links",
           NEW s \in Seq(AllFrames), OnlyLast(s), NEW t, t = u \o s
    PROVE  OnlyLast(t)
<1>1. /\ Len(u) \in Nat /\ Len(s) \in Nat /\ DOMAIN u = 1 .. Len(u)
      /\ Len(t) = Len(u) + Len(s)
      /\ \A i \in 1 .. Len(u) + Len(s) :
            t[i] = IF i <= Len(u) THEN u[i] ELSE s[i - Len(u)]
  BY ConcatProperties, LenProperties
<1>2. ASSUME NEW i \in 1 .. Len(t), t[i].op = "update_links"
      PROVE  i = Len(t)
  <2>1. CASE i <= Len(u)
    <3>1. i \in 1 .. Len(u) /\ t[i] = u[i]
      BY <1>1, <2>1
    <3>2. u[i] \in Frames(u)
      BY <1>1, <3>1 DEF Frames
    <3>3. QED  BY <1>2, <3>1, <3>2
  <2>2. CASE ~(i <= Len(u))
    <3>1. i - Len(u) \in 1 .. Len(s) /\ t[i] = s[i - Len(u)]
      BY <1>1, <2>2
    <3>2. i - Len(u) = Len(s)
      BY <1>2, <3>1 DEF OnlyLast
    <3>3. QED  BY <1>1, <3>2
  <2>3. QED  BY <2>1, <2>2
<1>3. QED  BY <1>2 DEF OnlyLast

LEMMA OnlyLastTail ==
    ASSUME NEW s \in Seq(AllFrames), s # <<>>, OnlyLast(s)
    PROVE  /\ OnlyLast(Tail(s))
           /\ Head(s).op = "update_links" => Frames(Tail(s)) = {}
<1>1. /\ Head(s) = s[1] /\ Len(Tail(s)) = Len(s) - 1 /\ Tail(s) \in Seq(AllFrames)
      /\ \A i \in 1 .. Len(Tail(s)) : Tail(s)[i] = s[i + 1]
  BY HeadTailProperties
<1>2. PICK n \in Nat : n = Len(s)
  BY LenProperties
<1>3. n >= 1 /\ Len(Tail(s)) = n - 1 /\ DOMAIN Tail(s) = 1 .. n - 1
  BY <1>1, <1>2, LenProperties, EmptySeq
<1>4. OnlyLast(Tail(s))
  <2>1. ASSUME NEW i \in 1 .. n - 1, Tail(s)[i].op = "update_links"
        PROVE  i = n - 1
    <3>1. i + 1 \in 1 .. n /\ s[i + 1].op = "update_links"
      <4>1. i + 1 \in 1 .. n
        BY <1>3
      <4>2. Tail(s)[i] = s[i + 1]
        BY <1>1, <1>3
      <4>3. QED  BY <2>1, <4>1, <4>2, Zenon
    <3>2. i + 1 = n
      BY <1>2, <3>1 DEF OnlyLast
    <3>3. QED  BY <3>2
  <2>2. QED  BY <1>3, <2>1 DEF OnlyLast
<1>5. ASSUME Head(s).op = "update_links" PROVE Frames(Tail(s)) = {}
  <2>1. 1 \in 1 .. n
    BY <1>3
  <2>2. n = 1
    BY <1>1, <1>2, <1>5, <2>1 DEF OnlyLast
  <2>3. DOMAIN Tail(s) = {}
    BY <1>3, <2>2
  <2>4. QED  BY <2>3 DEF Frames
<1>6. QED  BY <1>4, <1>5

LEMMA OnlyLastPushOne ==
    ASSUME NEW s \in Seq(AllFrames), OnlyLast(s), NEW f \in AllFrames, f.op # "update_links",
           NEW t, t = <<f>> \o s
    PROVE  OnlyLast(t)
<1>1. <<f>> \in Seq(AllFrames) /\ Frames(<<f>>) = {f}
  BY FramesShort
<1>2. \A g \in Frames(<<f>>) : g.op # "update_links"
  BY <1>1
<1>3. QED  BY <1>1, <1>2, OnlyLastPush

LEMMA OnlyLastPushTwo ==
    ASSUME NEW s \in Seq(AllFrames), OnlyLast(s),
           NEW f \in AllFrames, f.op # "update_links",
           NEW g \in AllFrames, g.op # "update_links",
           NEW t, t = <<f, g>> \o s
    PROVE  OnlyLast(t)
<1>1. <<f, g>> \in Seq(AllFrames) /\ Frames(<<f, g>>) = {f, g}
  BY FramesShort
<1>2. \A k \in Frames(<<f, g>>) : k.op # "update_links"
  BY <1>1
<1>3. QED  BY <1>1, <1>2, OnlyLastPush

LEMMA RemoveEffect ==
    ASSUME NEW q \in Qvars, NEW c \in Conds, NEW rest \in Seq(AllFrames),
           RemoveCondition(q, c, rest)
    PROVE  /\ Removes(q, c, Frames(rest))
           /\ OnlyLast(rest) => OnlyLast(stack')
<1>1. PICK f : f = UnlinkFrame(q, c, LinkedTo(q))
  OBVIOUS
<1>2. f \in AllFrames /\ f.op # "update_links"
  <2>1. LinkedTo(q) \in SUBSET Qvars
    BY DEF LinkedTo
  <2>2. QED  BY <1>1, <2>1, FrameMade DEF UnlinkFrame
<1>3. CASE c \in values[q]
  <2>1. /\ values' = [values EXCEPT ![q] = @ \ {c}]
        /\ valid' = (valid /\ values[q] # {c})
        /\ stack' = <<f>> \o rest
    BY <1>1, <1>3 DEF RemoveCondition
  <2>2. Frames(stack') = {f} \cup Frames(rest)
    BY <1>2, <2>1, PushOne, Zenon
  <2>3. OnlyLast(rest) => OnlyLast(stack')
    BY <1>2, <2>1, OnlyLastPushOne
  <2>4. QED  BY <1>1, <1>3, <2>1, <2>2, <2>3 DEF Removes
<1>4. CASE c \notin values[q]
  BY <1>4 DEF RemoveCondition, Removes
<1>5. QED  BY <1>3, <1>4

(* The innermost frame of a step, before the step is looked at.            *)
LEMMA InnermostFrame ==
    ASSUME TypeOK, stack # <<>>, OnlyLast(stack) => OnlyLast(stack')
    PROVE  Innermost(Head(stack), Frames(Tail(stack)))
<1>1. Frames(stack) \subseteq AllFrames
  BY DEF TypeOK, Frames
<1>2. QED  BY <1>1, HeadTyped DEF Innermost
LEMMA UpdateStepEffect ==
    ASSUME TypeOK, UpdateStep
    PROVE  \E f, R : Innermost(f, R) /\ UpdateEffect(f, R)
<1>1. PICK f : f = Head(stack)
  OBVIOUS
<1>2. /\ stack # <<>> /\ f.op = "update_results"
      /\ UNCHANGED <<initialized, arcs, linked, solutions>>
  BY <1>1 DEF UpdateStep, Top
<1>3. PICK c \in values[f.q] \ f.keep : RemoveCondition(f.q, c, stack)
  BY <1>1 DEF UpdateStep
<1>4. /\ f \in UpdateFrames /\ FrameOK(f)
      /\ Frames(stack) = {f} \cup Frames(Tail(stack)) /\ stack \in Seq(AllFrames)
  BY <1>1, <1>2, HeadTyped, FrameKinds DEF TypeOK
<1>5. f.q \in initialized /\ f.q \in Qvars /\ c \in Conds
  BY <1>2, <1>3, <1>4 DEF FrameOK, TypeOK
<1>6. Removes(f.q, c, Frames(stack)) /\ (OnlyLast(stack) => OnlyLast(stack'))
  BY <1>3, <1>4, <1>5, RemoveEffect
<1>7. Removes(f.q, c, {f} \cup Frames(Tail(stack)))
  BY <1>4, <1>6
<1>8. UpdateEffect(f, Frames(Tail(stack)))
  BY <1>2, <1>3, <1>4, <1>5, <1>7 DEF UpdateEffect
<1>9. Innermost(f, Frames(Tail(stack)))
  BY <1>1, <1>2, <1>6, InnermostFrame
<1>10. QED  BY <1>8, <1>9

LEMMA UnlinkStepEffect ==
    ASSUME TypeOK, UnlinkStep
    PROVE  \E f, R : Innermost(f, R) /\ UnlinkEffect(f, R)
<1>1. PICK f : f = Head(stack)
  OBVIOUS
<1>2. /\ stack # <<>> /\ f.op = "remove_condition"
      /\ UNCHANGED <<initialized, values, linked, valid, solutions>>
  BY <1>1 DEF UnlinkStep, Top
<1>3. PICK p \in f.todo :
         /\ arcs' = arcs \ LinksOf(f.q, f.c, p)
         /\ stack' = << BreakFrame({Rev(a) : a \in LinksOf(f.q, f.c, p)}),
                        UnlinkFrame(f.q, f.c, f.todo \ {p}) >> \o Tail(stack)
  BY <1>1 DEF UnlinkStep
<1>4. /\ f \in UnlinkFrames /\ FrameOK(f) /\ Tail(stack) \in Seq(AllFrames)
      /\ stack \in Seq(AllFrames)
  BY <1>1, <1>2, HeadTyped, FrameKinds DEF TypeOK
<1>5. f.q \in Qvars /\ f.c \in Conds /\ f.todo \in SUBSET Qvars
      /\ f.q \in initialized /\ f.todo \subseteq LinkedTo(f.q)
  BY <1>2, <1>4 DEF UnlinkFrames, FrameOK
<1>6. PICK g, h : /\ g = BreakFrame({Rev(a) : a \in LinksOf(f.q, f.c, p)})
                  /\ h = UnlinkFrame(f.q, f.c, f.todo \ {p})
  OBVIOUS
<1>7. /\ g \in AllFrames /\ g.op # "update_links"
      /\ h \in AllFrames /\ h.op # "update_links"
  <2>1. {Rev(a) : a \in LinksOf(f.q, f.c, p)} \in SUBSET Arcs
    BY DEF LinksOf, LinksBetween, Rev, Arcs, TypeOK
  <2>2. QED  BY <1>5, <1>6, <2>1, FrameMade DEF BreakFrame, UnlinkFrame
<1>8. stack' = <<g, h>> \o Tail(stack)
  BY <1>3, <1>6
<1>9. Frames(stack') = {g, h} \cup Frames(Tail(stack))
  BY <1>4, <1>7, <1>8, PushTwo, Zenon
<1>10. OnlyLast(stack) => OnlyLast(stack')
  BY <1>2, <1>4, <1>7, <1>8, OnlyLastTail, OnlyLastPushTwo
<1>11. UnlinkEffect(f, Frames(Tail(stack)))
  BY <1>2, <1>3, <1>4, <1>5, <1>6, <1>9 DEF UnlinkEffect
<1>12. Innermost(f, Frames(Tail(stack)))
  BY <1>1, <1>2, <1>10, InnermostFrame
<1>13. QED  BY <1>11, <1>12

LEMMA BreakStepEffect ==
    ASSUME TypeOK, BreakStep
    PROVE  \E f, R : Innermost(f, R) /\ BreakEffect(f, R)
<1>1. PICK f : f = Head(stack)
  OBVIOUS
<1>2. /\ stack # <<>> /\ f.op = "break_link"
      /\ UNCHANGED <<initialized, linked, solutions>>
  BY <1>1 DEF BreakStep, Top
<1>3. /\ f \in BreakFrames /\ FrameOK(f) /\ Tail(stack) \in Seq(AllFrames)
      /\ stack \in Seq(AllFrames)
  BY <1>1, <1>2, HeadTyped, FrameKinds DEF TypeOK
<1>4. PICK a \in f.todo :
         LET rest == <<BreakFrame(f.todo \ {a})>> \o Tail(stack)
         IN  /\ arcs' = arcs \ {a}
             /\ IF Partners(a[1], a[2], a[3]) \subseteq {a[4]}
                THEN RemoveCondition(a[1], a[2], rest)
                ELSE stack' = rest /\ UNCHANGED <<values, valid>>
  BY <1>1, Zenon DEF BreakStep
<1>5. \A b \in f.todo : b \in Arcs /\ HasLink(b[1], b[3])
  BY <1>2, <1>3 DEF FrameOK, BreakFrames
<1>6. a[1] \in Qvars /\ a[2] \in Conds
  BY <1>5 DEF Arcs
<1>7. PICK g : g = BreakFrame(f.todo \ {a})
  OBVIOUS
<1>8. g \in AllFrames /\ g.op # "update_links"
  <2>1. f.todo \ {a} \in SUBSET Arcs
    BY <1>5
  <2>2. QED  BY <1>7, <2>1, FrameMade DEF BreakFrame
<1>9. PICK rest : rest = <<g>> \o Tail(stack)
  OBVIOUS
<1>10. /\ rest \in Seq(AllFrames) /\ Frames(rest) = {g} \cup Frames(Tail(stack))
       /\ OnlyLast(stack) => OnlyLast(rest)
  <2>1. rest \in Seq(AllFrames) /\ Frames(rest) = {g} \cup Frames(Tail(stack))
    BY <1>3, <1>8, <1>9, PushOne, Zenon
  <2>2. OnlyLast(stack) => OnlyLast(rest)
    BY <1>2, <1>3, <1>8, <1>9, OnlyLastTail, OnlyLastPushOne
  <2>3. QED  BY <2>1, <2>2
<1>11. PICK last \in BOOLEAN : last = (Partners(a[1], a[2], a[3]) \subseteq {a[4]})
  OBVIOUS
<1>12. IF last THEN RemoveCondition(a[1], a[2], rest)
               ELSE stack' = rest /\ UNCHANGED <<values, valid>>
  BY <1>4, <1>7, <1>9, <1>11, Zenon
<1>13. CASE last
  <2>1. RemoveCondition(a[1], a[2], rest)
    BY <1>12, <1>13
  <2>2. Removes(a[1], a[2], Frames(rest)) /\ (OnlyLast(rest) => OnlyLast(stack'))
    BY <1>6, <1>10, <2>1, RemoveEffect
  <2>3. Removes(a[1], a[2], {g} \cup Frames(Tail(stack)))
    BY <1>10, <2>2
  <2>4. BreakEffect(f, Frames(Tail(stack)))
    BY <1>2, <1>3, <1>4, <1>5, <1>7, <1>11, <1>13, <2>3, Zenon DEF BreakEffect
  <2>5. Innermost(f, Frames(Tail(stack)))
    BY <1>1, <1>2, <1>10, <2>2, InnermostFrame
  <2>6. QED  BY <2>4, <2>5
<1>14. CASE ~last
  <2>1. stack' = rest /\ UNCHANGED <<values, valid>>
    BY <1>12, <1>14
  <2>2. Frames(stack') = {g} \cup Frames(Tail(stack))
    BY <1>10, <2>1
  <2>3. BreakEffect(f, Frames(Tail(stack)))
    BY <1>2, <1>3, <1>4, <1>5, <1>7, <1>11, <1>14, <2>1, <2>2, Zenon DEF BreakEffect
  <2>4. Innermost(f, Frames(Tail(stack)))
    BY <1>1, <1>2, <1>10, <2>1, InnermostFrame
  <2>5. QED  BY <2>3, <2>4
<1>15. QED  BY <1>13, <1>14

LEMMA BreakBothStepEffect ==
    ASSUME TypeOK, BreakBothStep
    PROVE  \E f, R : Innermost(f, R) /\ BothEffect(f, R)
<1>1. PICK f : f = Head(stack)
  OBVIOUS
<1>2. /\ stack # <<>> /\ f.op = "break_both_links"
      /\ UNCHANGED <<initialized, values, arcs, linked, valid, solutions>>
  BY <1>1 DEF BreakBothStep, Top
<1>3. /\ f \in BothFrames /\ FrameOK(f) /\ Tail(stack) \in Seq(AllFrames)
      /\ stack \in Seq(AllFrames)
  BY <1>1, <1>2, HeadTyped, FrameKinds DEF TypeOK
<1>4. PICK a \in f.todo :
         stack' = << BreakFrame({a}), BreakFrame({Rev(a)}), BothFrame(f.todo \ {a}) >>
                     \o Tail(stack)
  BY <1>1, Zenon DEF BreakBothStep
<1>5. /\ \A b \in f.todo : b \in Arcs /\ HasLink(b[1], b[3])
      /\ Rev(a) \in Arcs
  BY <1>2, <1>3, RevRev DEF FrameOK, BothFrames
<1>6. PICK g, h, k : /\ g = BreakFrame({a}) /\ h = BreakFrame({Rev(a)})
                     /\ k = BothFrame(f.todo \ {a})
  OBVIOUS
<1>7. /\ g \in AllFrames /\ h \in AllFrames /\ k \in AllFrames
      /\ g.op # "update_links" /\ h.op # "update_links" /\ k.op # "update_links"
  <2>1. {a} \in SUBSET Arcs /\ {Rev(a)} \in SUBSET Arcs /\ f.todo \ {a} \in SUBSET Arcs
    BY <1>5
  <2>2. QED  BY <1>6, <2>1, FrameMade DEF BreakFrame, BothFrame
<1>8. <<g, h, k>> \in Seq(AllFrames) /\ Frames(<<g, h, k>>) = {g, h, k}
  BY <1>7, FramesThree, Zenon
<1>9. stack' = <<g, h, k>> \o Tail(stack)
  BY <1>4, <1>6
<1>10. Frames(stack') = {g, h, k} \cup Frames(Tail(stack))
  BY <1>3, <1>8, <1>9, PushAll, Zenon
<1>11. OnlyLast(stack) => OnlyLast(stack')
  <2>1. \A m \in Frames(<<g, h, k>>) : m.op # "update_links"
    BY <1>7, <1>8
  <2>2. QED  BY <1>2, <1>3, <1>8, <1>9, <2>1, OnlyLastTail, OnlyLastPush
<1>12. BothEffect(f, Frames(Tail(stack)))
  BY <1>2, <1>3, <1>5, <1>6, <1>10 DEF BothEffect
<1>13. Innermost(f, Frames(Tail(stack)))
  BY <1>1, <1>2, <1>11, InnermostFrame
<1>14. QED  BY <1>12, <1>13

LEMMA RegisterStepEffect ==
    ASSUME TypeOK, RegisterStep
    PROVE  \E f, R : Innermost(f, R) /\ RegisterEffect(f, R)
<1>1. PICK f : f = Head(stack)
  OBVIOUS
<1>2. /\ stack # <<>> /\ f.op = "update_links"
      /\ linked' = linked \cup {<<f.q, f.p>>, <<f.p, f.q>>}
      /\ stack' = Tail(stack)
      /\ UNCHANGED <<initialized, values, arcs, valid, solutions>>
  BY <1>1 DEF RegisterStep, Top
<1>3. f \in RegisterFrames /\ stack \in Seq(AllFrames)
  BY <1>1, <1>2, HeadTyped, FrameKinds DEF TypeOK
<1>4. /\ OnlyLast(stack) => OnlyLast(stack')
      /\ OnlyLast(stack) => Frames(Tail(stack)) = {}
  BY <1>1, <1>2, <1>3, OnlyLastTail
<1>5. RegisterEffect(f, Frames(Tail(stack)))
  BY <1>2, <1>3, <1>4 DEF RegisterEffect
<1>6. Innermost(f, Frames(Tail(stack)))
  BY <1>1, <1>2, <1>4, InnermostFrame
<1>7. QED  BY <1>5, <1>6

LEMMA ReturnEffects ==
    ASSUME TypeOK, Return
    PROVE  \E f, R : Innermost(f, R) /\ ReturnEffect(f, R)
<1>1. /\ stack # <<>> /\ Finished(Head(stack)) /\ stack' = Tail(stack)
      /\ UNCHANGED <<initialized, values, arcs, linked, valid, solutions>>
  BY DEF Return
<1>2. OnlyLast(stack) => OnlyLast(stack')
  BY <1>1, OnlyLastTail DEF TypeOK
<1>3. Innermost(Head(stack), Frames(Tail(stack)))
  BY <1>1, <1>2, InnermostFrame
<1>4. ReturnEffect(Head(stack), Frames(Tail(stack)))
  BY <1>1 DEF ReturnEffect
<1>5. QED  BY <1>3, <1>4

LEMMA CascadeEffect ==
    ASSUME TypeOK, Cascade
    PROVE  \E f, R :
               /\ Innermost(f, R)
               /\ \/ UpdateEffect(f, R) \/ UnlinkEffect(f, R) \/ BreakEffect(f, R)
                  \/ BothEffect(f, R) \/ RegisterEffect(f, R) \/ ReturnEffect(f, R)
BY UpdateStepEffect, UnlinkStepEffect, BreakStepEffect, BreakBothStepEffect,
   RegisterStepEffect, ReturnEffects, Zenon DEF Cascade
-----------------------------------------------------------------------------
(* Requests as they look from the set of frames, empty until then.         *)
FreshEffect(q, new) ==
    /\ q \in Qvars \ initialized /\ new \subseteq Conds
    /\ initialized' = initialized \cup {q}
    /\ values' = [values EXCEPT ![q] = new]
    /\ solutions' = {s \in solutions : s[q] \in new}
    /\ Frames(stack') = {}
    /\ UNCHANGED <<arcs, linked, valid>>

NarrowEffect(q, new) ==
    /\ q \in initialized /\ new \subseteq Conds
    /\ solutions' = {s \in solutions : s[q] \in new}
    /\ Frames(stack') = {UpdateFrame(q, new)}
    /\ UNCHANGED <<initialized, values, arcs, linked, valid>>

InvalidEffect ==
    /\ ~valid'
    /\ Frames(stack') = {}
    /\ UNCHANGED <<initialized, values, arcs, linked>>

LinkTyped(q, p, rel) ==
    /\ q \in Qvars /\ p \in Qvars /\ q # p /\ rel \in SUBSET (Conds \X Conds)

OldLinksEffect(q, p, rel) ==
    /\ LinkTyped(q, p, rel) /\ HasLink(q, p)
    /\ initialized' = initialized \cup {q, p}
    /\ values' = ValuesFor(q, p)
    /\ solutions' = Surviving(q, p, rel)
    /\ Frames(stack') = {BothFrame({a \in LinksBetween(q, p) : <<a[2], a[4]>> \notin rel})}
    /\ UNCHANGED <<arcs, linked, valid>>

Accepted(q, p, rel) == {l \in rel : l[1] \in ValuesFor(q, p)[q] /\ l[2] \in ValuesFor(q, p)[p]}

NewLinksEffect(q, p, rel) ==
    /\ LinkTyped(q, p, rel) /\ ~HasLink(q, p)
    /\ initialized' = initialized \cup {q, p}
    /\ values' = ValuesFor(q, p)
    /\ solutions' = Surviving(q, p, rel)
    /\ arcs' = arcs \cup {Arc(q, l[1], p, l[2]) : l \in Accepted(q, p, rel)}
                    \cup {Arc(p, l[2], q, l[1]) : l \in Accepted(q, p, rel)}
    /\ Frames(stack') = { UpdateFrame(q, {l[1] : l \in Accepted(q, p, rel)}),
                          UpdateFrame(p, {l[2] : l \in Accepted(q, p, rel)}),
                          RegisterFrame(q, p) }
    /\ UNCHANGED <<linked, valid>>

LEMMA OnlyLastEmpty == OnlyLast(<<>>)
BY DEF OnlyLast

LEMMA ShortStack ==
    ASSUME NEW s \in Seq(AllFrames), s = <<>>, NEW f \in AllFrames, f.op # "update_links",
           NEW t, t = <<f>> \o s
    PROVE  Frames(t) = {f} /\ OnlyLast(t)
<1>1. Frames(s) = {} /\ OnlyLast(s)
  BY FramesEmpty, OnlyLastEmpty
<1>2. Frames(t) = {f} \cup Frames(s)
  BY PushOne, Zenon
<1>3. OnlyLast(t)
  BY <1>1, OnlyLastPushOne
<1>4. QED  BY <1>1, <1>2, <1>3

LEMMA UpdateRequested ==
    ASSUME TypeOK, NEW q \in Qvars, NEW new \in SUBSET Conds, UpdateResults(q, new)
    PROVE  (FreshEffect(q, new) \/ NarrowEffect(q, new)) /\ OnlyLast(stack')
<1>1. PICK f : f = UpdateFrame(q, new)
  OBVIOUS
<1>2. f \in AllFrames /\ f.op # "update_links"
  BY <1>1, FrameMade DEF UpdateFrame
<1>3. stack = <<>> /\ stack \in Seq(AllFrames) /\ OnlyLast(stack) /\ Frames(stack) = {}
  BY FramesEmpty, OnlyLastEmpty DEF UpdateResults, Idle, TypeOK
<1>4. CASE q \in initialized
  <2>1. stack' = <<f>> \o stack
    BY <1>1, <1>4 DEF UpdateResults, Call
  <2>2. Frames(stack') = {f} /\ OnlyLast(stack')
    BY <1>2, <1>3, <2>1, ShortStack
  <2>3. QED  BY <1>1, <1>4, <2>2 DEF UpdateResults, NarrowEffect
<1>5. CASE q \notin initialized
  BY <1>3, <1>5 DEF UpdateResults, FreshEffect
<1>6. QED  BY <1>4, <1>5

LEMMA OldLinksRequested ==
    ASSUME TypeOK, NEW q \in Qvars, NEW p \in Qvars, q # p,
           NEW rel \in SUBSET (Conds \X Conds), UpdateOldLinks(q, p, rel)
    PROVE  OldLinksEffect(q, p, rel) /\ OnlyLast(stack')
<1>1. PICK todo : todo = {a \in LinksBetween(q, p) : <<a[2], a[4]>> \notin rel}
  OBVIOUS
<1>2. PICK f : f = BothFrame(todo)
  OBVIOUS
<1>3. f \in AllFrames /\ f.op # "update_links"
  <2>1. todo \in SUBSET Arcs
    BY <1>1 DEF LinksBetween, TypeOK
  <2>2. QED  BY <1>2, <2>1, FrameMade DEF BothFrame
<1>4. stack = <<>> /\ stack \in Seq(AllFrames) /\ stack' = <<f>> \o stack
  BY <1>1, <1>2 DEF UpdateOldLinks, Idle, Call, TypeOK
<1>5. Frames(stack') = {f} /\ OnlyLast(stack')
  BY <1>3, <1>4, ShortStack
<1>6. QED  BY <1>1, <1>2, <1>5 DEF UpdateOldLinks, OldLinksEffect, LinkTyped

LEMMA NewLinksRequested ==
    ASSUME TypeOK, NEW q \in Qvars, NEW p \in Qvars, q # p,
           NEW rel \in SUBSET (Conds \X Conds), UpdateNewLinks(q, p, rel)
    PROVE  NewLinksEffect(q, p, rel) /\ OnlyLast(stack')
<1>1. PICK accepted : accepted = Accepted(q, p, rel)
  OBVIOUS
<1>2. PICK f, g, h : /\ f = UpdateFrame(q, {l[1] : l \in accepted})
                     /\ g = UpdateFrame(p, {l[2] : l \in accepted})
                     /\ h = RegisterFrame(q, p)
  OBVIOUS
<1>3. /\ f \in AllFrames /\ g \in AllFrames /\ h \in AllFrames
      /\ f.op # "update_links" /\ g.op # "update_links"
  <2>1. accepted \in SUBSET (Conds \X Conds)
    BY <1>1 DEF Accepted
  <2>2. {l[1] : l \in accepted} \in SUBSET Conds /\ {l[2] : l \in accepted} \in SUBSET Conds
    BY <2>1
  <2>3. QED  BY <1>2, <2>2, FrameMade DEF UpdateFrame, RegisterFrame
<1>4. stack = <<>> /\ stack \in Seq(AllFrames) /\ Frames(stack) = {}
  BY FramesEmpty DEF UpdateNewLinks, Idle, TypeOK
<1>5. stack' = <<f, g, h>> \o stack
  BY <1>1, <1>2 DEF UpdateNewLinks, Accepted
<1>6. <<f, g, h>> \in Seq(AllFrames) /\ Frames(<<f, g, h>>) = {f, g, h}
  BY <1>3, FramesThree, Zenon
<1>7. Frames(stack') = {f, g, h}
  <2>1. Frames(stack') = {f, g, h} \cup Frames(stack)
    <3>1. stack \in Seq(AllFrames)
      BY <1>4
    <3>2. QED  BY <1>5, <1>6, <3>1, PushAll, Zenon
  <2>2. QED  BY <1>4, <2>1
<1>8. OnlyLast(stack')
  <2>1. stack' = <<f, g, h>>
    BY <1>3, <1>4, <1>5
  <2>2. /\ Len(<<f, g, h>>) = 3
        /\ <<f, g, h>>[1] = f /\ <<f, g, h>>[2] = g /\ 1 .. 3 = {1, 2, 3}
    OBVIOUS
  <2>3. QED  BY <1>3, <2>1, <2>2 DEF OnlyLast
<1>9. QED  BY <1>1, <1>2, <1>7, <1>8 DEF UpdateNewLinks, NewLinksEffect, LinkTyped, Accepted

LEMMA RequestEffect ==
    ASSUME TypeOK, AnyRequest
    PROVE  /\ Frames(stack) = {} /\ OnlyLast(stack')
           /\ \/ \E q, new : FreshEffect(q, new) \/ NarrowEffect(q, new)
              \/ InvalidEffect
              \/ \E q, p, rel : OldLinksEffect(q, p, rel) \/ NewLinksEffect(q, p, rel)
<1>1. Idle
  BY RequestsIdle
<1>2. stack = <<>> /\ Frames(stack) = {} /\ OnlyLast(stack)
  BY <1>1, FramesEmpty, OnlyLastEmpty DEF Idle
<1>3. ASSUME NEW q \in Qvars, NEW new \in SUBSET Conds, UpdateResults(q, new)
      PROVE  (FreshEffect(q, new) \/ NarrowEffect(q, new)) /\ OnlyLast(stack')
  BY <1>3, UpdateRequested
<1>4. ASSUME NEW q \in Qvars, GetConditions(q)
      PROVE  FreshEffect(q, GlobalSet) /\ OnlyLast(stack')
  BY <1>2, <1>4, LinkerAssumption DEF LinkerAssumption, GetConditions, FreshEffect
<1>5. ASSUME InvalidateState PROVE InvalidEffect /\ OnlyLast(stack')
  BY <1>2, <1>5 DEF InvalidateState, InvalidEffect
<1>6. ASSUME NEW q \in Qvars, NEW p \in Qvars, q # p,
             NEW rel \in SUBSET (Conds \X Conds), UpdateLinks(q, p, rel)
      PROVE  /\ OldLinksEffect(q, p, rel) \/ NewLinksEffect(q, p, rel)
             /\ OnlyLast(stack')
  BY <1>6, OldLinksRequested, NewLinksRequested DEF UpdateLinks
<1>7. QED
  BY <1>2, <1>3, <1>4, <1>5, <1>6 DEF AnyRequest
-----------------------------------------------------------------------------
(* The invariant of the tables, on every graph: a condition being unlinked *)
(* has left its variable; every link belongs to a registered pair or to    *)
(* the one pair update_links is about to register; and a condition still   *)
(* in a variable has a link to every linked variable, at all times, and to *)
(* the variable being linked unless update_results is about to drop it.    *)
Registers(F, q, p) ==
    \E f \in F : f.op = "update_links" /\ ((f.q = q /\ f.p = p) \/ (f.q = p /\ f.p = q))
Registering(q, p) == Registers(Frames(stack), q, p)
Drops(F, q, c) == \E f \in F : f.op = "update_results" /\ f.q = q /\ c \notin f.keep

Gone == \A f \in Frames(stack) : f.op = "remove_condition" => f.c \notin values[f.q]
ArcsOwned == \A a \in arcs : HasLink(a[1], a[3]) \/ Registering(a[1], a[3])
NewPair == \A q, p \in Qvars : Registering(q, p) => q # p /\ ~HasLink(q, p)
Supported == \A l \in linked : \A c \in values[l[1]] : Partners(l[1], c, l[2]) # {}
PendingSupported ==
    \A q, p \in Qvars : Registering(q, p) =>
        \A c \in values[q] : Partners(q, c, p) # {} \/ Drops(Frames(stack), q, c)

GraphInv ==
    OnlyLast(stack) /\ Gone /\ ArcsOwned /\ NewPair /\ Supported /\ PendingSupported

(* What every step of a cascade leaves alone, and what one that registers  *)
(* no pair does.                                                           *)
Inward(f, R) ==
    \/ UpdateEffect(f, R) \/ UnlinkEffect(f, R) \/ BreakEffect(f, R)
    \/ BothEffect(f, R) \/ ReturnEffect(f, R)

LEMMA InwardSteps ==
    ASSUME TypeOK, NEW f, NEW R, Innermost(f, R), Inward(f, R)
    PROVE  /\ UNCHANGED <<initialized, linked, solutions>>
           /\ arcs' \subseteq arcs /\ (valid' => valid)
           /\ \A q \in Qvars : values'[q] \subseteq values[q]
           /\ \A q, p : Registers(Frames(stack'), q, p) <=> Registering(q, p)
<1>1. values \in [Qvars -> SUBSET Conds]
  BY DEF TypeOK
<1>2. Frames(stack) = {f} \cup R
  BY DEF Innermost
<1>3. CASE UpdateEffect(f, R)
  BY <1>1, <1>2, <1>3
     DEF UpdateEffect, Removes, Registers, Registering, UnlinkFrame, UpdateFrames
<1>4. CASE UnlinkEffect(f, R)
  BY <1>1, <1>2, <1>4
     DEF UnlinkEffect, Registers, Registering, UnlinkFrame, BreakFrame, UnlinkFrames
<1>5. CASE BreakEffect(f, R)
  BY <1>1, <1>2, <1>5
     DEF BreakEffect, Removes, Registers, Registering, UnlinkFrame, BreakFrame, BreakFrames
<1>6. CASE BothEffect(f, R)
  BY <1>1, <1>2, <1>6
     DEF BothEffect, Registers, Registering, BothFrame, BreakFrame, BothFrames
<1>7. CASE ReturnEffect(f, R)
  BY <1>1, <1>2, <1>7 DEF ReturnEffect, Finished, Registers, Registering
<1>8. QED  BY <1>3, <1>4, <1>5, <1>6, <1>7 DEF Inward

LEMMA InwardGone ==
    ASSUME TypeOK, Gone, NEW f, NEW R, Innermost(f, R), Inward(f, R) PROVE Gone'
<1>1. /\ Frames(stack) = {f} \cup R /\ values \in [Qvars -> SUBSET Conds]
      /\ \A g \in Frames(stack) : g.op = "remove_condition" => g.q \in Qvars
  BY FrameKinds DEF Innermost, TypeOK, UnlinkFrames
<1>2. \A q \in Qvars : values'[q] \subseteq values[q]
  BY InwardSteps
<1>3. \A g \in Frames(stack) : g.op = "remove_condition" => g.c \notin values'[g.q]
  BY <1>1, <1>2 DEF Gone
<1>4. CASE UpdateEffect(f, R)
  BY <1>1, <1>3, <1>4 DEF UpdateEffect, Removes, UnlinkFrame, TypeOK, Gone
<1>5. CASE UnlinkEffect(f, R)
  BY <1>1, <1>3, <1>5 DEF UnlinkEffect, UnlinkFrame, UnlinkFrames, BreakFrame, Gone
<1>6. CASE BreakEffect(f, R)
  BY <1>1, <1>3, <1>6 DEF BreakEffect, Removes, UnlinkFrame, BreakFrame, Arcs, Gone
<1>7. CASE BothEffect(f, R)
  BY <1>1, <1>3, <1>7 DEF BothEffect, BothFrame, BreakFrame, Gone
<1>8. CASE ReturnEffect(f, R)
  BY <1>1, <1>3, <1>8 DEF ReturnEffect, Gone
<1>9. QED  BY <1>4, <1>5, <1>6, <1>7, <1>8 DEF Inward

(* A condition that is left keeps a link to each linked variable: what is  *)
(* unlinked has left its variable, and break_link removes the condition    *)
(* with its last link.                                                     *)
LEMMA InwardSupported ==
    ASSUME TypeOK, Gone, Supported, NEW f, NEW R, Innermost(f, R), Inward(f, R)
    PROVE  Supported'
<1>1. /\ values \in [Qvars -> SUBSET Conds] /\ linked \in SUBSET (Qvars \X Qvars)
      /\ f \in Frames(stack)
  BY DEF TypeOK, Innermost
<1>2. linked' = linked /\ \A q \in Qvars : values'[q] \subseteq values[q]
  BY InwardSteps
<1>3. SUFFICES ASSUME NEW l \in linked, NEW c \in values'[l[1]]
               PROVE  \E d \in Conds : Arc(l[1], c, l[2], d) \in arcs'
  BY <1>2 DEF Supported, Partners
<1>4. l[1] \in Qvars /\ l[2] \in Qvars /\ c \in values[l[1]]
  BY <1>1, <1>2
<1>5. PICK d \in Conds : Arc(l[1], c, l[2], d) \in arcs
  BY <1>4 DEF Supported, Partners
<1>6. CASE UnlinkEffect(f, R)
  <2>1. PICK p \in f.todo : arcs' = arcs \ LinksOf(f.q, f.c, p)
    BY <1>6 DEF UnlinkEffect
  <2>2. f.c \notin values[f.q]
    BY <1>1, <1>6 DEF UnlinkEffect, UnlinkFrames, Gone
  <2>3. Arc(l[1], c, l[2], d) \notin LinksOf(f.q, f.c, p)
    BY <1>4, <2>2 DEF LinksOf, LinksBetween, Arc
  <2>4. QED  BY <1>5, <2>1, <2>3
<1>7. CASE BreakEffect(f, R)
  <2>1. PICK a \in f.todo :
          /\ a \in Arcs /\ arcs' = arcs \ {a}
          /\ \/ /\ Partners(a[1], a[2], a[3]) \subseteq {a[4]}
                /\ Removes(a[1], a[2], {BreakFrame(f.todo \ {a})} \cup R)
             \/ ~(Partners(a[1], a[2], a[3]) \subseteq {a[4]})
    BY <1>7 DEF BreakEffect
  <2>2. CASE a = Arc(l[1], c, l[2], d)
    <3>1. a[1] = l[1] /\ a[2] = c /\ a[3] = l[2] /\ a[4] = d
      BY <2>2 DEF Arc
    <3>2. ~(Partners(a[1], a[2], a[3]) \subseteq {a[4]})
      <4>1. ASSUME Removes(a[1], a[2], {BreakFrame(f.todo \ {a})} \cup R) PROVE FALSE
        BY <1>1, <1>3, <1>4, <3>1, <4>1 DEF Removes
      <4>2. QED  BY <2>1, <4>1
    <3>3. PICK e \in Conds : Arc(l[1], c, l[2], e) \in arcs /\ e # d
      BY <3>1, <3>2 DEF Partners
    <3>4. Arc(l[1], c, l[2], e) # a
      BY <3>1, <3>3 DEF Arc
    <3>5. QED  BY <2>1, <3>3, <3>4
  <2>3. CASE a # Arc(l[1], c, l[2], d)
    BY <1>5, <2>1, <2>3
  <2>4. QED  BY <2>2, <2>3
<1>8. CASE UpdateEffect(f, R) \/ BothEffect(f, R) \/ ReturnEffect(f, R)
  BY <1>5, <1>8 DEF UpdateEffect, BothEffect, ReturnEffect
<1>9. QED  BY <1>6, <1>7, <1>8 DEF Inward

(* The links of the pair being registered are out of the cascade's reach.  *)
LEMMA InwardNewPair ==
    ASSUME TypeOK, NewPair, NEW f, NEW R, Innermost(f, R), Inward(f, R),
           NEW a \in arcs, a \notin arcs'
    PROVE  HasLink(a[1], a[3])
<1>1. CASE UnlinkEffect(f, R)
  <2>1. PICK p \in f.todo : a \in LinksOf(f.q, f.c, p) /\ HasLink(f.q, p)
    BY <1>1 DEF UnlinkEffect, LinkedTo
  <2>2. QED  BY <2>1 DEF LinksOf, LinksBetween
<1>2. CASE BreakEffect(f, R)
  BY <1>2 DEF BreakEffect
<1>3. CASE UpdateEffect(f, R) \/ BothEffect(f, R) \/ ReturnEffect(f, R)
  BY <1>3 DEF UpdateEffect, BothEffect, ReturnEffect
<1>4. QED  BY <1>1, <1>2, <1>3 DEF Inward

LEMMA InwardPending ==
    ASSUME TypeOK, NewPair, PendingSupported,
           NEW f, NEW R, Innermost(f, R), Inward(f, R)
    PROVE  PendingSupported'
<1>1. /\ values \in [Qvars -> SUBSET Conds] /\ Frames(stack) = {f} \cup R
  BY DEF TypeOK, Innermost
<1>2. /\ arcs' \subseteq arcs /\ \A q \in Qvars : values'[q] \subseteq values[q]
      /\ \A q, p : Registers(Frames(stack'), q, p) <=> Registering(q, p)
  BY InwardSteps
<1>3. SUFFICES ASSUME NEW q \in Qvars, NEW p \in Qvars, Registering(q, p),
                      NEW c \in values'[q]
               PROVE  \/ \E d \in Conds : Arc(q, c, p, d) \in arcs'
                      \/ Drops(Frames(stack'), q, c)
  BY <1>2 DEF PendingSupported, Partners, Registering
<1>4. c \in values[q]
  BY <1>2
<1>5. ASSUME NEW d \in Conds, Arc(q, c, p, d) \in arcs PROVE Arc(q, c, p, d) \in arcs'
  <2>1. ~HasLink(q, p)
    BY <1>3 DEF NewPair
  <2>2. QED  BY <1>5, <2>1, InwardNewPair DEF Arc
<1>6. ASSUME Drops(Frames(stack), q, c) PROVE Drops(Frames(stack'), q, c)
  <2>1. PICK g \in Frames(stack) : g.op = "update_results" /\ g.q = q /\ c \notin g.keep
    BY <1>6 DEF Drops
  <2>2. g \in Frames(stack')
    <3>1. CASE UpdateEffect(f, R)
      BY <1>1, <2>1, <3>1 DEF UpdateEffect, Removes
    <3>2. CASE UnlinkEffect(f, R)
      BY <1>1, <2>1, <3>2 DEF UnlinkEffect, UnlinkFrames
    <3>3. CASE BreakEffect(f, R)
      BY <1>1, <2>1, <3>3 DEF BreakEffect, BreakFrames, Removes
    <3>4. CASE BothEffect(f, R)
      BY <1>1, <2>1, <3>4 DEF BothEffect, BothFrames
    <3>5. CASE ReturnEffect(f, R)
      <4>1. Frames(stack') = R /\ Finished(f) /\ values' = values
        BY <3>5 DEF ReturnEffect
      <4>2. g # f
        BY <1>3, <2>1, <4>1 DEF Finished
      <4>3. QED  BY <1>1, <4>1, <4>2
    <3>6. QED  BY <3>1, <3>2, <3>3, <3>4, <3>5 DEF Inward
  <2>3. QED  BY <2>1, <2>2 DEF Drops
<1>7. QED  BY <1>3, <1>4, <1>5, <1>6 DEF PendingSupported, Partners
(* update_links registers its pair when both update_results are done: no   *)
(* other frame is left.                                                    *)
LEMMA RegisterAlone ==
    ASSUME TypeOK, GraphInv, NEW f, NEW R, Innermost(f, R), RegisterEffect(f, R)
    PROVE  /\ Frames(stack) = {f} /\ Frames(stack') = {}
           /\ f.q \in Qvars /\ f.p \in Qvars /\ f.op = "update_links"
           /\ Registering(f.q, f.p) /\ Registering(f.p, f.q)
           /\ linked' = linked \cup {<<f.q, f.p>>, <<f.p, f.q>>}
           /\ \A q, p : Registering(q, p) => <<q, p>> \in linked'
           /\ UNCHANGED <<initialized, values, arcs, valid, solutions>>
<1>1. Frames(stack) = {f} /\ Frames(stack') = {}
  BY DEF GraphInv, Innermost, RegisterEffect
<1>2. f.q \in Qvars /\ f.p \in Qvars /\ f.op = "update_links"
  BY DEF RegisterEffect, RegisterFrames
<1>3. /\ Registering(f.q, f.p) /\ Registering(f.p, f.q)
      /\ \A q, p : Registering(q, p) => (q = f.q /\ p = f.p) \/ (q = f.p /\ p = f.q)
  <2>1. f \in Frames(stack) /\ \A g \in Frames(stack) : g = f
    BY <1>1
  <2>2. PICK F : F = Frames(stack)
    OBVIOUS
  <2>3. \A q, p : Registering(q, p) <=> Registers(F, q, p)
    BY <2>2 DEF Registering
  <2>4. f \in F /\ \A g \in F : g = f
    BY <2>1, <2>2
  <2>5. \A q, p : Registers(F, q, p) <=> ((f.q = q /\ f.p = p) \/ (f.q = p /\ f.p = q))
    BY <1>2, <2>4 DEF Registers
  <2>6. QED  BY <2>3, <2>5
<1>4. linked' = linked \cup {<<f.q, f.p>>, <<f.p, f.q>>}
      /\ UNCHANGED <<initialized, values, arcs, valid, solutions>>
  BY DEF RegisterEffect
<1>5. \A q, p : Registering(q, p) => <<q, p>> \in linked'
  BY <1>3, <1>4
<1>6. QED  BY <1>1, <1>2, <1>3, <1>4, <1>5

LEMMA RegisterGraph ==
    ASSUME TypeOK, GraphInv, NEW f, NEW R, Innermost(f, R), RegisterEffect(f, R)
    PROVE  GraphInv'
<1>1. /\ Frames(stack) = {f} /\ Frames(stack') = {}
      /\ f.q \in Qvars /\ f.p \in Qvars /\ f.op = "update_links"
      /\ Registering(f.q, f.p) /\ Registering(f.p, f.q)
      /\ linked' = linked \cup {<<f.q, f.p>>, <<f.p, f.q>>}
      /\ \A q, p : Registering(q, p) => <<q, p>> \in linked'
      /\ UNCHANGED <<initialized, values, arcs, valid, solutions>>
  BY RegisterAlone
<1>2. OnlyLast(stack')
  BY DEF Innermost, GraphInv
<1>3. Gone' /\ NewPair' /\ PendingSupported'
  BY <1>1 DEF Gone, NewPair, PendingSupported, Registering, Registers
<1>4. ArcsOwned'
  BY <1>1 DEF GraphInv, ArcsOwned, HasLink
<1>5. Supported'
  <2>1. \A q, c : ~Drops(Frames(stack), q, c)
    BY <1>1 DEF Drops
  <2>2. /\ \A c \in values[f.q] : Partners(f.q, c, f.p) # {}
        /\ \A c \in values[f.p] : Partners(f.p, c, f.q) # {}
    BY <1>1, <2>1 DEF GraphInv, PendingSupported
  <2>3. QED  BY <1>1, <2>2 DEF GraphInv, Supported, Partners
<1>6. QED  BY <1>2, <1>3, <1>4, <1>5 DEF GraphInv

LEMMA InwardGraph ==
    ASSUME TypeOK, GraphInv, NEW f, NEW R, Innermost(f, R), Inward(f, R)
    PROVE  GraphInv'
<1>1. /\ UNCHANGED <<initialized, linked, solutions>> /\ arcs' \subseteq arcs
      /\ \A q, p : Registers(Frames(stack'), q, p) <=> Registering(q, p)
  BY InwardSteps
<1>2. OnlyLast(stack')
  BY DEF Innermost, GraphInv
<1>3. ArcsOwned' /\ NewPair'
  BY <1>1 DEF GraphInv, ArcsOwned, NewPair, Registering, HasLink
<1>4. QED  BY <1>2, <1>3, InwardGone, InwardSupported, InwardPending DEF GraphInv

LEMMA CascadeGraph == ASSUME TypeOK, GraphInv, Cascade PROVE GraphInv'
BY CascadeEffect, InwardGraph, RegisterGraph DEF Inward

(* What a request finds.                                                   *)
LEMMA RequestFinds ==
    ASSUME TypeOK, GraphInv, AnyRequest
    PROVE  /\ Frames(stack) = {} /\ \A q, p : ~Registering(q, p)
           /\ \A a \in arcs : HasLink(a[1], a[3])
<1>1. Frames(stack) = {}
  BY RequestEffect
<1>2. \A q, p : ~Registering(q, p)
  BY <1>1 DEF Registering, Registers
<1>3. QED  BY <1>1, <1>2 DEF GraphInv, ArcsOwned

LEMMA FreshKeepsLinked ==
    ASSUME TypeOK, NEW q, NEW new, FreshEffect(q, new), NEW l \in linked
    PROVE  values'[l[1]] = values[l[1]]
<1>1. l[1] \in initialized /\ l[1] \in Qvars /\ q \notin initialized
  BY DEF TypeOK, FreshEffect
<1>2. QED  BY <1>1 DEF TypeOK, FreshEffect

LEMMA ValuesForLinked ==
    ASSUME TypeOK, NEW q, NEW p, NEW l \in linked
    PROVE  ValuesFor(q, p)[l[1]] = values[l[1]]
BY DEF TypeOK, ValuesFor

LEMMA QuietGraph ==
    ASSUME GraphInv, \A q, p : ~Registering(q, p), OnlyLast(stack'),
           \A f \in Frames(stack') : f.op # "update_links" /\ f.op # "remove_condition",
           \A l \in linked : values'[l[1]] = values[l[1]],
           UNCHANGED <<arcs, linked>>
    PROVE  GraphInv'
<1>1. \A q, p : ~Registers(Frames(stack'), q, p)
  BY DEF Registers
<1>2. Gone' /\ NewPair' /\ PendingSupported'
  BY <1>1 DEF Gone, NewPair, PendingSupported, Registering
<1>3. ArcsOwned' /\ Supported'
  BY DEF GraphInv, ArcsOwned, Supported, HasLink, Partners
<1>4. QED  BY <1>2, <1>3 DEF GraphInv

LEMMA NewLinksGraph ==
    ASSUME TypeOK, GraphInv, \A a \in arcs : HasLink(a[1], a[3]), OnlyLast(stack'),
           NEW q, NEW p, NEW rel, NewLinksEffect(q, p, rel)
    PROVE  GraphInv'
<1>1. PICK accepted : accepted = Accepted(q, p, rel)
  OBVIOUS
<1>2. /\ q \in Qvars /\ p \in Qvars /\ q # p /\ ~HasLink(q, p) /\ accepted \subseteq Conds \X Conds
      /\ arcs' = arcs \cup {Arc(q, l[1], p, l[2]) : l \in accepted}
                      \cup {Arc(p, l[2], q, l[1]) : l \in accepted}
      /\ Frames(stack') = { UpdateFrame(q, {l[1] : l \in accepted}),
                            UpdateFrame(p, {l[2] : l \in accepted}),
                            RegisterFrame(q, p) }
      /\ linked' = linked /\ values' = ValuesFor(q, p)
  BY <1>1 DEF NewLinksEffect, LinkTyped, Accepted
<1>3. ~HasLink(p, q)
  BY <1>2 DEF HasLink, TypeOK
<1>4. \A r, t : Registers(Frames(stack'), r, t) <=> ((r = q /\ t = p) \/ (r = p /\ t = q))
  BY <1>2 DEF Registers, UpdateFrame, RegisterFrame
<1>5. Gone'
  BY <1>2 DEF Gone, UpdateFrame, RegisterFrame
<1>6. NewPair'
  <2>1. ASSUME NEW r \in Qvars, NEW t \in Qvars, Registers(Frames(stack'), r, t)
        PROVE  r # t /\ <<r, t>> \notin linked'
    <3>1. (r = q /\ t = p) \/ (r = p /\ t = q)
      BY <1>4, <2>1
    <3>2. QED  BY <1>2, <1>3, <3>1 DEF HasLink
  <2>2. QED  BY <2>1 DEF NewPair, Registering, HasLink
<1>7. ArcsOwned'
  <2>1. \A l : /\ Arc(q, l[1], p, l[2])[1] = q /\ Arc(q, l[1], p, l[2])[3] = p
               /\ Arc(p, l[2], q, l[1])[1] = p /\ Arc(p, l[2], q, l[1])[3] = q
    BY DEF Arc
  <2>2. ASSUME NEW a \in arcs' PROVE HasLink(a[1], a[3])' \/ Registers(Frames(stack'), a[1], a[3])
    <3>1. CASE a \in arcs
      BY <1>2, <3>1 DEF HasLink
    <3>2. CASE a \notin arcs
      <4>1. PICK l \in accepted : a = Arc(q, l[1], p, l[2]) \/ a = Arc(p, l[2], q, l[1])
        BY <1>2, <2>2, <3>2
      <4>2. (a[1] = q /\ a[3] = p) \/ (a[1] = p /\ a[3] = q)
        BY <2>1, <4>1
      <4>3. Registers(Frames(stack'), a[1], a[3])
        BY <1>4, <4>2, Zenon
      <4>4. QED  BY <4>3
    <3>3. QED  BY <3>1, <3>2
  <2>3. QED  BY <2>2 DEF ArcsOwned, Registering
<1>8. Supported'
  <2>1. \A l \in linked : values'[l[1]] = values[l[1]]
    BY <1>2, ValuesForLinked
  <2>2. arcs \subseteq arcs'
    BY <1>2
  <2>3. QED  BY <1>2, <2>1, <2>2 DEF GraphInv, Supported, Partners
<1>9. PendingSupported'
  <2>1. ASSUME NEW c PROVE \/ Drops(Frames(stack'), q, c)
                           \/ \E d \in Conds : Arc(q, c, p, d) \in arcs'
    <3>1. CASE c \in {l[1] : l \in accepted}
      <4>1. PICK l \in accepted : c = l[1]
        BY <3>1
      <4>2. QED  BY <1>2, <4>1
    <3>2. CASE c \notin {l[1] : l \in accepted}
      BY <1>2, <3>2 DEF Drops, UpdateFrame
    <3>3. QED  BY <3>1, <3>2
  <2>2. ASSUME NEW c PROVE \/ Drops(Frames(stack'), p, c)
                           \/ \E d \in Conds : Arc(p, c, q, d) \in arcs'
    <3>1. CASE c \in {l[2] : l \in accepted}
      <4>1. PICK l \in accepted : c = l[2]
        BY <3>1
      <4>2. QED  BY <1>2, <4>1
    <3>2. CASE c \notin {l[2] : l \in accepted}
      BY <1>2, <3>2 DEF Drops, UpdateFrame
    <3>3. QED  BY <3>1, <3>2
  <2>3. QED  BY <1>4, <2>1, <2>2 DEF PendingSupported, Registering, Partners
<1>10. QED  BY <1>5, <1>6, <1>7, <1>8, <1>9 DEF GraphInv

LEMMA RequestGraph == ASSUME TypeOK, GraphInv, AnyRequest PROVE GraphInv'
<1>1. /\ Frames(stack) = {} /\ \A q, p : ~Registering(q, p)
      /\ \A a \in arcs : HasLink(a[1], a[3])
  BY RequestFinds, RequestEffect
<1>2. OnlyLast(stack')
  BY RequestEffect
<1>3. ASSUME NEW q, NEW new, FreshEffect(q, new) PROVE GraphInv'
  <2>1. \A l \in linked : values'[l[1]] = values[l[1]]
    BY <1>3, FreshKeepsLinked
  <2>2. Frames(stack') = {} /\ UNCHANGED <<arcs, linked>>
    BY <1>3 DEF FreshEffect
  <2>3. QED  BY <1>1, <1>2, <2>1, <2>2, QuietGraph
<1>4. ASSUME NEW q, NEW new, NarrowEffect(q, new) PROVE GraphInv'
  BY <1>1, <1>2, <1>4, QuietGraph DEF NarrowEffect, UpdateFrame
<1>5. ASSUME InvalidEffect PROVE GraphInv'
  BY <1>1, <1>2, <1>5, QuietGraph DEF InvalidEffect
<1>6. ASSUME NEW q, NEW p, NEW rel, OldLinksEffect(q, p, rel) PROVE GraphInv'
  <2>1. \A l \in linked : values'[l[1]] = values[l[1]]
    BY <1>6, ValuesForLinked DEF OldLinksEffect
  <2>2. /\ \A f \in Frames(stack') : f.op # "update_links" /\ f.op # "remove_condition"
        /\ UNCHANGED <<arcs, linked>>
    BY <1>6 DEF OldLinksEffect, BothFrame
  <2>3. QED  BY <1>1, <1>2, <2>1, <2>2, QuietGraph
<1>7. ASSUME NEW q, NEW p, NEW rel, NewLinksEffect(q, p, rel) PROVE GraphInv'
  BY <1>1, <1>2, <1>7, NewLinksGraph
<1>8. QED  BY <1>3, <1>4, <1>5, <1>6, <1>7, RequestEffect

LEMMA SameGraph == ASSUME GraphInv, UNCHANGED linkerVars PROVE GraphInv'
<1>1. /\ stack' = stack /\ UNCHANGED <<initialized, values, arcs, linked, valid, solutions>>
  BY DEF linkerVars
<1>2. Frames(stack') = Frames(stack)
  BY <1>1
<1>3. QED
  BY <1>1, <1>2 DEF GraphInv, Gone, ArcsOwned, NewPair, Supported, PendingSupported,
                    Registering, HasLink, Partners

LEMMA StartGraph == ASSUME NEW d, InitWith(d) PROVE GraphInv
<1>1. stack = <<>> /\ Frames(stack) = {} /\ arcs = {} /\ linked = {}
  BY FramesEmpty DEF InitWith
<1>2. QED
  BY <1>1, OnlyLastEmpty DEF GraphInv, Gone, ArcsOwned, NewPair, Supported, PendingSupported,
                             Registering, Registers

LEMMA GraphInvHolds == Spec => []GraphInv
<1>1. TypeOK /\ GraphInv /\ [Next]_linkerVars => GraphInv'
  BY RequestsAre, RequestGraph, CascadeGraph, SameGraph DEF Next
<1>2. Init => GraphInv
  BY StartGraph DEF Init
<1>3. QED  BY <1>1, <1>2, TypeCorrect, PTL DEF Spec
-----------------------------------------------------------------------------
(* Nothing is invented, on any graph: an assignment that the tables still  *)
(* allow and that no frame is about to contradict satisfies the requests.  *)
FitsValues(s) == \A q \in initialized : s[q] \in values[q]
FitsLinks(s)  == \A l \in linked : Arc(l[1], s[l[1]], l[2], s[l[2]]) \in arcs
FitsWork(s)   == \A f \in Frames(stack) : Harmless(f, s)
Fits(s)       == FitsValues(s) /\ FitsLinks(s) /\ FitsWork(s)

OnlySolutionsFit == valid => \A s \in Assignments : Fits(s) => s \in solutions

(* A cascade only takes away.                                              *)
LEMMA InwardFits ==
    ASSUME TypeOK, Gone, NEW f, NEW R, Innermost(f, R), Inward(f, R),
           NEW s \in Assignments, Fits(s)'
    PROVE  Fits(s)
<1>1. /\ UNCHANGED <<initialized, linked>> /\ arcs' \subseteq arcs
      /\ \A q \in Qvars : values'[q] \subseteq values[q]
  BY InwardSteps
<1>2. Frames(stack) = {f} \cup R /\ f \in AllFrames /\ FrameOK(f) /\ initialized \subseteq Qvars
  BY DEF Innermost, TypeOK
<1>3. FitsValues(s) /\ FitsLinks(s)
  BY <1>1, <1>2 DEF Fits, FitsValues, FitsLinks
<1>4. ASSUME NEW g, g \in Frames(stack'), g \in AllFrames PROVE Harmless(g, s)
  <2>1. Harmless(g, s)'
    BY <1>4 DEF Fits, FitsWork
  <2>2. QED  BY <1>1, <2>1 DEF Harmless
<1>5. R \subseteq Frames(stack')
  BY DEF Inward, UpdateEffect, UnlinkEffect, BreakEffect, BothEffect, ReturnEffect, Removes
<1>6. \A g \in R : Harmless(g, s)
  BY <1>4, <1>5 DEF Innermost
<1>7. Harmless(f, s)
  <2>1. CASE UpdateEffect(f, R)
    <3>1. f \in Frames(stack')
      BY <2>1 DEF UpdateEffect, Removes
    <3>2. QED  BY <1>2, <1>4, <3>1
  <2>2. CASE UnlinkEffect(f, R)
    <3>1. PICK p : UnlinkFrame(f.q, f.c, f.todo \ {p}) \in Frames(stack')
      BY <2>2 DEF UnlinkEffect
    <3>2. Harmless(UnlinkFrame(f.q, f.c, f.todo \ {p}), s)'
      BY <3>1 DEF Fits, FitsWork
    <3>3. QED  BY <2>2, <3>2 DEF Harmless, UnlinkEffect, UnlinkFrame, UnlinkFrames
  <2>3. CASE BreakEffect(f, R)
    <3>1. PICK a \in f.todo : /\ arcs' = arcs \ {a}
                              /\ BreakFrame(f.todo \ {a}) \in Frames(stack')
                              /\ a \in Arcs /\ HasLink(a[1], a[3])
      BY <2>3 DEF BreakEffect, Removes
    <3>2. Harmless(BreakFrame(f.todo \ {a}), s)'
      BY <3>1 DEF Fits, FitsWork
    <3>3. ~Uses(s, a)
      <4>1. Arc(a[1], s[a[1]], a[3], s[a[3]]) \in arcs'
        BY <1>1, <3>1 DEF Fits, FitsLinks, HasLink
      <4>2. Uses(s, a) => Arc(a[1], s[a[1]], a[3], s[a[3]]) = a
        BY <3>1 DEF Uses, Arc, Arcs
      <4>3. QED  BY <3>1, <4>1, <4>2
    <3>4. QED  BY <2>3, <3>2, <3>3 DEF Harmless, BreakEffect, BreakFrame, BreakFrames
  <2>4. CASE BothEffect(f, R)
    <3>1. PICK a \in f.todo : /\ BreakFrame({a}) \in Frames(stack')
                              /\ BothFrame(f.todo \ {a}) \in Frames(stack')
      BY <2>4 DEF BothEffect
    <3>2. /\ Harmless(BreakFrame({a}), s)'
          /\ Harmless(BothFrame(f.todo \ {a}), s)'
      BY <3>1 DEF Fits, FitsWork
    <3>3. QED  BY <2>4, <3>2 DEF Harmless, BothEffect, BreakFrame, BothFrame, BothFrames
  <2>5. CASE ReturnEffect(f, R)
    <3>1. CASE f.op = "update_results"
      BY <1>2, <1>3, <2>5, <3>1 DEF ReturnEffect, Finished, FrameOK, FitsValues, Harmless
    <3>2. CASE f.op = "remove_condition"
      <4>1. f.c \notin values[f.q] /\ f.q \in initialized
        BY <1>2, <3>2 DEF Gone, FrameOK
      <4>2. QED  BY <1>3, <3>2, <4>1 DEF FitsValues, Harmless
    <3>3. CASE f.op \in {"break_link", "break_both_links"}
      BY <2>5, <3>3 DEF ReturnEffect, Finished, Harmless
    <3>4. QED  BY <2>5, <3>1, <3>2, <3>3 DEF ReturnEffect, Finished
  <2>6. QED  BY <2>1, <2>2, <2>3, <2>4, <2>5 DEF Inward
<1>8. QED  BY <1>2, <1>3, <1>6, <1>7 DEF Fits, FitsWork

LEMMA RegisterFits ==
    ASSUME TypeOK, GraphInv, NEW f, NEW R, Innermost(f, R), RegisterEffect(f, R),
           NEW s \in Assignments, Fits(s)'
    PROVE  Fits(s)
<1>1. /\ Frames(stack) = {f} /\ f.op = "update_links"
      /\ linked' = linked \cup {<<f.q, f.p>>, <<f.p, f.q>>}
      /\ UNCHANGED <<initialized, values, arcs, valid, solutions>>
  BY RegisterAlone
<1>2. FitsValues(s)
  BY <1>1 DEF Fits, FitsValues
<1>3. \A l \in linked' : Arc(l[1], s[l[1]], l[2], s[l[2]]) \in arcs
  BY <1>1 DEF Fits, FitsLinks
<1>4. FitsLinks(s)
  BY <1>1, <1>3 DEF FitsLinks
<1>5. Harmless(f, s)
  <2>1. /\ Arc(f.q, s[f.q], f.p, s[f.p]) \in arcs
        /\ Arc(f.p, s[f.p], f.q, s[f.q]) \in arcs
    <3>1. PICK l \in linked' : l = <<f.q, f.p>>
      BY <1>1
    <3>2. PICK m \in linked' : m = <<f.p, f.q>>
      BY <1>1
    <3>3. l[1] = f.q /\ l[2] = f.p /\ m[1] = f.p /\ m[2] = f.q
      BY <3>1, <3>2
    <3>4. QED  BY <1>3, <3>3
  <2>2. QED  BY <1>1, <2>1 DEF Harmless
<1>6. QED  BY <1>1, <1>2, <1>4, <1>5 DEF Fits, FitsWork

LEMMA CascadeFit ==
    ASSUME TypeOK, GraphInv, OnlySolutionsFit, Cascade PROVE OnlySolutionsFit'
<1>1. Cascade /\ UNCHANGED <<initialized, solutions>>
  BY CascadeKeepsSolutions
<1>2. PICK f, R : Innermost(f, R) /\ (Inward(f, R) \/ RegisterEffect(f, R))
  BY CascadeEffect DEF Inward
<1>3. valid' => valid
  BY <1>2, InwardSteps, RegisterAlone
<1>4. \A s \in Assignments : Fits(s)' => Fits(s)
  BY <1>2, InwardFits, RegisterFits DEF GraphInv
<1>5. QED  BY <1>1, <1>3, <1>4 DEF OnlySolutionsFit, Assignments
(* A request asks for what it then leaves for the cascade to enforce.      *)
LEMMA FreshFit ==
    ASSUME TypeOK, OnlySolutionsFit, Frames(stack) = {}, NEW q, NEW new, FreshEffect(q, new)
    PROVE  OnlySolutionsFit'
<1>1. SUFFICES ASSUME valid', NEW s \in Assignments, Fits(s)'
               PROVE  s \in solutions'
  BY DEF OnlySolutionsFit, Assignments
<1>2. \A r \in initialized : r # q /\ values'[r] = values[r] /\ r \in initialized'
  BY DEF FreshEffect, TypeOK
<1>3. FitsValues(s)
  BY <1>1, <1>2 DEF Fits, FitsValues
<1>4. FitsLinks(s)
  BY <1>1 DEF Fits, FitsLinks, FreshEffect
<1>5. s[q] \in new
  <2>1. q \in initialized' /\ values'[q] = new
    BY DEF FreshEffect, TypeOK
  <2>2. QED  BY <1>1, <2>1 DEF Fits, FitsValues
<1>6. s \in solutions
  BY <1>1, <1>3, <1>4 DEF OnlySolutionsFit, Fits, FitsWork, FreshEffect
<1>7. QED  BY <1>5, <1>6 DEF FreshEffect

LEMMA NarrowFit ==
    ASSUME TypeOK, OnlySolutionsFit, Frames(stack) = {}, NEW q, NEW new, NarrowEffect(q, new)
    PROVE  OnlySolutionsFit'
<1>1. SUFFICES ASSUME valid', NEW s \in Assignments, Fits(s)'
               PROVE  s \in solutions'
  BY DEF OnlySolutionsFit, Assignments
<1>2. FitsValues(s) /\ FitsLinks(s)
  BY <1>1 DEF Fits, FitsValues, FitsLinks, NarrowEffect
<1>3. s \in solutions
  BY <1>1, <1>2 DEF OnlySolutionsFit, Fits, FitsWork, NarrowEffect
<1>4. Harmless(UpdateFrame(q, new), s)'
  BY <1>1 DEF Fits, FitsWork, NarrowEffect
<1>5. QED  BY <1>3, <1>4 DEF NarrowEffect, Harmless, UpdateFrame

LEMMA ValuesForFit ==
    ASSUME TypeOK, OnlySolutionsFit, Frames(stack) = {}, NEW q \in Qvars, NEW p \in Qvars,
           values' = ValuesFor(q, p), initialized' = initialized \cup {q, p},
           linked' = linked, valid' = valid, valid',
           NEW s \in Assignments, Fits(s)',
           \A l \in linked : Arc(l[1], s[l[1]], l[2], s[l[2]]) \in arcs
    PROVE  s \in solutions /\ \A r \in {q, p} \ initialized : s[r] \in GlobalSet
<1>1. \A r \in initialized : values'[r] = values[r]
  BY DEF ValuesFor, TypeOK
<1>2. \A r \in {q, p} \ initialized : values'[r] = GlobalSet
  BY DEF ValuesFor
<1>3. FitsValues(s) /\ FitsLinks(s)
  BY <1>1 DEF Fits, FitsValues, FitsLinks
<1>4. s \in solutions
  BY <1>3 DEF OnlySolutionsFit, Fits, FitsWork
<1>5. QED  BY <1>2, <1>4 DEF Fits, FitsValues

LEMMA OldLinksFit ==
    ASSUME TypeOK, OnlySolutionsFit, Frames(stack) = {},
           NEW q, NEW p, NEW rel, OldLinksEffect(q, p, rel)
    PROVE  OnlySolutionsFit'
<1>1. SUFFICES ASSUME valid', NEW s \in Assignments, Fits(s)'
               PROVE  s \in solutions'
  BY DEF OnlySolutionsFit, Assignments
<1>2. PICK todo : todo = {a \in LinksBetween(q, p) : <<a[2], a[4]>> \notin rel}
  OBVIOUS
<1>3. /\ q \in Qvars /\ p \in Qvars /\ <<q, p>> \in linked
      /\ values' = ValuesFor(q, p) /\ initialized' = initialized \cup {q, p}
      /\ linked' = linked /\ valid' = valid /\ arcs' = arcs
      /\ solutions' = Surviving(q, p, rel) /\ Frames(stack') = {BothFrame(todo)}
  BY <1>2 DEF OldLinksEffect, LinkTyped, HasLink
<1>4. \A l \in linked : Arc(l[1], s[l[1]], l[2], s[l[2]]) \in arcs
  BY <1>1, <1>3 DEF Fits, FitsLinks
<1>5. s \in solutions /\ \A r \in {q, p} \ initialized : s[r] \in GlobalSet
  BY <1>1, <1>3, <1>4, ValuesForFit
<1>6. <<s[q], s[p]>> \in rel
  <2>1. PICK a : a = Arc(q, s[q], p, s[p])
    OBVIOUS
  <2>2. a \in arcs /\ a[1] = q /\ a[2] = s[q] /\ a[3] = p /\ a[4] = s[p]
    <3>1. PICK l \in linked : l = <<q, p>>
      BY <1>3
    <3>2. l[1] = q /\ l[2] = p
      BY <3>1
    <3>3. QED  BY <1>4, <2>1, <3>2 DEF Arc
  <2>3. Harmless(BothFrame(todo), s)'
    BY <1>1, <1>3 DEF Fits, FitsWork
  <2>4. a \notin todo
    BY <2>2, <2>3 DEF Harmless, BothFrame, Uses
  <2>5. QED  BY <1>2, <2>2, <2>4 DEF LinksBetween
<1>7. QED  BY <1>3, <1>5, <1>6 DEF Surviving

LEMMA NewLinksFit ==
    ASSUME TypeOK, OnlySolutionsFit, Frames(stack) = {}, \A a \in arcs : HasLink(a[1], a[3]),
           NEW q, NEW p, NEW rel, NewLinksEffect(q, p, rel)
    PROVE  OnlySolutionsFit'
<1>1. SUFFICES ASSUME valid', NEW s \in Assignments, Fits(s)'
               PROVE  s \in solutions'
  BY DEF OnlySolutionsFit, Assignments
<1>2. PICK accepted : accepted = Accepted(q, p, rel)
  OBVIOUS
<1>3. /\ q \in Qvars /\ p \in Qvars /\ q # p /\ ~HasLink(q, p) /\ ~HasLink(p, q)
      /\ values' = ValuesFor(q, p) /\ initialized' = initialized \cup {q, p}
      /\ linked' = linked /\ valid' = valid
      /\ arcs' = arcs \cup {Arc(q, l[1], p, l[2]) : l \in accepted}
                      \cup {Arc(p, l[2], q, l[1]) : l \in accepted}
      /\ solutions' = Surviving(q, p, rel)
      /\ RegisterFrame(q, p) \in Frames(stack')
      /\ accepted \subseteq rel /\ rel \subseteq Conds \X Conds
  BY <1>2 DEF NewLinksEffect, LinkTyped, Accepted, HasLink, TypeOK
<1>4. ASSUME NEW l \in linked PROVE Arc(l[1], s[l[1]], l[2], s[l[2]]) \in arcs
  <2>1. PICK a : a = Arc(l[1], s[l[1]], l[2], s[l[2]])
    OBVIOUS
  <2>2. a \in arcs' /\ a[1] = l[1] /\ a[3] = l[2]
    BY <1>1, <1>3, <2>1 DEF Fits, FitsLinks, Arc
  <2>3. ~(a[1] = q /\ a[3] = p) /\ ~(a[1] = p /\ a[3] = q)
    <3>1. l \in initialized \X initialized /\ l = <<l[1], l[2]>>
      BY DEF TypeOK
    <3>2. QED  BY <1>3, <2>2, <3>1 DEF HasLink
  <2>4. a \in arcs
    BY <1>3, <2>2, <2>3 DEF Arc
  <2>5. QED  BY <2>1, <2>4
<1>5. s \in solutions /\ \A r \in {q, p} \ initialized : s[r] \in GlobalSet
  BY <1>1, <1>3, <1>4, ValuesForFit
<1>6. <<s[q], s[p]>> \in rel
  <2>1. PICK a : a = Arc(q, s[q], p, s[p])
    OBVIOUS
  <2>2. a[1] = q /\ a[2] = s[q] /\ a[3] = p /\ a[4] = s[p]
    BY <2>1 DEF Arc
  <2>3. a \in arcs'
    <3>1. Harmless(RegisterFrame(q, p), s)'
      BY <1>1, <1>3 DEF Fits, FitsWork
    <3>2. QED  BY <2>1, <3>1 DEF Harmless, RegisterFrame
  <2>4. a \notin arcs
    BY <1>3, <2>2
  <2>5. a \notin {Arc(p, l[2], q, l[1]) : l \in accepted}
    BY <1>3, <2>2 DEF Arc
  <2>6. PICK l \in accepted : a = Arc(q, l[1], p, l[2])
    BY <1>3, <2>3, <2>4, <2>5
  <2>7. l = <<s[q], s[p]>>
    BY <1>3, <2>2, <2>6 DEF Arc
  <2>8. QED  BY <1>3, <2>7
<1>7. QED  BY <1>3, <1>5, <1>6 DEF Surviving

LEMMA RequestFit ==
    ASSUME TypeOK, GraphInv, OnlySolutionsFit, AnyRequest PROVE OnlySolutionsFit'
<1>1. Frames(stack) = {} /\ \A a \in arcs : HasLink(a[1], a[3])
  BY RequestFinds
<1>2. ASSUME InvalidEffect PROVE OnlySolutionsFit'
  BY <1>2 DEF InvalidEffect, OnlySolutionsFit
<1>3. QED
  BY <1>1, <1>2, RequestEffect, FreshFit, NarrowFit, OldLinksFit, NewLinksFit

LEMMA StartFit == ASSUME NEW d, InitWith(d) PROVE OnlySolutionsFit
BY DEF InitWith, OnlySolutionsFit, Fits, FitsValues

LEMMA SameFit == ASSUME OnlySolutionsFit, UNCHANGED linkerVars PROVE OnlySolutionsFit'
<1>1. stack' = stack /\ UNCHANGED <<initialized, values, arcs, linked, valid, solutions>>
  BY DEF linkerVars
<1>2. Frames(stack') = Frames(stack)
  BY <1>1
<1>3. \A s \in Assignments : Fits(s)' => Fits(s)
  BY <1>1, <1>2 DEF Fits, FitsValues, FitsLinks, FitsWork, Harmless
<1>4. QED  BY <1>1, <1>3 DEF OnlySolutionsFit, Assignments

(* While the state is valid, the tables and the frames in progress never   *)
(* allow an assignment that some request rules out: after update_links and *)
(* update_results nothing that they were asked to remove is forgotten, on  *)
(* every graph of linked variables.                                        *)
THEOREM NothingInvented == Spec => []OnlySolutionsFit
<1>1. TypeOK /\ GraphInv /\ OnlySolutionsFit /\ [Next]_linkerVars => OnlySolutionsFit'
  BY RequestsAre, RequestFit, CascadeFit, SameFit DEF Next
<1>2. Init => OnlySolutionsFit
  BY StartFit DEF Init
<1>3. QED  BY <1>1, <1>2, GraphInvHolds, TypeCorrect, PTL DEF Spec
-----------------------------------------------------------------------------
(* On forests nothing stale is left either.  Pairs are the linked pairs    *)
(* and the one being registered.  NoStale: a link of a linked pair whose   *)
(* condition is gone is one that remove_condition is about to take out.    *)
(* PendingWitness: a condition just linked to the variable being joined    *)
(* belongs to an assignment of its own tree which the cascade cannot reach.*)
Pairs == linked \cup {l \in Qvars \X Qvars : Registering(l[1], l[2])}

Unlinks(F, a) ==
    \E f \in F : f.op = "remove_condition" /\ f.q = a[1] /\ f.c = a[2] /\ a[3] \in f.todo

NoStale ==
    \A a \in arcs : HasLink(a[1], a[3]) /\ a[2] \notin values[a[1]] => Unlinks(Frames(stack), a)

HarmlessOn(f, D, g) ==
    /\ f.op = "update_results" /\ f.q \in D   => g[f.q] \in f.keep
    /\ f.op = "remove_condition" /\ f.q \in D => g[f.q] # f.c
    /\ f.op \in {"break_link", "break_both_links"} =>
          \A a \in f.todo : a[1] \in D => ~Uses(g, a)

KeptOn(D, g) ==
    /\ Closed(linked, D)
    /\ \A v \in D : g[v] \in values[v]
    /\ \A l \in linked : l[1] \in D => Arc(l[1], g[l[1]], l[2], g[l[2]]) \in arcs
    /\ \A f \in Frames(stack) : HarmlessOn(f, D, g)

Witness(a, D, g) == a[1] \in D /\ a[3] \notin D /\ g[a[1]] = a[2] /\ KeptOn(D, g)

PendingWitness ==
    \A a \in arcs : Registering(a[1], a[3]) =>
        \E D \in SUBSET initialized : \E g \in Assignments : Witness(a, D, g)

ForestInv == Forest(Pairs) => NoStale /\ PendingWitness

LEMMA InwardStale ==
    ASSUME TypeOK, NoStale, NEW f, NEW R, Innermost(f, R), Inward(f, R) PROVE NoStale'
<1>1. /\ UNCHANGED <<initialized, linked>> /\ arcs' \subseteq arcs
      /\ Frames(stack) = {f} \cup R /\ values \in [Qvars -> SUBSET Conds] /\ arcs \subseteq Arcs
  BY InwardSteps DEF Innermost, TypeOK
<1>2. SUFFICES ASSUME NEW a \in arcs', HasLink(a[1], a[3]), a[2] \notin values'[a[1]]
               PROVE  Unlinks(Frames(stack'), a)
  BY <1>1 DEF NoStale, HasLink
<1>3. a \in arcs /\ a[1] \in Qvars /\ a[2] \in Conds /\ a[3] \in Qvars
  BY <1>1 DEF Arcs
<1>4. CASE a[2] \notin values[a[1]]
  <2>1. PICK h \in Frames(stack) : /\ h.op = "remove_condition" /\ h.q = a[1] /\ h.c = a[2]
                                   /\ a[3] \in h.todo
    BY <1>2, <1>3, <1>4 DEF NoStale, Unlinks
  <2>2. SUFFICES ASSUME h \notin Frames(stack') PROVE Unlinks(Frames(stack'), a)
    BY <2>1 DEF Unlinks
  <2>3. R \subseteq Frames(stack')
    BY DEF Inward, UpdateEffect, UnlinkEffect, BreakEffect, BothEffect, ReturnEffect, Removes
  <2>4. h = f
    BY <1>1, <2>2, <2>3
  <2>5. CASE UnlinkEffect(f, R)
    <3>1. PICK p \in f.todo : /\ arcs' = arcs \ LinksOf(f.q, f.c, p)
                              /\ UnlinkFrame(f.q, f.c, f.todo \ {p}) \in Frames(stack')
      BY <2>5 DEF UnlinkEffect
    <3>2. a[3] # p
      BY <1>2, <1>3, <2>1, <2>4, <3>1 DEF LinksOf, LinksBetween
    <3>3. QED  BY <2>1, <2>4, <3>1, <3>2 DEF Unlinks, UnlinkFrame
  <2>6. CASE UpdateEffect(f, R) \/ BreakEffect(f, R) \/ BothEffect(f, R)
    BY <2>1, <2>4, <2>6 DEF UpdateEffect, UpdateFrames, BreakEffect, BreakFrames,
                            BothEffect, BothFrames
  <2>7. CASE ReturnEffect(f, R)
    BY <2>1, <2>4, <2>7 DEF ReturnEffect, Finished
  <2>8. QED  BY <2>5, <2>6, <2>7 DEF Inward
<1>5. CASE a[2] \in values[a[1]]
  <2>1. ASSUME NEW q, NEW c, NEW Q, Removes(q, c, Q) PROVE Unlinks(Frames(stack'), a)
    <3>1. /\ values' = [values EXCEPT ![q] = @ \ {c}]
          /\ UnlinkFrame(q, c, LinkedTo(q)) \in Frames(stack')
      BY <1>2, <1>5, <2>1 DEF Removes
    <3>2. q = a[1] /\ c = a[2]
      BY <1>1, <1>2, <1>3, <1>5, <3>1
    <3>3. a[3] \in LinkedTo(q)
      BY <1>2, <1>3, <3>2 DEF LinkedTo
    <3>4. QED  BY <3>1, <3>2, <3>3 DEF Unlinks, UnlinkFrame
  <2>2. values' # values
    BY <1>2, <1>5
  <2>3. \E q, c, Q : Removes(q, c, Q)
    BY <2>2 DEF Inward, UpdateEffect, UnlinkEffect, BreakEffect, BothEffect, ReturnEffect
  <2>4. QED  BY <2>1, <2>3
<1>6. QED  BY <1>4, <1>5
(* No step of a cascade takes anything from a kept assignment: break_link  *)
(* finds a condition without link left only when it is not in it.          *)
LEMMA InwardKept ==
    ASSUME TypeOK, NEW f, NEW R, Innermost(f, R), Inward(f, R),
           NEW D \in SUBSET Qvars, NEW g \in Assignments, KeptOn(D, g)
    PROVE  KeptOn(D, g)'
<1>1. /\ linked' = linked /\ arcs' \subseteq arcs
      /\ Frames(stack) = {f} \cup R /\ values \in [Qvars -> SUBSET Conds]
      /\ arcs \subseteq Arcs
  BY InwardSteps DEF Innermost, TypeOK
<1>2. \A h \in {f} \cup R : HarmlessOn(h, D, g)
  BY <1>1 DEF KeptOn
<1>3. ASSUME NEW q \in Qvars, NEW p \in Qvars, HasLink(q, p), q \in D
      PROVE  p \in D /\ Arc(q, g[q], p, g[p]) \in arcs
  <2>1. PICK l \in linked : l = <<q, p>>
    BY <1>3 DEF HasLink
  <2>2. l[1] = q /\ l[2] = p
    BY <2>1
  <2>3. QED  BY <1>3, <2>2 DEF KeptOn, Closed
<1>4. ASSUME NEW q \in Qvars, NEW p \in Qvars, HasLink(q, p) PROVE HasLink(p, q)
  BY <1>4 DEF HasLink, TypeOK
<1>5. SUFFICES /\ \A v \in D : g[v] \in values'[v]
               /\ \A l \in linked : l[1] \in D => Arc(l[1], g[l[1]], l[2], g[l[2]]) \in arcs'
               /\ \A h \in Frames(stack') : HarmlessOn(h, D, g)
  BY <1>1 DEF KeptOn, Closed, HarmlessOn, Uses
<1>6. ASSUME NEW q \in Qvars, NEW c \in Conds, NEW Q, Removes(q, c, Q), q \in D => g[q] # c,
             \A h \in Q : HarmlessOn(h, D, g)
      PROVE  /\ \A v \in D : g[v] \in values'[v]
             /\ \A h \in Frames(stack') : HarmlessOn(h, D, g)
  <2>1. HarmlessOn(UnlinkFrame(q, c, LinkedTo(q)), D, g)
    BY <1>6 DEF HarmlessOn, UnlinkFrame
  <2>2. \A v \in D : g[v] \in values[v]
    BY DEF KeptOn
  <2>3. QED  BY <1>1, <1>6, <2>1, <2>2 DEF Removes
<1>7. ASSUME arcs' = arcs
      PROVE  \A l \in linked : l[1] \in D => Arc(l[1], g[l[1]], l[2], g[l[2]]) \in arcs'
  BY <1>7 DEF KeptOn
<1>8. CASE UpdateEffect(f, R)
  <2>1. PICK c \in values[f.q] \ f.keep : c \in Conds /\ Removes(f.q, c, {f} \cup R)
    BY <1>8 DEF UpdateEffect
  <2>2. f.q \in Qvars /\ f.op = "update_results" /\ arcs' = arcs
    BY <1>8 DEF UpdateEffect, UpdateFrames
  <2>3. f.q \in D => g[f.q] # c
    BY <1>2, <2>1, <2>2 DEF HarmlessOn
  <2>4. QED  BY <1>2, <1>6, <1>7, <2>1, <2>2, <2>3
<1>9. CASE UnlinkEffect(f, R)
  <2>1. PICK p \in f.todo :
            /\ arcs' = arcs \ LinksOf(f.q, f.c, p)
            /\ Frames(stack') = {BreakFrame({Rev(a) : a \in LinksOf(f.q, f.c, p)}),
                                 UnlinkFrame(f.q, f.c, f.todo \ {p})} \cup R
    BY <1>9 DEF UnlinkEffect
  <2>2. /\ f.q \in Qvars /\ f.c \in Conds /\ p \in Qvars /\ HasLink(f.q, p) /\ values' = values
        /\ f.op = "remove_condition"
    BY <1>9, <2>1 DEF UnlinkEffect, UnlinkFrames, LinkedTo
  <2>3. f.q \in D => g[f.q] # f.c
    BY <1>2, <2>2 DEF HarmlessOn
  <2>4. \A l \in linked : l[1] \in D => Arc(l[1], g[l[1]], l[2], g[l[2]]) \in arcs'
    <3>1. SUFFICES ASSUME NEW l \in linked, l[1] \in D,
                          Arc(l[1], g[l[1]], l[2], g[l[2]]) \in LinksOf(f.q, f.c, p)
                   PROVE  FALSE
      BY <2>1 DEF KeptOn
    <3>2. l[1] = f.q /\ g[l[1]] = f.c
      BY <3>1 DEF LinksOf, LinksBetween, Arc
    <3>3. QED  BY <2>3, <3>1, <3>2
  <2>5. HarmlessOn(BreakFrame({Rev(a) : a \in LinksOf(f.q, f.c, p)}), D, g)
    <3>1. ASSUME NEW a \in LinksOf(f.q, f.c, p), Rev(a)[1] \in D PROVE ~Uses(g, Rev(a))
      <4>1. /\ a[1] = f.q /\ a[3] = p /\ a[2] = f.c
            /\ Rev(a)[1] = p /\ Rev(a)[3] = f.q /\ Rev(a)[4] = f.c
        BY DEF LinksOf, LinksBetween, Rev
      <4>2. f.q \in D
        BY <1>3, <1>4, <2>2, <3>1, <4>1
      <4>3. QED  BY <2>3, <4>1, <4>2 DEF Uses
    <3>2. QED  BY <3>1 DEF HarmlessOn, BreakFrame
  <2>6. HarmlessOn(UnlinkFrame(f.q, f.c, f.todo \ {p}), D, g)
    BY <2>3 DEF HarmlessOn, UnlinkFrame
  <2>7. \A v \in D : g[v] \in values'[v]
    BY <2>2 DEF KeptOn
  <2>8. QED  BY <1>2, <2>1, <2>4, <2>5, <2>6, <2>7
<1>10. CASE BreakEffect(f, R)
  <2>1. PICK a \in f.todo :
          /\ arcs' = arcs \ {a}
          /\ \/ /\ Partners(a[1], a[2], a[3]) \subseteq {a[4]}
                /\ Removes(a[1], a[2], {BreakFrame(f.todo \ {a})} \cup R)
             \/ /\ ~(Partners(a[1], a[2], a[3]) \subseteq {a[4]})
                /\ Frames(stack') = {BreakFrame(f.todo \ {a})} \cup R
                /\ UNCHANGED <<values, valid>>
          /\ a \in Arcs /\ HasLink(a[1], a[3])
    BY <1>10 DEF BreakEffect
  <2>2. a[1] \in Qvars /\ a[2] \in Conds /\ a[3] \in Qvars /\ a[4] \in Conds /\ f.op = "break_link"
    BY <1>10, <2>1 DEF Arcs, BreakEffect, BreakFrames
  <2>3. \A b \in f.todo : b[1] \in D => ~Uses(g, b)
    BY <1>2, <2>2 DEF HarmlessOn
  <2>4. \A l \in linked : l[1] \in D => Arc(l[1], g[l[1]], l[2], g[l[2]]) \in arcs'
    <3>1. SUFFICES ASSUME NEW l \in linked, l[1] \in D, Arc(l[1], g[l[1]], l[2], g[l[2]]) = a
                   PROVE  FALSE
      BY <2>1 DEF KeptOn
    <3>2. a[1] = l[1] /\ a[2] = g[l[1]] /\ a[3] = l[2] /\ a[4] = g[l[2]]
      BY <3>1 DEF Arc
    <3>3. QED  BY <2>1, <2>3, <3>1, <3>2 DEF Uses
  <2>5. HarmlessOn(BreakFrame(f.todo \ {a}), D, g)
    BY <2>3 DEF HarmlessOn, BreakFrame
  <2>6. CASE /\ Partners(a[1], a[2], a[3]) \subseteq {a[4]}
             /\ Removes(a[1], a[2], {BreakFrame(f.todo \ {a})} \cup R)
    <3>1. ASSUME a[1] \in D PROVE g[a[1]] # a[2]
      <4>1. SUFFICES ASSUME g[a[1]] = a[2] PROVE FALSE
        OBVIOUS
      <4>2. a[3] \in D /\ Arc(a[1], a[2], a[3], g[a[3]]) \in arcs
        BY <1>3, <2>1, <2>2, <3>1, <4>1
      <4>3. g[a[3]] \in Partners(a[1], a[2], a[3])
        BY <4>2 DEF Partners, Assignments
      <4>4. g[a[3]] = a[4]
        BY <2>6, <4>3
      <4>5. QED  BY <2>1, <2>3, <3>1, <4>1, <4>4 DEF Uses
    <3>2. \A h \in {BreakFrame(f.todo \ {a})} \cup R : HarmlessOn(h, D, g)
      BY <1>2, <2>5
    <3>3. QED  BY <1>6, <2>2, <2>4, <2>6, <3>1, <3>2
  <2>7. CASE Frames(stack') = {BreakFrame(f.todo \ {a})} \cup R /\ UNCHANGED <<values, valid>>
    BY <1>2, <2>4, <2>5, <2>7 DEF KeptOn
  <2>8. QED  BY <2>1, <2>6, <2>7
<1>11. CASE BothEffect(f, R)
  <2>1. PICK a \in f.todo :
          /\ Frames(stack') = {BreakFrame({a}), BreakFrame({Rev(a)}), BothFrame(f.todo \ {a})} \cup R
          /\ a \in Arcs /\ HasLink(a[1], a[3])
    BY <1>11 DEF BothEffect
  <2>2. a[1] \in Qvars /\ a[3] \in Qvars /\ f.op = "break_both_links"
        /\ values' = values /\ arcs' = arcs
    BY <1>11, <2>1 DEF Arcs, BothEffect, BothFrames
  <2>3. \A b \in f.todo : b[1] \in D => ~Uses(g, b)
    BY <1>2, <2>2 DEF HarmlessOn
  <2>4. HarmlessOn(BreakFrame({a}), D, g) /\ HarmlessOn(BothFrame(f.todo \ {a}), D, g)
    BY <2>3 DEF HarmlessOn, BreakFrame, BothFrame
  <2>5. HarmlessOn(BreakFrame({Rev(a)}), D, g)
    <3>1. ASSUME a[3] \in D PROVE ~Uses(g, Rev(a))
      <4>1. a[1] \in D
        BY <1>3, <1>4, <2>1, <2>2, <3>1
      <4>2. ~Uses(g, a)
        BY <2>3, <4>1
      <4>3. QED  BY <4>2 DEF Uses, Rev
    <3>2. Rev(a)[1] = a[3]
      BY DEF Rev
    <3>3. QED  BY <3>1, <3>2 DEF HarmlessOn, BreakFrame
  <2>6. \A v \in D : g[v] \in values'[v]
    BY <2>2 DEF KeptOn
  <2>7. QED  BY <1>2, <1>7, <2>1, <2>2, <2>4, <2>5, <2>6
<1>12. CASE ReturnEffect(f, R)
  BY <1>2, <1>7, <1>12 DEF ReturnEffect, KeptOn
<1>13. QED  BY <1>8, <1>9, <1>10, <1>11, <1>12 DEF Inward
LEMMA InwardForest ==
    ASSUME TypeOK, ForestInv, NEW f, NEW R, Innermost(f, R), Inward(f, R) PROVE ForestInv'
<1>1. /\ UNCHANGED <<initialized, linked>> /\ arcs' \subseteq arcs
      /\ \A q, p : Registers(Frames(stack'), q, p) <=> Registering(q, p)
  BY InwardSteps
<1>2. Pairs' = Pairs /\ (Forest(Pairs)' <=> Forest(Pairs))
  <2>1. Pairs' = Pairs
    BY <1>1 DEF Pairs, Registering
  <2>2. QED  BY <2>1 DEF Forest, Within, EdgesOf
<1>3. SUFFICES ASSUME NoStale, PendingWitness PROVE NoStale' /\ PendingWitness'
  BY <1>2 DEF ForestInv
<1>4. ASSUME NEW a \in arcs', Registering(a[1], a[3])'
      PROVE  \E D \in SUBSET initialized' : \E g \in Assignments : Witness(a, D, g)'
  <2>1. a \in arcs /\ Registering(a[1], a[3])
    BY <1>1, <1>4 DEF Registering
  <2>2. PICK D \in SUBSET initialized, g \in Assignments : Witness(a, D, g)
    BY <1>3, <2>1 DEF PendingWitness
  <2>3. D \in SUBSET Qvars
    BY DEF TypeOK
  <2>4. KeptOn(D, g)'
    BY <2>2, <2>3, InwardKept DEF Witness
  <2>5. Witness(a, D, g)'
    BY <2>2, <2>4 DEF Witness
  <2>6. QED  BY <1>1, <2>5
<1>5. PendingWitness'
  BY <1>4 DEF PendingWitness, Assignments
<1>6. QED  BY <1>3, <1>5, InwardStale

LEMMA RegisterForest ==
    ASSUME TypeOK, GraphInv, ForestInv, NEW f, NEW R, Innermost(f, R), RegisterEffect(f, R)
    PROVE  ForestInv'
<1>1. /\ Frames(stack) = {f} /\ Frames(stack') = {}
      /\ f.q \in Qvars /\ f.p \in Qvars /\ f.op = "update_links"
      /\ Registering(f.q, f.p) /\ Registering(f.p, f.q)
      /\ linked' = linked \cup {<<f.q, f.p>>, <<f.p, f.q>>}
      /\ \A q, p : Registering(q, p) => <<q, p>> \in linked'
      /\ UNCHANGED <<initialized, values, arcs, valid, solutions>>
  BY RegisterAlone
<1>2. \A q, p : ~Registers(Frames(stack'), q, p)
  BY <1>1 DEF Registers
<1>3. PendingWitness'
  BY <1>2 DEF PendingWitness, Registering
<1>4. Pairs \subseteq Pairs' /\ Pairs' \in SUBSET (Qvars \X Qvars)
  BY <1>1 DEF Pairs, TypeOK
<1>5. SUFFICES ASSUME Forest(Pairs)' PROVE NoStale'
  BY <1>3 DEF ForestInv
<1>6. Forest(Pairs)
  <2>1. PICK M : M = Pairs'
    OBVIOUS
  <2>2. Forest(M)
    BY <1>5, <2>1 DEF Forest, Within, EdgesOf
  <2>3. QED  BY <1>4, <2>1, <2>2, PartOfForest
<1>7. NoStale /\ PendingWitness
  BY <1>6 DEF ForestInv
<1>8. ASSUME NEW a \in arcs, <<a[1], a[3]>> \in linked' PROVE a[2] \in values[a[1]]
  <2>1. CASE HasLink(a[1], a[3])
    <3>1. ~Unlinks(Frames(stack), a)
      BY <1>1 DEF Unlinks
    <3>2. QED  BY <1>7, <2>1, <3>1 DEF NoStale
  <2>2. CASE ~HasLink(a[1], a[3])
    <3>1. Registering(a[1], a[3])
      BY <1>1, <1>8, <2>2 DEF HasLink
    <3>2. PICK D \in SUBSET initialized, g \in Assignments : Witness(a, D, g)
      BY <1>7, <3>1 DEF PendingWitness
    <3>3. QED  BY <3>2 DEF Witness, KeptOn
  <2>3. QED  BY <2>1, <2>2
<1>9. QED  BY <1>1, <1>8 DEF NoStale, HasLink

LEMMA CascadeForest ==
    ASSUME TypeOK, GraphInv, ForestInv, Cascade PROVE ForestInv'
BY CascadeEffect, InwardForest, RegisterForest DEF Inward

(* Between calls, links of a forest join conditions that are still there.  *)
LEMMA NothingStale ==
    ASSUME TypeOK, NoStale, Frames(stack) = {}, \A a \in arcs : Rev(a) \in arcs,
           NEW a \in arcs, HasLink(a[1], a[3])
    PROVE  a[2] \in values[a[1]] /\ a[4] \in values[a[3]]
<1>1. \A b \in arcs : HasLink(b[1], b[3]) => b[2] \in values[b[1]]
  BY DEF NoStale, Unlinks
<1>2. PICK b \in arcs : b = Rev(a)
  OBVIOUS
<1>3. b[1] = a[3] /\ b[2] = a[4] /\ b[3] = a[1]
  BY <1>2 DEF Rev
<1>4. HasLink(b[1], b[3])
  BY <1>3 DEF HasLink, TypeOK
<1>5. QED  BY <1>1, <1>3, <1>4

LEMMA LinksBacked ==
    ASSUME TypeOK, NoStale, Supported, Frames(stack) = {}, \A a \in arcs : Rev(a) \in arcs,
           NEW V, \A l \in linked : V[l[1]] = values[l[1]]
    PROVE  Mirrored(linked) /\ Backed(linked, arcs, V)
<1>1. Mirrored(linked)
  BY DEF Mirrored, TypeOK
<1>2. ASSUME NEW l \in linked, NEW c \in V[l[1]]
      PROVE  \E d \in V[l[2]] : Arc(l[1], c, l[2], d) \in arcs /\ Arc(l[2], d, l[1], c) \in arcs
  <2>1. l = <<l[1], l[2]>> /\ <<l[2], l[1]>> \in linked /\ c \in values[l[1]]
    BY DEF TypeOK
  <2>2. PICK d \in Conds : Arc(l[1], c, l[2], d) \in arcs
    BY <2>1 DEF Supported, Partners
  <2>3. PICK a \in arcs : a = Arc(l[1], c, l[2], d)
    BY <2>2
  <2>4. a[1] = l[1] /\ a[2] = c /\ a[3] = l[2] /\ a[4] = d
    BY <2>3 DEF Arc
  <2>5. d \in values[l[2]]
    BY <2>1, <2>4, NothingStale DEF HasLink
  <2>6. V[l[2]] = values[l[2]]
    <3>1. PICK m \in linked : m = <<l[2], l[1]>>
      BY <2>1
    <3>2. QED  BY <3>1
  <2>7. Arc(l[2], d, l[1], c) \in arcs
    BY <2>4 DEF Rev, Arc
  <2>8. QED  BY <2>2, <2>5, <2>6, <2>7
<1>3. QED  BY <1>1, <1>2 DEF Backed
(* A condition that update_links has just accepted for one end of the new  *)
(* pair has its own tree, which the other end is not in.                   *)
LEMMA JoinWitness ==
    ASSUME TypeOK, NoStale, Supported, Frames(stack) = {}, \A a \in arcs : Rev(a) \in arcs,
           NEW r \in Qvars, NEW t \in Qvars, <<r, t>> \notin linked, <<t, r>> \notin linked,
           NEW M \in SUBSET (Qvars \X Qvars), linked \subseteq M, <<r, t>> \in M, Forest(M),
           NEW I \in SUBSET Qvars, initialized \subseteq I, r \in I,
           NEW V, \A l \in linked : V[l[1]] = values[l[1]],
           \A v \in I : V[v] \subseteq Conds,
           NEW e \in V[r]
    PROVE  \E D \in SUBSET I : \E g \in Assignments :
               /\ r \in D /\ t \notin D /\ g[r] = e
               /\ Closed(linked, D) /\ Consistent(linked, arcs, V, D, g)
<1>1. Mirrored(linked) /\ Backed(linked, arcs, V)
  BY LinksBacked
<1>2. linked \in SUBSET (I \X I) /\ Forest(linked) /\ linked \in SUBSET (Qvars \X Qvars)
  BY PartOfForest DEF TypeOK
<1>3. PICK D \in SUBSET I, g \in Assignments :
          /\ r \in D /\ Tight(linked, D) /\ Closed(linked, D)
          /\ g[r] = e /\ Consistent(linked, arcs, V, D, g)
  BY <1>1, <1>2, TreeAround
<1>4. D \in SUBSET Qvars
  OBVIOUS
<1>5. t \notin D
  BY <1>2, <1>3, <1>4, TreesApart
<1>6. QED  BY <1>3, <1>5

LEMMA NewLinksForest ==
    ASSUME TypeOK, GraphInv, ForestInv, \A a \in arcs : Rev(a) \in arcs,
           Frames(stack) = {}, \A a \in arcs : HasLink(a[1], a[3]),
           NEW q, NEW p, NEW rel, NewLinksEffect(q, p, rel)
    PROVE  ForestInv'
<1>1. PICK accepted : accepted = Accepted(q, p, rel)
  OBVIOUS
<1>2. PICK V : V = ValuesFor(q, p)
  OBVIOUS
<1>3. PICK I : I = initialized \cup {q, p}
  OBVIOUS
<1>4. PICK M : M = Pairs'
  OBVIOUS
<1>5. /\ q \in Qvars /\ p \in Qvars /\ q # p /\ accepted \subseteq Conds \X Conds
      /\ arcs' = arcs \cup {Arc(q, l[1], p, l[2]) : l \in accepted}
                      \cup {Arc(p, l[2], q, l[1]) : l \in accepted}
      /\ Frames(stack') = { UpdateFrame(q, {l[1] : l \in accepted}),
                            UpdateFrame(p, {l[2] : l \in accepted}),
                            RegisterFrame(q, p) }
      /\ linked' = linked /\ values' = V /\ initialized' = I
      /\ \A l \in accepted : l[1] \in V[q] /\ l[2] \in V[p]
  BY <1>1, <1>2, <1>3 DEF NewLinksEffect, LinkTyped, Accepted
<1>6. <<q, p>> \notin linked /\ <<p, q>> \notin linked
  BY DEF NewLinksEffect, HasLink, TypeOK
<1>7. \A r, t : Registering(r, t)' <=> ((r = q /\ t = p) \/ (r = p /\ t = q))
  <2>1. PICK F : F = Frames(stack')
    OBVIOUS
  <2>2. \A h \in F : h.op = "update_links" => h = RegisterFrame(q, p)
    BY <1>5, <2>1 DEF UpdateFrame
  <2>3. RegisterFrame(q, p) \in F
    BY <1>5, <2>1
  <2>4. \A r, t : Registers(F, r, t) <=> ((r = q /\ t = p) \/ (r = p /\ t = q))
    BY <2>2, <2>3 DEF Registers, RegisterFrame
  <2>5. QED  BY <2>1, <2>4 DEF Registering
<1>8. M \in SUBSET (Qvars \X Qvars) /\ linked \subseteq M /\ <<q, p>> \in M /\ <<p, q>> \in M
  <2>1. M = linked \cup {l \in Qvars \X Qvars : Registering(l[1], l[2])'}
    BY <1>4, <1>5 DEF Pairs
  <2>2. linked \subseteq Qvars \X Qvars
    BY DEF TypeOK
  <2>3. PICK l, m : l = <<q, p>> /\ m = <<p, q>>
    OBVIOUS
  <2>4. l \in Qvars \X Qvars /\ m \in Qvars \X Qvars
        /\ l[1] = q /\ l[2] = p /\ m[1] = p /\ m[2] = q
    BY <1>5, <2>3
  <2>5. Registering(l[1], l[2])' /\ Registering(m[1], m[2])'
    BY <1>7, <2>4
  <2>6. l \in M /\ m \in M
    BY <2>1, <2>4, <2>5
  <2>7. QED  BY <2>1, <2>2, <2>3, <2>6
<1>9. SUFFICES ASSUME Forest(M) PROVE NoStale' /\ PendingWitness'
  BY <1>4 DEF ForestInv, Forest, Within, EdgesOf
<1>10. NoStale
  <2>1. Pairs \subseteq M
    BY <1>8 DEF Pairs, Registering, Registers
  <2>2. Forest(Pairs)
    BY <1>8, <1>9, <2>1, PartOfForest
  <2>3. QED  BY <2>2 DEF ForestInv
<1>11. \A l \in linked : V[l[1]] = values[l[1]]
  BY <1>2, ValuesForLinked
<1>12. \A v \in I : V[v] \subseteq Conds
  BY <1>2, <1>3, <1>5, LinkerAssumption DEF LinkerAssumption, ValuesFor, TypeOK
<1>13. NoStale'
  <2>1. ASSUME NEW a \in arcs', <<a[1], a[3]>> \in linked PROVE a[2] \in V[a[1]]
    <3>1. a \in arcs
      BY <1>5, <1>6, <2>1 DEF Arc
    <3>2. a[2] \in values[a[1]]
      BY <2>1, <3>1, <1>10, NothingStale DEF HasLink
    <3>3. PICK l \in linked : l = <<a[1], a[3]>>
      BY <2>1
    <3>4. l[1] = a[1]
      BY <3>3
    <3>5. QED  BY <1>11, <3>2, <3>4
  <2>2. QED  BY <1>5, <2>1 DEF NoStale, HasLink
<1>14. ASSUME NEW r \in Qvars, NEW t \in Qvars, (r = q /\ t = p) \/ (r = p /\ t = q),
              NEW a \in arcs', a[1] = r, a[3] = t, a[2] \in V[r],
              NEW keep, a[2] \in keep,
              \A h \in Frames(stack') :
                  h.op = "update_links" \/ (h.op = "update_results" /\ h.q = t)
                  \/ (h.op = "update_results" /\ h.q = r /\ h.keep = keep)
       PROVE  \E D \in SUBSET initialized' : \E g \in Assignments : Witness(a, D, g)'
  <2>1. /\ <<r, t>> \notin linked /\ <<t, r>> \notin linked /\ <<r, t>> \in M
        /\ I \in SUBSET Qvars /\ initialized \subseteq I /\ r \in I
    BY <1>3, <1>5, <1>6, <1>8, <1>14 DEF TypeOK
  <2>2. PICK D \in SUBSET I, g \in Assignments :
            /\ r \in D /\ t \notin D /\ g[r] = a[2]
            /\ Closed(linked, D) /\ Consistent(linked, arcs, V, D, g)
    BY <1>8, <1>9, <1>10, <1>11, <1>12, <1>14, <2>1, JoinWitness DEF GraphInv
  <2>3. \A l \in linked : l[1] \in D => Arc(l[1], g[l[1]], l[2], g[l[2]]) \in arcs'
    BY <1>5, <2>2 DEF Closed, Consistent
  <2>4. \A h \in Frames(stack') : HarmlessOn(h, D, g)'
    BY <1>14, <2>2 DEF HarmlessOn
  <2>5. KeptOn(D, g)'
    BY <1>5, <2>2, <2>3, <2>4 DEF KeptOn, Closed, Consistent
  <2>6. Witness(a, D, g)'
    BY <1>14, <2>2, <2>5 DEF Witness
  <2>7. QED  BY <1>5, <2>6
<1>15. ASSUME NEW a \in arcs', Registering(a[1], a[3])'
       PROVE  \E D \in SUBSET initialized' : \E g \in Assignments : Witness(a, D, g)'
  <2>1. (a[1] = q /\ a[3] = p) \/ (a[1] = p /\ a[3] = q)
    BY <1>7, <1>15
  <2>2. a \notin arcs
    BY <1>6, <2>1 DEF HasLink
  <2>3. PICK keepq, keepp : keepq = {l[1] : l \in accepted} /\ keepp = {l[2] : l \in accepted}
    OBVIOUS
  <2>4. \A h \in Frames(stack') : \/ h.op = "update_links"
                                  \/ h.op = "update_results" /\ h.q = q /\ h.keep = keepq
                                  \/ h.op = "update_results" /\ h.q = p /\ h.keep = keepp
    BY <1>5, <2>3 DEF UpdateFrame, RegisterFrame
  <2>5. CASE a[1] = q /\ a[3] = p
    <3>1. PICK l \in accepted : a = Arc(q, l[1], p, l[2])
      BY <1>5, <2>2, <2>5 DEF Arc
    <3>2. a[2] = l[1]
      BY <3>1 DEF Arc
    <3>3. a[2] \in V[q] /\ a[2] \in keepq
      BY <1>5, <2>3, <3>2
    <3>4. \A h \in Frames(stack') :
             h.op = "update_links" \/ (h.op = "update_results" /\ h.q = p)
             \/ (h.op = "update_results" /\ h.q = q /\ h.keep = keepq)
      BY <2>4
    <3>5. (q = q /\ p = p) \/ (q = p /\ p = q)
      OBVIOUS
    <3>6. q \in Qvars /\ p \in Qvars
      BY <1>5
    <3>7. QED  BY <1>14, <2>5, <3>3, <3>4, <3>5, <3>6
  <2>6. CASE a[1] = p /\ a[3] = q
    <3>1. PICK l \in accepted : a = Arc(p, l[2], q, l[1])
      BY <1>5, <2>2, <2>6 DEF Arc
    <3>2. a[2] = l[2]
      BY <3>1 DEF Arc
    <3>3. a[2] \in V[p] /\ a[2] \in keepp
      BY <1>5, <2>3, <3>2
    <3>4. \A h \in Frames(stack') :
             h.op = "update_links" \/ (h.op = "update_results" /\ h.q = q)
             \/ (h.op = "update_results" /\ h.q = p /\ h.keep = keepp)
      BY <2>4
    <3>5. (p = q /\ q = p) \/ (p = p /\ q = q)
      OBVIOUS
    <3>6. p \in Qvars /\ q \in Qvars
      BY <1>5
    <3>7. QED  BY <1>14, <2>6, <3>3, <3>4, <3>5, <3>6
  <2>7. QED  BY <2>1, <2>5, <2>6
<1>16. PendingWitness'
  BY <1>15 DEF PendingWitness, Assignments
<1>17. QED  BY <1>13, <1>16
(* A request that links no new pair.                                       *)
LEMMA QuietForest ==
    ASSUME TypeOK, ForestInv, Frames(stack) = {}, \A q, p : ~Registering(q, p),
           \A f \in Frames(stack') : f.op # "update_links",
           \A l \in linked : values'[l[1]] = values[l[1]],
           UNCHANGED <<arcs, linked>>
    PROVE  ForestInv'
<1>1. \A q, p : ~Registers(Frames(stack'), q, p)
  BY DEF Registers
<1>2. PendingWitness'
  BY <1>1 DEF PendingWitness, Registering
<1>3. Pairs' = Pairs
  BY <1>1 DEF Pairs, Registering
<1>4. SUFFICES ASSUME NoStale PROVE NoStale'
  BY <1>2, <1>3 DEF ForestInv, Forest, Within, EdgesOf
<1>5. ASSUME NEW a \in arcs, HasLink(a[1], a[3]) PROVE a[2] \in values'[a[1]]
  <2>1. a[2] \in values[a[1]]
    BY <1>4, <1>5 DEF NoStale, Unlinks
  <2>2. PICK l \in linked : l = <<a[1], a[3]>>
    BY <1>5 DEF HasLink
  <2>3. l[1] = a[1]
    BY <2>2
  <2>4. QED  BY <2>1, <2>3
<1>6. QED  BY <1>5 DEF NoStale, HasLink

LEMMA RequestForest ==
    ASSUME TypeOK, GraphInv, LinksSymmetric, ForestInv, AnyRequest PROVE ForestInv'
<1>1. /\ Frames(stack) = {} /\ \A q, p : ~Registering(q, p)
      /\ \A a \in arcs : HasLink(a[1], a[3])
  BY RequestFinds
<1>2. \A a \in arcs : Rev(a) \in arcs
  <2>1. Idle
    BY RequestsIdle
  <2>2. QED  BY <2>1 DEF LinksSymmetric
<1>3. ASSUME NEW q, NEW new, FreshEffect(q, new) PROVE ForestInv'
  <2>1. \A l \in linked : values'[l[1]] = values[l[1]]
    BY <1>3, FreshKeepsLinked
  <2>2. Frames(stack') = {} /\ UNCHANGED <<arcs, linked>>
    BY <1>3 DEF FreshEffect
  <2>3. QED  BY <1>1, <2>1, <2>2, QuietForest
<1>4. ASSUME NEW q, NEW new, NarrowEffect(q, new) PROVE ForestInv'
  BY <1>1, <1>4, QuietForest DEF NarrowEffect, UpdateFrame
<1>5. ASSUME InvalidEffect PROVE ForestInv'
  BY <1>1, <1>5, QuietForest DEF InvalidEffect
<1>6. ASSUME NEW q, NEW p, NEW rel, OldLinksEffect(q, p, rel) PROVE ForestInv'
  <2>1. \A l \in linked : values'[l[1]] = values[l[1]]
    BY <1>6, ValuesForLinked DEF OldLinksEffect
  <2>2. (\A f \in Frames(stack') : f.op # "update_links") /\ UNCHANGED <<arcs, linked>>
    BY <1>6 DEF OldLinksEffect, BothFrame
  <2>3. QED  BY <1>1, <2>1, <2>2, QuietForest
<1>7. ASSUME NEW q, NEW p, NEW rel, NewLinksEffect(q, p, rel) PROVE ForestInv'
  BY <1>1, <1>2, <1>7, NewLinksForest
<1>8. QED  BY <1>3, <1>4, <1>5, <1>6, <1>7, RequestEffect

LEMMA SameForest == ASSUME ForestInv, UNCHANGED linkerVars PROVE ForestInv'
<1>1. /\ stack' = stack /\ UNCHANGED <<initialized, values, arcs, linked, valid, solutions>>
  BY DEF linkerVars
<1>2. Frames(stack') = Frames(stack)
  BY <1>1
<1>3. \A q, p : Registering(q, p)' <=> Registering(q, p)
  BY <1>2 DEF Registering
<1>4. Pairs' = Pairs
  BY <1>1, <1>3 DEF Pairs
<1>5. NoStale' <=> NoStale
  BY <1>1, <1>2 DEF NoStale, HasLink
<1>6. \A a, D, g : Witness(a, D, g)' <=> Witness(a, D, g)
  BY <1>1, <1>2 DEF Witness, KeptOn, Closed, HarmlessOn, Uses
<1>7. PendingWitness' <=> PendingWitness
  BY <1>1, <1>3, <1>6 DEF PendingWitness, Assignments
<1>8. QED  BY <1>4, <1>5, <1>7 DEF ForestInv, Forest, Within, EdgesOf

LEMMA StartForest == ASSUME NEW d, InitWith(d) PROVE ForestInv
<1>1. arcs = {}
  BY DEF InitWith
<1>2. QED  BY <1>1 DEF ForestInv, NoStale, PendingWitness

LEMMA ForestInvHolds == Spec => []ForestInv
<1>1. TypeOK /\ GraphInv /\ LinksSymmetric /\ ForestInv /\ [Next]_linkerVars => ForestInv'
  BY RequestsAre, RequestForest, CascadeForest, SameForest DEF Next
<1>2. Init => ForestInv
  BY StartForest DEF Init
<1>3. QED  BY <1>1, <1>2, GraphInvHolds, LinksStaySymmetric, TypeCorrect, PTL DEF Spec

LEMMA ForestState ==
    ASSUME TypeOK, GraphInv, LinksSymmetric, ForestInv, Idle, LinksFormForest
    PROVE  /\ Frames(stack) = {} /\ \A a \in arcs : Rev(a) \in arcs
           /\ Forest(linked) /\ NoStale /\ Mirrored(linked) /\ Backed(linked, arcs, values)
<1>1. Frames(stack) = {} /\ \A a \in arcs : Rev(a) \in arcs
  BY FramesEmpty DEF Idle, LinksSymmetric
<1>2. Forest(linked)
  BY ForestMeans
<1>3. NoStale
  <2>1. Pairs = linked
    BY <1>1 DEF Pairs, Registering, Registers
  <2>2. QED  BY <1>2, <2>1 DEF ForestInv
<1>4. Mirrored(linked) /\ Backed(linked, arcs, values)
  BY <1>1, <1>3, LinksBacked DEF GraphInv
<1>5. QED  BY <1>1, <1>2, <1>3, <1>4

LEMMA ForestsExact ==
    ASSUME TypeOK, GraphInv, LinksSymmetric, ForestInv, NoSolutionLost, OnlySolutionsFit
    PROVE  ExactOnForests
<1>1. SUFFICES ASSUME Idle, LinksFormForest
      PROVE  /\ \A a \in arcs : HasLink(a[1], a[3]) =>
                   a[2] \in values[a[1]] /\ a[4] \in values[a[3]]
             /\ valid /\ NoneEmpty =>
                   \A q \in initialized : values[q] = {s[q] : s \in solutions}
  BY DEF ExactOnForests
<1>2. /\ Frames(stack) = {} /\ \A a \in arcs : Rev(a) \in arcs
      /\ Forest(linked) /\ NoStale /\ Mirrored(linked) /\ Backed(linked, arcs, values)
  BY <1>1, ForestState
<1>3. \A a \in arcs : HasLink(a[1], a[3]) => a[2] \in values[a[1]] /\ a[4] \in values[a[3]]
  BY <1>2, NothingStale
<1>4. ASSUME valid, NoneEmpty, NEW q \in initialized, NEW e \in values[q]
      PROVE  \E s \in solutions : s[q] = e
  <2>1. \A v \in initialized : values[v] \subseteq Conds /\ values[v] # {}
    BY <1>4 DEF NoneEmpty, TypeOK
  <2>2. initialized \in SUBSET Qvars /\ linked \in SUBSET (initialized \X initialized)
    BY DEF TypeOK
  <2>3. PICK g \in Assignments : g[q] = e /\ Consistent(linked, arcs, values, initialized, g)
    BY <1>2, <1>4, <2>1, <2>2, WholeAssignment
  <2>4. Fits(g)
    BY <1>2, <2>2, <2>3 DEF Fits, FitsValues, FitsLinks, FitsWork, Consistent
  <2>5. g \in solutions
    BY <1>4, <2>4 DEF OnlySolutionsFit
  <2>6. QED  BY <2>3, <2>5
<1>5. \A q \in initialized : \A s \in solutions : s[q] \in values[q]
  BY DEF NoSolutionLost
<1>6. ASSUME valid, NoneEmpty, NEW q \in initialized
      PROVE  values[q] = {s[q] : s \in solutions}
  <2>1. values[q] \subseteq {s[q] : s \in solutions}
    BY <1>4, <1>6
  <2>2. {s[q] : s \in solutions} \subseteq values[q]
    BY <1>5
  <2>3. QED  BY <2>1, <2>2
<1>7. QED  BY <1>3, <1>6

(* A removal that empties a variable makes the state invalid, so that no   *)
(* other variable of a valid state is ever empty.                          *)
LEMMA InwardFull ==
    ASSUME TypeOK, valid => NoneEmpty, NEW f, NEW R, Innermost(f, R), Inward(f, R)
    PROVE  valid' => NoneEmpty'
<1>1. /\ values \in [Qvars -> SUBSET Conds] /\ initialized \subseteq Qvars
      /\ initialized' = initialized
  BY InwardSteps DEF TypeOK
<1>2. SUFFICES ASSUME valid', NEW v \in initialized PROVE values'[v] # {}
  BY <1>1 DEF NoneEmpty
<1>3. valid /\ values[v] # {} /\ v \in Qvars
  BY <1>1, <1>2, InwardSteps DEF NoneEmpty
<1>4. ASSUME NEW q, NEW c, NEW Q, Removes(q, c, Q) PROVE values'[v] # {}
  BY <1>1, <1>2, <1>3, <1>4 DEF Removes
<1>5. CASE UpdateEffect(f, R)
  BY <1>4, <1>5 DEF UpdateEffect
<1>6. CASE BreakEffect(f, R)
  BY <1>3, <1>4, <1>6 DEF BreakEffect
<1>7. CASE UnlinkEffect(f, R) \/ BothEffect(f, R) \/ ReturnEffect(f, R)
  BY <1>3, <1>7 DEF UnlinkEffect, BothEffect, ReturnEffect
<1>8. QED  BY <1>5, <1>6, <1>7 DEF Inward

LEMMA CascadeFull ==
    ASSUME TypeOK, valid => NoneEmpty, Cascade PROVE valid' => NoneEmpty'
<1>1. ASSUME NEW f, NEW R, RegisterEffect(f, R) PROVE valid' => NoneEmpty'
  BY <1>1 DEF RegisterEffect, NoneEmpty
<1>2. QED  BY <1>1, CascadeEffect, InwardFull DEF Inward

(* A request fills no variable the first time with nothing when there is   *)
(* no first time left.                                                     *)
LEMMA RequestFull ==
    ASSUME TypeOK, initialized = Qvars, valid => NoneEmpty, AnyRequest
    PROVE  initialized' = Qvars /\ (valid' => NoneEmpty')
<1>1. \A q, new : ~FreshEffect(q, new)
  BY DEF FreshEffect
<1>2. \A q, p : ValuesFor(q, p) = values
  BY DEF ValuesFor, TypeOK
<1>3. ASSUME NEW q, NEW new, NarrowEffect(q, new)
      PROVE  initialized' = Qvars /\ (valid' => NoneEmpty')
  BY <1>3 DEF NarrowEffect, NoneEmpty
<1>4. CASE InvalidEffect
  BY <1>4 DEF InvalidEffect, NoneEmpty
<1>5. ASSUME NEW q, NEW p, NEW rel, OldLinksEffect(q, p, rel) \/ NewLinksEffect(q, p, rel)
      PROVE  initialized' = Qvars /\ (valid' => NoneEmpty')
  BY <1>2, <1>5 DEF OldLinksEffect, NewLinksEffect, LinkTyped, NoneEmpty
<1>6. QED  BY <1>1, <1>3, <1>4, <1>5, RequestEffect

(* The pairs that are linked or about to be.                               *)
LEMMA CascadePairs == ASSUME TypeOK, GraphInv, Cascade PROVE Pairs' \subseteq Pairs
<1>1. ASSUME NEW f, NEW R, Innermost(f, R), Inward(f, R) PROVE Pairs' \subseteq Pairs
  <2>1. linked' = linked /\ \A q, p : Registers(Frames(stack'), q, p) <=> Registering(q, p)
    BY <1>1, InwardSteps
  <2>2. QED  BY <2>1 DEF Pairs, Registering
<1>2. ASSUME NEW f, NEW R, Innermost(f, R), RegisterEffect(f, R) PROVE Pairs' \subseteq Pairs
  <2>1. /\ Frames(stack') = {} /\ f.q \in Qvars /\ f.p \in Qvars
        /\ Registering(f.q, f.p) /\ Registering(f.p, f.q)
        /\ linked' = linked \cup {<<f.q, f.p>>, <<f.p, f.q>>}
    BY <1>2, RegisterAlone
  <2>2. \A q, p : ~Registers(Frames(stack'), q, p)
    BY <2>1 DEF Registers
  <2>3. QED  BY <2>1, <2>2 DEF Pairs, Registering
<1>3. QED  BY <1>1, <1>2, CascadeEffect DEF Inward

LEMMA QuietPairs ==
    ASSUME linked' = linked, \A f \in Frames(stack') : f.op # "update_links"
    PROVE  Pairs' \subseteq Pairs
<1>1. \A q, p : ~Registers(Frames(stack'), q, p)
  BY DEF Registers
<1>2. QED  BY <1>1 DEF Pairs, Registering

LEMMA LinksPairs ==
    ASSUME TypeOK, NEW q \in Qvars, NEW p \in Qvars, q # p,
           NEW rel \in SUBSET (Conds \X Conds), UpdateLinks(q, p, rel)
    PROVE  Pairs' \subseteq Pairs \cup {<<q, p>>, <<p, q>>}
<1>1. CASE OldLinksEffect(q, p, rel)
  <2>1. Pairs' \subseteq Pairs
    BY <1>1, QuietPairs DEF OldLinksEffect, BothFrame
  <2>2. QED  BY <2>1
<1>2. CASE NewLinksEffect(q, p, rel)
  <2>1. linked' = linked
    BY <1>2 DEF NewLinksEffect
  <2>2. ASSUME NEW a, NEW b, Registers(Frames(stack'), a, b)
        PROVE  (a = q /\ b = p) \/ (a = p /\ b = q)
    <3>1. PICK f \in Frames(stack') :
             f.op = "update_links" /\ ((f.q = a /\ f.p = b) \/ (f.q = b /\ f.p = a))
      BY <2>2 DEF Registers
    <3>2. f = RegisterFrame(q, p)
      BY <1>2, <3>1 DEF NewLinksEffect, UpdateFrame
    <3>3. QED  BY <3>1, <3>2 DEF RegisterFrame
  <2>3. QED  BY <2>1, <2>2 DEF Pairs, Registering
<1>3. QED  BY <1>1, <1>2, OldLinksRequested, NewLinksRequested DEF UpdateLinks

LEMMA OthersPairs ==
    ASSUME TypeOK,
           \/ \E q \in Qvars : \E new \in SUBSET Conds : UpdateResults(q, new)
           \/ \E q \in Qvars : GetConditions(q)
           \/ InvalidateState
           \/ UNCHANGED linkerVars
    PROVE  Pairs' \subseteq Pairs
<1>1. ASSUME NEW q, NEW new, FreshEffect(q, new) \/ NarrowEffect(q, new)
      PROVE  Pairs' \subseteq Pairs
  BY <1>1, QuietPairs DEF FreshEffect, NarrowEffect, UpdateFrame
<1>2. CASE InvalidateState \/ \E q \in Qvars : GetConditions(q)
  <2>1. stack' = stack /\ linked' = linked /\ stack = <<>>
    BY <1>2 DEF InvalidateState, GetConditions, Idle
  <2>2. Frames(stack') = {}
    BY <2>1, FramesEmpty
  <2>3. QED  BY <2>1, <2>2, QuietPairs
<1>3. CASE UNCHANGED linkerVars
  <2>1. stack' = stack /\ linked' = linked
    BY <1>3 DEF linkerVars
  <2>2. QED  BY <2>1 DEF Pairs, Registering
<1>4. QED  BY <1>1, <1>2, <1>3, UpdateRequested

(* A pair that is linked or about to be stays so, and update_links makes   *)
(* its own pair one.                                                       *)
LEMMA CascadeKeepsPairs == ASSUME TypeOK, GraphInv, Cascade PROVE Pairs \subseteq Pairs'
<1>1. ASSUME NEW f, NEW R, Innermost(f, R), Inward(f, R) PROVE Pairs \subseteq Pairs'
  <2>1. linked' = linked /\ \A q, p : Registers(Frames(stack'), q, p) <=> Registering(q, p)
    BY <1>1, InwardSteps
  <2>2. QED  BY <2>1 DEF Pairs, Registering
<1>2. ASSUME NEW f, NEW R, Innermost(f, R), RegisterEffect(f, R) PROVE Pairs \subseteq Pairs'
  <2>1. /\ linked' = linked \cup {<<f.q, f.p>>, <<f.p, f.q>>}
        /\ \A q, p : Registering(q, p) => <<q, p>> \in linked'
    BY <1>2, RegisterAlone
  <2>2. \A l \in Qvars \X Qvars : Registering(l[1], l[2]) => l \in linked'
    BY <2>1
  <2>3. QED  BY <2>1, <2>2 DEF Pairs
<1>3. QED  BY <1>1, <1>2, CascadeEffect DEF Inward

LEMMA IdlePairs == ASSUME Idle PROVE Pairs = linked
<1>1. Frames(stack) = {}
  BY FramesEmpty DEF Idle
<1>2. QED  BY <1>1 DEF Pairs, Registering, Registers

LEMMA RequestKeepsPairs == ASSUME AnyRequest PROVE Pairs \subseteq Pairs'
<1>1. Pairs = linked
  BY RequestsIdle, IdlePairs
<1>2. linked' = linked
  <2>1. \A q, p, rel : UpdateLinks(q, p, rel) => linked' = linked
    BY DEF UpdateLinks, UpdateOldLinks, UpdateNewLinks
  <2>2. QED  BY <2>1 DEF AnyRequest, UpdateResults, GetConditions, InvalidateState
<1>3. QED  BY <1>1, <1>2 DEF Pairs

LEMMA LinksEnter ==
    ASSUME TypeOK, NEW q \in Qvars, NEW p \in Qvars, q # p,
           NEW rel \in SUBSET (Conds \X Conds), UpdateLinks(q, p, rel)
    PROVE  <<q, p>> \in Pairs'
<1>1. CASE OldLinksEffect(q, p, rel)
  BY <1>1 DEF OldLinksEffect, HasLink, Pairs
<1>2. CASE NewLinksEffect(q, p, rel)
  <2>1. RegisterFrame(q, p) \in Frames(stack')
    BY <1>2 DEF NewLinksEffect
  <2>2. Registers(Frames(stack'), q, p)
    BY <2>1 DEF Registers, RegisterFrame
  <2>3. QED  BY <2>2 DEF Pairs, Registering
<1>3. QED  BY <1>1, <1>2, OldLinksRequested, NewLinksRequested DEF UpdateLinks

(* On forests the linker is exact: between calls no link of a registered   *)
(* pair touches a condition that is gone, and while the state is valid and *)
(* no variable is empty every condition left in _qvar_table belongs to an  *)
(* assignment satisfying all the requests, and none is missing, whatever   *)
(* the order in which remove_condition, break_link and update_links ran.   *)
THEOREM ForestsAreExact == Spec => []ExactOnForests
BY ForestsExact, ForestInvHolds, GraphInvHolds, LinksStaySymmetric, NeverLosesASolution,
   NothingInvented, TypeCorrect, PTL
-----------------------------------------------------------------------------
(* The tuples of a selection without detours on a forest.                  *)
LEMMA DirectReach ==
    ASSUME NEW q \in Qvars, NEW p \in Qvars, HasLink(q, p), NEW c \in Conds
    PROVE  HasIndirectLinks(q, p) /\ IndirectLinks(q, p, c) = Partners(q, c, p)
<1>1. HasIndirectLinks(q, p)
  <2>1. PICK f : f = CHOOSE g : ReachEquation(g, p)
    OBVIOUS
  <2>2. ReachEquation(f, p)
    BY <2>1, ReachSolvable
  <2>3. HasIndirectLinks(q, p) <=> q \in f[{}]
    BY <2>1 DEF HasIndirectLinks, ReachEquation
  <2>4. q \in f[{}]
    BY <2>2 DEF ReachEquation
  <2>5. QED  BY <2>3, <2>4
<1>2. IndirectLinks(q, p, c) = Partners(q, c, p)
  <2>1. PICK f : /\ \A r \in Qvars : \A d \in Conds : IndirectLinks(r, p, d) = f[{}][r][d]
                 /\ \A v \in SUBSET Qvars : \A r \in Qvars : \A d \in Conds :
                       /\ HasLink(r, p) => f[v][r][d] = Partners(r, d, p)
                       /\ ~HasLink(r, p) =>
                             \A m \in LinkedTo(r) \ v : \A e \in Partners(r, d, m) :
                                f[VisitedAt(r, m, v)][m][e] \subseteq f[v][r][d]
    BY LeadsAre
  <2>2. QED  BY <2>1
<1>3. QED  BY <1>1, <1>2

(* A search that can only start along one link, to a neighbour of p, stops *)
(* there.                                                                  *)
Bridge(q, m, p) == ~HasLink(q, p) /\ HasLink(m, p) /\ LinkedTo(q) = {m}

LEMMA BridgeReach ==
    ASSUME NEW q \in Qvars, NEW m \in Qvars, NEW p \in Qvars, Bridge(q, m, p), NEW c \in Conds
    PROVE  /\ HasIndirectLinks(q, p)
           /\ \A d \in IndirectLinks(q, p, c) : \E e \in Partners(q, c, m) : d \in Partners(m, e, p)
<1> DEFINE w == VisitedAt(q, m, {})
<1>1. LinkedTo(q) \ {} = {m} /\ HasLink(m, p) /\ ~HasLink(q, p)
  BY DEF Bridge
<1>2. w \in SUBSET Qvars
  BY <1>1, Visiting
<1> HIDE DEF w
<1>3. HasIndirectLinks(q, p)
  <2>1. PICK f : f = CHOOSE g : ReachEquation(g, p)
    OBVIOUS
  <2>2. ReachEquation(f, p)
    BY <2>1, ReachSolvable
  <2>3. HasIndirectLinks(q, p) <=> q \in f[{}]
    BY <2>1 DEF HasIndirectLinks, ReachEquation
  <2>4. m \in f[w]
    BY <1>1, <1>2, <2>2 DEF ReachEquation
  <2>5. q \in f[{}]
    BY <1>1, <2>2, <2>4 DEF ReachEquation, w
  <2>6. QED  BY <2>3, <2>5
<1>4. ASSUME NEW d \in IndirectLinks(q, p, c)
      PROVE  \E e \in Partners(q, c, m) : d \in Partners(m, e, p)
  <2>1. PICK f : /\ \A r \in Qvars : \A x \in Conds : IndirectLinks(r, p, x) = f[{}][r][x]
                 /\ \A v \in SUBSET Qvars : \A r \in Qvars : \A x \in Conds :
                       LeadsIn(f, p, v, r, x)
    BY LeadsFrom
  <2>2. d \in f[{}][q][c] /\ {} \in SUBSET Qvars
    BY <2>1
  <2>3. PICK n \in LinkedTo(q) \ {} :
           \E e \in Partners(q, c, n) : d \in f[VisitedAt(q, n, {})][n][e]
    BY <1>1, <2>1, <2>2 DEF LeadsIn
  <2>4. PICK e \in Partners(q, c, n) : d \in f[VisitedAt(q, n, {})][n][e]
    BY <2>3
  <2>5. n = m /\ e \in Conds
    BY <1>1, <2>3, <2>4 DEF Partners
  <2>6. d \in f[w][m][e]
    BY <2>4, <2>5 DEF w
  <2>7. f[w][m][e] = Partners(m, e, p)
    BY <1>1, <1>2, <2>1, <2>5 DEF LeadsIn
  <2>8. QED  BY <2>4, <2>5, <2>6, <2>7
<1>5. QED  BY <1>3, <1>4

(* What make_tuples has checked of the conditions u it has put together    *)
(* for the variables from the i-th on.                                     *)
Bridged(q, c, m, p, d) ==
    \E e \in Conds : Arc(q, c, m, e) \in arcs /\ Arc(m, e, p, d) \in arcs
Agreeing(q, c, p, d) ==
    /\ q = p => c = d
    /\ HasLink(q, p) => Arc(q, c, p, d) \in arcs
    /\ \A m \in Qvars : Bridge(q, m, p) => Bridged(q, c, m, p, d)
Checked(qs, i, u) ==
    /\ u \in Seq(Conds) /\ Len(u) = Len(qs) - i + 1
    /\ \A k \in 1 .. Len(u) : u[k] \in values[qs[i + k - 1]]
    /\ \A j, k \in 1 .. Len(u) : j < k => Agreeing(qs[i + j - 1], u[j], qs[i + k - 1], u[k])

LEMMA FirstChecked ==
    ASSUME TypeOK, NEW qs \in Seq(Qvars), qs # <<>>, NEW c \in values[qs[Len(qs)]]
    PROVE  Checked(qs, Len(qs), <<c>>)
<1>1. Len(qs) \in Nat /\ Len(qs) >= 1 /\ c \in Conds
  BY EmptySeq DEF TypeOK
<1>2. PICK u : u = <<c>>
  OBVIOUS
<1>3. u \in Seq(Conds) /\ Len(u) = 1 /\ u[1] = c
  BY <1>1, <1>2
<1>4. Len(qs) - Len(qs) + 1 = 1 /\ \A k \in 1 .. 1 : k = 1 /\ Len(qs) + k - 1 = Len(qs)
  BY <1>1
<1>5. Checked(qs, Len(qs), u)
  BY <1>3, <1>4 DEF Checked
<1>6. QED  BY <1>2, <1>5

LEMMA PutInFront ==
    ASSUME NEW c \in Conds, NEW t \in Seq(Conds)
    PROVE  /\ InFront(c, t) \in Seq(Conds) /\ Len(InFront(c, t)) = Len(t) + 1
           /\ InFront(c, t)[1] = c
           /\ \A k \in 1 .. Len(t) + 1 : k # 1 =>
                 k - 1 \in 1 .. Len(t) /\ InFront(c, t)[k] = t[k - 1]
<1>1. PICK w \in Seq(Conds) : w = <<c>>
  <2>1. <<c>> \in Seq(Conds)
    OBVIOUS
  <2>2. QED  BY <2>1
<1>2. Len(w) = 1 /\ w[1] = c /\ Len(t) \in Nat
  BY <1>1
<1>3. /\ w \o t \in Seq(Conds) /\ Len(w \o t) = Len(w) + Len(t)
      /\ \A k \in 1 .. Len(w) + Len(t) :
            (w \o t)[k] = IF k <= Len(w) THEN w[k] ELSE t[k - Len(w)]
  BY ConcatProperties
<1>4. w \o t = InFront(c, t)
  BY <1>1 DEF InFront
<1>5. PICK u : u = InFront(c, t)
  OBVIOUS
<1>6. PICK n \in Nat : n = Len(t)
  BY <1>2
<1>7. /\ u \in Seq(Conds) /\ Len(u) = n + 1
      /\ \A k \in 1 .. n + 1 : u[k] = IF k <= 1 THEN w[k] ELSE t[k - 1]
  BY <1>2, <1>3, <1>4, <1>5, <1>6
<1>8. u[1] = c
  BY <1>2, <1>7
<1>9. \A k \in 1 .. n + 1 : k # 1 => k - 1 \in 1 .. n /\ u[k] = t[k - 1]
  BY <1>7
<1>10. QED  BY <1>5, <1>6, <1>7, <1>8, <1>9

LEMMA NextChecked ==
    ASSUME TypeOK, NEW qs \in Seq(Qvars), NEW i \in 1 .. Len(qs), i # Len(qs),
           NEW c \in values[qs[i]], NEW t, Checked(qs, i + 1, t),
           ValidTuple(qs[i], c, SubSeq(qs, i + 1, Len(qs)), t)
    PROVE  Checked(qs, i, InFront(c, t))
<1>1. /\ Len(qs) \in Nat /\ i \in Nat /\ i + 1 \in 1 .. Len(qs)
      /\ \A k \in 1 .. Len(qs) : qs[k] \in Qvars
  OBVIOUS
<1>2. c \in Conds /\ t \in Seq(Conds)
  BY <1>1 DEF TypeOK, Checked
<1>3. PICK n \in Nat : n = Len(qs) - i
  BY <1>1
<1>4. Len(t) = n
  BY <1>1, <1>3 DEF Checked
<1>5. PICK u : u = InFront(c, t)
  OBVIOUS
<1>6. /\ u \in Seq(Conds) /\ Len(u) = n + 1 /\ u[1] = c
      /\ \A k \in 1 .. n + 1 : k # 1 => k - 1 \in 1 .. n /\ u[k] = t[k - 1]
  <2>1. /\ InFront(c, t) \in Seq(Conds) /\ Len(InFront(c, t)) = Len(t) + 1
        /\ InFront(c, t)[1] = c
        /\ \A k \in 1 .. Len(t) + 1 : k # 1 =>
              k - 1 \in 1 .. Len(t) /\ InFront(c, t)[k] = t[k - 1]
    BY <1>2, PutInFront
  <2>2. QED  BY <1>4, <1>5, <2>1
<1>7. /\ \A k \in 1 .. n : t[k] \in values[qs[i + k]]
      /\ \A j, k \in 1 .. n : j < k => Agreeing(qs[i + j], t[j], qs[i + k], t[k])
  <2>1. \A k \in 1 .. n : (i + 1) + k - 1 = i + k
    BY <1>1, <1>3
  <2>2. QED  BY <1>4, <2>1 DEF Checked
<1>8. ASSUME NEW k \in 1 .. n PROVE Agreeing(qs[i], c, qs[i + k], t[k])
  <2>1. i + k \in 1 .. Len(qs)
    BY <1>1, <1>3
  <2>2. PICK rest : rest = SubSeq(qs, i + 1, Len(qs))
    OBVIOUS
  <2>3. rest = [m \in 1 .. n |-> qs[i + m]]
    BY <1>1, <1>3, <2>2
  <2>4. DOMAIN rest = 1 .. n /\ rest[k] = qs[i + k]
    BY <2>3
  <2>5. /\ qs[i] = rest[k] => c = t[k]
        /\ HasIndirectLinks(qs[i], rest[k]) => t[k] \in IndirectLinks(qs[i], rest[k], c)
    BY <2>2, <2>4 DEF ValidTuple
  <2>6. PICK p \in Qvars : p = qs[i + k]
    BY <1>1, <2>1
  <2>7. PICK q \in Qvars : q = qs[i]
    BY <1>1
  <2>8. HasLink(q, p) => t[k] \in Partners(q, c, p)
    BY <1>2, <2>4, <2>5, <2>6, <2>7, DirectReach
  <2>9. ASSUME NEW m \in Qvars, Bridge(q, m, p) PROVE Bridged(q, c, m, p, t[k])
    <3>1. HasIndirectLinks(q, p)
      BY <1>2, <2>9, BridgeReach
    <3>2. t[k] \in IndirectLinks(q, p, c)
      BY <2>4, <2>5, <2>6, <2>7, <3>1
    <3>3. PICK e \in Partners(q, c, m) : t[k] \in Partners(m, e, p)
      BY <1>2, <2>9, <3>2, BridgeReach
    <3>4. QED  BY <3>3 DEF Bridged, Partners
  <2>10. Agreeing(q, c, p, t[k])
    BY <2>4, <2>5, <2>6, <2>7, <2>8, <2>9 DEF Agreeing, Partners
  <2>11. QED  BY <2>6, <2>7, <2>10
<1>9. \A k \in 1 .. n + 1 : u[k] \in values[qs[i + k - 1]]
  <2>1. TAKE k \in 1 .. n + 1
  <2>2. CASE k = 1
    <3>1. i + 1 - 1 = i
      BY <1>1
    <3>2. QED  BY <1>6, <2>2, <3>1
  <2>3. CASE k # 1
    <3>1. k - 1 \in 1 .. n /\ u[k] = t[k - 1] /\ i + (k - 1) = i + k - 1
      BY <1>1, <1>6, <2>3
    <3>2. t[k - 1] \in values[qs[i + (k - 1)]]
      BY <1>7, <3>1
    <3>3. QED  BY <3>1, <3>2
  <2>4. QED  BY <2>2, <2>3
<1>10. ASSUME NEW j \in 1 .. n + 1, NEW k \in 1 .. n + 1, j < k
       PROVE  Agreeing(qs[i + j - 1], u[j], qs[i + k - 1], u[k])
  <2>1. k - 1 \in 1 .. n /\ u[k] = t[k - 1] /\ i + (k - 1) = i + k - 1
    BY <1>1, <1>6, <1>10
  <2>2. CASE j = 1
    <3>1. i + j - 1 = i /\ u[j] = c
      BY <1>1, <1>6, <2>2
    <3>2. Agreeing(qs[i], c, qs[i + (k - 1)], t[k - 1])
      BY <1>8, <2>1
    <3>3. QED  BY <2>1, <3>1, <3>2
  <2>3. CASE j # 1
    <3>1. j - 1 \in 1 .. n /\ u[j] = t[j - 1] /\ i + (j - 1) = i + j - 1 /\ j - 1 < k - 1
      BY <1>1, <1>6, <1>10, <2>3
    <3>2. Agreeing(qs[i + (j - 1)], t[j - 1], qs[i + (k - 1)], t[k - 1])
      BY <1>7, <2>1, <3>1
    <3>3. QED  BY <2>1, <3>1, <3>2
  <2>4. QED  BY <2>2, <2>3
<1>11. Len(qs) - i + 1 = n + 1
  BY <1>3
<1>12. Checked(qs, i, u)
  BY <1>6, <1>9, <1>10, <1>11 DEF Checked
<1>13. QED  BY <1>5, <1>12
LEMMA MadeChecked ==
    ASSUME TypeOK, NEW qs \in Seq(Qvars), qs # <<>>, NEW u \in MakeTuples(qs)
    PROVE  Checked(qs, 1, u)
<1>1. Len(qs) \in Nat /\ Len(qs) >= 1
  BY EmptySeq
<1>2. PICK f :
         /\ MakeTuples(qs) = f[1]
         /\ \A i \in 1 .. Len(qs) : \A c \in values[qs[i]] :
               /\ i = Len(qs) => <<c>> \in f[i]
               /\ i # Len(qs) =>
                     \A t \in f[i + 1] :
                        ValidTuple(qs[i], c, SubSeq(qs, i + 1, Len(qs)), t)
                           => InFront(c, t) \in f[i]
         /\ \A i \in 1 .. Len(qs) : \A w \in f[i] : \E c \in values[qs[i]] :
               /\ i = Len(qs) => w = <<c>>
               /\ i # Len(qs) =>
                     \E t \in f[i + 1] :
                        /\ ValidTuple(qs[i], c, SubSeq(qs, i + 1, Len(qs)), t)
                        /\ w = InFront(c, t)
  BY TuplesAre
<1> DEFINE Wrong == {i \in 1 .. Len(qs) : \E w \in f[i] : ~Checked(qs, i, w)}
<1>3. ASSUME Wrong # {} PROVE FALSE
  <2>1. PICK i \in Wrong : \A k \in Wrong : k <= i
    <3>1. Wrong \in SUBSET (1 .. Len(qs))
      OBVIOUS
    <3> HIDE DEF Wrong
    <3>2. QED  BY <1>1, <1>3, <3>1, GreatestOf
  <2>2. i \in 1 .. Len(qs)
    OBVIOUS
  <2>3. PICK w \in f[i] : ~Checked(qs, i, w)
    OBVIOUS
  <2>4. PICK c \in values[qs[i]] :
           /\ i = Len(qs) => w = <<c>>
           /\ i # Len(qs) =>
                 \E t \in f[i + 1] :
                    /\ ValidTuple(qs[i], c, SubSeq(qs, i + 1, Len(qs)), t)
                    /\ w = InFront(c, t)
    BY <1>2, <2>2
  <2>5. CASE i = Len(qs)
    BY <2>3, <2>4, <2>5, FirstChecked
  <2>6. CASE i # Len(qs)
    <3>1. PICK t \in f[i + 1] : /\ ValidTuple(qs[i], c, SubSeq(qs, i + 1, Len(qs)), t)
                                /\ w = InFront(c, t)
      BY <2>4, <2>6
    <3>2. i + 1 \in 1 .. Len(qs) /\ ~(i + 1 <= i)
      BY <1>1, <2>2, <2>6
    <3>3. Checked(qs, i + 1, t)
      BY <2>1, <3>2
    <3> HIDE DEF Wrong
    <3>4. Checked(qs, i, InFront(c, t))
      BY <2>2, <2>6, <3>1, <3>3, NextChecked
    <3>5. QED  BY <2>3, <3>1, <3>4
  <2>7. QED  BY <2>5, <2>6
<1>4. 1 \in 1 .. Len(qs)
  BY <1>1
<1>5. QED  BY <1>2, <1>3, <1>4

SelectedIn(qs) == {qs[i] : i \in DOMAIN qs}

(* The assignment of the selected variables that a tuple stands for.       *)
LEMMA TupleAssigns ==
    ASSUME TypeOK, GraphInv, LinksSymmetric, Idle, Forest(linked), Mirrored(linked),
           NEW qs \in Seq(Qvars), qs # <<>>, NEW u, Checked(qs, 1, u)
    PROVE  \E g \in Assignments :
              /\ \A k \in 1 .. Len(qs) : g[qs[k]] = u[k]
              /\ Consistent(linked, arcs, values, SelectedIn(qs), g)
<1>1. /\ Len(qs) \in Nat /\ 1 \in 1 .. Len(qs) /\ DOMAIN qs = 1 .. Len(qs)
      /\ \A k \in 1 .. Len(qs) : qs[k] \in Qvars
  BY EmptySeq
<1>2. /\ u \in Seq(Conds) /\ Len(u) = Len(qs)
      /\ \A k \in 1 .. Len(qs) : u[k] \in Conds /\ u[k] \in values[qs[k]]
      /\ \A j, k \in 1 .. Len(qs) : j < k => Agreeing(qs[j], u[j], qs[k], u[k])
  <2>1. \A k \in 1 .. Len(qs) : 1 + k - 1 = k
    BY <1>1
  <2>2. u \in Seq(Conds) /\ Len(u) = Len(qs)
    BY <1>1 DEF Checked
  <2>3. \A k \in 1 .. Len(qs) : u[k] \in Conds
    BY <2>2
  <2>4. QED  BY <2>1, <2>2, <2>3 DEF Checked
<1>3. \A j, k \in 1 .. Len(qs) : qs[j] = qs[k] => u[j] = u[k]
  <2>1. ASSUME NEW j \in 1 .. Len(qs), NEW k \in 1 .. Len(qs), qs[j] = qs[k]
        PROVE  u[j] = u[k]
    <3>1. j < k \/ j = k \/ k < j
      BY <1>1
    <3>2. QED  BY <1>2, <2>1, <3>1 DEF Agreeing
  <2>2. QED  BY <2>1
<1> DEFINE At(v) == CHOOSE k \in 1 .. Len(qs) : qs[k] = v
           g == [v \in Qvars |-> IF v \in SelectedIn(qs) THEN u[At(v)] ELSE u[1]]
<1>4. \A v \in SelectedIn(qs) : At(v) \in 1 .. Len(qs) /\ qs[At(v)] = v
  BY <1>1 DEF SelectedIn
<1>5. \A k \in 1 .. Len(qs) : qs[k] \in SelectedIn(qs)
  BY <1>1 DEF SelectedIn
<1> HIDE DEF At
<1>6. g \in Assignments
  BY <1>1, <1>2, <1>4 DEF Assignments
<1>7. \A k \in 1 .. Len(qs) : g[qs[k]] = u[k]
  BY <1>1, <1>3, <1>4, <1>5
<1> HIDE DEF g
<1>8. \A v \in SelectedIn(qs) : \E k \in 1 .. Len(qs) : v = qs[k]
  BY <1>4
<1>9. \A v \in SelectedIn(qs) : g[v] \in values[v]
  BY <1>2, <1>7, <1>8
<1>10. ASSUME NEW l \in linked, l[1] \in SelectedIn(qs), l[2] \in SelectedIn(qs)
       PROVE  Arc(l[1], g[l[1]], l[2], g[l[2]]) \in arcs
  <2>1. l \in Qvars \X Qvars /\ linked \in SUBSET (Qvars \X Qvars)
    BY DEF TypeOK
  <2>2. l[1] # l[2]
    BY <2>1, NoLoops
  <2>3. PICK q, p : q = l[1] /\ p = l[2] /\ l = <<q, p>>
    BY <2>1
  <2>4. HasLink(q, p) /\ HasLink(p, q)
    BY <2>3 DEF HasLink, Mirrored
  <2>5. PICK j \in 1 .. Len(qs), k \in 1 .. Len(qs) : q = qs[j] /\ p = qs[k]
    BY <1>8, <1>10, <2>3
  <2>6. j < k \/ k < j
    BY <1>1, <2>2, <2>3, <2>5
  <2>7. CASE j < k
    BY <1>2, <1>7, <2>3, <2>4, <2>5, <2>7 DEF Agreeing
  <2>8. CASE k < j
    <3>1. Arc(p, u[k], q, u[j]) \in arcs
      BY <1>2, <2>4, <2>5, <2>8 DEF Agreeing
    <3>2. Rev(Arc(p, u[k], q, u[j])) \in arcs
      BY <3>1 DEF LinksSymmetric
    <3>3. Arc(q, u[j], p, u[k]) \in arcs
      BY <3>2 DEF Rev, Arc
    <3>4. QED  BY <1>7, <2>3, <2>5, <3>3
  <2>9. QED  BY <2>6, <2>7, <2>8
<1>11. QED  BY <1>6, <1>7, <1>9, <1>10 DEF Consistent

LEMMA TupleExtends ==
    ASSUME TypeOK, GraphInv, LinksSymmetric, ForestInv, OnlySolutionsFit,
           Idle, LinksFormForest, valid, NoneEmpty,
           NEW qs \in Seq(Qvars), qs # <<>>, \A i \in DOMAIN qs : qs[i] \in initialized,
           NoDetour(linked, SelectedIn(qs)), NEW u \in MakeTuples(qs)
    PROVE  u \in SolutionTuples(qs)
<1>1. /\ Frames(stack) = {} /\ Forest(linked)
      /\ Mirrored(linked) /\ Backed(linked, arcs, values)
  BY ForestState
<1>2. PICK g0 \in Assignments :
         /\ \A k \in 1 .. Len(qs) : g0[qs[k]] = u[k]
         /\ Consistent(linked, arcs, values, SelectedIn(qs), g0)
  BY <1>1, MadeChecked, TupleAssigns
<1>3. \A v \in initialized : values[v] \subseteq Conds /\ values[v] # {}
  BY DEF NoneEmpty, TypeOK
<1>4. /\ initialized \in SUBSET Qvars /\ linked \in SUBSET (initialized \X initialized)
      /\ SelectedIn(qs) \in SUBSET initialized
  BY DEF TypeOK, SelectedIn
<1>5. \E g \in Assignments : /\ Agree(SelectedIn(qs), g, g0)
                             /\ Consistent(linked, arcs, values, initialized, g)
  BY <1>1, <1>2, <1>3, <1>4, WholeFrom
<1>6. PICK s \in Assignments : /\ Agree(SelectedIn(qs), s, g0)
                               /\ Consistent(linked, arcs, values, initialized, s)
  BY <1>5
<1>7. Fits(s)
  BY <1>1, <1>4, <1>6 DEF Fits, FitsValues, FitsLinks, FitsWork, Consistent
<1>8. s \in solutions
  BY <1>7 DEF OnlySolutionsFit
<1>9. u = [i \in DOMAIN qs |-> s[qs[i]]]
  <2>1. u \in Seq(Conds) /\ Len(u) = Len(qs) - 1 + 1 /\ Len(qs) \in Nat /\ DOMAIN qs = 1 .. Len(qs)
    BY MadeChecked DEF Checked
  <2>2. Len(u) = Len(qs) /\ u = [i \in 1 .. Len(u) |-> u[i]]
    BY <2>1
  <2>3. \A i \in 1 .. Len(qs) : u[i] = s[qs[i]]
    BY <1>2, <1>6, <2>1 DEF Agree, SelectedIn
  <2>4. QED  BY <2>1, <2>2, <2>3
<1>10. QED  BY <1>8, <1>9 DEF SolutionTuples

LEMMA TuplesExact ==
    ASSUME TypeOK, GraphInv, LinksSymmetric, ForestInv, NoSolutionLost, OnlySolutionsFit,
           Idle, LinksFormForest, valid, NoneEmpty,
           NEW qs \in Seq(Qvars), qs # <<>>, \A i \in DOMAIN qs : qs[i] \in initialized,
           NoDetour(linked, SelectedIn(qs))
    PROVE  MakeTuples(qs) = SolutionTuples(qs)
<1>1. MakeTuples(qs) \subseteq SolutionTuples(qs)
  BY TupleExtends
<1>2. SolutionTuples(qs) \subseteq MakeTuples(qs)
  BY TupleHolds DEF SolutionTuples
<1>3. QED  BY <1>1, <1>2

(* "If the variables are linked the result tuples will follow the defined  *)
(* links" (simple/linker.h), for every number of variables and conditions: *)
(* on a forest make_tuples returns the tuples of the solutions, no more    *)
(* and no less, for every selection whose variables are linked, if at all, *)
(* through each other.  With a detour through a variable that is not       *)
(* selected it may return more (validate_tuple compares the conditions two *)
(* at a time).                                                             *)
TuplesWithoutDetours ==
    Idle /\ valid /\ LinksFormForest /\ NoneEmpty =>
        \A qs \in Answerable :
            NoDetour(linked, SelectedIn(qs)) => MakeTuples(qs) = SolutionTuples(qs)

THEOREM TuplesOnForests == Spec => []TuplesWithoutDetours
<1>1. TypeOK /\ GraphInv /\ LinksSymmetric /\ ForestInv /\ NoSolutionLost /\ OnlySolutionsFit
         => TuplesWithoutDetours
  <2>1. SUFFICES ASSUME TypeOK, GraphInv, LinksSymmetric, ForestInv, NoSolutionLost,
                        OnlySolutionsFit, Idle, valid, LinksFormForest, NoneEmpty,
                        NEW qs \in Answerable, NoDetour(linked, SelectedIn(qs))
                 PROVE  MakeTuples(qs) = SolutionTuples(qs)
    BY DEF TuplesWithoutDetours
  <2>2. /\ qs \in Seq(Qvars) /\ qs # <<>>
        /\ \A i \in DOMAIN qs : qs[i] \in initialized
    BY TuplesAssumption DEF Answerable
  <2>3. QED  BY <2>1, <2>2, TuplesExact
<1>2. QED  BY <1>1, ForestInvHolds, GraphInvHolds, LinksStaySymmetric, NeverLosesASolution,
              NothingInvented, TypeCorrect, PTL

(* With three variables there is one kind of detour: the two variables     *)
(* that are selected are linked through the third and not directly.        *)
LEMMA AtMostThree ==
    ASSUME Cardinality(Qvars) <= 3, NEW a \in Qvars, NEW b \in Qvars, NEW m \in Qvars,
           a # b, a # m, b # m
    PROVE  Qvars = {a, b, m}
<1>1. SUFFICES ASSUME NEW x \in Qvars \ {a, b, m} PROVE FALSE
  OBVIOUS
<1>2. IsFiniteSet(Qvars)
  BY TuplesAssumption
<1>3. IsFiniteSet({}) /\ Cardinality({}) = 0
  BY FS_EmptySet
<1>4. /\ IsFiniteSet({} \cup {a}) /\ Cardinality({} \cup {a}) = Cardinality({}) + 1
  BY <1>3, FS_AddElement
<1>5. PICK A : A = {a} /\ IsFiniteSet(A) /\ Cardinality(A) = 1
  BY <1>3, <1>4, {} \cup {a} = {a}
<1>6. b \notin A
  BY <1>5
<1>7. IsFiniteSet(A \cup {b}) /\ Cardinality(A \cup {b}) = Cardinality(A) + 1
  BY <1>5, <1>6, FS_AddElement
<1>8. PICK B : B = A \cup {b} /\ IsFiniteSet(B) /\ Cardinality(B) = 2
  BY <1>5, <1>7
<1>9. m \notin B
  BY <1>5, <1>8
<1>10. IsFiniteSet(B \cup {m}) /\ Cardinality(B \cup {m}) = Cardinality(B) + 1
  BY <1>8, <1>9, FS_AddElement
<1>11. PICK C : C = B \cup {m} /\ IsFiniteSet(C) /\ Cardinality(C) = 3
  BY <1>8, <1>10
<1>12. x \notin C
  BY <1>5, <1>8, <1>11
<1>13. Cardinality(C \cup {x}) = Cardinality(C) + 1
  BY <1>11, <1>12, FS_AddElement
<1>14. Cardinality(C \cup {x}) = 4
  BY <1>11, <1>13
<1>15. C \cup {x} \subseteq Qvars
  BY <1>5, <1>8, <1>11
<1>16. Cardinality(C \cup {x}) <= Cardinality(Qvars) /\ Cardinality(Qvars) \in Nat
  BY <1>2, <1>15, FS_Subset, FS_CardinalityType
<1>17. QED  BY <1>14, <1>16

LEMMA OnlyDetour ==
    ASSUME Cardinality(Qvars) <= 3,
           NEW L \in SUBSET (Qvars \X Qvars), Mirrored(L), Forest(L),
           NEW S \in SUBSET Qvars, ~NoDetour(L, S)
    PROVE  \E a, b, m \in Qvars :
              /\ a # b /\ a # m /\ b # m /\ Qvars = {a, b, m} /\ S = {a, b}
              /\ <<a, m>> \in L /\ <<m, b>> \in L
              /\ <<a, b>> \notin L /\ <<b, a>> \notin L
<1>1. PICK X \in SUBSET S :
         /\ \A l \in L : (l[1] \in X /\ l[2] \in S) => l[2] \in X
         /\ \A C \in SUBSET Qvars : Closed(L, C) => S \cap C # X
  BY DEF NoDetour
<1>2. Closed(L, {}) /\ Closed(L, Qvars)
  BY DEF Closed
<1>3. X # {} /\ X # S
  BY <1>1, <1>2
<1>4. PICK a \in X, b \in S \ X : TRUE
  BY <1>3
<1>5. PICK m \in Qvars : m \notin S
  <2>1. SUFFICES ASSUME S = Qvars PROVE FALSE
    OBVIOUS
  <2>2. Closed(L, X)
    BY <1>1, <2>1 DEF Closed
  <2>3. QED  BY <1>1, <2>1, <2>2
<1>6. a \in Qvars /\ b \in Qvars /\ a # b /\ a # m /\ b # m
  BY <1>4, <1>5
<1>7. Qvars = {a, b, m}
  BY <1>6, AtMostThree
<1>8. S = {a, b} /\ X = {a}
  BY <1>4, <1>5, <1>7
<1>9. \A l \in L : l = <<l[1], l[2]>> /\ l[1] \in Qvars /\ l[2] \in Qvars /\ l[1] # l[2]
  BY NoLoops
<1>10. \A q, p \in Qvars : <<q, p>> \in L => <<p, q>> \in L
  BY DEF Mirrored
<1>11. <<a, b>> \notin L /\ <<b, a>> \notin L
  <2>1. <<a, b>> \notin L
    BY <1>1, <1>4
  <2>2. QED  BY <1>6, <1>10, <2>1
<1>12. <<a, m>> \in L
  <2>1. SUFFICES ASSUME <<a, m>> \notin L PROVE FALSE
    OBVIOUS
  <2>2. Closed(L, X)
    <3>1. \A l \in L : l[1] = a => FALSE
      BY <1>6, <1>7, <1>9, <1>11, <2>1
    <3>2. \A l \in L : l[2] = a => FALSE
      BY <1>6, <1>7, <1>9, <1>10, <1>11, <2>1
    <3>3. QED  BY <1>8, <3>1, <3>2 DEF Closed
  <2>3. QED  BY <1>1, <1>6, <2>2
<1>13. <<m, b>> \in L
  <2>1. SUFFICES ASSUME <<m, b>> \notin L PROVE FALSE
    OBVIOUS
  <2>2. \A l \in L : l[1] # b /\ l[2] # b
    BY <1>6, <1>7, <1>9, <1>10, <1>11, <2>1
  <2>3. Closed(L, {a, m})
    BY <1>7, <1>9, <2>2 DEF Closed
  <2>4. S \cap {a, m} = X /\ {a, m} \in SUBSET Qvars
    BY <1>5, <1>6, <1>8
  <2>5. QED  BY <1>1, <2>3, <2>4
<1>14. QED  BY <1>6, <1>7, <1>8, <1>11, <1>12, <1>13

(* Whichever of the two variables of a detour comes first in a selection,  *)
(* validate_tuple has found a condition of the third between theirs.       *)
LEMMA BridgedTuple ==
    ASSUME TypeOK, LinksSymmetric, Idle, Forest(linked), Mirrored(linked),
           NEW qs \in Seq(Qvars), qs # <<>>, NEW u, Checked(qs, 1, u),
           NEW g, \A k \in 1 .. Len(qs) : g[qs[k]] = u[k],
           NEW a \in SelectedIn(qs), NEW b \in SelectedIn(qs), NEW m \in Qvars,
           a # b, a # m, b # m, Qvars = {a, b, m},
           <<a, m>> \in linked, <<m, b>> \in linked,
           <<a, b>> \notin linked, <<b, a>> \notin linked
    PROVE  Bridged(a, g[a], m, b, g[b])
<1>1. \A q, p \in Qvars : HasLink(q, p) => q # p /\ HasLink(p, q)
  <2>1. linked \in SUBSET (Qvars \X Qvars)
    BY DEF TypeOK
  <2>2. TAKE q, p \in Qvars
  <2>3. HAVE HasLink(q, p)
  <2>4. PICK l \in linked : l = <<q, p>>
    BY <2>3 DEF HasLink
  <2>5. l[1] # l[2] /\ <<l[2], l[1]>> \in linked
    BY <2>1, NoLoops DEF Mirrored
  <2>6. QED  BY <2>4, <2>5 DEF HasLink
<1>2. /\ HasLink(a, m) /\ HasLink(m, a) /\ HasLink(m, b) /\ HasLink(b, m)
      /\ ~HasLink(a, b) /\ ~HasLink(b, a)
  <2>1. HasLink(a, m) /\ HasLink(m, b) /\ ~HasLink(a, b) /\ ~HasLink(b, a)
    BY DEF HasLink
  <2>2. a \in Qvars /\ b \in Qvars
    OBVIOUS
  <2>3. QED  BY <1>1, <2>1, <2>2
<1>3. LinkedTo(a) = {m} /\ LinkedTo(b) = {m}
  <2>1. ~HasLink(a, a) /\ ~HasLink(b, b)
    BY <1>1
  <2>2. QED  BY <1>2, <2>1 DEF LinkedTo
<1>4. Bridge(a, m, b) /\ Bridge(b, m, a)
  BY <1>2, <1>3 DEF Bridge
<1>5. /\ Len(qs) \in Nat /\ DOMAIN qs = 1 .. Len(qs)
      /\ \A i, k \in 1 .. Len(qs) : i < k => Agreeing(qs[i], u[i], qs[k], u[k])
  <2>1. Len(qs) \in Nat /\ DOMAIN qs = 1 .. Len(qs)
    OBVIOUS
  <2>2. Len(u) = Len(qs) /\ \A k \in 1 .. Len(qs) : 1 + k - 1 = k
    BY <2>1 DEF Checked
  <2>3. QED  BY <2>1, <2>2 DEF Checked
<1>6. PICK i \in 1 .. Len(qs), k \in 1 .. Len(qs) : a = qs[i] /\ b = qs[k]
  BY <1>5 DEF SelectedIn
<1>7. i < k \/ k < i
  BY <1>5, <1>6
<1>8. CASE i < k
  <2>1. Agreeing(a, g[a], b, g[b])
    BY <1>5, <1>6, <1>8
  <2>2. QED  BY <1>4, <2>1 DEF Agreeing
<1>9. CASE k < i
  <2>1. Agreeing(b, g[b], a, g[a])
    BY <1>5, <1>6, <1>9
  <2>2. Bridged(b, g[b], m, a, g[a])
    BY <1>4, <2>1 DEF Agreeing
  <2>3. PICK e \in Conds : Arc(b, g[b], m, e) \in arcs /\ Arc(m, e, a, g[a]) \in arcs
    BY <2>2 DEF Bridged
  <2>4. \A x \in arcs : Rev(x) \in arcs
    BY DEF LinksSymmetric
  <2>5. Rev(Arc(b, g[b], m, e)) \in arcs /\ Rev(Arc(m, e, a, g[a])) \in arcs
    BY <2>3, <2>4
  <2>6. Arc(m, e, b, g[b]) \in arcs /\ Arc(a, g[a], m, e) \in arcs
    BY <2>5 DEF Rev, Arc
  <2>7. QED  BY <2>6 DEF Bridged
<1>10. QED  BY <1>7, <1>8, <1>9

LEMMA DetourExtends ==
    ASSUME Cardinality(Qvars) <= 3,
           TypeOK, GraphInv, LinksSymmetric, ForestInv, OnlySolutionsFit,
           Idle, LinksFormForest, valid,
           NEW qs \in Seq(Qvars), qs # <<>>,
           ~NoDetour(linked, SelectedIn(qs)), NEW u \in MakeTuples(qs)
    PROVE  u \in SolutionTuples(qs)
<1>1. /\ Frames(stack) = {} /\ \A x \in arcs : Rev(x) \in arcs
      /\ Forest(linked) /\ NoStale /\ Mirrored(linked)
  BY ForestState
<1>2. Checked(qs, 1, u)
  BY MadeChecked
<1>3. PICK g0 \in Assignments :
         /\ \A k \in 1 .. Len(qs) : g0[qs[k]] = u[k]
         /\ Consistent(linked, arcs, values, SelectedIn(qs), g0)
  BY <1>1, <1>2, TupleAssigns
<1>4. /\ initialized \in SUBSET Qvars /\ linked \in SUBSET (Qvars \X Qvars)
      /\ linked \in SUBSET (initialized \X initialized)
      /\ SelectedIn(qs) \in SUBSET Qvars
  BY DEF TypeOK, SelectedIn
<1>5. PICK a, b, m \in Qvars :
         /\ a # b /\ a # m /\ b # m /\ Qvars = {a, b, m} /\ SelectedIn(qs) = {a, b}
         /\ <<a, m>> \in linked /\ <<m, b>> \in linked
         /\ <<a, b>> \notin linked /\ <<b, a>> \notin linked
  BY <1>1, <1>4, OnlyDetour
<1>6. Bridged(a, g0[a], m, b, g0[b])
  BY <1>1, <1>2, <1>3, <1>5, BridgedTuple
<1>7. PICK e \in Conds : Arc(a, g0[a], m, e) \in arcs /\ Arc(m, e, b, g0[b]) \in arcs
  BY <1>6 DEF Bridged
<1> DEFINE s == [v \in Qvars |-> IF v = m THEN e ELSE g0[v]]
<1>8. s \in Assignments /\ s[a] = g0[a] /\ s[b] = g0[b] /\ s[m] = e
  BY <1>3, <1>5 DEF Assignments
<1> HIDE DEF s
<1>9. \A v \in Qvars : s[v] \in values[v]
  <2>1. s[a] \in values[a] /\ s[b] \in values[b]
    BY <1>3, <1>5, <1>8 DEF Consistent
  <2>2. PICK x \in arcs : x = Arc(a, s[a], m, s[m])
    BY <1>7, <1>8
  <2>3. x[1] = a /\ x[3] = m /\ x[4] = s[m]
    BY <2>2 DEF Arc
  <2>4. HasLink(x[1], x[3])
    BY <1>5, <2>3 DEF HasLink
  <2>5. s[m] \in values[m]
    BY <1>1, <2>3, <2>4, NothingStale
  <2>6. QED  BY <1>5, <2>1, <2>5
<1>10. /\ Arc(a, s[a], m, s[m]) \in arcs /\ Arc(m, s[m], a, s[a]) \in arcs
       /\ Arc(m, s[m], b, s[b]) \in arcs /\ Arc(b, s[b], m, s[m]) \in arcs
  <2>1. Arc(a, s[a], m, s[m]) \in arcs /\ Arc(m, s[m], b, s[b]) \in arcs
    BY <1>7, <1>8
  <2>2. Rev(Arc(a, s[a], m, s[m])) \in arcs /\ Rev(Arc(m, s[m], b, s[b])) \in arcs
    BY <1>1, <2>1
  <2>3. QED  BY <2>1, <2>2 DEF Rev, Arc
<1>11. \A l \in linked : Arc(l[1], s[l[1]], l[2], s[l[2]]) \in arcs
  <2>1. TAKE l \in linked
  <2>2. l = <<l[1], l[2]>> /\ l[1] \in Qvars /\ l[2] \in Qvars /\ l[1] # l[2]
    BY <1>1, <1>4, NoLoops
  <2>3. <<l[1], l[2]>> # <<a, b>> /\ <<l[1], l[2]>> # <<b, a>>
    BY <1>5, <2>2
  <2>4. \/ l[1] = a /\ l[2] = m
        \/ l[1] = m /\ l[2] = a
        \/ l[1] = m /\ l[2] = b
        \/ l[1] = b /\ l[2] = m
    BY <1>5, <2>2, <2>3
  <2>5. QED  BY <1>10, <2>4
<1>12. Fits(s)
  BY <1>1, <1>4, <1>9, <1>11 DEF Fits, FitsValues, FitsLinks, FitsWork
<1>13. s \in solutions
  BY <1>8, <1>12 DEF OnlySolutionsFit
<1>14. u = [i \in DOMAIN qs |-> s[qs[i]]]
  <2>1. u \in Seq(Conds) /\ Len(u) = Len(qs) - 1 + 1 /\ Len(qs) \in Nat /\ DOMAIN qs = 1 .. Len(qs)
    BY <1>2 DEF Checked
  <2>2. Len(u) = Len(qs) /\ u = [i \in 1 .. Len(u) |-> u[i]]
    BY <2>1
  <2>3. \A i \in 1 .. Len(qs) : qs[i] = a \/ qs[i] = b
    BY <1>5, <2>1 DEF SelectedIn
  <2>4. \A i \in 1 .. Len(qs) : u[i] = s[qs[i]]
    BY <1>3, <1>8, <2>3
  <2>5. QED  BY <2>1, <2>2, <2>4
<1>15. QED  BY <1>13, <1>14 DEF SolutionTuples

(* "If the variables are linked the result tuples will follow the defined  *)
(* links" (simple/linker.h), as far as it is so: with at most three        *)
(* variables and links that form a forest, every selection gets the tuples *)
(* of the solutions, detours and all.  Four variables are too many         *)
(* (the run tuples_detour).                                                *)
THEOREM TuplesAlwaysFollowLinks ==
    ASSUME Cardinality(Qvars) <= 3
    PROVE  Spec => []TuplesFollowLinks
<1>1. TypeOK /\ GraphInv /\ LinksSymmetric /\ ForestInv /\ NoSolutionLost /\ OnlySolutionsFit
         => TuplesFollowLinks
  <2>1. SUFFICES ASSUME TypeOK, GraphInv, LinksSymmetric, ForestInv, NoSolutionLost,
                        OnlySolutionsFit, Idle, valid, LinksFormForest, NoneEmpty,
                        NEW qs \in Answerable
                 PROVE  MakeTuples(qs) = SolutionTuples(qs)
    BY DEF TuplesFollowLinks
  <2>2. /\ qs \in Seq(Qvars) /\ qs # <<>>
        /\ \A i \in DOMAIN qs : qs[i] \in initialized
    BY TuplesAssumption DEF Answerable
  <2>3. CASE NoDetour(linked, SelectedIn(qs))
    BY <2>1, <2>2, <2>3, TuplesExact
  <2>4. CASE ~NoDetour(linked, SelectedIn(qs))
    <3>1. MakeTuples(qs) \subseteq SolutionTuples(qs)
      BY <2>1, <2>2, <2>4, DetourExtends
    <3>2. SolutionTuples(qs) \subseteq MakeTuples(qs)
      BY <2>1, <2>2, TupleHolds DEF SolutionTuples
    <3>3. QED  BY <3>1, <3>2
  <2>5. QED  BY <2>3, <2>4
<1>2. QED  BY <1>1, ForestInvHolds, GraphInvHolds, LinksStaySymmetric, NeverLosesASolution,
              NothingInvented, TypeCorrect, PTL
=============================================================================
