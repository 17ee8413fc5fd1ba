---------------------------- MODULE ProgramLemmas ----------------------------
(***************************************************************************)
(* Lemmas about stacks, about walks over graphs and the closures they      *)
(* compute, and about the syntax tree: the loops of the solvers over it    *)
(* are walks, and the relations they decide what the text means.           *)
(***************************************************************************)
EXTENDS NextSolver, AssignmentSolver, TreeSolvers, ProgramMeaning,
        SequenceTheorems, FiniteSetTheorems, WellFoundedInduction, TLAPS

------------------------------------------------------------------------------
(* Stacks kept as sequences with the top first: what is at which place     *)
(* after a push, a pop, and a change of the top.                           *)
LEMMA PushElement ==
    ASSUME NEW S, NEW s \in Seq(S), NEW x \in S
    PROVE  /\ <<x>> \o s \in Seq(S)
           /\ <<x>> \o s # <<>>
           /\ DOMAIN (<<x>> \o s) = 1 .. Len(s) + 1
           /\ Len(<<x>> \o s) = Len(s) + 1
           /\ (<<x>> \o s)[1] = x
           /\ \A i \in DOMAIN s : (<<x>> \o s)[i + 1] = s[i]
<1>1. /\ <<x>> \in Seq(S) /\ Len(<<x>>) = 1 /\ <<x>>[1] = x
  OBVIOUS
<1>2. /\ <<x>> \o s \in Seq(S)
      /\ Len(<<x>> \o s) = 1 + Len(s)
      /\ \A i \in 1 .. 1 + Len(s) :
           (<<x>> \o s)[i] = IF i <= 1 THEN <<x>>[i] ELSE s[i - 1]
  BY <1>1, ConcatProperties
<1>3. Len(s) \in Nat /\ DOMAIN s = 1 .. Len(s)
  BY LenProperties
<1>4. PICK t \in Seq(S) : t = <<x>> \o s
  BY <1>2
<1>5. /\ Len(t) = Len(s) + 1 /\ t[1] = x
      /\ \A i \in DOMAIN s : t[i + 1] = s[i]
  BY <1>1, <1>2, <1>3, <1>4
<1>6. DOMAIN t = 1 .. Len(s) + 1 /\ t # <<>>
  BY <1>3, <1>5, LenProperties, EmptySeq
<1>7. QED  BY <1>4, <1>5, <1>6

LEMMA OneElement ==
    ASSUME NEW S, NEW x \in S
    PROVE  <<x>> \in Seq(S) /\ <<x>>[1] = x /\ \A i \in DOMAIN <<x>> : i = 1
OBVIOUS

LEMMA PopElement ==
    ASSUME NEW S, NEW s \in Seq(S), s # <<>>
    PROVE  /\ Tail(s) \in Seq(S)
           /\ Head(s) \in S
           /\ 1 \in DOMAIN s /\ s[1] = Head(s)
           /\ Len(s) \in Nat \ {0} /\ DOMAIN s = 1 .. Len(s)
           /\ Len(Tail(s)) = Len(s) - 1
           /\ \A i \in DOMAIN Tail(s) : /\ i \in Nat \ {0}
                                        /\ i + 1 \in DOMAIN s
                                        /\ Tail(s)[i] = s[i + 1]
           /\ \A i \in DOMAIN s : i # 1 => /\ i - 1 \in DOMAIN Tail(s)
                                           /\ Tail(s)[i - 1] = s[i]
<1>1. /\ Head(s) \in S /\ Tail(s) \in Seq(S)
      /\ Len(Tail(s)) = Len(s) - 1
      /\ \A i \in 1 .. Len(Tail(s)) : Tail(s)[i] = s[i + 1]
  BY HeadTailProperties
<1>2. /\ Len(s) \in Nat \ {0} /\ DOMAIN s = 1 .. Len(s)
      /\ DOMAIN Tail(s) = 1 .. Len(s) - 1
  BY <1>1, LenProperties, EmptySeq
<1>3. Head(s) = s[1]
  BY <1>2
<1>4. QED  BY <1>1, <1>2, <1>3

LEMMA ReplaceElement ==
    ASSUME NEW S, NEW s \in Seq(S), s # <<>>, NEW x \in S
    PROVE  /\ <<x>> \o Tail(s) \in Seq(S)
           /\ <<x>> \o Tail(s) # <<>>
           /\ DOMAIN (<<x>> \o Tail(s)) = DOMAIN s
           /\ (<<x>> \o Tail(s))[1] = x
           /\ \A i \in DOMAIN s : i # 1 => (<<x>> \o Tail(s))[i] = s[i]
<1>1. PICK t \in Seq(S) : t = Tail(s)
  BY PopElement
<1>2. /\ <<x>> \o t \in Seq(S) /\ <<x>> \o t # <<>>
      /\ DOMAIN (<<x>> \o t) = 1 .. Len(t) + 1
      /\ (<<x>> \o t)[1] = x
      /\ \A i \in DOMAIN t : (<<x>> \o t)[i + 1] = t[i]
  BY PushElement
<1>3. PICK u \in Seq(S) : u = <<x>> \o t
  BY <1>2
<1>4. DOMAIN u = DOMAIN s
  BY <1>1, <1>2, <1>3, PopElement
<1>5. ASSUME NEW i \in DOMAIN s, i # 1 PROVE u[i] = s[i]
  <2>1. i - 1 \in DOMAIN t /\ t[i - 1] = s[i] /\ i \in Nat
    BY <1>1, <1>5, PopElement
  <2>2. u[(i - 1) + 1] = t[i - 1]
    BY <1>2, <1>3, <2>1
  <2>3. QED  BY <2>1, <2>2
<1>6. QED  BY <1>1, <1>2, <1>3, <1>4, <1>5

LEMMA PushPair ==
    ASSUME NEW S, NEW s \in Seq(S), NEW x \in S, NEW y \in S
    PROVE  <<x, y>> \o s = <<x>> \o (<<y>> \o s)
<1>1. <<x, y>> = <<x>> \o <<y>>
  <2>1. /\ <<x, y>> \in Seq(S) /\ Len(<<x, y>>) = 2
        /\ <<x, y>>[1] = x /\ <<x, y>>[2] = y
    OBVIOUS
  <2>2. /\ <<y>> \in Seq(S) /\ Len(<<y>>) = 1
        /\ DOMAIN <<y>> = 1 .. 1 /\ <<y>>[1] = y
    OBVIOUS
  <2>3. PICK v \in Seq(S) : v = <<y>>
    BY <2>2
  <2>4. /\ <<x>> \o v \in Seq(S) /\ (<<x>> \o v)[1] = x
        /\ DOMAIN (<<x>> \o v) = 1 .. Len(v) + 1
        /\ \A i \in DOMAIN v : (<<x>> \o v)[i + 1] = v[i]
    BY PushElement
  <2>5. PICK w \in Seq(S) : w = <<x>> \o v
    BY <2>4
  <2>6. Len(<<x>> \o v) = Len(v) + 1
    BY PushElement
  <2>7. w[1] = x /\ w[1 + 1] = y
    BY <2>2, <2>3, <2>4, <2>5
  <2>8. Len(w) = 2
    BY <2>2, <2>3, <2>5, <2>6
  <2>9. PICK u \in Seq(S) : u = <<x, y>>
    BY <2>1
  <2>10. Len(u) = Len(w) /\ \A i \in 1 .. Len(u) : u[i] = w[i]
    BY <2>1, <2>7, <2>8, <2>9
  <2>11. u = w
    BY <2>10, SeqEqual
  <2>12. QED  BY <2>3, <2>5, <2>9, <2>11
<1>2. <<x>> \in Seq(S) /\ <<y>> \in Seq(S)
  OBVIOUS
<1>3. (<<x>> \o <<y>>) \o s = <<x>> \o (<<y>> \o s)
  BY <1>2, ConcatAssociative
<1>4. QED  BY <1>1, <1>3

------------------------------------------------------------------------------
(***************************************************************************)
(* Walks along a function from points to sets of points: the points that   *)
(* are reached, and what is gathered at them.                              *)
(***************************************************************************)
Reach(S, G, c) ==
  {u \in S : \A C \in SUBSET S : c \in C /\ (\A d \in C : G[d] \subseteq C) => u \in C}

Gather(S, G, base, c) == UNION {base[u] : u \in Reach(S, G, c)}

LEMMA ReachLeast ==
    ASSUME NEW S, NEW G \in [S -> SUBSET S], NEW c \in S
    PROVE  /\ c \in Reach(S, G, c)
           /\ Reach(S, G, c) \subseteq S
           /\ \A d \in Reach(S, G, c) : G[d] \subseteq Reach(S, G, c)
           /\ \A C \in SUBSET S : c \in C /\ (\A d \in C : G[d] \subseteq C)
                => Reach(S, G, c) \subseteq C
<1>1. \A d \in Reach(S, G, c) : G[d] \subseteq Reach(S, G, c)
  BY DEF Reach
<1>2. QED  BY <1>1 DEF Reach

LEMMA ReachUnfold ==
    ASSUME NEW S, NEW G \in [S -> SUBSET S], NEW c \in S
    PROVE  Reach(S, G, c) = {c} \cup UNION {Reach(S, G, d) : d \in G[c]}
<1> DEFINE C == {c} \cup UNION {Reach(S, G, d) : d \in G[c]}
<1>1. G[c] \subseteq S
  OBVIOUS
<1>2. C \subseteq Reach(S, G, c)
  <2>1. ASSUME NEW d \in G[c] PROVE Reach(S, G, d) \subseteq Reach(S, G, c)
    <3>1. d \in Reach(S, G, c)
      BY ReachLeast
    <3>2. d \in S
      BY <1>1
    <3>3. Reach(S, G, c) \in SUBSET S /\ \A e \in Reach(S, G, c) : G[e] \subseteq Reach(S, G, c)
      BY ReachLeast
    <3>4. QED  BY <3>1, <3>2, <3>3, ReachLeast
  <2>2. QED  BY <2>1, ReachLeast
<1>3. C \in SUBSET S
  BY <1>1, ReachLeast
<1>4. \A e \in C : G[e] \subseteq C
  <2>1. ASSUME NEW e \in C PROVE G[e] \subseteq C
    <3>1. CASE e = c
      <4>1. \A d \in G[c] : d \in Reach(S, G, d)
        BY <1>1, ReachLeast
      <4>2. QED  BY <3>1, <4>1
    <3>2. CASE e # c
      <4>1. PICK d \in G[c] : e \in Reach(S, G, d)
        BY <2>1, <3>2
      <4>2. d \in S
        BY <1>1
      <4>3. G[e] \subseteq Reach(S, G, d)
        BY <4>1, <4>2, ReachLeast
      <4>4. QED  BY <4>3
    <3>3. QED  BY <3>1, <3>2
  <2>2. QED  BY <2>1
<1>5. Reach(S, G, c) \subseteq C
  <2> HIDE DEF C
  <2>1. c \in C
    BY DEF C
  <2>2. QED  BY <1>3, <1>4, <2>1, ReachLeast
<1>6. QED  BY <1>2, <1>5

LEMMA GatherUnfold ==
    ASSUME NEW S, NEW G \in [S -> SUBSET S], NEW base, NEW c \in S
    PROVE  Gather(S, G, base, c) = base[c] \cup UNION {Gather(S, G, base, d) : d \in G[c]}
<1>1. \A x : x \in Reach(S, G, c) <=> x = c \/ \E d \in G[c] : x \in Reach(S, G, d)
  BY ReachUnfold
<1>2. QED  BY <1>1 DEF Gather

LEMMA LeastOf ==
    ASSUME NEW T \in SUBSET Nat, T # {}
    PROVE  \E m \in T : \A k \in T : m <= k
<1> DEFINE Below == OpToRel(<, Nat)
<1>2. \A x, y \in Nat : <<y, x>> \in Below <=> y < x
  BY DEF OpToRel
<1>3. IsWellFoundedOn(Below, Nat)
  BY NatLessThanWellFounded
<1> HIDE DEF Below
<1>4. PICK x \in T : \A y \in T : <<y, x>> \notin Below
  BY <1>3, WFMin
<1>5. ASSUME NEW y \in T PROVE x <= y
  <2>1. ~ (y < x)
    BY <1>2, <1>4
  <2>2. QED  BY <2>1
<1>6. QED  BY <1>5

LEMMA LargestOf ==
    ASSUME NEW n \in Nat, NEW T \in SUBSET (1 .. n), T # {}
    PROVE  \E m \in T : \A k \in T : k <= m
<1> DEFINE U == {n - k : k \in T}
<1>1. U \in SUBSET Nat /\ U # {}
  <2>1. PICK k : k \in T
    OBVIOUS
  <2>2. n - k \in U
    BY <2>1
  <2>3. \A k1 \in T : n - k1 \in Nat
    OBVIOUS
  <2>4. QED  BY <2>2, <2>3
<1>2. PICK x \in U : \A y \in U : x <= y
  <2> HIDE DEF U
  <2>1. QED  BY <1>1, LeastOf
<1>3. PICK m \in T : x = n - m
  OBVIOUS
<1>4. \A k \in T : n - m <= n - k
  BY <1>2, <1>3
<1>5. ASSUME NEW k \in T PROVE k <= m
  <2>1. k \in 1 .. n /\ m \in 1 .. n /\ n - m <= n - k
    BY <1>4
  <2>2. QED  BY <2>1
<1>6. QED  BY <1>5

(* What satisfies the equation of a walk that always ascends, or always    *)
(* descends, is what is gathered.                                          *)
Ascends(S, G)  == \A c \in S : \A d \in G[c] : c < d

Descends(S, G) == \A c \in S : \A d \in G[c] : d < c

Gathers(S, G, base, f) ==
  \A c \in S : f[c] = base[c] \cup UNION {f[d] : d \in G[c]}

LEMMA GatherUp ==
    ASSUME NEW n \in Nat, NEW S, S = 1 .. n, NEW G \in [S -> SUBSET S], NEW base, NEW f,
           Ascends(S, G), Gathers(S, G, base, f)
    PROVE  \A c \in S : f[c] = Gather(S, G, base, c)
<1> USE DEF Ascends, Gathers
<1> DEFINE T == {c \in S : f[c] # Gather(S, G, base, c)}
<1>1. SUFFICES ASSUME T # {} PROVE FALSE
  OBVIOUS
<1>2. PICK m \in T : \A k \in T : k <= m
  <2>1. T \in SUBSET (1 .. n)
    OBVIOUS
  <2> HIDE DEF T
  <2>2. QED  BY <1>1, <2>1, LargestOf
<1>3. \A d \in G[m] : f[d] = Gather(S, G, base, d)
  <2>1. ASSUME NEW d \in G[m] PROVE f[d] = Gather(S, G, base, d)
    <3>1. d \in S /\ m < d
      OBVIOUS
    <3>2. d \notin T
      BY <1>2, <3>1
    <3>3. QED  BY <3>1, <3>2
  <2>2. QED  BY <2>1
<1>4. f[m] = base[m] \cup UNION {Gather(S, G, base, d) : d \in G[m]}
  BY <1>3
<1>5. /\ m \in S /\ f[m] # Gather(S, G, base, m)
  OBVIOUS
<1>6. Gather(S, G, base, m)
        = base[m] \cup UNION {Gather(S, G, base, d) : d \in G[m]}
  BY <1>5, GatherUnfold
<1>7. QED  BY <1>4, <1>5, <1>6, Zenon

LEMMA GatherDown ==
    ASSUME NEW n \in Nat, NEW S, S = 1 .. n, NEW G \in [S -> SUBSET S], NEW base, NEW f,
           Descends(S, G), Gathers(S, G, base, f)
    PROVE  \A c \in S : f[c] = Gather(S, G, base, c)
<1> USE DEF Descends, Gathers
<1> DEFINE T == {c \in S : f[c] # Gather(S, G, base, c)}
<1>1. SUFFICES ASSUME T # {} PROVE FALSE
  OBVIOUS
<1>2. PICK m \in T : \A k \in T : m <= k
  <2>1. T \in SUBSET Nat
    OBVIOUS
  <2> HIDE DEF T
  <2>2. QED  BY <1>1, <2>1, LeastOf
<1>3. \A d \in G[m] : f[d] = Gather(S, G, base, d)
  <2>1. ASSUME NEW d \in G[m] PROVE f[d] = Gather(S, G, base, d)
    <3>1. d \in S /\ d < m
      OBVIOUS
    <3>2. d \notin T
      BY <1>2, <3>1
    <3>3. QED  BY <3>1, <3>2
  <2>2. QED  BY <2>1
<1>4. f[m] = base[m] \cup UNION {Gather(S, G, base, d) : d \in G[m]}
  BY <1>3
<1>5. /\ m \in S /\ f[m] # Gather(S, G, base, m)
  OBVIOUS
<1>6. Gather(S, G, base, m)
        = base[m] \cup UNION {Gather(S, G, base, d) : d \in G[m]}
  BY <1>5, GatherUnfold
<1>7. QED  BY <1>4, <1>5, <1>6, Zenon

LEMMA GatherLines ==
    ASSUME NEW p, IsProgram(p), NEW G \in [Statements(p) -> SUBSET Statements(p)],
           NEW base, NEW f, Gathers(Statements(p), G, base, f),
           Ascends(Statements(p), G) \/ Descends(Statements(p), G)
    PROVE  \A c \in Statements(p) : f[c] = Gather(Statements(p), G, base, c)
<1>1. PICK n \in Nat : Statements(p) = 1 .. n
  BY DEF IsProgram
<1>2. QED  BY <1>1, GatherUp, GatherDown

\* The same points reach, against the edges.
LEMMA ReachBack ==
    ASSUME NEW S, NEW G \in [S -> SUBSET S], NEW H \in [S -> SUBSET S],
           \A c, d \in S : d \in G[c] => c \in H[d],
           NEW c \in S, NEW d \in Reach(S, G, c)
    PROVE  c \in Reach(S, H, d)
<1> DEFINE C == {x \in S : c \in Reach(S, H, x)}
<1>1. c \in C /\ C \in SUBSET S
  BY ReachLeast
<1>2. \A x \in C : G[x] \subseteq C
  <2>1. ASSUME NEW x \in C, NEW y \in G[x] PROVE y \in C
    <3>1. x \in S /\ y \in S /\ x \in H[y] /\ c \in Reach(S, H, x)
      OBVIOUS
    <3>2. Reach(S, H, x) \subseteq Reach(S, H, y)
      BY <3>1, ReachUnfold
    <3>3. QED  BY <3>1, <3>2
  <2>2. QED  BY <2>1
<1>3. Reach(S, G, c) \subseteq C
  <2> HIDE DEF C
  <2>1. QED  BY <1>1, <1>2, ReachLeast
<1>4. QED  BY <1>3

------------------------------------------------------------------------------
(* The tree of a program, as walks over its lines.                         *)
NextG(p)   == [s \in Statements(p) |-> {next(p, s)} \ {NoStmt}]

PrevG(p)   == [s \in Statements(p) |-> {prev(p, s)} \ {NoStmt}]

ParentG(p) == [s \in Statements(p) |-> {get_parent(p, s)} \ {NoStmt}]

ChildG(p)  == [s \in Statements(p) |-> {t \in Statements(p) : get_parent(p, t) = s}]

LEMMA TreeLines ==
    ASSUME NEW p, IsProgram(p)
    PROVE  /\ Len(p.stmts) \in Nat /\ Statements(p) = 1 .. Len(p.stmts)
           /\ NoStmt \notin Statements(p)
           /\ \A s \in Statements(p) :
                /\ next(p, s) \in Statements(p) \cup {NoStmt}
                /\ prev(p, s) \in Statements(p) \cup {NoStmt}
                /\ get_parent(p, s) \in Statements(p) \cup {NoStmt}
                /\ Branches(p, s) \subseteq Statements(p)
                /\ next(p, s) # NoStmt => /\ s < next(p, s)
                                          /\ prev(p, next(p, s)) = s
                                          /\ get_parent(p, next(p, s)) = get_parent(p, s)
                /\ prev(p, s) # NoStmt => next(p, prev(p, s)) = s
                /\ (prev(p, s) = NoStmt) <=> (s \in Heads(p))
                /\ \A b \in Branches(p, s) : s < b /\ get_parent(p, b) = s
BY DEF IsProgram, WellFormed, InTextOrder, NoStmt

LEMMA PrevBefore ==
    ASSUME NEW p, IsProgram(p), NEW s \in Statements(p), prev(p, s) # NoStmt
    PROVE  /\ prev(p, s) \in Statements(p) /\ prev(p, s) < s
           /\ get_parent(p, prev(p, s)) = get_parent(p, s)
BY TreeLines

LEMMA ParentBefore ==
    ASSUME NEW p, IsProgram(p), NEW s \in Statements(p), get_parent(p, s) # NoStmt
    PROVE  get_parent(p, s) \in Statements(p) /\ get_parent(p, s) < s
<1> DEFINE T == {t \in Statements(p) : get_parent(p, t) # NoStmt /\ ~(get_parent(p, t) < t)}
<1>1. T = {}
  <2>1. SUFFICES ASSUME T # {} PROVE FALSE
    OBVIOUS
  <2>2. PICK t \in T : \A k \in T : t <= k
    <3>1. T \in SUBSET Nat
      BY TreeLines
    <3> HIDE DEF T
    <3>2. QED  BY <2>1, <3>1, LeastOf
  <2>3. t \in Statements(p) /\ get_parent(p, t) \in Statements(p)
    BY TreeLines
  <2>4. CASE prev(p, t) = NoStmt
    <3>1. t \in Heads(p)
      BY <2>3, <2>4, TreeLines
    <3>2. CASE \E n \in Procs(p) : t = get_statement(p, n)
      BY <3>2 DEF IsProgram, WellFormed
    <3>3. CASE \E x \in Statements(p) : t \in Branches(p, x)
      BY <3>3, TreeLines
    <3>4. QED  BY <3>1, <3>2, <3>3 DEF Heads
  <2>5. CASE prev(p, t) # NoStmt
    <3>1. prev(p, t) \notin T
      BY <2>2, <2>3, <2>5, PrevBefore, TreeLines
    <3>2. get_parent(p, prev(p, t)) < prev(p, t)
      BY <2>3, <2>5, <3>1, PrevBefore
    <3>3. QED  BY <2>3, <2>5, <3>2, PrevBefore, TreeLines
  <2>6. QED  BY <2>4, <2>5
<1>2. QED  BY <1>1, TreeLines

LEMMA TreeWalks ==
    ASSUME NEW p, IsProgram(p)
    PROVE  /\ NextG(p) \in [Statements(p) -> SUBSET Statements(p)]
           /\ PrevG(p) \in [Statements(p) -> SUBSET Statements(p)]
           /\ ParentG(p) \in [Statements(p) -> SUBSET Statements(p)]
           /\ ChildG(p) \in [Statements(p) -> SUBSET Statements(p)]
           /\ Ascends(Statements(p), NextG(p)) /\ Ascends(Statements(p), ChildG(p))
           /\ Descends(Statements(p), PrevG(p)) /\ Descends(Statements(p), ParentG(p))
           /\ \A s, t \in Statements(p) :
                /\ t \in NextG(p)[s] <=> next(p, s) = t
                /\ s \in PrevG(p)[t] <=> next(p, s) = t
                /\ s \in ParentG(p)[t] <=> get_parent(p, t) = s
                /\ t \in ChildG(p)[s] <=> get_parent(p, t) = s
<1>1. \A s \in Statements(p) :
        /\ next(p, s) # NoStmt => next(p, s) \in Statements(p) /\ s < next(p, s)
                                  /\ prev(p, next(p, s)) = s
        /\ prev(p, s) # NoStmt => prev(p, s) \in Statements(p) /\ prev(p, s) < s
                                  /\ next(p, prev(p, s)) = s
        /\ get_parent(p, s) # NoStmt =>
             get_parent(p, s) \in Statements(p) /\ get_parent(p, s) < s
  BY TreeLines, PrevBefore, ParentBefore
<1>2. NoStmt \notin Statements(p)
  BY TreeLines
<1>3. QED  BY <1>1, <1>2 DEF NextG, PrevG, ParentG, ChildG, Ascends, Descends

\* The list from a statement.
LEMMA ListFromReach ==
    ASSUME NEW p, IsProgram(p), NEW s \in Statements(p)
    PROVE  ListFrom(p, s) = Reach(Statements(p), NextG(p), s) /\ ListFrom(p, NoStmt) = {}
<1> DEFINE S == Statements(p)
           base == [t \in S |-> {t}]
           g == [t \in S |-> Gather(S, NextG(p), base, t)]
<1>0. \A t \in S : Gather(S, NextG(p), base, t) = Reach(S, NextG(p), t)
  BY DEF Gather, Reach
<1>1. g = [t \in S |-> {t} \cup (IF next(p, t) = NoStmt THEN {} ELSE g[next(p, t)])]
  <2>1. ASSUME NEW t \in S
        PROVE g[t] = {t} \cup (IF next(p, t) = NoStmt THEN {} ELSE g[next(p, t)])
    <3>1. g[t] = base[t] \cup UNION {Gather(S, NextG(p), base, d) : d \in NextG(p)[t]}
      <4>1. NextG(p) \in [S -> SUBSET S]
        BY TreeWalks
      <4> HIDE DEF base, S
      <4>2. QED  BY <4>1, GatherUnfold
    <3>2. CASE next(p, t) = NoStmt
      BY <3>1, <3>2 DEF NextG
    <3>3. CASE next(p, t) # NoStmt
      <4>1. NextG(p)[t] = {next(p, t)} /\ next(p, t) \in S
        BY <3>3, TreeLines DEF NextG
      <4>2. QED  BY <3>1, <3>3, <4>1
    <3>4. QED  BY <3>2, <3>3
  <2>2. QED  BY <2>1
<1> DEFINE rest == CHOOSE f : f = [t \in S |-> {t} \cup (IF next(p, t) = NoStmt THEN {} ELSE f[next(p, t)])]
<1>2. rest = [t \in S |-> {t} \cup (IF next(p, t) = NoStmt THEN {} ELSE rest[next(p, t)])]
  <2> HIDE DEF g
  <2>1. QED  BY <1>1
<1>3. ListFrom(p, s) = rest[s] /\ ListFrom(p, NoStmt) = {}
  BY TreeLines DEF ListFrom
<1> HIDE DEF rest, g
<1>4. \A t \in S : rest[t] = base[t] \cup UNION {rest[d] : d \in NextG(p)[t]}
  <2>1. ASSUME NEW t \in S PROVE rest[t] = base[t] \cup UNION {rest[d] : d \in NextG(p)[t]}
    <3>1. rest[t] = {t} \cup (IF next(p, t) = NoStmt THEN {} ELSE rest[next(p, t)])
      BY <1>2
    <3>2. NextG(p)[t] = {next(p, t)} \ {NoStmt}
      BY DEF NextG
    <3>3. QED  BY <3>1, <3>2
  <2>2. QED  BY <2>1
<1>5. rest[s] = Gather(S, NextG(p), base, s)
  <2>1. Gathers(S, NextG(p), base, rest)
    BY <1>4 DEF Gathers
  <2> HIDE DEF base
  <2>2. QED  BY <2>1, TreeWalks, GatherLines
<1>6. QED  BY <1>0, <1>3, <1>5

------------------------------------------------------------------------------
(* What a walk reaches behind its first point.                             *)
Beyond(S, G, c) == UNION {Reach(S, G, d) : d \in G[c]}

LEMMA BeyondGathers ==
    ASSUME NEW S, NEW G \in [S -> SUBSET S], NEW c \in S
    PROVE  Beyond(S, G, c) = Gather(S, G, G, c)
<1>1. ASSUME NEW u \in Reach(S, G, c), NEW y \in G[u] PROVE y \in Beyond(S, G, c)
  <2>1. u \in S /\ y \in S
    BY <1>1, ReachLeast
  <2>2. CASE u = c
    BY <1>1, <2>1, <2>2, ReachLeast DEF Beyond
  <2>3. CASE u # c
    <3>1. PICK d \in G[c] : u \in Reach(S, G, d)
      BY <1>1, <2>3, ReachUnfold
    <3>2. d \in S
      OBVIOUS
    <3>3. y \in Reach(S, G, d)
      BY <1>1, <3>1, <3>2, ReachLeast
    <3>4. QED  BY <3>1, <3>3 DEF Beyond
  <2>4. QED  BY <2>2, <2>3
<1>2. ASSUME NEW d \in G[c], NEW y \in Reach(S, G, d)
      PROVE  \E u \in Reach(S, G, c) : y \in G[u]
  <2> DEFINE C == {x \in S : \E u \in Reach(S, G, c) : x \in G[u]}
  <2>1. d \in S /\ c \in Reach(S, G, c)
    BY ReachLeast
  <2>2. d \in C /\ C \in SUBSET S
    BY <2>1
  <2>3. \A x \in C : G[x] \subseteq C
    <3>1. ASSUME NEW x \in C, NEW z \in G[x] PROVE z \in C
      <4>1. x \in S /\ x \in Reach(S, G, c) /\ z \in S
        BY ReachLeast
      <4>2. QED  BY <4>1
    <3>2. QED  BY <3>1
  <2>4. Reach(S, G, d) \subseteq C
    <3> HIDE DEF C
    <3>1. QED  BY <2>1, <2>2, <2>3, ReachLeast
  <2>5. QED  BY <1>2, <2>4
<1>3. QED  BY <1>1, <1>2 DEF Beyond, Gather

LEMMA BeyondBack ==
    ASSUME NEW S, NEW G \in [S -> SUBSET S], NEW H \in [S -> SUBSET S],
           \A c, d \in S : d \in G[c] <=> c \in H[d],
           NEW c \in S, NEW d \in S
    PROVE  d \in Beyond(S, G, c) <=> c \in Beyond(S, H, d)
<1>1. ASSUME d \in Beyond(S, G, c) PROVE c \in Beyond(S, H, d)
  <2>1. PICK u \in Reach(S, G, c) : d \in G[u]
    BY <1>1, BeyondGathers DEF Gather
  <2>2. u \in S /\ u \in H[d]
    BY <2>1, ReachLeast
  <2>3. c \in Reach(S, H, u)
    BY <2>1, ReachBack
  <2>4. QED  BY <2>2, <2>3 DEF Beyond
<1>2. ASSUME c \in Beyond(S, H, d) PROVE d \in Beyond(S, G, c)
  <2>1. PICK u \in Reach(S, H, d) : c \in H[u]
    BY <1>2, BeyondGathers DEF Gather
  <2>2. u \in S /\ u \in G[c]
    BY <2>1, ReachLeast
  <2>3. d \in Reach(S, G, u)
    BY <2>1, ReachBack
  <2>4. QED  BY <2>2, <2>3 DEF Beyond
<1>3. QED  BY <1>1, <1>2

LEMMA BeyondInside ==
    ASSUME NEW S, NEW G \in [S -> SUBSET S], NEW c \in S
    PROVE  /\ Beyond(S, G, c) \subseteq S
           /\ \A x \in Beyond(S, G, c) : G[x] \subseteq Beyond(S, G, c)
           /\ G[c] \subseteq Beyond(S, G, c)
           /\ Reach(S, G, c) = {c} \cup Beyond(S, G, c)
           /\ Beyond(S, G, c) = UNION {{d} \cup Beyond(S, G, d) : d \in G[c]}
<1>1. \A d \in G[c] : d \in S
  OBVIOUS
<1>2. \A d \in G[c] : Reach(S, G, d) = {d} \cup Beyond(S, G, d)
  BY <1>1, ReachUnfold DEF Beyond
<1>3. QED  BY <1>1, <1>2, ReachLeast, ReachUnfold DEF Beyond

\* The walk that only asks whether it meets a point.
Asks(S, G, t, f) ==
  \A c \in S : f[c] \in BOOLEAN /\ (f[c] <=> \E d \in G[c] : d = t \/ f[d])

LEMMA AskLines ==
    ASSUME NEW p, IsProgram(p), NEW G \in [Statements(p) -> SUBSET Statements(p)],
           NEW t, NEW f, Asks(Statements(p), G, t, f),
           Ascends(Statements(p), G) \/ Descends(Statements(p), G)
    PROVE  \A c \in Statements(p) : f[c] <=> t \in Beyond(Statements(p), G, c)
<1> DEFINE S == Statements(p)
           base == [c \in S |-> IF t \in G[c] THEN {t} ELSE {}]
           g == [c \in S |-> IF f[c] THEN {t} ELSE {}]
<1>1. Gathers(S, G, base, g)
  <2>1. ASSUME NEW c \in S PROVE g[c] = base[c] \cup UNION {g[d] : d \in G[c]}
    <3>1. f[c] <=> t \in G[c] \/ \E d \in G[c] : f[d]
      BY DEF Asks
    <3>2. \A x : x \in UNION {g[d] : d \in G[c]} <=> x = t /\ \E d \in G[c] : f[d]
      <4>1. \A d \in G[c] : d \in S
        OBVIOUS
      <4>2. QED  BY <4>1
    <3>3. QED  BY <3>1, <3>2
  <2>2. QED  BY <2>1 DEF Gathers
<1>2. \A c \in S : g[c] = Gather(S, G, base, c)
  <2> HIDE DEF g, base
  <2>1. QED  BY <1>1, GatherLines
<1>3. ASSUME NEW c \in S PROVE t \in Gather(S, G, base, c) <=> t \in Beyond(S, G, c)
  <2>1. \A u \in Reach(S, G, c) : u \in S
    BY ReachLeast
  <2>2. t \in Gather(S, G, base, c) <=> \E u \in Reach(S, G, c) : t \in G[u]
    BY <2>1 DEF Gather
  <2>3. Beyond(S, G, c) = UNION {G[u] : u \in Reach(S, G, c)}
    <3> HIDE DEF S, base, g
    <3>1. QED  BY BeyondGathers DEF Gather, S
  <2>4. QED  BY <2>2, <2>3
<1>4. QED  BY <1>2, <1>3

\* EqualSolver is instantiated with the names; the tree is the same.
------------------------------------------------------------------------------
(* Follows* and Parent*, three walks each.                                 *)
LEMMA IFollowsRight ==
    ASSUME NEW p, IsProgram(p), NEW s \in Statements(p)
    PROVE  solve_ifollows_right(p, s) = Beyond(Statements(p), NextG(p), s)
<1>1. solve_ifollows_right(p, s) = ListFrom(p, next(p, s))
  BY DEF solve_ifollows_right
<1>2. CASE next(p, s) = NoStmt
  <2>1. NextG(p)[s] = {}
    BY <1>2 DEF NextG
  <2>2. QED  BY <1>1, <1>2, <2>1, ListFromReach DEF Beyond
<1>3. CASE next(p, s) # NoStmt
  <2>1. NextG(p)[s] = {next(p, s)} /\ next(p, s) \in Statements(p)
    BY <1>3, TreeLines DEF NextG
  <2>2. QED  BY <1>1, <2>1, ListFromReach DEF Beyond
<1>4. QED  BY <1>2, <1>3

LEMMA IFollowsLeft ==
    ASSUME NEW p, IsProgram(p), NEW s \in Statements(p)
    PROVE  solve_ifollows_left(p, s) = Beyond(Statements(p), PrevG(p), s)
<1> DEFINE S == Statements(p)
           g == [t \in S |-> Beyond(S, PrevG(p), t)]
           before == CHOOSE f : f = [t \in S |->
             IF prev(p, t) = NoStmt THEN {} ELSE {prev(p, t)} \cup f[prev(p, t)]]
<1>1. g = [t \in S |-> IF prev(p, t) = NoStmt THEN {} ELSE {prev(p, t)} \cup g[prev(p, t)]]
  <2>1. ASSUME NEW t \in S
        PROVE g[t] = IF prev(p, t) = NoStmt THEN {} ELSE {prev(p, t)} \cup g[prev(p, t)]
    <3>1. g[t] = UNION {{d} \cup Beyond(S, PrevG(p), d) : d \in PrevG(p)[t]}
      BY BeyondInside, TreeWalks
    <3>2. PrevG(p)[t] = {prev(p, t)} \ {NoStmt} /\ prev(p, t) \in S \cup {NoStmt}
      BY TreeLines DEF PrevG
    <3>3. QED  BY <3>1, <3>2
  <2>2. QED  BY <2>1
<1>2. before = [t \in S |->
                  IF prev(p, t) = NoStmt THEN {} ELSE {prev(p, t)} \cup before[prev(p, t)]]
  <2> HIDE DEF g
  <2>1. QED  BY <1>1
<1>3. solve_ifollows_left(p, s) = before[s]
  BY DEF solve_ifollows_left, prev, Statements, NoStmt
<1> HIDE DEF before, g
<1>4. Gathers(S, PrevG(p), PrevG(p), before)
  <2>1. ASSUME NEW t \in S
        PROVE before[t] = PrevG(p)[t] \cup UNION {before[d] : d \in PrevG(p)[t]}
    <3>1. before[t] = IF prev(p, t) = NoStmt THEN {} ELSE {prev(p, t)} \cup before[prev(p, t)]
      BY <1>2
    <3>2. PrevG(p)[t] = {prev(p, t)} \ {NoStmt}
      BY DEF PrevG
    <3>3. QED  BY <3>1, <3>2
  <2>2. QED  BY <2>1 DEF Gathers
<1>5. before[s] = Gather(S, PrevG(p), PrevG(p), s)
  BY <1>4, GatherLines, TreeWalks
<1>6. QED  BY <1>3, <1>5, BeyondGathers, TreeWalks

Tells(g, u, t, X) == g[u] = (t \in X)

Passes(g, u, t, n) == g[u] = (n # NoStmt /\ (n = t \/ g[n]))

LEMMA AskStep ==
    ASSUME NEW X, NEW Y, NEW t, NEW n, NEW g, NEW u,
           Tells(g, u, t, X), Tells(g, n, t, Y), n # NoStmt,
           t \in X <=> (t = n \/ t \in Y)
    PROVE  Passes(g, u, t, n)
<1> USE DEF Tells, Passes
<1>1. CASE t \in X
  <2>1. g[u] = TRUE
    BY <1>1, Zenon
  <2>2. n = t \/ g[n]
    BY <1>1
  <2>3. QED  BY <2>1, <2>2, Zenon
<1>2. CASE t \notin X
  <2>1. g[u] = FALSE
    <3>1. (t \in X) = FALSE
      BY <1>2
    <3>2. QED  BY <3>1
  <2>2. ~ (n = t \/ g[n])
    BY <1>2
  <2>3. QED  BY <2>1, <2>2, Zenon
<1>3. QED  BY <1>1, <1>2

LEMMA IFollowsAsks ==
    ASSUME NEW p, IsProgram(p), NEW s \in Statements(p), NEW t \in Statements(p)
    PROVE  validate_ifollows(p, s, t) <=> t \in Beyond(Statements(p), NextG(p), s)
<1> DEFINE S == Statements(p)
           g == [u \in S |-> t \in Beyond(S, NextG(p), u)]
           leads == CHOOSE f : f = [u \in S |-> /\ next(p, u) # NoStmt
                                                /\ next(p, u) = t \/ f[next(p, u)]]
<1>1. g = [u \in S |-> /\ next(p, u) # NoStmt
                       /\ next(p, u) = t \/ g[next(p, u)]]
  <2>1. ASSUME NEW u \in S
        PROVE g[u] = (next(p, u) # NoStmt /\ (next(p, u) = t \/ g[next(p, u)]))
    <3>1. Beyond(S, NextG(p), u) = UNION {{d} \cup Beyond(S, NextG(p), d) : d \in NextG(p)[u]}
      BY BeyondInside, TreeWalks
    <3>2. NextG(p)[u] = {next(p, u)} \ {NoStmt} /\ next(p, u) \in S \cup {NoStmt}
      BY TreeLines DEF NextG
    <3>3. CASE next(p, u) = NoStmt
      BY <3>1, <3>2, <3>3
    <3>4. CASE next(p, u) # NoStmt
      <4>1. NextG(p)[u] = {next(p, u)} /\ next(p, u) \in S
        BY <3>2, <3>4
      <4>2. t \in Beyond(S, NextG(p), u)
              <=> t = next(p, u) \/ t \in Beyond(S, NextG(p), next(p, u))
        BY <3>1, <4>1
      <4>3. /\ Tells(g, u, t, Beyond(S, NextG(p), u))
            /\ Tells(g, next(p, u), t, Beyond(S, NextG(p), next(p, u)))
        BY <4>1 DEF Tells
      <4> HIDE DEF g
      <4>4. Passes(g, u, t, next(p, u))
        BY <3>4, <4>2, <4>3, AskStep
      <4>5. QED  BY <4>4 DEF Passes
    <3>5. QED  BY <3>3, <3>4
  <2>2. QED  BY <2>1
<1>2. leads = [u \in S |-> /\ next(p, u) # NoStmt
                           /\ next(p, u) = t \/ leads[next(p, u)]]
  <2> HIDE DEF g
  <2>1. QED  BY <1>1
<1>3. validate_ifollows(p, s, t) = leads[s]
  BY DEF validate_ifollows, next, Statements, NoStmt
<1> HIDE DEF leads, g
<1>4. Asks(S, NextG(p), t, leads)
  <2>1. ASSUME NEW u \in S
        PROVE  /\ leads[u] \in BOOLEAN
               /\ leads[u] <=> \E d \in NextG(p)[u] : d = t \/ leads[d]
    <3>1. leads[u] = (next(p, u) # NoStmt /\ (next(p, u) = t \/ leads[next(p, u)]))
      BY <1>2
    <3>2. NextG(p)[u] = {next(p, u)} \ {NoStmt}
      BY DEF NextG
    <3>3. QED  BY <3>1, <3>2
  <2>2. QED  BY <2>1 DEF Asks
<1>5. QED  BY <1>3, <1>4, AskLines, TreeWalks

\* The lists of the branches are the children.
LEMMA ChildrenOfParent ==
    ASSUME NEW p, IsProgram(p), NEW s \in Statements(p)
    PROVE  solve_parent_right(p, s) = ChildG(p)[s]
<1> DEFINE S == Statements(p)
           lists == UNION {Reach(S, NextG(p), b) : b \in Branches(p, s)}
<1>1. solve_parent_right(p, s) = lists
  <2>1. solve_parent_right(p, s) = UNION {ListFrom(p, b) : b \in Branches(p, s)}
    BY DEF solve_parent_right
  <2>2. \A b \in Branches(p, s) : ListFrom(p, b) = Reach(S, NextG(p), b)
    BY ListFromReach, TreeLines
  <2>3. QED  BY <2>1, <2>2
<1>2. ASSUME NEW b \in Branches(p, s) PROVE Reach(S, NextG(p), b) \subseteq ChildG(p)[s]
  <2>1. b \in S /\ b \in ChildG(p)[s]
    BY TreeLines DEF ChildG
  <2>2. ChildG(p)[s] \in SUBSET S
    BY TreeWalks
  <2>3. \A d \in ChildG(p)[s] : NextG(p)[d] \subseteq ChildG(p)[s]
    BY TreeLines DEF ChildG, NextG
  <2>4. QED  BY <2>1, <2>2, <2>3, ReachLeast, TreeWalks
<1>3. ChildG(p)[s] \subseteq lists
  <2> DEFINE T == ChildG(p)[s] \ lists
  <2>1. SUFFICES ASSUME T # {} PROVE FALSE
    OBVIOUS
  <2>2. PICK t \in T : \A k \in T : t <= k
    <3>1. T \in SUBSET Nat
      BY TreeLines DEF ChildG
    <3> HIDE DEF T
    <3>2. QED  BY <2>1, <3>1, LeastOf
  <2>3. t \in S /\ get_parent(p, t) = s
    BY DEF ChildG
  <2>4. CASE prev(p, t) = NoStmt
    <3>1. t \in Heads(p)
      BY <2>3, <2>4, TreeLines
    <3>2. ~ \E n \in Procs(p) : t = get_statement(p, n)
      <4>1. WellFormed(p)
        BY DEF IsProgram
      <4>2. ASSUME NEW n \in Procs(p), t = get_statement(p, n) PROVE FALSE
        <5>1. get_parent(p, t) = NoStmt
          BY <4>1, <4>2 DEF WellFormed
        <5>2. QED  BY <2>3, <5>1, TreeLines
      <4>3. QED  BY <4>2
    <3>3. PICK x \in S : t \in Branches(p, x)
      BY <3>1, <3>2 DEF Heads
    <3>4. x = s
      BY <2>3, <3>3, TreeLines
    <3>5. t \in Reach(S, NextG(p), t)
      BY <2>3, ReachLeast, TreeWalks
    <3>6. QED  BY <3>3, <3>4, <3>5
  <2>5. CASE prev(p, t) # NoStmt
    <3>1. /\ prev(p, t) \in S /\ prev(p, t) < t /\ get_parent(p, prev(p, t)) = s
          /\ next(p, prev(p, t)) = t
      BY <2>3, <2>5, PrevBefore, TreeLines
    <3>2. prev(p, t) \in lists
      <4>1. prev(p, t) \in ChildG(p)[s]
        BY <3>1 DEF ChildG
      <4>2. prev(p, t) \notin T
        BY <2>2, <2>3, <3>1, TreeLines
      <4>3. QED  BY <4>1, <4>2
    <3>3. PICK b \in Branches(p, s) : prev(p, t) \in Reach(S, NextG(p), b)
      BY <3>2
    <3>4. b \in S /\ t \in NextG(p)[prev(p, t)]
      BY <2>3, <3>1, TreeLines, TreeWalks
    <3>5. t \in Reach(S, NextG(p), b)
      BY <3>3, <3>4, ReachLeast, TreeWalks
    <3>6. QED  BY <3>3, <3>5
  <2>6. QED  BY <2>4, <2>5
<1>4. QED  BY <1>1, <1>2, <1>3

LEMMA IParentRight ==
    ASSUME NEW p, IsProgram(p), NEW s \in Statements(p)
    PROVE  solve_iparent_right(p, s) = Beyond(Statements(p), ChildG(p), s)
<1> DEFINE S == Statements(p)
           g == [t \in S |-> Beyond(S, ChildG(p), t)]
           inside == CHOOSE f : f = [t \in S |->
             UNION {{u} \cup f[u] : u \in solve_parent_right(p, t)}]
<1>1. g = [t \in S |-> UNION {{u} \cup g[u] : u \in solve_parent_right(p, t)}]
  <2>1. ASSUME NEW t \in S
        PROVE g[t] = UNION {{u} \cup g[u] : u \in solve_parent_right(p, t)}
    <3>1. g[t] = UNION {{d} \cup Beyond(S, ChildG(p), d) : d \in ChildG(p)[t]}
      BY BeyondInside, TreeWalks
    <3>2. solve_parent_right(p, t) = ChildG(p)[t] /\ ChildG(p)[t] \subseteq S
      BY ChildrenOfParent DEF ChildG
    <3>3. QED  BY <3>1, <3>2
  <2>2. QED  BY <2>1
<1>2. inside = [t \in S |-> UNION {{u} \cup inside[u] : u \in solve_parent_right(p, t)}]
  <2> HIDE DEF g
  <2>1. QED  BY <1>1
<1>3. solve_iparent_right(p, s) = inside[s]
  BY DEF solve_iparent_right, Statements
<1> HIDE DEF inside, g
<1>4. Gathers(S, ChildG(p), ChildG(p), inside)
  <2>1. ASSUME NEW t \in S
        PROVE inside[t] = ChildG(p)[t] \cup UNION {inside[d] : d \in ChildG(p)[t]}
    <3>1. inside[t] = UNION {{u} \cup inside[u] : u \in ChildG(p)[t]}
      BY <1>2, ChildrenOfParent
    <3>2. QED  BY <3>1
  <2>2. QED  BY <2>1 DEF Gathers
<1>5. inside[s] = Gather(S, ChildG(p), ChildG(p), s)
  BY <1>4, GatherLines, TreeWalks
<1>6. QED  BY <1>3, <1>5, BeyondGathers, TreeWalks

LEMMA IParentLeft ==
    ASSUME NEW p, IsProgram(p), NEW s \in Statements(p)
    PROVE  solve_iparent_left(p, s) = Beyond(Statements(p), ParentG(p), s)
<1> DEFINE S == Statements(p)
           g == [t \in S |-> Beyond(S, ParentG(p), t)]
           around == CHOOSE f : f = [t \in S |->
             IF get_parent(p, t) = NoStmt THEN {}
             ELSE {get_parent(p, t)} \cup f[get_parent(p, t)]]
<1>1. g = [t \in S |-> IF get_parent(p, t) = NoStmt THEN {}
                       ELSE {get_parent(p, t)} \cup g[get_parent(p, t)]]
  <2>1. ASSUME NEW t \in S
        PROVE g[t] = IF get_parent(p, t) = NoStmt THEN {}
                     ELSE {get_parent(p, t)} \cup g[get_parent(p, t)]
    <3>1. g[t] = UNION {{d} \cup Beyond(S, ParentG(p), d) : d \in ParentG(p)[t]}
      BY BeyondInside, TreeWalks
    <3>2. /\ ParentG(p)[t] = {get_parent(p, t)} \ {NoStmt}
          /\ get_parent(p, t) \in S \cup {NoStmt}
      BY TreeLines DEF ParentG
    <3>3. QED  BY <3>1, <3>2
  <2>2. QED  BY <2>1
<1>2. around = [t \in S |-> IF get_parent(p, t) = NoStmt THEN {}
                            ELSE {get_parent(p, t)} \cup around[get_parent(p, t)]]
  <2> HIDE DEF g
  <2>1. QED  BY <1>1
<1>3. solve_iparent_left(p, s) = around[s]
  BY DEF solve_iparent_left, get_parent, Statements, NoStmt
<1> HIDE DEF around, g
<1>4. Gathers(S, ParentG(p), ParentG(p), around)
  <2>1. ASSUME NEW t \in S
        PROVE around[t] = ParentG(p)[t] \cup UNION {around[d] : d \in ParentG(p)[t]}
    <3>1. around[t] = IF get_parent(p, t) = NoStmt THEN {}
                      ELSE {get_parent(p, t)} \cup around[get_parent(p, t)]
      BY <1>2
    <3>2. ParentG(p)[t] = {get_parent(p, t)} \ {NoStmt}
      BY DEF ParentG
    <3>3. QED  BY <3>1, <3>2
  <2>2. QED  BY <2>1 DEF Gathers
<1>5. around[s] = Gather(S, ParentG(p), ParentG(p), s)
  BY <1>4, GatherLines, TreeWalks
<1>6. QED  BY <1>3, <1>5, BeyondGathers, TreeWalks

LEMMA IParentAsks ==
    ASSUME NEW p, IsProgram(p), NEW s \in Statements(p), NEW t \in Statements(p)
    PROVE  validate_iparent(p, s, t)
             <=> kind(p, s) \in {"while", "if"} /\ s \in Beyond(Statements(p), ParentG(p), t)
<1> DEFINE S == Statements(p)
           g == [u \in S |-> s \in Beyond(S, ParentG(p), u)]
           within == CHOOSE f : f = [u \in S |-> /\ get_parent(p, u) # NoStmt
                                                 /\ get_parent(p, u) = s \/ f[get_parent(p, u)]]
<1>1. g = [u \in S |-> /\ get_parent(p, u) # NoStmt
                       /\ get_parent(p, u) = s \/ g[get_parent(p, u)]]
  <2>1. ASSUME NEW u \in S
        PROVE g[u] = (get_parent(p, u) # NoStmt /\ (get_parent(p, u) = s \/ g[get_parent(p, u)]))
    <3>1. Beyond(S, ParentG(p), u) = UNION {{d} \cup Beyond(S, ParentG(p), d) : d \in ParentG(p)[u]}
      BY BeyondInside, TreeWalks
    <3>2. ParentG(p)[u] = {get_parent(p, u)} \ {NoStmt} /\ get_parent(p, u) \in S \cup {NoStmt}
      BY TreeLines DEF ParentG
    <3>3. CASE get_parent(p, u) = NoStmt
      BY <3>1, <3>2, <3>3
    <3>4. CASE get_parent(p, u) # NoStmt
      <4>1. ParentG(p)[u] = {get_parent(p, u)} /\ get_parent(p, u) \in S
        BY <3>2, <3>4
      <4>2. s \in Beyond(S, ParentG(p), u)
              <=> s = get_parent(p, u) \/ s \in Beyond(S, ParentG(p), get_parent(p, u))
        BY <3>1, <4>1
      <4>3. /\ Tells(g, u, s, Beyond(S, ParentG(p), u))
            /\ Tells(g, get_parent(p, u), s, Beyond(S, ParentG(p), get_parent(p, u)))
        BY <4>1 DEF Tells
      <4> HIDE DEF g
      <4>4. Passes(g, u, s, get_parent(p, u))
        BY <3>4, <4>2, <4>3, AskStep
      <4>5. QED  BY <4>4 DEF Passes
    <3>5. QED  BY <3>3, <3>4
  <2>2. QED  BY <2>1
<1>2. within = [u \in S |-> /\ get_parent(p, u) # NoStmt
                            /\ get_parent(p, u) = s \/ within[get_parent(p, u)]]
  <2> HIDE DEF g
  <2>1. QED  BY <1>1
<1>3. validate_iparent(p, s, t) = (kind(p, s) \in {"while", "if"} /\ within[t])
  BY DEF validate_iparent, get_parent, Statements, NoStmt, kind
<1> HIDE DEF within, g
<1>4. Asks(S, ParentG(p), s, within)
  <2>1. ASSUME NEW u \in S
        PROVE  /\ within[u] \in BOOLEAN
               /\ within[u] <=> \E d \in ParentG(p)[u] : d = s \/ within[d]
    <3>1. within[u] = (get_parent(p, u) # NoStmt
                         /\ (get_parent(p, u) = s \/ within[get_parent(p, u)]))
      BY <1>2
    <3>2. ParentG(p)[u] = {get_parent(p, u)} \ {NoStmt}
      BY DEF ParentG
    <3>3. QED  BY <3>1, <3>2
  <2>2. QED  BY <2>1 DEF Asks
<1>5. within[t] <=> s \in Beyond(S, ParentG(p), t)
  BY <1>4, AskLines, TreeWalks
<1>6. QED  BY <1>3, <1>5

\* What has children is a loop or a branch.
LEMMA ParentsContain ==
    ASSUME NEW p, IsProgram(p), NEW s \in Statements(p), NEW t \in Statements(p),
           get_parent(p, t) = s
    PROVE  kind(p, s) \in {"while", "if"}
<1>1. t \in solve_parent_right(p, s)
  BY ChildrenOfParent DEF ChildG
<1>2. PICK b : b \in Branches(p, s)
  BY <1>1 DEF solve_parent_right
<1>3. p.stmts[s].first # NoStmt \/ p.stmts[s].second # NoStmt
  BY <1>2 DEF Branches
<1>4. /\ (kind(p, s) \in {"while", "if"}) <=> (p.stmts[s].first # NoStmt)
      /\ (kind(p, s) = "if") <=> (p.stmts[s].second # NoStmt)
  BY DEF IsProgram, WellFormed
<1>5. QED  BY <1>3, <1>4

\* The three forms of the four relations agree.
LEMMA TreeFormsAgree ==
    ASSUME NEW p, IsProgram(p), NEW s \in Statements(p), NEW t \in Statements(p)
    PROVE  /\ t \in solve_follows_right(p, s) <=> s \in solve_follows_left(p, t)
           /\ t \in solve_follows_right(p, s) <=> validate_follows(p, s, t)
           /\ t \in solve_ifollows_right(p, s) <=> s \in solve_ifollows_left(p, t)
           /\ t \in solve_ifollows_right(p, s) <=> validate_ifollows(p, s, t)
           /\ t \in solve_parent_right(p, s) <=> s \in solve_parent_left(p, t)
           /\ t \in solve_parent_right(p, s) <=> validate_parent(p, s, t)
           /\ t \in solve_iparent_right(p, s) <=> s \in solve_iparent_left(p, t)
           /\ t \in solve_iparent_right(p, s) <=> validate_iparent(p, s, t)
<1>1. /\ t \in solve_follows_right(p, s) <=> s \in solve_follows_left(p, t)
      /\ t \in solve_follows_right(p, s) <=> validate_follows(p, s, t)
  <2>1. /\ solve_follows_right(p, s) = {next(p, s)} \ {NoStmt}
        /\ solve_follows_left(p, t) = {prev(p, t)} \ {NoStmt}
        /\ validate_follows(p, s, t) <=> next(p, s) = t
    BY DEF solve_follows_right, solve_follows_left, validate_follows
  <2>2. QED  BY <2>1, TreeLines
<1>2. t \in solve_ifollows_right(p, s) <=> s \in solve_ifollows_left(p, t)
  BY IFollowsRight, IFollowsLeft, BeyondBack, TreeWalks
<1>3. t \in solve_ifollows_right(p, s) <=> validate_ifollows(p, s, t)
  BY IFollowsRight, IFollowsAsks
<1>4. /\ t \in solve_parent_right(p, s) <=> s \in solve_parent_left(p, t)
      /\ t \in solve_parent_right(p, s) <=> validate_parent(p, s, t)
  <2>1. /\ solve_parent_left(p, t) = {get_parent(p, t)} \ {NoStmt}
        /\ validate_parent(p, s, t)
             <=> kind(p, s) \in {"while", "if"} /\ get_parent(p, t) = s
    BY DEF solve_parent_left, validate_parent
  <2>2. t \in solve_parent_right(p, s) <=> get_parent(p, t) = s
    BY ChildrenOfParent, TreeWalks
  <2>3. QED  BY <2>1, <2>2, TreeLines, ParentsContain
<1>5. t \in solve_iparent_right(p, s) <=> s \in solve_iparent_left(p, t)
  BY IParentRight, IParentLeft, BeyondBack, TreeWalks
<1>6. t \in solve_iparent_right(p, s) <=> validate_iparent(p, s, t)
  <2>1. t \in Beyond(Statements(p), ChildG(p), s) => kind(p, s) \in {"while", "if"}
    <3>1. ASSUME t \in Beyond(Statements(p), ChildG(p), s)
          PROVE  \E u \in Statements(p) : get_parent(p, u) = s
      BY <3>1 DEF Beyond, ChildG
    <3>2. QED  BY <3>1, ParentsContain
  <2>2. t \in Beyond(Statements(p), ChildG(p), s) <=> s \in Beyond(Statements(p), ParentG(p), t)
    BY BeyondBack, TreeWalks
  <2>3. QED  BY <2>1, <2>2, IParentRight, IParentAsks
<1>7. QED  BY <1>1, <1>2, <1>3, <1>4, <1>5, <1>6

------------------------------------------------------------------------------
(* The walk over the procedures meets every statement.                     *)
LEMMA TopList ==
    ASSUME NEW p, IsProgram(p), NEW s \in Statements(p), get_parent(p, s) = NoStmt
    PROVE  \E n \in Procs(p) : /\ get_statement(p, n) \in Statements(p)
                               /\ s \in Reach(Statements(p), NextG(p), get_statement(p, n))
<1> DEFINE S == Statements(p)
           Met(t) == \E n \in Procs(p) :
                       /\ get_statement(p, n) \in S
                       /\ t \in Reach(S, NextG(p), get_statement(p, n))
           T == {t \in S : get_parent(p, t) = NoStmt /\ ~Met(t)}
<1>1. SUFFICES ASSUME T # {} PROVE FALSE
  OBVIOUS
<1>2. PICK t \in T : \A k \in T : t <= k
  <2>1. T \in SUBSET Nat
    BY TreeLines
  <2> HIDE DEF T
  <2>2. QED  BY <1>1, <2>1, LeastOf
<1>3. t \in S /\ get_parent(p, t) = NoStmt /\ ~Met(t)
  OBVIOUS
<1>4. CASE prev(p, t) = NoStmt
  <2>1. t \in Heads(p)
    BY <1>3, <1>4, TreeLines
  <2>2. ~ \E x \in S : t \in Branches(p, x)
    BY <1>3, TreeLines
  <2>3. PICK n \in Procs(p) : t = get_statement(p, n)
    BY <2>1, <2>2 DEF Heads
  <2>4. t \in Reach(S, NextG(p), t)
    BY <1>3, ReachLeast, TreeWalks
  <2>5. QED  BY <1>3, <2>3, <2>4
<1>5. CASE prev(p, t) # NoStmt
  <2>1. /\ prev(p, t) \in S /\ prev(p, t) < t /\ get_parent(p, prev(p, t)) = NoStmt
        /\ next(p, prev(p, t)) = t
    BY <1>3, <1>5, PrevBefore, TreeLines
  <2>2. prev(p, t) \notin T
    BY <1>2, <1>3, <2>1, TreeLines
  <2>3. PICK n \in Procs(p) : /\ get_statement(p, n) \in S
                              /\ prev(p, t) \in Reach(S, NextG(p), get_statement(p, n))
    BY <2>1, <2>2
  <2>4. t \in NextG(p)[prev(p, t)]
    BY <1>3, <2>1, TreeWalks
  <2>5. t \in Reach(S, NextG(p), get_statement(p, n))
    BY <2>3, <2>4, ReachLeast, TreeWalks
  <2>6. QED  BY <1>3, <2>3, <2>5
<1>6. QED  BY <1>4, <1>5

LEMMA WalkFromReach ==
    ASSUME NEW p, IsProgram(p), NEW h \in Statements(p)
    PROVE  WalkFrom(p, h)
             = UNION {Reach(Statements(p), ChildG(p), s) :
                        s \in Reach(Statements(p), NextG(p), h)}
<1>1. WalkFrom(p, h) = UNION {{s} \cup solve_iparent_right(p, s) :
                                     s \in Reach(Statements(p), NextG(p), h)}
  BY ListFromReach DEF WalkFrom
<1>2. \A s \in Reach(Statements(p), NextG(p), h) :
        {s} \cup solve_iparent_right(p, s) = Reach(Statements(p), ChildG(p), s)
  <2>1. \A s \in Reach(Statements(p), NextG(p), h) : s \in Statements(p)
    BY ReachLeast, TreeWalks
  <2>2. QED  BY <2>1, IParentRight, BeyondInside, TreeWalks
<1>3. QED  BY <1>1, <1>2

LEMMA AllWalked ==
    ASSUME NEW p, IsProgram(p)
    PROVE  Walked(p) = Statements(p)
<1> DEFINE S == Statements(p)
           T == S \ Walked(p)
<1>1. Walked(p) = UNION {WalkFrom(p, get_statement(p, n)) : n \in Procs(p)}
  BY DEF Walked
<1>2. \A n \in Procs(p) : get_statement(p, n) \in S
  BY DEF IsProgram, WellFormed
<1>3. Walked(p) \subseteq S
  <2>1. ASSUME NEW n \in Procs(p), NEW s \in Reach(S, NextG(p), get_statement(p, n))
        PROVE  Reach(S, ChildG(p), s) \subseteq S
    <3>1. s \in S
      BY <1>2, ReachLeast, TreeWalks
    <3>2. QED  BY <3>1, ReachLeast, TreeWalks
  <2>2. \A n \in Procs(p) : WalkFrom(p, get_statement(p, n)) \subseteq S
    BY <1>2, <2>1, WalkFromReach
  <2>3. QED  BY <1>1, <2>2
<1>4. T = {}
  <2>1. SUFFICES ASSUME T # {} PROVE FALSE
    OBVIOUS
  <2>2. PICK t \in T : \A k \in T : t <= k
    <3>1. T \in SUBSET Nat
      BY TreeLines
    <3> HIDE DEF T
    <3>2. QED  BY <2>1, <3>1, LeastOf
  <2>3. t \in S /\ t \notin Walked(p)
    OBVIOUS
  <2>4. CASE get_parent(p, t) = NoStmt
    <3>1. PICK n \in Procs(p) : /\ get_statement(p, n) \in S
                                /\ t \in Reach(S, NextG(p), get_statement(p, n))
      BY <2>3, <2>4, TopList
    <3>2. t \in Reach(S, ChildG(p), t)
      BY <2>3, ReachLeast, TreeWalks
    <3>3. t \in WalkFrom(p, get_statement(p, n))
      BY <3>1, <3>2, WalkFromReach
    <3>4. QED  BY <1>1, <2>3, <3>3
  <2>5. CASE get_parent(p, t) # NoStmt
    <3>1. PICK c \in S : c = get_parent(p, t) /\ c < t
      BY <2>3, <2>5, ParentBefore
    <3>2. c \in Walked(p)
      BY <2>2, <2>3, <3>1, TreeLines
    <3>3. PICK n \in Procs(p) : c \in WalkFrom(p, get_statement(p, n))
      BY <1>1, <3>2
    <3>4. PICK s \in Reach(S, NextG(p), get_statement(p, n)) : c \in Reach(S, ChildG(p), s)
      BY <1>2, <3>3, WalkFromReach
    <3>5. s \in S
      BY <1>2, ReachLeast, TreeWalks
    <3>6. t \in ChildG(p)[c]
      BY <2>3, <3>1, TreeWalks
    <3>7. t \in Reach(S, ChildG(p), s)
      BY <3>4, <3>5, <3>6, ReachLeast, TreeWalks
    <3>8. t \in WalkFrom(p, get_statement(p, n))
      BY <1>2, <3>4, <3>7, WalkFromReach
    <3>9. QED  BY <1>1, <2>3, <3>8
  <2>6. QED  BY <2>4, <2>5
<1>5. QED  BY <1>3, <1>4

------------------------------------------------------------------------------
(* The solvers that look into an index.                                    *)
LEMMA SiblingForms ==
    ASSUME NEW p, NEW c, NEW d
    PROVE  /\ d \in solve_sibling_right(p, c) <=> c \in solve_sibling_left(p, d)
           /\ d \in solve_sibling_right(p, c) <=> validate_sibling(p, c, d)
<1>0. \A e : e \in sibling_index(p)
              <=> \/ e \in Among({Proc(n) : n \in Procs(p)})
                  \/ \E h \in Heads(p) :
                       e \in Among({Stmt(s) : s \in ListFrom(p, h)})
                  \/ \E s \in Walked(p) : e \in sibling_statement(p, s)
  BY Zenon DEF sibling_index
<1>1. \A x, y : <<x, y>> \in sibling_index(p) <=> <<y, x>> \in sibling_index(p)
  <2>1. \A C, x, y : <<x, y>> \in Among(C) <=> <<y, x>> \in Among(C)
    BY DEF Among
  <2>2. \A s, x, y : <<x, y>> \in sibling_statement(p, s)
                       <=> <<y, x>> \in sibling_statement(p, s)
    <3>1. \A a, b, x, y : <<x, y>> \in index_siblings(a, b)
                            <=> <<y, x>> \in index_siblings(a, b)
      BY DEF index_siblings
    <3>2. TAKE s, x, y
    <3>3. CASE kind(p, s) = "assign"
      BY <3>1, <3>3 DEF sibling_statement
    <3>4. CASE kind(p, s) = "while"
      BY <3>1, <3>4 DEF sibling_statement
    <3>5. CASE kind(p, s) = "if"
      BY <3>1, <3>5 DEF sibling_statement
    <3>6. CASE kind(p, s) \notin {"assign", "while", "if"}
      BY <3>6 DEF sibling_statement
    <3>7. QED  BY <3>3, <3>4, <3>5, <3>6
  <2>3. QED  BY <1>0, <2>1, <2>2, Zenon
<1>2. \A x, y : y \in {e[2] : e \in {i \in sibling_index(p) : i[1] = x}}
                  <=> <<x, y>> \in sibling_index(p)
  <2>1. \A e \in sibling_index(p) : e = <<e[1], e[2]>>
    <3>1. \A C : \A e \in Among(C) : e = <<e[1], e[2]>>
      BY DEF Among
    <3>2. \A s : \A e \in sibling_statement(p, s) : e = <<e[1], e[2]>>
      <4>1. \A a, b : \A e \in index_siblings(a, b) : e = <<e[1], e[2]>>
        BY DEF index_siblings
      <4>2. TAKE s
      <4>3. CASE kind(p, s) = "assign"
        BY <4>1, <4>3 DEF sibling_statement
      <4>4. CASE kind(p, s) = "while"
        BY <4>1, <4>4 DEF sibling_statement
      <4>5. CASE kind(p, s) = "if"
        BY <4>1, <4>5 DEF sibling_statement
      <4>6. CASE kind(p, s) \notin {"assign", "while", "if"}
        BY <4>6 DEF sibling_statement
      <4>7. QED  BY <4>3, <4>4, <4>5, <4>6
    <3>3. QED  BY <1>0, <3>1, <3>2, Zenon
  <2>2. QED  BY <2>1
<1>3. QED
  BY <1>1, <1>2 DEF solve_sibling_right, solve_sibling_left, validate_sibling

LEMMA ContainsForms ==
    ASSUME NEW p, NEW indirect, NEW c, NEW d
    PROVE  /\ d \in solve_contains_right(p, indirect, c)
                <=> c \in solve_contains_left(p, indirect, d)
           /\ d \in solve_contains_right(p, indirect, c)
                <=> validate_contains(p, indirect, d, c)
<1>1. \A e \in contains_index(p, indirect) : e = <<e[1], e[2]>>
  <2>1. \A e : e \in contains_index(p, indirect)
                <=> \/ \E n \in Procs(p) :
                         e \in {Proc(n)} \X
                               UNION {HandedUp(p, indirect, s, contained(p, indirect, s)) :
                                        s \in ListFrom(p, get_statement(p, n))}
                    \/ \E s \in {t \in Walked(p) : kind(p, t) # "call"} :
                         e \in {Stmt(s)} \X contained(p, indirect, s)
    BY Zenon DEF contains_index
  <2>2. \A X, Y : \A e \in X \X Y : e = <<e[1], e[2]>>
    OBVIOUS
  <2>3. QED  BY <2>1, <2>2, Zenon
<1>2. QED
  BY <1>1 DEF solve_contains_right, solve_contains_left, validate_contains

\* Direct uses: the index by variable against the statement itself.
LEMMA DirectUsesForms ==
    ASSUME NEW p, IsProgram(p), NEW s \in Statements(p), NEW v
    PROVE  v \in solve_direct_uses_right(p, s) <=> s \in solve_direct_uses_left(p, v)
<1>1. v \in solve_direct_uses_right(p, s)
        <=> kind(p, s) # "call" /\ get_variable(p, s) = v
  BY DEF solve_direct_uses_right
<1>2. direct_uses_index(p) = {<<get_variable(p, t), t>> :
                                     t \in {u \in Statements(p) : kind(p, u) # "call"}}
  BY AllWalked DEF direct_uses_index
<1>3. s \in solve_direct_uses_left(p, v)
        <=> \E t \in Statements(p) : kind(p, t) # "call" /\ get_variable(p, t) = v /\ s = t
  <2>1. s \in solve_direct_uses_left(p, v)
          <=> \E e \in direct_uses_index(p) : e[1] = v /\ s = e[2]
    BY DEF solve_direct_uses_left
  <2>2. ASSUME NEW e \in direct_uses_index(p)
        PROVE  \E t \in Statements(p) : kind(p, t) # "call" /\ e[1] = get_variable(p, t) /\ e[2] = t
    BY <1>2
  <2>3. ASSUME NEW t \in Statements(p), kind(p, t) # "call"
        PROVE  <<get_variable(p, t), t>> \in direct_uses_index(p)
    BY <1>2, <2>3
  <2>4. QED  BY <2>1, <2>2, <2>3
<1>4. QED  BY <1>1, <1>3

\* Calls: the table and its inverse.
LEMMA CallsForms ==
    ASSUME NEW p, NEW m \in Procs(p), NEW n \in Procs(p)
    PROVE  n \in solve_called_procs(p, m) <=> m \in solve_calling_procs(p, n)
BY DEF solve_called_procs, solve_calling_procs

------------------------------------------------------------------------------
(* Equal: every condition with a name or a number is in the index under    *)
(* it, and a call under its procedure's name besides.                      *)
Named(p) == {Proc(n) : n \in Procs(p)} \cup {Var(v) : v \in Variables(p)}

------------------------------------------------------------------------------
(* Next: where control goes, and where it may come from.                   *)
LEMMA ContainerShape ==
    ASSUME NEW p, IsProgram(p), NEW s \in Statements(p)
    PROVE  /\ kind(p, s) = "while" => /\ Branches(p, s) = {get_body(p, s)}
                                      /\ get_body(p, s) \in Statements(p)
           /\ kind(p, s) = "if" =>
                /\ Branches(p, s) = {get_then_branch(p, s), get_else_branch(p, s)}
                /\ get_then_branch(p, s) \in Statements(p)
                /\ get_else_branch(p, s) \in Statements(p)
           /\ kind(p, s) \notin {"while", "if"} => Branches(p, s) = {}
<1>1. /\ kind(p, s) \in {"while", "if"} <=> p.stmts[s].first # NoStmt
      /\ kind(p, s) = "if" <=> p.stmts[s].second # NoStmt
  BY DEF IsProgram, WellFormed
<1>2. Branches(p, s) \subseteq Statements(p)
  BY TreeLines
<1>3. Branches(p, s) = {b \in {p.stmts[s].first, p.stmts[s].second} : b # NoStmt}
  BY DEF Branches
<1>4. QED  BY <1>1, <1>2, <1>3 DEF get_body, get_then_branch, get_else_branch

\* The loop to the end of a list finds the one statement of it without a next.
LEMMA LastOfList ==
    ASSUME NEW p, IsProgram(p), NEW h \in Statements(p)
    PROVE  /\ LastOf(p, h) \in Reach(Statements(p), NextG(p), h)
           /\ next(p, LastOf(p, h)) = NoStmt
           /\ \A x \in Reach(Statements(p), NextG(p), h) :
                next(p, x) = NoStmt => x = LastOf(p, h)
<1> DEFINE S == Statements(p)
           Ends(t) == {u \in Reach(S, NextG(p), t) : next(p, u) = NoStmt}
           g == [t \in S |-> CHOOSE u : u \in Ends(t)]
           last == CHOOSE f : f = [t \in S |-> IF next(p, t) = NoStmt THEN t
                                               ELSE f[next(p, t)]]
<1>0. \A t \in S : /\ next(p, t) = NoStmt => Reach(S, NextG(p), t) = {t}
                   /\ next(p, t) # NoStmt =>
                        /\ next(p, t) \in S /\ t < next(p, t)
                        /\ Reach(S, NextG(p), t) = {t} \cup Reach(S, NextG(p), next(p, t))
  <2>1. TAKE t \in S
  <2>2. Reach(S, NextG(p), t) = {t} \cup UNION {Reach(S, NextG(p), d) : d \in NextG(p)[t]}
    BY ReachUnfold, TreeWalks
  <2>3. NextG(p)[t] = {next(p, t)} \ {NoStmt}
    BY DEF NextG
  <2>4. CASE next(p, t) = NoStmt
    <3>1. NextG(p)[t] = {}
      BY <2>3, <2>4
    <3>2. QED  BY <2>2, <2>4, <3>1
  <2>5. CASE next(p, t) # NoStmt
    <3>1. NextG(p)[t] = {next(p, t)} /\ next(p, t) \in S /\ t < next(p, t)
      BY <2>3, <2>5, TreeLines
    <3>2. QED  BY <2>2, <2>5, <3>1
  <2>6. QED  BY <2>4, <2>5
<1>1. g = [t \in S |-> IF next(p, t) = NoStmt THEN t ELSE g[next(p, t)]]
  <2>1. ASSUME NEW t \in S PROVE g[t] = IF next(p, t) = NoStmt THEN t ELSE g[next(p, t)]
    <3>1. CASE next(p, t) = NoStmt
      <4>1. Ends(t) = {t}
        BY <1>0, <3>1
      <4>2. QED  BY <3>1, <4>1
    <3>2. CASE next(p, t) # NoStmt
      <4>1. Ends(t) = Ends(next(p, t)) /\ next(p, t) \in S
        BY <1>0, <3>2
      <4>2. QED  BY <3>2, <4>1
    <3>3. QED  BY <3>1, <3>2
  <2>2. PICK V, v : v = g /\ v \in [S -> V]
    <3>1. g \in [S -> {g[t] : t \in S}]
      OBVIOUS
    <3> HIDE DEF g
    <3>2. QED  BY <3>1
  <2> HIDE DEF g
  <2>3. QED  BY <2>1, <2>2
<1>2. last = [t \in S |-> IF next(p, t) = NoStmt THEN t ELSE last[next(p, t)]]
  <2> HIDE DEF g
  <2>1. QED  BY <1>1
<1>3. LastOf(p, h) = last[h]
  BY DEF LastOf
<1> HIDE DEF last, g
<1> DEFINE T == {t \in S : Ends(t) # {last[t]}}
<1>4. T = {}
  <2>1. SUFFICES ASSUME T # {} PROVE FALSE
    OBVIOUS
  <2>2. PICK t \in T : \A k \in T : k <= t
    <3>1. Len(p.stmts) \in Nat /\ T \in SUBSET (1 .. Len(p.stmts))
      BY TreeLines
    <3> HIDE DEF T
    <3>2. QED  BY <2>1, <3>1, LargestOf
  <2>3. t \in S /\ Ends(t) # {last[t]}
    OBVIOUS
  <2>4. next(p, t) # NoStmt
    <3>1. CASE next(p, t) = NoStmt
      <4>1. Ends(t) = {t} /\ last[t] = t
        BY <1>0, <1>2, <2>3, <3>1
      <4>2. QED  BY <2>3, <4>1
    <3>2. QED  BY <3>1
  <2>5. next(p, t) \notin T
    BY <1>0, <2>2, <2>3, <2>4, TreeLines
  <2>6. Ends(t) = Ends(next(p, t)) /\ last[t] = last[next(p, t)]
    BY <1>0, <1>2, <2>3, <2>4
  <2>7. QED  BY <1>0, <2>3, <2>4, <2>5, <2>6
<1>5. Ends(h) = {LastOf(p, h)}
  BY <1>3, <1>4
<1>6. QED  BY <1>5

LEMMA ListKeepsParent ==
    ASSUME NEW p, IsProgram(p), NEW c \in Statements(p), NEW b \in Branches(p, c),
           NEW x \in Reach(Statements(p), NextG(p), b)
    PROVE  x \in Statements(p) /\ get_parent(p, x) = c
<1>1. b \in Statements(p)
  BY TreeLines
<1>2. solve_parent_right(p, c) = UNION {ListFrom(p, a) : a \in Branches(p, c)}
  BY DEF solve_parent_right
<1>3. x \in ChildG(p)[c]
  BY <1>1, <1>2, ListFromReach, ChildrenOfParent
<1>4. QED  BY <1>3 DEF ChildG

\* The last statement of a list without a next is that of a branch.
LEMMA LastOfBranch ==
    ASSUME NEW p, IsProgram(p), NEW x \in Statements(p), NEW c \in Statements(p),
           get_parent(p, x) = c, next(p, x) = NoStmt
    PROVE  \E b \in Branches(p, c) : x = LastOf(p, b)
<1>1. x \in ChildG(p)[c]
  BY DEF ChildG
<1>2. solve_parent_right(p, c) = UNION {ListFrom(p, a) : a \in Branches(p, c)}
  BY DEF solve_parent_right
<1>3. PICK b \in Branches(p, c) : x \in ListFrom(p, b)
  BY <1>1, <1>2, ChildrenOfParent
<1>4. b \in Statements(p)
  BY TreeLines
<1>5. QED  BY <1>3, <1>4, ListFromReach, LastOfList

LEMMA BranchEnds ==
    ASSUME NEW p, IsProgram(p), NEW c \in Statements(p), NEW b \in Branches(p, c)
    PROVE  /\ LastOf(p, b) \in Statements(p) /\ c < LastOf(p, b)
           /\ next(p, LastOf(p, b)) = NoStmt /\ get_parent(p, LastOf(p, b)) = c
<1>1. b \in Statements(p)
  BY TreeLines
<1>2. next(p, LastOf(p, b)) = NoStmt /\ LastOf(p, b) \in Statements(p)
      /\ get_parent(p, LastOf(p, b)) = c
  BY <1>1, LastOfList, ListKeepsParent
<1>3. c # NoStmt
  BY TreeLines
<1>4. QED  BY <1>2, <1>3, ParentBefore

\* What control goes to behind a container, as its recursion has it.
LEMMA ContainerNext ==
    ASSUME NEW p, IsProgram(p), NEW c \in Statements(p)
    PROVE  solve_container_next(p, c)
             = IF kind(p, c) = "while" THEN {c} ELSE Following(p, c)
<1> DEFINE S == Statements(p)
           UpG == [t \in S |-> IF kind(p, t) = "while" \/ next(p, t) # NoStmt THEN {}
                               ELSE {get_parent(p, t)} \ {NoStmt}]
           base == [t \in S |-> IF kind(p, t) = "while" THEN {t}
                                ELSE IF next(p, t) # NoStmt THEN {next(p, t)} ELSE {}]
           g == [t \in S |-> Gather(S, UpG, base, t)]
           after == CHOOSE f : f = [t \in S |->
             IF kind(p, t) = "while" THEN {t}
             ELSE IF next(p, t) # NoStmt THEN {next(p, t)}
             ELSE IF get_parent(p, t) # NoStmt THEN f[get_parent(p, t)]
             ELSE {}]
<1>1. UpG \in [S -> SUBSET S]
  <2>1. ASSUME NEW t \in S PROVE {get_parent(p, t)} \ {NoStmt} \subseteq S
    <3>1. get_parent(p, t) \in S \cup {NoStmt}
      BY TreeLines
    <3>2. QED  BY <3>1
  <2>2. QED  BY <2>1
<1>2. g = [t \in S |->
             IF kind(p, t) = "while" THEN {t}
             ELSE IF next(p, t) # NoStmt THEN {next(p, t)}
             ELSE IF get_parent(p, t) # NoStmt THEN g[get_parent(p, t)]
             ELSE {}]
  <2>1. ASSUME NEW t \in S
        PROVE g[t] = IF kind(p, t) = "while" THEN {t}
                     ELSE IF next(p, t) # NoStmt THEN {next(p, t)}
                     ELSE IF get_parent(p, t) # NoStmt THEN g[get_parent(p, t)]
                     ELSE {}
    <3>1. g[t] = base[t] \cup UNION {Gather(S, UpG, base, d) : d \in UpG[t]}
      <4> HIDE DEF UpG, base
      <4>1. QED  BY <1>1, GatherUnfold
    <3>2. CASE kind(p, t) = "while" \/ next(p, t) # NoStmt
      <4>1. UpG[t] = {} /\ UNION {Gather(S, UpG, base, d) : d \in {}} = {}
        BY <3>2
      <4>2. g[t] = base[t]
        BY <3>1, <4>1, Zenon
      <4>3. QED  BY <3>2, <4>2
    <3>3. CASE kind(p, t) # "while" /\ next(p, t) = NoStmt /\ get_parent(p, t) = NoStmt
      <4>1. UpG[t] = {} /\ base[t] = {} /\ UNION {Gather(S, UpG, base, d) : d \in {}} = {}
        BY <3>3
      <4>2. g[t] = {}
        <5>1. g[t] = {} \cup {}
          BY <3>1, <4>1, Zenon
        <5>2. QED  BY <5>1
      <4>3. QED  BY <3>3, <4>2
    <3>4. CASE kind(p, t) # "while" /\ next(p, t) = NoStmt /\ get_parent(p, t) # NoStmt
      <4>1. UpG[t] = {get_parent(p, t)} /\ base[t] = {} /\ get_parent(p, t) \in S
        BY <3>4, TreeLines
      <4>2. g[t] = g[get_parent(p, t)]
        <5>1. /\ g[t] = {} \cup UNION {Gather(S, UpG, base, d) : d \in {get_parent(p, t)}}
              /\ g[get_parent(p, t)] = Gather(S, UpG, base, get_parent(p, t))
          BY <3>1, <4>1, Zenon
        <5> HIDE DEF g, UpG, base
        <5>2. QED  BY <5>1
      <4>3. QED  BY <3>4, <4>2
    <3>5. QED  BY <3>2, <3>3, <3>4
  <2>2. QED  BY <2>1
<1>3. after = [t \in S |->
                 IF kind(p, t) = "while" THEN {t}
                 ELSE IF next(p, t) # NoStmt THEN {next(p, t)}
                 ELSE IF get_parent(p, t) # NoStmt THEN after[get_parent(p, t)]
                 ELSE {}]
  <2> HIDE DEF g
  <2>1. QED  BY <1>2
<1>4. \A t \in S : solve_container_next(p, t) = after[t]
  BY DEF solve_container_next
<1> HIDE DEF after, g
<1>5. after[c] = IF kind(p, c) = "while" THEN {c}
                 ELSE IF next(p, c) # NoStmt THEN {next(p, c)}
                 ELSE IF get_parent(p, c) # NoStmt THEN after[get_parent(p, c)]
                 ELSE {}
  BY <1>3
<1>6. get_parent(p, c) # NoStmt => solve_container_next(p, get_parent(p, c)) = after[get_parent(p, c)]
  BY <1>4, TreeLines
<1>7. QED  BY <1>4, <1>5, <1>6 DEF Following

\* The ends of a statement: its own, or those of its branches.
LEMMA LastPrevious ==
    ASSUME NEW p, IsProgram(p), NEW c \in Statements(p)
    PROVE  solve_last_previous(p, c)
             = IF kind(p, c) = "if"
               THEN solve_last_previous(p, LastOf(p, get_then_branch(p, c)))
                    \cup solve_last_previous(p, LastOf(p, get_else_branch(p, c)))
               ELSE {c}
<1> DEFINE S == Statements(p)
           EndG == [t \in S |-> IF kind(p, t) = "if"
                                THEN {LastOf(p, get_then_branch(p, t)),
                                      LastOf(p, get_else_branch(p, t))}
                                ELSE {}]
           base == [t \in S |-> IF kind(p, t) = "if" THEN {} ELSE {t}]
           g == [t \in S |-> Gather(S, EndG, base, t)]
           ends == CHOOSE f : f = [t \in S |->
             IF kind(p, t) = "if"
             THEN f[LastOf(p, get_then_branch(p, t))]
                    \cup f[LastOf(p, get_else_branch(p, t))]
             ELSE {t}]
<1>0. \A t \in S : kind(p, t) = "if" =>
        /\ LastOf(p, get_then_branch(p, t)) \in S
        /\ LastOf(p, get_else_branch(p, t)) \in S
  BY ContainerShape, BranchEnds
<1>1. EndG \in [S -> SUBSET S]
  BY <1>0
<1>2. g = [t \in S |->
             IF kind(p, t) = "if"
             THEN g[LastOf(p, get_then_branch(p, t))]
                    \cup g[LastOf(p, get_else_branch(p, t))]
             ELSE {t}]
  <2>1. ASSUME NEW t \in S
        PROVE g[t] = IF kind(p, t) = "if"
                     THEN g[LastOf(p, get_then_branch(p, t))]
                            \cup g[LastOf(p, get_else_branch(p, t))]
                     ELSE {t}
    <3>1. g[t] = base[t] \cup UNION {Gather(S, EndG, base, d) : d \in EndG[t]}
      <4> HIDE DEF EndG, base
      <4>1. QED  BY <1>1, GatherUnfold
    <3>2. CASE kind(p, t) = "if"
      <4>1. /\ EndG[t] = {LastOf(p, get_then_branch(p, t)), LastOf(p, get_else_branch(p, t))}
            /\ base[t] = {}
        BY <3>2
      <4>2. g[t] = g[LastOf(p, get_then_branch(p, t))]
                     \cup g[LastOf(p, get_else_branch(p, t))]
        BY <1>0, <3>1, <3>2, <4>1
      <4>3. QED  BY <3>2, <4>2
    <3>3. CASE kind(p, t) # "if"
      <4>1. EndG[t] = {} /\ base[t] = {t}
        BY <3>3
      <4>2. g[t] = {t}
        BY <3>1, <4>1
      <4>3. QED  BY <3>3, <4>2
    <3>4. QED  BY <3>2, <3>3
  <2>2. QED  BY <2>1
<1>3. ends = [t \in S |->
                IF kind(p, t) = "if"
                THEN ends[LastOf(p, get_then_branch(p, t))]
                       \cup ends[LastOf(p, get_else_branch(p, t))]
                ELSE {t}]
  <2> HIDE DEF g
  <2>1. QED  BY <1>2
<1>4. \A t : solve_last_previous(p, t) = ends[t]
  BY DEF solve_last_previous
<1> HIDE DEF ends, g
<1>5. QED  BY <1>3, <1>4

\* validate walks as solve_right does.
LEMMA ContainerAsks ==
    ASSUME NEW p, IsProgram(p), NEW c \in Statements(p), NEW t \in Statements(p)
    PROVE  validate_container_next(p, c, t) <=> t \in solve_container_next(p, c)
<1> DEFINE S == Statements(p)
           g == [u \in S |-> t \in solve_container_next(p, u)]
           leads == CHOOSE f : f = [u \in S |->
             IF kind(p, u) = "while" THEN u = t
             ELSE IF next(p, u) # NoStmt THEN next(p, u) = t
             ELSE /\ get_parent(p, u) # NoStmt
                  /\ f[get_parent(p, u)]]
<1>0. \A u \in S : solve_container_next(p, u)
                     = IF kind(p, u) = "while" THEN {u}
                       ELSE IF next(p, u) # NoStmt THEN {next(p, u)}
                       ELSE IF get_parent(p, u) # NoStmt
                            THEN solve_container_next(p, get_parent(p, u)) ELSE {}
  BY ContainerNext DEF Following
<1>1. g = [u \in S |-> IF kind(p, u) = "while" THEN u = t
                       ELSE IF next(p, u) # NoStmt THEN next(p, u) = t
                       ELSE /\ get_parent(p, u) # NoStmt
                            /\ g[get_parent(p, u)]]
  <2>1. ASSUME NEW u \in S
        PROVE g[u] = IF kind(p, u) = "while" THEN u = t
                     ELSE IF next(p, u) # NoStmt THEN next(p, u) = t
                     ELSE /\ get_parent(p, u) # NoStmt
                          /\ g[get_parent(p, u)]
    <3>1. CASE kind(p, u) = "while"
      BY <1>0, <3>1
    <3>2. CASE kind(p, u) # "while" /\ next(p, u) # NoStmt
      BY <1>0, <3>2
    <3>3. CASE kind(p, u) # "while" /\ next(p, u) = NoStmt /\ get_parent(p, u) = NoStmt
      <4>1. solve_container_next(p, u) = {}
        BY <1>0, <3>3
      <4>2. g[u] = FALSE
        <5>1. (t \in {}) = FALSE
          OBVIOUS
        <5>2. g[u] = (t \in solve_container_next(p, u))
          OBVIOUS
        <5>3. QED  BY <4>1, <5>1, <5>2, Zenon
      <4>3. QED  BY <3>3, <4>2
    <3>4. CASE kind(p, u) # "while" /\ next(p, u) = NoStmt /\ get_parent(p, u) # NoStmt
      <4>1. /\ solve_container_next(p, u) = solve_container_next(p, get_parent(p, u))
            /\ get_parent(p, u) \in S
        BY <1>0, <3>4, TreeLines
      <4>2. g[u] = g[get_parent(p, u)] /\ g[get_parent(p, u)] \in BOOLEAN
        BY <4>1
      <4> HIDE DEF g
      <4>3. QED  BY <3>4, <4>2
    <3>5. QED  BY <3>1, <3>2, <3>3, <3>4
  <2>2. QED  BY <2>1
<1>2. leads = [u \in S |-> IF kind(p, u) = "while" THEN u = t
                           ELSE IF next(p, u) # NoStmt THEN next(p, u) = t
                           ELSE /\ get_parent(p, u) # NoStmt
                                /\ leads[get_parent(p, u)]]
  <2> HIDE DEF g
  <2>1. QED  BY <1>1
<1>3. validate_container_next(p, c, t) = leads[c]
  BY DEF validate_container_next
<1> HIDE DEF leads, g
<1> DEFINE T == {u \in S : ~(leads[u] <=> t \in solve_container_next(p, u))}
<1>4. T = {}
  <2>1. SUFFICES ASSUME T # {} PROVE FALSE
    OBVIOUS
  <2>2. PICK u \in T : \A k \in T : u <= k
    <3>1. T \in SUBSET Nat
      BY TreeLines
    <3> HIDE DEF T
    <3>2. QED  BY <2>1, <3>1, LeastOf
  <2>3. u \in S /\ ~(leads[u] <=> t \in solve_container_next(p, u))
    OBVIOUS
  <2>4. leads[u] = IF kind(p, u) = "while" THEN u = t
                   ELSE IF next(p, u) # NoStmt THEN next(p, u) = t
                   ELSE /\ get_parent(p, u) # NoStmt
                        /\ leads[get_parent(p, u)]
    BY <1>2, <2>3
  <2>5. CASE kind(p, u) = "while" \/ next(p, u) # NoStmt \/ get_parent(p, u) = NoStmt
    BY <1>0, <2>3, <2>4, <2>5
  <2>6. CASE kind(p, u) # "while" /\ next(p, u) = NoStmt /\ get_parent(p, u) # NoStmt
    <3>1. get_parent(p, u) \in S /\ get_parent(p, u) < u
      BY <2>3, <2>6, ParentBefore
    <3>2. get_parent(p, u) \notin T
      BY <2>2, <2>3, <3>1, TreeLines
    <3>3. leads[get_parent(p, u)] <=> t \in solve_container_next(p, get_parent(p, u))
      BY <3>1, <3>2
    <3>4. QED  BY <1>0, <2>3, <2>4, <2>6, <3>3
  <2>7. QED  BY <2>5, <2>6
<1>5. QED  BY <1>3, <1>4

\* Where a statement ends, control goes on as it does behind the statement.
LEMMA EndsFollow ==
    ASSUME NEW p, IsProgram(p), NEW x \in Statements(p), NEW s \in solve_last_previous(p, x)
    PROVE  s \in Statements(p) /\ kind(p, s) # "if" /\ Following(p, s) = Following(p, x)
<1> DEFINE S == Statements(p)
           Fits(u) == \A w \in solve_last_previous(p, u) :
                        w \in S /\ kind(p, w) # "if" /\ Following(p, w) = Following(p, u)
           T == {u \in S : ~Fits(u)}
<1>1. T = {}
  <2>1. SUFFICES ASSUME T # {} PROVE FALSE
    OBVIOUS
  <2>2. PICK u \in T : \A k \in T : k <= u
    <3>1. Len(p.stmts) \in Nat /\ T \in SUBSET (1 .. Len(p.stmts))
      BY TreeLines
    <3> HIDE DEF T
    <3>2. QED  BY <2>1, <3>1, LargestOf
  <2>3. u \in S /\ ~Fits(u)
    OBVIOUS
  <2>4. kind(p, u) = "if"
    <3>1. CASE kind(p, u) # "if"
      <4>1. solve_last_previous(p, u) = {u}
        BY <2>3, <3>1, LastPrevious
      <4>2. QED  BY <2>3, <3>1, <4>1
    <3>2. QED  BY <3>1
  <2>5. PICK w \in solve_last_previous(p, u) :
          ~(w \in S /\ kind(p, w) # "if" /\ Following(p, w) = Following(p, u))
    BY <2>3
  <2>6. PICK b \in Branches(p, u) : w \in solve_last_previous(p, LastOf(p, b))
    BY <2>3, <2>4, LastPrevious, ContainerShape
  <2>7. PICK y \in S : y = LastOf(p, b) /\ u < y /\ next(p, y) = NoStmt /\ get_parent(p, y) = u
    BY <2>3, BranchEnds
  <2>8. y \notin T
    BY <2>2, <2>3, <2>7, TreeLines
  <2>9. Fits(y)
    BY <2>8
  <2>10. Following(p, y) = Following(p, u)
    <3>1. Following(p, y) = solve_container_next(p, u)
      BY <2>3, <2>7, TreeLines DEF Following
    <3>2. QED  BY <2>3, <2>4, <3>1, ContainerNext
  <2>11. w \in S /\ kind(p, w) # "if" /\ Following(p, w) = Following(p, y)
    BY <2>6, <2>7, <2>9
  <2>12. QED  BY <2>5, <2>10, <2>11
<1>2. Fits(x)
  BY <1>1
<1>3. QED  BY <1>2

\* Where control goes, the statement it comes from ends what stands before it.
LEMMA FollowingEnds ==
    ASSUME NEW p, IsProgram(p), NEW s \in Statements(p), kind(p, s) # "if",
           NEW t \in Following(p, s)
    PROVE  \E x \in Statements(p) :
             /\ s \in solve_last_previous(p, x)
             /\ \/ next(p, x) = t /\ t # NoStmt
                \/ /\ next(p, x) = NoStmt /\ get_parent(p, x) = t
                   /\ t \in Statements(p) /\ kind(p, t) = "while"
<1> DEFINE S == Statements(p)
           T == {x \in S : s \in solve_last_previous(p, x)}
<1>1. s \in T
  BY LastPrevious
<1>2. PICK x \in T : \A k \in T : x <= k
  <2>1. T \in SUBSET Nat
    BY TreeLines
  <2> HIDE DEF T
  <2>2. QED  BY <1>1, <2>1, LeastOf
<1>3. x \in S /\ s \in solve_last_previous(p, x) /\ t \in Following(p, x)
  BY EndsFollow
<1>4. CASE next(p, x) # NoStmt
  <2>1. Following(p, x) = {next(p, x)}
    BY <1>4 DEF Following
  <2>2. QED  BY <1>3, <1>4, <2>1
<1>5. CASE next(p, x) = NoStmt
  <2>1. get_parent(p, x) # NoStmt /\ t \in solve_container_next(p, get_parent(p, x))
    BY <1>3, <1>5 DEF Following
  <2>2. PICK c \in S : c = get_parent(p, x) /\ c < x
    BY <1>3, <2>1, ParentBefore
  <2>3. PICK b \in Branches(p, c) : x = LastOf(p, b)
    BY <1>3, <1>5, <2>2, LastOfBranch
  <2>4. CASE kind(p, c) = "while"
    <3>1. t = c
      BY <2>1, <2>2, <2>4, ContainerNext
    <3>2. QED  BY <1>3, <1>5, <2>2, <2>4, <3>1
  <2>5. CASE kind(p, c) = "if"
    <3>1. s \in solve_last_previous(p, c)
      BY <1>3, <2>3, <2>5, LastPrevious, ContainerShape
    <3>2. c \in T
      BY <3>1
    <3>3. QED  BY <1>2, <1>3, <2>2, <3>2, TreeLines
  <2>6. CASE kind(p, c) \notin {"while", "if"}
    BY <2>3, <2>6, ContainerShape
  <2>7. QED  BY <2>4, <2>5, <2>6
<1>6. QED  BY <1>4, <1>5

LEMMA NextForms ==
    ASSUME NEW p, IsProgram(p), NEW s \in Statements(p), NEW t \in Statements(p)
    PROVE  /\ t \in solve_next(p, s) <=> s \in solve_previous(p, t)
           /\ t \in solve_next(p, s) <=> validate_next(p, s, t)
<1>0. t # NoStmt /\ s # NoStmt
  BY TreeLines
<1>1. t \in solve_next(p, s)
        <=> t \in Branches(p, s) \/ (kind(p, s) # "if" /\ t \in Following(p, s))
  <2>1. CASE kind(p, s) = "if"
    BY <2>1, ContainerShape DEF solve_next
  <2>2. CASE kind(p, s) = "while"
    BY <2>2, ContainerShape DEF solve_next
  <2>3. CASE kind(p, s) \notin {"if", "while"}
    BY <2>3, ContainerShape DEF solve_next
  <2>4. QED  BY <2>1, <2>2, <2>3
<1>2. s \in solve_previous(p, t)
        <=> \/ prev(p, t) # NoStmt /\ s \in solve_last_previous(p, prev(p, t))
            \/ prev(p, t) = NoStmt /\ get_parent(p, t) = s
            \/ kind(p, t) = "while" /\ s \in solve_last_previous(p, LastOf(p, get_body(p, t)))
  BY <1>0 DEF solve_previous
<1>3. ASSUME t \in solve_next(p, s) PROVE s \in solve_previous(p, t)
  <2>1. CASE t \in Branches(p, s)
    <3>1. get_parent(p, t) = s /\ t \in Heads(p)
      BY <2>1, TreeLines DEF Heads
    <3>2. prev(p, t) = NoStmt
      BY <3>1, TreeLines
    <3>3. QED  BY <1>2, <3>1, <3>2
  <2>2. CASE kind(p, s) # "if" /\ t \in Following(p, s)
    <3>1. PICK x \in Statements(p) :
            /\ s \in solve_last_previous(p, x)
            /\ \/ next(p, x) = t /\ t # NoStmt
               \/ /\ next(p, x) = NoStmt /\ get_parent(p, x) = t
                  /\ t \in Statements(p) /\ kind(p, t) = "while"
      BY <2>2, FollowingEnds
    <3>2. CASE next(p, x) = t
      <4>1. prev(p, t) = x /\ x # NoStmt
        BY <1>0, <3>2, TreeLines
      <4>2. QED  BY <1>2, <3>1, <4>1
    <3>3. CASE next(p, x) = NoStmt /\ get_parent(p, x) = t /\ kind(p, t) = "while"
      <4>1. x = LastOf(p, get_body(p, t))
        BY <3>3, LastOfBranch, ContainerShape
      <4>2. QED  BY <1>2, <3>1, <3>3, <4>1
    <3>4. QED  BY <3>1, <3>2, <3>3
  <2>3. QED  BY <1>1, <1>3, <2>1, <2>2
<1>4. ASSUME s \in solve_previous(p, t) PROVE t \in solve_next(p, s)
  <2>1. CASE prev(p, t) # NoStmt /\ s \in solve_last_previous(p, prev(p, t))
    <3>1. prev(p, t) \in Statements(p) /\ next(p, prev(p, t)) = t
      BY <2>1, TreeLines
    <3>2. Following(p, prev(p, t)) = {t}
      BY <1>0, <3>1 DEF Following
    <3>3. kind(p, s) # "if" /\ Following(p, s) = {t}
      BY <2>1, <3>1, <3>2, EndsFollow
    <3>4. QED  BY <1>1, <3>3
  <2>2. CASE prev(p, t) = NoStmt /\ get_parent(p, t) = s
    <3>1. t \in Heads(p)
      BY <2>2, TreeLines
    <3>2. \A n \in Procs(p) : t # get_statement(p, n)
      BY <1>0, <2>2 DEF IsProgram, WellFormed
    <3>3. PICK x \in Statements(p) : t \in Branches(p, x)
      BY <3>1, <3>2 DEF Heads
    <3>4. x = s
      BY <2>2, <3>3, TreeLines
    <3>5. QED  BY <1>1, <3>3, <3>4
  <2>3. CASE kind(p, t) = "while" /\ s \in solve_last_previous(p, LastOf(p, get_body(p, t)))
    <3>1. get_body(p, t) \in Branches(p, t)
      BY <2>3, ContainerShape
    <3>2. PICK y \in Statements(p) : /\ y = LastOf(p, get_body(p, t))
                                     /\ next(p, y) = NoStmt /\ get_parent(p, y) = t
      BY <3>1, BranchEnds
    <3>3. Following(p, y) = {t}
      <4>1. Following(p, y) = solve_container_next(p, t)
        BY <1>0, <3>2 DEF Following
      <4>2. QED  BY <2>3, <4>1, ContainerNext
    <3>4. kind(p, s) # "if" /\ Following(p, s) = {t}
      BY <2>3, <3>2, <3>3, EndsFollow
    <3>5. QED  BY <1>1, <3>4
  <2>4. QED  BY <1>2, <1>4, <2>1, <2>2, <2>3
<1>5. t \in solve_next(p, s) <=> validate_next(p, s, t)
  <2>1. t \in Following(p, s)
          <=> \/ next(p, s) = t
              \/ /\ next(p, s) = NoStmt /\ get_parent(p, s) # NoStmt
                 /\ validate_container_next(p, get_parent(p, s), t)
    <3>1. get_parent(p, s) # NoStmt =>
            (validate_container_next(p, get_parent(p, s), t)
               <=> t \in solve_container_next(p, get_parent(p, s)))
      BY ContainerAsks, TreeLines
    <3>2. QED  BY <1>0, <3>1 DEF Following
  <2>2. CASE kind(p, s) = "if"
    BY <2>2 DEF solve_next, validate_next
  <2>3. CASE kind(p, s) = "while"
    BY <1>0, <2>1, <2>3 DEF solve_next, validate_next
  <2>4. CASE kind(p, s) \notin {"if", "while"}
    BY <1>0, <2>1, <2>4 DEF solve_next, validate_next
  <2>5. QED  BY <2>2, <2>3, <2>4
<1>6. QED  BY <1>3, <1>4, <1>5

------------------------------------------------------------------------------
(* The closure of a relation that lies in a finite set S is what its walks *)
(* reach behind their start: the loop over its points finds the paths      *)
(* through more and more of them.                                          *)
StepsOf(S, R) == [x \in S |-> {y \in S : <<x, y>> \in R}]

Passing(K, T) ==
  \A k \in K : \A a, b : <<a, k>> \in T /\ <<k, b>> \in T => <<a, b>> \in T

Via(S, R, K) ==
  {e \in S \X S : \A T \in SUBSET (S \X S) : R \subseteq T /\ Passing(K, T) => e \in T}

Joining(k, T) ==
  T \cup ({e[1] : e \in {f \in T : f[2] = k}} \X {e[2] : e \in {f \in T : f[1] = k}})

Middle(R) == {e[1] : e \in R} \cap {e[2] : e \in R}

LEMMA ViaLeast ==
    ASSUME NEW S, NEW R \in SUBSET (S \X S), NEW K
    PROVE  /\ R \subseteq Via(S, R, K) /\ Via(S, R, K) \in SUBSET (S \X S)
           /\ Passing(K, Via(S, R, K))
           /\ \A T \in SUBSET (S \X S) :
                R \subseteq T /\ Passing(K, T) => Via(S, R, K) \subseteq T
<1>1. R \subseteq Via(S, R, K) /\ Via(S, R, K) \in SUBSET (S \X S)
  BY DEF Via
<1>2. ASSUME NEW T \in SUBSET (S \X S), R \subseteq T, Passing(K, T)
      PROVE  Via(S, R, K) \subseteq T
  BY <1>2 DEF Via
<1>3. Passing(K, Via(S, R, K))
  <2>1. ASSUME NEW k \in K, NEW a, NEW b, <<a, k>> \in Via(S, R, K), <<k, b>> \in Via(S, R, K)
        PROVE  <<a, b>> \in Via(S, R, K)
    <3>1. a \in S /\ b \in S
      BY <2>1 DEF Via
    <3>2. ASSUME NEW T \in SUBSET (S \X S), R \subseteq T, Passing(K, T)
          PROVE  <<a, b>> \in T
      <4>1. <<a, k>> \in T /\ <<k, b>> \in T
        BY <1>2, <2>1, <3>2
      <4>2. QED  BY <3>2, <4>1 DEF Passing
    <3>3. QED  BY <3>1, <3>2 DEF Via
  <2>2. QED  BY <2>1 DEF Passing
<1>4. QED  BY <1>1, <1>2, <1>3

LEMMA ViaNothing ==
    ASSUME NEW S, NEW R \in SUBSET (S \X S)
    PROVE  Via(S, R, {}) = R
<1>1. Passing({}, R)
  BY DEF Passing
<1>2. QED  BY <1>1, ViaLeast

LEMMA JoiningPairs ==
    ASSUME NEW S, NEW T \in SUBSET (S \X S), NEW k
    PROVE  \A a, b : <<a, b>> \in Joining(k, T)
                       <=> \/ <<a, b>> \in T
                           \/ <<a, k>> \in T /\ <<k, b>> \in T
<1>1. \A e \in T : e = <<e[1], e[2]>>
  OBVIOUS
<1>2. \A a : a \in {e[1] : e \in {f \in T : f[2] = k}} <=> <<a, k>> \in T
  BY <1>1
<1>3. \A b : b \in {e[2] : e \in {f \in T : f[1] = k}} <=> <<k, b>> \in T
  BY <1>1
<1>4. QED  BY <1>2, <1>3 DEF Joining

LEMMA ViaJoin ==
    ASSUME NEW S, NEW R \in SUBSET (S \X S), NEW K, NEW k \in K
    PROVE  Via(S, R, K) = Joining(k, Via(S, R, K \ {k}))
<1> DEFINE V == Via(S, R, K \ {k})
           W == Joining(k, V)
<1>1. /\ R \subseteq V /\ V \in SUBSET (S \X S) /\ Passing(K \ {k}, V)
      /\ \A T \in SUBSET (S \X S) : R \subseteq T /\ Passing(K \ {k}, T) => V \subseteq T
  <2> DEFINE L == K \ {k}
  <2> HIDE DEF L
  <2>1. /\ R \subseteq Via(S, R, L) /\ Via(S, R, L) \in SUBSET (S \X S)
        /\ Passing(L, Via(S, R, L))
        /\ \A T \in SUBSET (S \X S) : R \subseteq T /\ Passing(L, T) => Via(S, R, L) \subseteq T
    BY ViaLeast
  <2>2. QED  BY <2>1 DEF L
<1>2. \A a, b : <<a, b>> \in W <=> <<a, b>> \in V \/ (<<a, k>> \in V /\ <<k, b>> \in V)
  <2> HIDE DEF V
  <2>1. QED  BY <1>1, JoiningPairs
<1> HIDE DEF V
<1>3. W \in SUBSET (S \X S) /\ R \subseteq W
  BY <1>1 DEF Joining
<1>4. Passing(K, W)
  <2>1. ASSUME NEW j \in K, NEW a, NEW b, <<a, j>> \in W, <<j, b>> \in W
        PROVE  <<a, b>> \in W
    <3>1. CASE j = k
      BY <1>2, <2>1, <3>1
    <3>2. CASE j # k
      <4>1. \A x, y : <<x, j>> \in V /\ <<j, y>> \in V => <<x, y>> \in V
        BY <1>1, <3>2 DEF Passing
      <4>2. QED  BY <1>2, <2>1, <4>1
    <3>3. QED  BY <3>1, <3>2
  <2> HIDE DEF W
  <2>2. QED  BY <2>1 DEF Passing
<1>5. Via(S, R, K) \subseteq W
  <2> HIDE DEF W
  <2>1. QED  BY <1>3, <1>4, ViaLeast
<1>6. W \subseteq Via(S, R, K)
  <2>1. /\ R \subseteq Via(S, R, K) /\ Via(S, R, K) \in SUBSET (S \X S)
        /\ Passing(K, Via(S, R, K))
    BY ViaLeast
  <2>2. Passing(K \ {k}, Via(S, R, K))
    BY <2>1 DEF Passing
  <2>3. V \subseteq Via(S, R, K)
    BY <1>1, <2>1, <2>2
  <2>4. \A a, b : <<a, k>> \in V /\ <<k, b>> \in V => <<a, b>> \in Via(S, R, K)
    BY <2>1, <2>3 DEF Passing
  <2>5. ASSUME NEW e \in W PROVE e \in Via(S, R, K)
    <3>1. PICK a, b : e = <<a, b>>
      BY <1>3
    <3> HIDE DEF W
    <3>2. QED  BY <1>2, <2>3, <2>4, <2>5, <3>1
  <2>6. QED  BY <2>5
<1>7. QED  BY <1>5, <1>6 DEF V

LEMMA MiddleWalks ==
    ASSUME NEW S, NEW R \in SUBSET (S \X S), NEW a, NEW b
    PROVE  <<a, b>> \in Via(S, R, Middle(R)) <=> a \in S /\ b \in Beyond(S, StepsOf(S, R), a)
<1> DEFINE G == StepsOf(S, R)
           V == Via(S, R, Middle(R))
           W == {e \in S \X S : e[2] \in Beyond(S, G, e[1])}
<1>0. G \in [S -> SUBSET S] /\ \A x, y : <<x, y>> \in R <=> x \in S /\ y \in G[x]
  BY DEF StepsOf
<1>1. /\ R \subseteq V /\ V \in SUBSET (S \X S) /\ Passing(Middle(R), V)
      /\ \A T \in SUBSET (S \X S) : R \subseteq T /\ Passing(Middle(R), T) => V \subseteq T
  BY ViaLeast
<1> HIDE DEF V, G
<1>2. \A x, y : <<x, y>> \in W <=> x \in S /\ y \in Beyond(S, G, x)
  <2>1. \A x \in S : Beyond(S, G, x) \subseteq S
    BY <1>0, BeyondInside
  <2>2. QED  BY <2>1
<1>3. R \subseteq W
  <2>1. \A x \in S : G[x] \subseteq Beyond(S, G, x)
    BY <1>0, BeyondInside
  <2>2. \A e \in R : e = <<e[1], e[2]>>
    OBVIOUS
  <2> HIDE DEF W
  <2>3. QED  BY <1>0, <1>2, <2>1, <2>2
<1>4. Passing(Middle(R), W)
  <2>1. ASSUME NEW x \in S, NEW k \in Beyond(S, G, x), NEW y \in Beyond(S, G, k), k \in S
        PROVE  y \in Beyond(S, G, x)
    <3>1. PICK d \in G[x] : k \in Reach(S, G, d)
      BY DEF Beyond
    <3>2. PICK z \in G[k] : y \in Reach(S, G, z)
      BY DEF Beyond
    <3>3. d \in S /\ z \in S
      BY <1>0, <2>1
    <3>4. /\ \A u \in Reach(S, G, d) : G[u] \subseteq Reach(S, G, d)
          /\ Reach(S, G, d) \in SUBSET S
      BY <1>0, <3>3, ReachLeast
    <3>5. z \in Reach(S, G, d)
      BY <3>1, <3>2, <3>4
    <3>6. Reach(S, G, z) \subseteq Reach(S, G, d)
      BY <1>0, <3>3, <3>4, <3>5, ReachLeast
    <3>7. QED  BY <3>1, <3>2, <3>6 DEF Beyond
  <2>2. \A x \in S : Beyond(S, G, x) \subseteq S
    BY <1>0, BeyondInside
  <2> HIDE DEF W
  <2>3. QED  BY <1>2, <2>1, <2>2 DEF Passing
<1>5. V \subseteq W
  <2>1. W \in SUBSET (S \X S)
    OBVIOUS
  <2> HIDE DEF W
  <2>2. QED  BY <1>1, <1>3, <1>4, <2>1
<1>6. ASSUME NEW x \in S, NEW y \in Beyond(S, G, x) PROVE <<x, y>> \in V
  <2> DEFINE C == {z \in S : <<x, z>> \in V}
  <2>1. G[x] \subseteq C
    BY <1>0, <1>1
  <2>2. ASSUME NEW z \in C, NEW u \in G[z] PROVE u \in C
    <3>1. z \in S /\ u \in S /\ <<x, z>> \in V /\ <<z, u>> \in R
      BY <1>0
    <3>2. z \in Middle(R)
      <4>1. \E w : <<w, z>> \in R
        <5> DEFINE T == {e \in S \X S : \E w : <<w, e[2]>> \in R}
        <5>1. R \subseteq T
          OBVIOUS
        <5>2. Passing(Middle(R), T) /\ T \in SUBSET (S \X S)
          BY DEF Passing
        <5> HIDE DEF T
        <5>3. <<x, z>> \in T
          BY <1>1, <3>1, <5>1, <5>2
        <5>4. QED  BY <5>3 DEF T
      <4>2. PICK w : <<w, z>> \in R
        BY <4>1
      <4>3. z \in {e[1] : e \in R} /\ z \in {e[2] : e \in R}
        BY <3>1, <4>2
      <4>4. QED  BY <4>3 DEF Middle
    <3>3. QED  BY <1>1, <3>1, <3>2 DEF Passing
  <2>3. ASSUME NEW d \in G[x] PROVE Reach(S, G, d) \subseteq C
    <3>1. d \in S /\ d \in C /\ C \in SUBSET S /\ \A z \in C : G[z] \subseteq C
      BY <1>0, <2>1, <2>2
    <3> HIDE DEF C
    <3>2. QED  BY <1>0, <3>1, ReachLeast
  <2>4. QED  BY <1>6, <2>3 DEF Beyond
<1>7. QED  BY <1>1, <1>2, <1>5, <1>6 DEF V, G

LEMMA ClosureVia ==
    ASSUME NEW S, NEW R \in SUBSET (S \X S), IsFiniteSet(Middle(R))
    PROVE  Closure(R) = Via(S, R, Middle(R))
<1> DEFINE M == Middle(R)
           Joins(k, T) == T \cup ({e[1] : e \in {f \in T : f[2] = k}}
                                  \X {e[2] : e \in {f \in T : f[1] = k}})
           g == [K \in SUBSET M |-> Via(S, R, K)]
           via == CHOOSE h : h = [K \in SUBSET M |->
             IF K = {} THEN R
             ELSE LET k == CHOOSE x \in K : TRUE
                  IN  h[K \ {k}] \cup ({e[1] : e \in {f \in h[K \ {k}] : f[2] = k}}
                                       \X {e[2] : e \in {f \in h[K \ {k}] : f[1] = k}})]
<1>1. g = [K \in SUBSET M |->
             IF K = {} THEN R
             ELSE LET k == CHOOSE x \in K : TRUE
                  IN  g[K \ {k}] \cup ({e[1] : e \in {f \in g[K \ {k}] : f[2] = k}}
                                       \X {e[2] : e \in {f \in g[K \ {k}] : f[1] = k}})]
  <2>1. ASSUME NEW K \in SUBSET M, K # {}
        PROVE  LET k == CHOOSE x \in K : TRUE
               IN  g[K] = g[K \ {k}] \cup ({e[1] : e \in {f \in g[K \ {k}] : f[2] = k}}
                                           \X {e[2] : e \in {f \in g[K \ {k}] : f[1] = k}})
    <3>1. PICK k \in K : k = CHOOSE x \in K : TRUE
      BY <2>1
    <3>2. g[K] = Joining(k, g[K \ {k}])
      BY ViaJoin
    <3> HIDE DEF g
    <3>3. QED  BY <3>1, <3>2 DEF Joining
  <2>2. ASSUME NEW K \in SUBSET M
        PROVE  g[K] = IF K = {} THEN R
                      ELSE LET k == CHOOSE x \in K : TRUE
                           IN  g[K \ {k}] \cup ({e[1] : e \in {f \in g[K \ {k}] : f[2] = k}}
                                                \X {e[2] : e \in {f \in g[K \ {k}] : f[1] = k}})
    <3>1. CASE K = {}
      BY <3>1, ViaNothing
    <3>2. CASE K # {}
      <4> HIDE DEF g
      <4>1. QED  BY <2>1, <3>2
    <3>3. QED  BY <3>1, <3>2
  <2>3. g = [K \in SUBSET M |-> g[K]]
    OBVIOUS
  <2> HIDE DEF g
  <2>4. QED  BY <2>2, <2>3
<1>2. via = [K \in SUBSET M |->
               IF K = {} THEN R
               ELSE LET k == CHOOSE x \in K : TRUE
                    IN  via[K \ {k}] \cup ({e[1] : e \in {f \in via[K \ {k}] : f[2] = k}}
                                           \X {e[2] : e \in {f \in via[K \ {k}] : f[1] = k}})]
  <2> HIDE DEF g
  <2>1. QED  BY <1>1
<1>3. Closure(R) = via[M]
  BY DEF Closure, Middle
<1> HIDE DEF via, g, M
<1>4. via[M] = Via(S, R, M)
  <2>1. IsFiniteSet(M)
    BY DEF M
  <2> DEFINE bad == {K \in SUBSET M : via[K] # Via(S, R, K)}
             sizes == {Cardinality(K) : K \in bad}
  <2>2. SUFFICES ASSUME bad # {} PROVE FALSE
    OBVIOUS
  <2>3. \A K \in SUBSET M : IsFiniteSet(K) /\ Cardinality(K) \in Nat
    BY <2>1, FS_Subset, FS_CardinalityType
  <2>4. sizes \in SUBSET Nat /\ sizes # {}
    BY <2>2, <2>3
  <2>5. PICK m \in sizes : \A n \in sizes : m <= n
    <3> HIDE DEF sizes
    <3>1. QED  BY <2>4, LeastOf
  <2>6. PICK K \in bad : Cardinality(K) = m
    OBVIOUS
  <2>7. K # {}
    <3>1. CASE K = {}
      <4>1. via[K] = R
        BY <1>2, <3>1
      <4>2. QED  BY <2>6, <3>1, <4>1, ViaNothing
    <3>2. QED  BY <3>1
  <2>8. PICK k \in K : k = CHOOSE x \in K : TRUE
    BY <2>7
  <2>9. via[K] = Joining(k, via[K \ {k}])
    <3>1. via[K] = LET x == CHOOSE y \in K : TRUE
                   IN  via[K \ {x}] \cup ({e[1] : e \in {f \in via[K \ {x}] : f[2] = x}}
                                          \X {e[2] : e \in {f \in via[K \ {x}] : f[1] = x}})
      <4>1. K \in SUBSET M
        OBVIOUS
      <4> HIDE DEF bad
      <4>2. QED  BY <1>2, <2>7, <4>1
    <3> HIDE DEF bad
    <3>2. QED  BY <2>8, <3>1 DEF Joining
  <2>10. K \ {k} \notin bad
    <3>1. Cardinality(K \ {k}) = Cardinality(K) - 1 /\ K \ {k} \in SUBSET M
      BY <2>3, FS_RemoveElement
    <3>2. m \in Nat /\ ~ (m <= m - 1)
      BY <2>4
    <3>3. QED  BY <2>5, <2>6, <3>1, <3>2
  <2>11. via[K \ {k}] = Via(S, R, K \ {k})
    BY <2>10
  <2>12. Via(S, R, K) = Joining(k, Via(S, R, K \ {k}))
    BY ViaJoin
  <2>13. QED  BY <2>6, <2>9, <2>11, <2>12
<1>5. QED  BY <1>3, <1>4 DEF M

LEMMA ClosureWalks ==
    ASSUME NEW S, NEW R \in SUBSET (S \X S), IsFiniteSet(Middle(R))
    PROVE  /\ \A a, b : <<a, b>> \in Closure(R) <=> a \in S /\ b \in Beyond(S, StepsOf(S, R), a)
           /\ Closure(R) \in SUBSET (S \X S)
<1>1. Closure(R) = Via(S, R, Middle(R))
  BY ClosureVia
<1>2. \A a, b : <<a, b>> \in Via(S, R, Middle(R)) <=> a \in S /\ b \in Beyond(S, StepsOf(S, R), a)
  BY MiddleWalks
<1>3. Via(S, R, Middle(R)) \in SUBSET (S \X S)
  BY ViaLeast
<1>4. PICK C : C = Closure(R)
  OBVIOUS
<1>5. C = Via(S, R, Middle(R))
  BY <1>1, <1>4
<1>6. /\ \A a, b : <<a, b>> \in C <=> a \in S /\ b \in Beyond(S, StepsOf(S, R), a)
      /\ C \in SUBSET (S \X S)
  BY <1>2, <1>3, <1>5
<1>7. QED  BY <1>4, <1>6

------------------------------------------------------------------------------
(***************************************************************************)
(* A walk whose points lie elsewhere as well, with leaves hung on them:    *)
(* what it reaches there.                                                  *)
(***************************************************************************)
Maps(S, G, D, H, f, E) ==
  \A s \in S : /\ H[f[s]] = E[s] \cup {f[t] : t \in G[s]}
               /\ \A x \in E[s] : H[x] = {}

Carried(H, f, X) == UNION {H[f[t]] : t \in X}

LEMMA WalkCarried ==
    ASSUME NEW S, NEW G \in [S -> SUBSET S], NEW D, NEW H \in [D -> SUBSET D],
           NEW f \in [S -> D], NEW E \in [S -> SUBSET D], Maps(S, G, D, H, f, E),
           NEW c \in S
    PROVE  Beyond(D, H, f[c]) = Carried(H, f, Reach(S, G, c))
<1> DEFINE reached == {f[t] : t \in Reach(S, G, c)}
           leaves  == UNION {E[t] : t \in Reach(S, G, c)}
<1>1. /\ c \in Reach(S, G, c) /\ Reach(S, G, c) \subseteq S
      /\ \A d \in Reach(S, G, c) : G[d] \subseteq Reach(S, G, c)
      /\ \A C \in SUBSET S : c \in C /\ (\A d \in C : G[d] \subseteq C)
           => Reach(S, G, c) \subseteq C
  BY ReachLeast
<1>2. f[c] \in D /\ \A t \in S : f[t] \in D
  OBVIOUS
<1>3. /\ f[c] \in Reach(D, H, f[c]) /\ Reach(D, H, f[c]) \subseteq D
      /\ \A d \in Reach(D, H, f[c]) : H[d] \subseteq Reach(D, H, f[c])
      /\ \A C \in SUBSET D : f[c] \in C /\ (\A d \in C : H[d] \subseteq C)
           => Reach(D, H, f[c]) \subseteq C
  <2> DEFINE x == f[c]
  <2>1. x \in D
    BY <1>2
  <2> HIDE DEF x
  <2>2. /\ x \in Reach(D, H, x) /\ Reach(D, H, x) \subseteq D
        /\ \A d \in Reach(D, H, x) : H[d] \subseteq Reach(D, H, x)
        /\ \A C \in SUBSET D : x \in C /\ (\A d \in C : H[d] \subseteq C)
             => Reach(D, H, x) \subseteq C
    BY <2>1, ReachLeast
  <2>3. QED  BY <2>2 DEF x
<1>4. Reach(D, H, f[c]) \subseteq reached \cup leaves
  <2>1. reached \cup leaves \in SUBSET D /\ f[c] \in reached \cup leaves
    BY <1>1, <1>2
  <2>2. ASSUME NEW d \in reached \cup leaves PROVE H[d] \subseteq reached \cup leaves
    <3>1. CASE d \in leaves
      <4>1. PICK t \in Reach(S, G, c) : d \in E[t]
        BY <3>1
      <4>2. H[d] = {}
        BY <1>1, <4>1 DEF Maps
      <4>3. QED  BY <4>2
    <3>2. CASE d \in reached
      <4>1. PICK t \in Reach(S, G, c) : d = f[t]
        BY <3>2
      <4>2. t \in S /\ G[t] \subseteq Reach(S, G, c)
        BY <1>1, <4>1
      <4>3. H[d] = E[t] \cup {f[u] : u \in G[t]}
        BY <4>1, <4>2 DEF Maps
      <4>4. E[t] \subseteq leaves /\ {f[u] : u \in G[t]} \subseteq reached
        BY <4>1, <4>2
      <4>5. QED  BY <4>3, <4>4
    <3>3. QED  BY <2>2, <3>1, <3>2
  <2> DEFINE C == reached \cup leaves
  <2> HIDE DEF reached, leaves
  <2>3. QED  BY <1>3, <2>1, <2>2
<1>5. reached \subseteq Reach(D, H, f[c])
  <2> DEFINE C == {t \in S : f[t] \in Reach(D, H, f[c])}
  <2>1. c \in C
    BY <1>3
  <2>2. ASSUME NEW d \in C PROVE G[d] \subseteq C
    <3>1. H[f[d]] \subseteq Reach(D, H, f[c])
      BY <1>3
    <3>2. \A u \in G[d] : u \in S /\ f[u] \in H[f[d]]
      BY DEF Maps
    <3>3. QED  BY <3>1, <3>2
  <2>3. C \in SUBSET S
    OBVIOUS
  <2> HIDE DEF C
  <2>4. Reach(S, G, c) \subseteq C
    BY <1>1, <2>1, <2>2, <2>3
  <2>5. QED  BY <2>4 DEF C
<1>6. \A x \in leaves : H[x] = {}
  <2>1. ASSUME NEW t \in Reach(S, G, c), NEW x \in E[t] PROVE H[x] = {}
    BY <1>1, <2>1 DEF Maps
  <2>2. QED  BY <2>1
<1>7. Beyond(D, H, f[c]) = UNION {H[x] : x \in Reach(D, H, f[c])}
  <2> DEFINE x == f[c]
  <2>1. x \in D
    BY <1>2
  <2> HIDE DEF x
  <2>2. Beyond(D, H, x) = UNION {H[y] : y \in Reach(D, H, x)}
    BY <2>1, BeyondGathers DEF Gather
  <2>3. QED  BY <2>2 DEF x
<1>8. UNION {H[x] : x \in Reach(D, H, f[c])} = UNION {H[x] : x \in reached}
  <2> HIDE DEF reached, leaves
  <2>1. QED  BY <1>4, <1>5, <1>6
<1>9. UNION {H[x] : x \in reached} = UNION {H[f[t]] : t \in Reach(S, G, c)}
  OBVIOUS
<1>10. QED  BY <1>7, <1>8, <1>9 DEF Carried

Tags(tag, S) == {<<tag, s>> : s \in S}

LEMMA FiniteTags ==
    ASSUME NEW tag, NEW S, IsFiniteSet(S)
    PROVE  IsFiniteSet(Tags(tag, S))
<1> DEFINE f == [s \in S |-> <<tag, s>>]
<1>1. f \in Surjection(S, Tags(tag, S))
  BY DEF Surjection, Tags
<1>2. QED  BY <1>1, FS_Surjection

(* A relation of tagged points, and its closure.                           *)
TaggedSteps(tag, S, G, R) ==
  /\ R \in SUBSET (Tags(tag, S) \X Tags(tag, S))
  /\ \A a, b \in S : <<<<tag, a>>, <<tag, b>>>> \in R <=> b \in G[a]

LEMMA TaggedWalk ==
    ASSUME NEW tag, NEW S, IsFiniteSet(S), NEW G \in [S -> SUBSET S], NEW R,
           TaggedSteps(tag, S, G, R)
    PROVE  /\ Closure(R) \in SUBSET (Tags(tag, S) \X Tags(tag, S))
           /\ \A a, b \in S : <<<<tag, a>>, <<tag, b>>>> \in Closure(R) <=> b \in Beyond(S, G, a)
<1> DEFINE T == Tags(tag, S)
           H == StepsOf(T, R)
           f == [s \in S |-> <<tag, s>>]
           E == [s \in S |-> {}]
<1>1. R \in SUBSET (T \X T) /\ IsFiniteSet(Middle(R))
  <2>1. R \in SUBSET (T \X T)
    BY DEF TaggedSteps
  <2>2. Middle(R) \in SUBSET T
    BY <2>1 DEF Middle
  <2>3. QED  BY <2>1, <2>2, FiniteTags, FS_Subset
<1>2. H \in [T -> SUBSET T] /\ f \in [S -> T] /\ E \in [S -> SUBSET T]
  BY DEF StepsOf, Tags
<1>3. ASSUME NEW s \in S PROVE H[f[s]] = {f[t] : t \in G[s]}
  <2>1. f[s] \in T /\ f[s] = <<tag, s>>
    BY DEF Tags
  <2>2. H[f[s]] = {y \in T : <<f[s], y>> \in R}
    BY <2>1 DEF StepsOf
  <2>3. \A y : y \in H[f[s]] <=> \E b \in S : y = <<tag, b>> /\ b \in G[s]
    BY <2>1, <2>2 DEF Tags, TaggedSteps
  <2>4. \A y : y \in {f[t] : t \in G[s]} <=> \E b \in S : y = <<tag, b>> /\ b \in G[s]
    OBVIOUS
  <2> HIDE DEF H, f
  <2>5. QED  BY <2>3, <2>4
<1>4. Maps(S, G, T, H, f, E)
  <2> HIDE DEF H, f
  <2>1. QED  BY <1>3 DEF Maps
<1>5. ASSUME NEW a \in S PROVE Beyond(T, H, f[a]) = {f[b] : b \in Beyond(S, G, a)}
  <2>1. Beyond(T, H, f[a]) = UNION {H[f[t]] : t \in Reach(S, G, a)}
    <3>1. PICK D, K, g, N : D = T /\ K = H /\ g = f /\ N = E
      OBVIOUS
    <3>2. K \in [D -> SUBSET D] /\ g \in [S -> D] /\ N \in [S -> SUBSET D] /\ Maps(S, G, D, K, g, N)
      BY <1>2, <1>4, <3>1
    <3>3. Beyond(D, K, g[a]) = Carried(K, g, Reach(S, G, a))
      BY <3>2, WalkCarried
    <3> HIDE DEF H, f, E, T
    <3>4. QED  BY <3>1, <3>3 DEF Carried
  <2>2. Reach(S, G, a) \subseteq S
    BY ReachLeast
  <2>3. Beyond(S, G, a) = UNION {G[t] : t \in Reach(S, G, a)}
    BY BeyondGathers DEF Gather
  <2> HIDE DEF H, f
  <2>4. \A t \in Reach(S, G, a) : H[f[t]] = {f[u] : u \in G[t]}
    BY <1>3, <2>2
  <2>5. UNION {H[f[t]] : t \in Reach(S, G, a)} = {f[b] : b \in UNION {G[t] : t \in Reach(S, G, a)}}
    BY <2>4
  <2>6. QED  BY <2>1, <2>3, <2>5
<1>6. Closure(R) \in SUBSET (T \X T)
      /\ \A x, y : <<x, y>> \in Closure(R) <=> x \in T /\ y \in Beyond(T, H, x)
  <2> HIDE DEF T
  <2>1. QED  BY <1>1, ClosureWalks
<1>7. ASSUME NEW a \in S, NEW b \in S
      PROVE  <<<<tag, a>>, <<tag, b>>>> \in Closure(R) <=> b \in Beyond(S, G, a)
  <2>1. f[a] = <<tag, a>> /\ f[b] = <<tag, b>> /\ f[a] \in T
    BY DEF Tags
  <2>2. <<f[a], f[b]>> \in Closure(R) <=> f[b] \in Beyond(T, H, f[a])
    <3> HIDE DEF f, H, T
    <3>1. QED  BY <1>6, <2>1
  <2>3. \A c \in S : f[b] = f[c] => b = c
    OBVIOUS
  <2>4. Beyond(S, G, a) \subseteq S
    BY BeyondInside
  <2> HIDE DEF f, H, T
  <2>5. f[b] \in Beyond(T, H, f[a]) <=> b \in Beyond(S, G, a)
    BY <1>5, <2>3, <2>4
  <2>6. QED  BY <2>1, <2>2, <2>5
<1>8. QED  BY <1>6, <1>7 DEF T

(* Relations of statements alone, and of procedures alone.                 *)
OnlyTags(tag, S, R) == R \in SUBSET (Tags(tag, S) \X Tags(tag, S))

\* Two relations of tagged points that have the same pairs.
LEMMA SamePairs ==
    ASSUME NEW tag, NEW S, NEW Q, NEW R, OnlyTags(tag, S, Q), OnlyTags(tag, S, R),
           \A a, b \in S : <<<<tag, a>>, <<tag, b>>>> \in Q <=> <<<<tag, a>>, <<tag, b>>>> \in R
    PROVE  Q = R
<1>1. ASSUME NEW e \in Tags(tag, S) \X Tags(tag, S)
      PROVE  e \in Q <=> e \in R
  <2>1. PICK a \in S, b \in S : e = <<<<tag, a>>, <<tag, b>>>>
    BY DEF Tags
  <2>2. QED  BY <2>1
<1>2. QED  BY <1>1 DEF OnlyTags

LEMMA StarOfTags ==
    ASSUME NEW tag, NEW S, IsFiniteSet(S), NEW G \in [S -> SUBSET S], NEW Q, NEW R,
           OnlyTags(tag, S, Q), OnlyTags(tag, S, R),
           \A a, b \in S : <<<<tag, a>>, <<tag, b>>>> \in R <=> b \in G[a],
           \A a, b \in S : <<<<tag, a>>, <<tag, b>>>> \in Q <=> b \in Beyond(S, G, a)
    PROVE  Q = Closure(R)
<1>1. TaggedSteps(tag, S, G, R)
  BY DEF TaggedSteps, OnlyTags
<1>2. PICK C : C = Closure(R)
  OBVIOUS
<1>3. /\ OnlyTags(tag, S, C)
      /\ \A a, b \in S : <<<<tag, a>>, <<tag, b>>>> \in C <=> b \in Beyond(S, G, a)
  BY <1>1, <1>2, TaggedWalk DEF OnlyTags
<1>4. Q = C
  BY <1>3, SamePairs
<1>5. QED  BY <1>2, <1>4

(* A function of the lines that is told by its values at later lines.      *)
ToldLater(S, V, F) ==
  \A s \in S : \A f, g \in [S -> V] :
    (\A t \in S : s < t => f[t] = g[t]) => F[s][f] = F[s][g]

Rules(S, V) == [S -> [[S -> V] -> V]]

Told(S, V, F) == \E f \in [S -> V] : \A s \in S : f[s] = F[s][f]

LEMMA LaterTells ==
    ASSUME NEW n \in Nat, NEW S, S = 1 .. n, NEW V, V # {}, NEW F, F \in Rules(S, V),
           ToldLater(S, V, F)
    PROVE  Told(S, V, F)
<1> USE DEF Rules
<1> DEFINE From(m, f) == \A s \in S : m <= s => f[s] = F[s][f]
           T == {m \in Nat : \E f \in [S -> V] : From(m, f)}
<1>1. n + 1 \in T
  <2>1. PICK v \in V : TRUE
    OBVIOUS
  <2>2. PICK f \in [S -> V] : f = [s \in S |-> v]
    OBVIOUS
  <2>3. From(n + 1, f) /\ n + 1 \in Nat
    OBVIOUS
  <2> HIDE DEF From
  <2>4. QED  BY <2>3
<1>2. ASSUME NEW m \in T, m - 1 \in Nat
      PROVE  m - 1 \in T
  <2>1. PICK f \in [S -> V] : From(m, f)
    OBVIOUS
  <2>2. PICK k \in Nat : k = m - 1 /\ m \in Nat /\ m = k + 1
    BY <1>2
  <2>3. CASE k \notin S
    <3>1. From(k, f)
      BY <2>1, <2>2, <2>3
    <3>2. QED  BY <2>2, <3>1
  <2>4. CASE k \in S
    <3> DEFINE g == [s \in S |-> IF s = k THEN F[k][f] ELSE f[s]]
    <3>1. g \in [S -> V] /\ g[k] = F[k][f] /\ \A s \in S : s # k => g[s] = f[s]
      BY <2>4
    <3> HIDE DEF g
    <3>2. ASSUME NEW s \in S, k <= s PROVE g[s] = F[s][g]
      <4>1. \A t \in S : s < t => f[t] = g[t]
        BY <2>2, <3>1, <3>2
      <4>2. F[s][f] = F[s][g]
        BY <3>1, <4>1 DEF ToldLater
      <4>3. CASE s = k
        BY <3>1, <4>2, <4>3
      <4>4. CASE s # k
        <5>1. m <= s
          BY <2>2, <3>2, <4>4
        <5>2. QED  BY <2>1, <3>1, <4>2, <4>4, <5>1
      <4>5. QED  BY <4>3, <4>4
    <3>3. From(k, g)
      BY <3>2
    <3> HIDE DEF From
    <3>4. QED  BY <2>2, <3>1, <3>3
  <2>5. QED  BY <2>3, <2>4
<1>3. T \in SUBSET Nat /\ T # {}
  BY <1>1
<1> HIDE DEF T
<1>4. PICK m \in T : \A k \in T : m <= k
  BY <1>3, LeastOf
<1>5. ~(m - 1 \in Nat)
  <2>1. m \in Nat /\ ~(m <= m - 1)
    BY <1>3
  <2>2. QED  BY <1>2, <1>4, <2>1
<1>6. m = 0
  BY <1>3, <1>5
<1>7. PICK f \in [S -> V] : From(0, f)
  BY <1>6 DEF T
<1>8. QED  BY <1>7 DEF Told

------------------------------------------------------------------------------
(***************************************************************************)
(* The statements of a procedure: what its first statement leads to by the *)
(* next statements and the branches.                                       *)
(***************************************************************************)
AheadG(p) == [s \in Statements(p) |-> Branches(p, s) \cup ({next(p, s)} \ {NoStmt})]

LEMMA AheadWalks ==
    ASSUME NEW p, IsProgram(p)
    PROVE  /\ AheadG(p) \in [Statements(p) -> SUBSET Statements(p)]
           /\ Ascends(Statements(p), AheadG(p))
           /\ \A s \in Statements(p) :
                /\ get_proc(p, s) \in Procs(p)
                /\ \A t \in AheadG(p)[s] : get_proc(p, t) = get_proc(p, s)
                /\ kind(p, s) = "call" => Branches(p, s) = {}
                                          /\ get_proc_called(p, s) \in Procs(p)
<1>1. AheadG(p) \in [Statements(p) -> SUBSET Statements(p)]
  BY TreeLines DEF AheadG
<1>2. Ascends(Statements(p), AheadG(p))
  BY TreeLines DEF AheadG, Ascends
<1>3. WellFormed(p)
  BY DEF IsProgram
<1>4. ASSUME NEW s \in Statements(p)
      PROVE  /\ get_proc(p, s) \in Procs(p)
             /\ \A t \in AheadG(p)[s] : get_proc(p, t) = get_proc(p, s)
             /\ kind(p, s) = "call" => Branches(p, s) = {}
                                       /\ get_proc_called(p, s) \in Procs(p)
  <2>1. get_proc(p, s) \in Procs(p)
    BY <1>3 DEF WellFormed
  <2>2. \A t \in AheadG(p)[s] : get_proc(p, t) = get_proc(p, s)
    BY <1>3 DEF WellFormed, AheadG
  <2>3. kind(p, s) = "call" => get_proc_called(p, s) \in Procs(p)
    BY <1>3 DEF WellFormed
  <2>4. QED  BY <2>1, <2>2, <2>3, ContainerShape
<1>5. QED  BY <1>1, <1>2, <1>4

LEMMA ProcWalk ==
    ASSUME NEW p, IsProgram(p), NEW n \in Procs(p)
    PROVE  /\ get_statement(p, n) \in Statements(p)
           /\ Reach(Statements(p), AheadG(p), get_statement(p, n))
                = {s \in Statements(p) : get_proc(p, s) = n}
<1> DEFINE S == Statements(p)
           h == get_statement(p, n)
           X == {s \in S : get_proc(p, s) = n}
           R == Reach(S, AheadG(p), h)
<1>1. WellFormed(p)
  BY DEF IsProgram
<1>2. h \in S /\ get_proc(p, h) = n
  BY <1>1 DEF WellFormed
<1>3. AheadG(p) \in [S -> SUBSET S]
  BY AheadWalks
<1>4. /\ h \in R /\ R \subseteq S
      /\ \A d \in R : AheadG(p)[d] \subseteq R
      /\ \A C \in SUBSET S : h \in C /\ (\A d \in C : AheadG(p)[d] \subseteq C) => R \subseteq C
  <2> HIDE DEF h
  <2>1. QED  BY <1>2, <1>3, ReachLeast
<1>5. R \subseteq X
  <2>1. h \in X /\ \A d \in X : AheadG(p)[d] \subseteq X
    BY <1>2, <1>3, AheadWalks
  <2> HIDE DEF R
  <2>2. QED  BY <1>4, <2>1
<1>6. X \subseteq R
  <2> SUFFICES ASSUME X \ R # {} PROVE FALSE
    OBVIOUS
  <2>1. X \ R \in SUBSET Nat
    BY TreeLines
  <2> HIDE DEF R
  <2>2. PICK c \in X \ R : \A d \in X \ R : c <= d
    BY <2>1, LeastOf
  <2>3. c \in S /\ get_proc(p, c) = n /\ c \notin R
    OBVIOUS
  <2>4. ASSUME NEW d \in S, c \in AheadG(p)[d] PROVE FALSE
    <3>1. get_proc(p, d) = n
      BY <2>3, <2>4, AheadWalks
    <3>2. d < c
      BY <2>3, <2>4, AheadWalks DEF Ascends
    <3>3. d \notin R
      BY <1>4, <2>3, <2>4
    <3>4. d \in X \ R /\ d \in Nat /\ c \in Nat
      BY <2>1, <3>1, <3>3
    <3>5. QED  BY <2>2, <3>2, <3>4
  <2>5. CASE prev(p, c) # NoStmt
    <3>1. prev(p, c) \in S /\ next(p, prev(p, c)) = c /\ c # NoStmt
      BY <2>3, <2>5, PrevBefore, TreeLines
    <3>2. c \in AheadG(p)[prev(p, c)]
      BY <3>1 DEF AheadG
    <3>3. QED  BY <2>4, <3>1, <3>2
  <2>6. CASE prev(p, c) = NoStmt
    <3>1. c \in Heads(p)
      BY <2>3, <2>6, TreeLines
    <3>2. CASE \E m \in Procs(p) : c = get_statement(p, m)
      <4>1. PICK m \in Procs(p) : c = get_statement(p, m)
        BY <3>2
      <4>2. m = n
        BY <1>1, <2>3, <4>1 DEF WellFormed
      <4>3. QED  BY <1>4, <2>3, <4>1, <4>2
    <3>3. CASE \E s \in S : c \in Branches(p, s)
      <4>1. PICK s \in S : c \in Branches(p, s)
        BY <3>3
      <4>2. c \in AheadG(p)[s]
        BY <4>1 DEF AheadG
      <4>3. QED  BY <2>4, <4>1, <4>2
    <3>4. QED  BY <3>1, <3>2, <3>3 DEF Heads
  <2>7. QED  BY <2>5, <2>6
<1>7. QED  BY <1>2, <1>5, <1>6

Members(q) == {q[i] : i \in DOMAIN q}

LEMMA ConcatMembers ==
    ASSUME NEW V, NEW q \in Seq(V), NEW r \in Seq(V)
    PROVE  /\ q \o r \in Seq(V) /\ Members(q \o r) = Members(q) \cup Members(r)
           /\ Members(q) \subseteq V
<1>1. PICK m \in Nat, n \in Nat :
        /\ m = Len(q) /\ n = Len(r) /\ DOMAIN q = 1 .. m /\ DOMAIN r = 1 .. n
        /\ \A i \in 1 .. m : q[i] \in V
  BY LenProperties
<1>2. /\ q \o r \in Seq(V) /\ Len(q \o r) = m + n /\ DOMAIN (q \o r) = 1 .. m + n
      /\ \A i \in 1 .. m + n : (q \o r)[i] = IF i <= m THEN q[i] ELSE r[i - m]
  <2>1. q \o r \in Seq(V) /\ Len(q \o r) = Len(q) + Len(r)
        /\ \A i \in 1 .. Len(q) + Len(r) : (q \o r)[i] = IF i <= Len(q) THEN q[i] ELSE r[i - Len(q)]
    BY ConcatProperties, Zenon
  <2>2. Len(q) + Len(r) = m + n
    BY <1>1
  <2>3. q \o r \in Seq(V) /\ Len(q \o r) = m + n
        /\ \A i \in 1 .. m + n : (q \o r)[i] = IF i <= m THEN q[i] ELSE r[i - m]
    BY <1>1, <2>1, <2>2
  <2>4. DOMAIN (q \o r) = 1 .. m + n
    BY <2>3, LenProperties
  <2>5. QED  BY <2>3, <2>4
<1>3. PICK z : z = q \o r
  OBVIOUS
<1>4. Members(z) \subseteq Members(q) \cup Members(r)
  <2>1. ASSUME NEW i \in 1 .. m + n PROVE z[i] \in Members(q) \cup Members(r)
    <3>1. CASE i <= m
      BY <1>1, <1>2, <1>3, <3>1 DEF Members
    <3>2. CASE ~(i <= m)
      <4>1. i - m \in 1 .. n /\ z[i] = r[i - m]
        BY <1>2, <1>3, <3>2
      <4>2. QED  BY <1>1, <4>1 DEF Members
    <3>3. QED  BY <3>1, <3>2
  <2>2. QED  BY <1>2, <1>3, <2>1 DEF Members
<1>5. Members(q) \cup Members(r) \subseteq Members(z)
  <2>1. ASSUME NEW i \in 1 .. m PROVE q[i] \in Members(z)
    <3>1. i \in 1 .. m + n /\ i <= m
      OBVIOUS
    <3>2. z[i] = q[i]
      BY <1>2, <1>3, <3>1
    <3>3. QED  BY <1>2, <1>3, <3>1, <3>2 DEF Members
  <2>2. ASSUME NEW i \in 1 .. n PROVE r[i] \in Members(z)
    <3>1. m + i \in 1 .. m + n /\ ~(m + i <= m) /\ (m + i) - m = i
      OBVIOUS
    <3>2. z[m + i] = r[i]
      BY <1>2, <1>3, <3>1
    <3>3. QED  BY <1>2, <1>3, <3>1, <3>2 DEF Members
  <2>3. QED  BY <1>1, <2>1, <2>2 DEF Members
<1>6. QED  BY <1>1, <1>2, <1>3, <1>4, <1>5 DEF Members

LEMMA NothingMembers ==
    ASSUME NEW V, NEW v \in V
    PROVE  /\ << >> \in Seq(V) /\ Members(<< >>) = {}
           /\ <<v>> \in Seq(V) /\ Members(<<v>>) = {v}
<1>1. << >> \in Seq(V) /\ Members(<< >>) = {}
  BY DEF Members
<1>2. <<v>> \in Seq(V) /\ DOMAIN <<v>> = {1} /\ <<v>>[1] = v
  OBVIOUS
<1>3. QED  BY <1>1, <1>2 DEF Members

\* The part of the walk from a statement, or nothing.
PartOf(f, s) == IF s = NoStmt THEN << >> ELSE f[s]

CallsHere(p, f, s) ==
  (IF kind(p, s) = "call" THEN <<get_proc_called(p, s)>>
   ELSE PartOf(f, get_then_branch(p, s)) \o PartOf(f, get_else_branch(p, s)))
  \o PartOf(f, next(p, s))

LEMMA PartTyped ==
    ASSUME NEW S, NEW V, NEW f \in [S -> Seq(V)], NEW s \in S \cup {NoStmt}, NoStmt \notin S
    PROVE  /\ PartOf(f, s) \in Seq(V)
           /\ s = NoStmt => PartOf(f, s) = << >> /\ Members(PartOf(f, s)) = {}
           /\ s # NoStmt => PartOf(f, s) = f[s]
<1>1. << >> \in Seq(V) /\ Members(<< >>) = {}
  BY DEF Members
<1>2. QED  BY <1>1 DEF PartOf

Met(f, X) == UNION {Members(f[t]) : t \in X}

LEMMA MetBoth ==
    ASSUME NEW f, NEW X, NEW Y
    PROVE  Met(f, X \cup Y) = Met(f, X) \cup Met(f, Y)
<1>1. ASSUME NEW Z, NEW z
      PROVE  z \in Met(f, Z) <=> \E t \in Z : z \in Members(f[t])
  BY DEF Met
<1>2. QED  BY <1>1

LEMMA CallsHereTyped ==
    ASSUME NEW p, IsProgram(p), NEW f \in [Statements(p) -> Seq(Procs(p))],
           NEW s \in Statements(p)
    PROVE  /\ CallsHere(p, f, s) \in Seq(Procs(p))
           /\ Members(CallsHere(p, f, s))
                = (IF kind(p, s) = "call" THEN {get_proc_called(p, s)} ELSE {})
                  \cup Met(f, AheadG(p)[s])
<1> DEFINE V == Procs(p)
           S == Statements(p)
           a == PartOf(f, get_then_branch(p, s))
           b == PartOf(f, get_else_branch(p, s))
           c == PartOf(f, next(p, s))
           x == IF kind(p, s) = "call" THEN <<get_proc_called(p, s)>> ELSE a \o b
<1>1. /\ NoStmt \notin S
      /\ get_then_branch(p, s) \in S \cup {NoStmt} /\ get_else_branch(p, s) \in S \cup {NoStmt}
      /\ next(p, s) \in S \cup {NoStmt}
  BY TreeLines DEF Branches, get_then_branch, get_else_branch
<1>2. /\ a \in Seq(V) /\ b \in Seq(V) /\ c \in Seq(V)
      /\ Members(a) = Met(f, {get_then_branch(p, s)} \ {NoStmt})
      /\ Members(b) = Met(f, {get_else_branch(p, s)} \ {NoStmt})
      /\ Members(c) = Met(f, {next(p, s)} \ {NoStmt})
  <2>1. ASSUME NEW u \in S \cup {NoStmt}
        PROVE  PartOf(f, u) \in Seq(V)
               /\ Members(PartOf(f, u)) = Met(f, {u} \ {NoStmt})
    <3>1. CASE u = NoStmt
      <4>1. Met(f, {u} \ {NoStmt}) = {}
        BY <3>1 DEF Met
      <4>2. PartOf(f, u) \in Seq(V) /\ Members(PartOf(f, u)) = {}
        BY <1>1, <3>1, PartTyped
      <4>3. QED  BY <4>1, <4>2
    <3>2. CASE u # NoStmt
      <4>1. PartOf(f, u) \in Seq(V) /\ PartOf(f, u) = f[u]
        BY <1>1, <3>2, PartTyped
      <4>2. {u} \ {NoStmt} = {u} /\ Met(f, {u}) = Members(f[u])
        BY <3>2 DEF Met
      <4>3. QED  BY <4>1, <4>2
    <3>3. QED  BY <3>1, <3>2
  <2>2. QED  BY <1>1, <2>1
<1>3. CallsHere(p, f, s) = x \o c
  BY DEF CallsHere
<1>4. Branches(p, s)
        = ({get_then_branch(p, s)} \ {NoStmt}) \cup ({get_else_branch(p, s)} \ {NoStmt})
  BY DEF Branches, get_then_branch, get_else_branch
<1>5. kind(p, s) = "call" => Branches(p, s) = {} /\ get_proc_called(p, s) \in V
  BY AheadWalks
<1>6. AheadG(p)[s] = Branches(p, s) \cup ({next(p, s)} \ {NoStmt})
  BY DEF AheadG
<1> HIDE DEF a, b, c
<1>7. x \in Seq(V)
      /\ Members(x) = (IF kind(p, s) = "call" THEN {get_proc_called(p, s)} ELSE {})
                      \cup Met(f, Branches(p, s))
  <2>1. CASE kind(p, s) = "call"
    <3>1. x = <<get_proc_called(p, s)>> /\ get_proc_called(p, s) \in V
          /\ Branches(p, s) = {}
      BY <1>5, <2>1
    <3> HIDE DEF x
    <3>2. x \in Seq(V) /\ Members(x) = {get_proc_called(p, s)}
      <4>1. PICK v \in V : v = get_proc_called(p, s)
        BY <3>1
      <4>2. <<v>> \in Seq(V) /\ Members(<<v>>) = {v}
        BY NothingMembers
      <4>3. QED  BY <3>1, <4>1, <4>2
    <3>3. Met(f, {}) = {}
      BY DEF Met
    <3>4. Met(f, Branches(p, s)) = {}
      BY <3>1, <3>3
    <3>5. QED  BY <2>1, <3>2, <3>4
  <2>2. CASE kind(p, s) # "call"
    <3>1. x = a \o b
      BY <2>2
    <3> HIDE DEF x
    <3>2. x \in Seq(V) /\ Members(x) = Members(a) \cup Members(b)
      <4>1. a \o b \in Seq(V) /\ Members(a \o b) = Members(a) \cup Members(b)
        BY <1>2, ConcatMembers
      <4>2. QED  BY <3>1, <4>1
    <3>3. Met(f, Branches(p, s)) = Members(a) \cup Members(b)
      <4>1. Met(f, Branches(p, s)) = Met(f, {get_then_branch(p, s)} \ {NoStmt})
                                     \cup Met(f, {get_else_branch(p, s)} \ {NoStmt})
        BY <1>4, MetBoth
      <4>2. QED  BY <1>2, <4>1
    <3>4. QED  BY <2>2, <3>2, <3>3
  <2>3. QED  BY <2>1, <2>2
<1> HIDE DEF x
<1>8. x \o c \in Seq(V) /\ Members(x \o c) = Members(x) \cup Members(c)
  BY <1>2, <1>7, ConcatMembers
<1>9. Met(f, AheadG(p)[s]) = Met(f, Branches(p, s)) \cup Members(c)
  <2>1. Met(f, Branches(p, s) \cup ({next(p, s)} \ {NoStmt}))
          = Met(f, Branches(p, s)) \cup Met(f, {next(p, s)} \ {NoStmt})
    BY MetBoth
  <2>2. QED  BY <1>2, <1>6, <2>1
<1>10. QED  BY <1>3, <1>7, <1>8, <1>9

LEMMA CallsHereLater ==
    ASSUME NEW p, IsProgram(p), NEW s \in Statements(p), NEW f, NEW g,
           \A t \in Statements(p) : s < t => f[t] = g[t]
    PROVE  CallsHere(p, f, s) = CallsHere(p, g, s)
<1>1. \A u \in {get_then_branch(p, s), get_else_branch(p, s), next(p, s)} :
        u # NoStmt => u \in Statements(p) /\ s < u
  <2>1. \A u \in {get_then_branch(p, s), get_else_branch(p, s)} :
          u # NoStmt => u \in Branches(p, s)
    BY DEF Branches, get_then_branch, get_else_branch
  <2>2. \A u \in Branches(p, s) : u \in Statements(p) /\ s < u
    BY TreeLines
  <2>3. next(p, s) # NoStmt => next(p, s) \in Statements(p) /\ s < next(p, s)
    BY TreeLines
  <2>4. QED  BY <2>1, <2>2, <2>3
<1>2. \A u \in {get_then_branch(p, s), get_else_branch(p, s), next(p, s)} :
        PartOf(f, u) = PartOf(g, u)
  BY <1>1 DEF PartOf
<1>3. QED  BY <1>2, Zenon DEF CallsHere

CallG(p) ==
  [n \in Procs(p) |-> {get_proc_called(p, c) :
                         c \in {s \in OfKind(p, "call") : get_proc(p, s) = n}}]

LEMMA BeyondLeast ==
    ASSUME NEW S, NEW G \in [S -> SUBSET S], NEW c \in S, NEW C \in SUBSET S,
           G[c] \subseteq C, \A d \in C : G[d] \subseteq C
    PROVE  Beyond(S, G, c) \subseteq C
<1>1. ASSUME NEW d \in G[c] PROVE Reach(S, G, d) \subseteq C
  <2>1. d \in S /\ d \in C
    OBVIOUS
  <2>2. QED  BY <2>1, ReachLeast
<1>2. QED  BY <1>1 DEF Beyond

LEMMA BeyondPassesOn ==
    ASSUME NEW S, NEW G \in [S -> SUBSET S], NEW c \in S, NEW d \in Beyond(S, G, c)
    PROVE  /\ d \in S /\ Beyond(S, G, d) \subseteq Beyond(S, G, c)
           /\ Reach(S, G, d) \subseteq Beyond(S, G, c)
<1>1. /\ Beyond(S, G, c) \subseteq S
      /\ \A x \in Beyond(S, G, c) : G[x] \subseteq Beyond(S, G, c)
  BY BeyondInside
<1>2. PICK C \in SUBSET S : C = Beyond(S, G, c)
  BY <1>1
<1>3. d \in S /\ d \in C /\ G[d] \subseteq C /\ \A x \in C : G[x] \subseteq C
  BY <1>1, <1>2
<1>4. Beyond(S, G, d) \subseteq C
  BY <1>3, BeyondLeast
<1>5. Reach(S, G, d) \subseteq C
  BY <1>3, ReachLeast
<1>6. QED  BY <1>2, <1>3, <1>4, <1>5

LEMMA SameProc ==
    ASSUME NEW p, IsProgram(p)
    PROVE  /\ \A n \in Procs(p) :
                \A s \in Reach(Statements(p), NextG(p), get_statement(p, n)) :
                  s \in Statements(p) /\ get_proc(p, s) = n
           /\ \A s \in Statements(p) : \A t \in ChildG(p)[s] :
                t \in Statements(p) /\ get_proc(p, t) = get_proc(p, s)
<1>1. /\ NextG(p) \in [Statements(p) -> SUBSET Statements(p)]
      /\ \A s \in Statements(p) : \A t \in NextG(p)[s] : get_proc(p, t) = get_proc(p, s)
  <2>1. ASSUME NEW s \in Statements(p), NEW t \in NextG(p)[s]
        PROVE  get_proc(p, t) = get_proc(p, s)
    <3>1. next(p, s) = t /\ t \in Statements(p) /\ NoStmt \notin Statements(p)
      BY TreeWalks, TreeLines
    <3>2. t \in AheadG(p)[s]
      BY <3>1 DEF AheadG
    <3>3. QED  BY <3>2, AheadWalks
  <2>2. QED  BY <2>1, TreeWalks
<1>2. ASSUME NEW h \in Statements(p), NEW s \in Reach(Statements(p), NextG(p), h)
      PROVE  s \in Statements(p) /\ get_proc(p, s) = get_proc(p, h)
  <2> DEFINE C == {t \in Statements(p) : get_proc(p, t) = get_proc(p, h)}
  <2>1. h \in C /\ C \in SUBSET Statements(p) /\ \A d \in C : NextG(p)[d] \subseteq C
    BY <1>1
  <2>2. Reach(Statements(p), NextG(p), h) \subseteq C
    <3> HIDE DEF C
    <3>1. QED  BY <1>1, <2>1, ReachLeast
  <2>3. QED  BY <2>2
<1>3. ASSUME NEW n \in Procs(p), NEW s \in Reach(Statements(p), NextG(p), get_statement(p, n))
      PROVE  s \in Statements(p) /\ get_proc(p, s) = n
  <2>1. PICK h \in Statements(p) : h = get_statement(p, n)
    BY ProcWalk
  <2>2. get_proc(p, h) = n
    BY <2>1 DEF IsProgram, WellFormed
  <2>3. QED  BY <1>2, <2>1, <2>2
<1>4. ASSUME NEW s \in Statements(p), NEW t \in ChildG(p)[s]
      PROVE  t \in Statements(p) /\ get_proc(p, t) = get_proc(p, s)
  <2>1. PICK b \in Branches(p, s) : t \in Reach(Statements(p), NextG(p), b)
    <3>1. solve_parent_right(p, s) = ChildG(p)[s]
      BY ChildrenOfParent
    <3>2. solve_parent_right(p, s) = UNION {ListFrom(p, c) : c \in Branches(p, s)}
      BY DEF solve_parent_right
    <3>3. \A c \in Branches(p, s) : ListFrom(p, c) = Reach(Statements(p), NextG(p), c)
      BY TreeLines, ListFromReach
    <3>4. QED  BY <1>4, <3>1, <3>2, <3>3
  <2>2. b \in Statements(p) /\ b \in AheadG(p)[s]
    BY TreeLines DEF AheadG
  <2>3. get_proc(p, b) = get_proc(p, s)
    BY <2>2, AheadWalks
  <2>4. QED  BY <1>2, <2>1, <2>2, <2>3
<1>5. QED  BY <1>3, <1>4

LEMMA CallsAreGraph ==
    ASSUME NEW p, IsProgram(p), NEW a \in Procs(p), NEW b \in Procs(p)
    PROVE  /\ b \in solve_called_procs(p, a) <=> b \in CallG(p)[a]
           /\ <<a, b>> \in CallGraph(p) <=> b \in CallG(p)[a]
<1>1. Walked(p) = Statements(p)
  BY AllWalked
<1>2. b \in solve_called_procs(p, a)
        <=> \E c \in Statements(p) : /\ kind(p, c) = "call"
                                     /\ <<a, b>> = <<get_proc(p, c), get_proc_called(p, c)>>
  BY <1>1 DEF solve_called_procs, called_pairs
<1>3. <<a, b>> \in CallGraph(p)
        <=> \E c \in Statements(p) : /\ kind(p, c) = "call"
                                     /\ <<a, b>> = <<get_proc(p, c), get_proc_called(p, c)>>
  BY DEF CallGraph, OfKind
<1>4. b \in CallG(p)[a]
        <=> \E c \in Statements(p) : /\ kind(p, c) = "call"
                                     /\ <<a, b>> = <<get_proc(p, c), get_proc_called(p, c)>>
  BY DEF CallG, OfKind
<1>5. QED  BY <1>2, <1>3, <1>4

------------------------------------------------------------------------------
(* What a statement contains: its variables and the statements in it that  *)
(* are no calls, and Contains* what these contain as well.                 *)
InnerG(p) == [s \in Statements(p) |-> {u \in ChildG(p)[s] : kind(p, u) # "call"}]

VarsHere(p, s) == {Var(v) : v \in get_expr_vars(p, s) \cup ({get_variable(p, s)} \ {NoVar})}

HeldG(p) == [s \in Statements(p) |-> VarsHere(p, s) \cup {Stmt(u) : u \in InnerG(p)[s]}]

ContainHere(p, indirect, f, t) ==
  VarsHere(p, t) \cup UNION {HandedUp(p, indirect, u, f[u]) : u \in ChildG(p)[t]}

LEMMA InnerWalk ==
    ASSUME NEW p, IsProgram(p)
    PROVE  /\ InnerG(p) \in [Statements(p) -> SUBSET Statements(p)]
           /\ Ascends(Statements(p), InnerG(p))
           /\ \A s \in Statements(p) : kind(p, s) = "call" => InnerG(p)[s] = {}
<1>1. /\ ChildG(p) \in [Statements(p) -> SUBSET Statements(p)]
      /\ Ascends(Statements(p), ChildG(p))
  BY TreeWalks
<1>2. InnerG(p) \in [Statements(p) -> SUBSET Statements(p)] /\ Ascends(Statements(p), InnerG(p))
  BY <1>1 DEF InnerG, Ascends
<1>3. ASSUME NEW s \in Statements(p), kind(p, s) = "call", NEW u \in InnerG(p)[s] PROVE FALSE
  <2>1. u \in Statements(p) /\ get_parent(p, u) = s
    BY <1>3 DEF InnerG, ChildG
  <2>2. QED  BY <1>3, <2>1, ParentsContain
<1>4. QED  BY <1>2, <1>3

LEMMA ContainsHere ==
    ASSUME NEW p, IsProgram(p), NEW t \in Statements(p), NEW f
    PROVE  /\ ContainHere(p, FALSE, f, t) = HeldG(p)[t]
           /\ ContainHere(p, TRUE, f, t) = HeldG(p)[t] \cup UNION {f[u] : u \in InnerG(p)[t]}
<1>1. ChildG(p)[t] \subseteq Statements(p)
  BY DEF ChildG
<1>2. \A u \in ChildG(p)[t] :
        /\ HandedUp(p, FALSE, u, f[u]) = IF kind(p, u) = "call" THEN {} ELSE {Stmt(u)}
        /\ HandedUp(p, TRUE, u, f[u])
             = IF kind(p, u) = "call" THEN {} ELSE {Stmt(u)} \cup f[u]
  BY DEF HandedUp
<1>3. UNION {HandedUp(p, FALSE, u, f[u]) : u \in ChildG(p)[t]}
        = {Stmt(u) : u \in InnerG(p)[t]}
  <2>1. InnerG(p)[t] = {u \in ChildG(p)[t] : kind(p, u) # "call"}
    BY DEF InnerG
  <2>2. ASSUME NEW x
        PROVE  (\E u \in ChildG(p)[t] : x \in HandedUp(p, FALSE, u, f[u]))
                 <=> \E u \in InnerG(p)[t] : x = Stmt(u)
    BY <1>2, <2>1
  <2>3. QED  BY <2>2
<1>4. UNION {HandedUp(p, TRUE, u, f[u]) : u \in ChildG(p)[t]}
        = {Stmt(u) : u \in InnerG(p)[t]} \cup UNION {f[u] : u \in InnerG(p)[t]}
  <2>1. InnerG(p)[t] = {u \in ChildG(p)[t] : kind(p, u) # "call"}
    BY DEF InnerG
  <2>2. ASSUME NEW x
        PROVE  (\E u \in ChildG(p)[t] : x \in HandedUp(p, TRUE, u, f[u]))
                 <=> \E u \in InnerG(p)[t] : x = Stmt(u) \/ x \in f[u]
    BY <1>2, <2>1
  <2>3. QED  BY <2>2
<1>5. QED  BY <1>3, <1>4 DEF ContainHere, HeldG

LEMMA ContainedMade ==
    ASSUME NEW p, IsProgram(p), NEW s \in Statements(p)
    PROVE  /\ contained(p, FALSE, s) = HeldG(p)[s]
           /\ contained(p, TRUE, s) = Gather(Statements(p), InnerG(p), HeldG(p), s)
<1> DEFINE S == Statements(p)
           own(t) == {Var(v) : v \in get_expr_vars(p, t)
                                          \cup ({get_variable(p, t)} \ {NoVar})}
<1>1. ASSUME NEW f, NEW indirect, NEW t \in S
      PROVE  own(t) \cup (UNION {HandedUp(p, indirect, u, f[u]) :
                                   u \in solve_parent_right(p, t)})
               = ContainHere(p, indirect, f, t)
  <2>1. solve_parent_right(p, t) = ChildG(p)[t]
    BY ChildrenOfParent
  <2>2. own(t) = VarsHere(p, t)
    BY DEF VarsHere
  <2>3. QED  BY <2>1, <2>2 DEF ContainHere
<1>2. contained(p, FALSE, s) = HeldG(p)[s]
  <2> DEFINE r == CHOOSE f : f = [t \in S |-> own(t) \cup
               (UNION {HandedUp(p, FALSE, u, f[u]) : u \in solve_parent_right(p, t)})]
  <2>1. PICK g : g = [t \in S |-> HeldG(p)[t]]
    OBVIOUS
  <2>2. g = [t \in S |-> own(t) \cup
               (UNION {HandedUp(p, FALSE, u, g[u]) : u \in solve_parent_right(p, t)})]
    <3>1. ASSUME NEW t \in S
          PROVE  own(t) \cup
             (UNION {HandedUp(p, FALSE, u, g[u]) : u \in solve_parent_right(p, t)})
               = HeldG(p)[t]
      <4>1. ContainHere(p, FALSE, g, t) = HeldG(p)[t]
        BY ContainsHere
      <4> HIDE DEF own
      <4>2. QED  BY <1>1, <4>1
    <3> HIDE DEF own
    <3>2. QED  BY <2>1, <3>1
  <2>3. r = [t \in S |-> own(t) \cup
               (UNION {HandedUp(p, FALSE, u, r[u]) : u \in solve_parent_right(p, t)})]
    <3> HIDE DEF own
    <3>1. QED  BY <2>2
  <2>4. contained(p, FALSE, s) = r[s]
    BY DEF contained, Statements
  <2> HIDE DEF r
  <2>5. r[s] = ContainHere(p, FALSE, r, s)
    <3>1. r[s] = own(s) \cup
               (UNION {HandedUp(p, FALSE, u, r[u]) : u \in solve_parent_right(p, s)})
      BY <2>3
    <3>2. QED  BY <1>1, <3>1
  <2>6. QED  BY <2>4, <2>5, ContainsHere
<1>3. contained(p, TRUE, s) = Gather(Statements(p), InnerG(p), HeldG(p), s)
  <2> DEFINE r == CHOOSE f : f = [t \in S |-> own(t) \cup
               (UNION {HandedUp(p, TRUE, u, f[u]) : u \in solve_parent_right(p, t)})]
  <2>1. PICK g : g = [t \in S |-> Gather(S, InnerG(p), HeldG(p), t)]
    OBVIOUS
  <2>2. g = [t \in S |-> own(t) \cup
               (UNION {HandedUp(p, TRUE, u, g[u]) : u \in solve_parent_right(p, t)})]
    <3>1. ASSUME NEW t \in S
          PROVE  own(t) \cup
             (UNION {HandedUp(p, TRUE, u, g[u]) : u \in solve_parent_right(p, t)})
               = Gather(S, InnerG(p), HeldG(p), t)
      <4>1. Gather(S, InnerG(p), HeldG(p), t)
              = HeldG(p)[t] \cup UNION {Gather(S, InnerG(p), HeldG(p), u) : u \in InnerG(p)[t]}
        BY InnerWalk, GatherUnfold
      <4>2. \A u \in InnerG(p)[t] : g[u] = Gather(S, InnerG(p), HeldG(p), u)
        BY <2>1, InnerWalk
      <4>3. ContainHere(p, TRUE, g, t) = Gather(S, InnerG(p), HeldG(p), t)
        <5>1. ContainHere(p, TRUE, g, t) = HeldG(p)[t] \cup UNION {g[u] : u \in InnerG(p)[t]}
          BY ContainsHere
        <5>2. QED  BY <4>1, <4>2, <5>1
      <4> HIDE DEF own
      <4>4. QED  BY <1>1, <4>3
    <3> HIDE DEF own
    <3>2. QED  BY <2>1, <3>1
  <2>3. r = [t \in S |-> own(t) \cup
               (UNION {HandedUp(p, TRUE, u, r[u]) : u \in solve_parent_right(p, t)})]
    <3> HIDE DEF own
    <3>1. QED  BY <2>2
  <2>4. contained(p, TRUE, s) = r[s]
    BY DEF contained, Statements
  <2> HIDE DEF r
  <2>5. \A t \in S : r[t] = ContainHere(p, TRUE, r, t)
    <3>1. \A t \in S : r[t] = own(t) \cup
               (UNION {HandedUp(p, TRUE, u, r[u]) : u \in solve_parent_right(p, t)})
      <4> HIDE DEF own
      <4>1. QED  BY <2>3
    <3>2. QED  BY <1>1, <3>1
  <2>6. Gathers(S, InnerG(p), HeldG(p), r)
    <3>1. \A t \in S : ContainHere(p, TRUE, r, t)
                        = HeldG(p)[t] \cup UNION {r[u] : u \in InnerG(p)[t]}
      BY ContainsHere
    <3>2. QED  BY <2>5, <3>1 DEF Gathers
  <2>7. r[s] = Gather(S, InnerG(p), HeldG(p), s)
    BY <2>6, GatherLines, InnerWalk
  <2>8. QED  BY <2>4, <2>7
<1>4. QED  BY <1>2, <1>3

TopOf(p, n) == {s \in Reach(Statements(p), NextG(p), get_statement(p, n)) : kind(p, s) # "call"}

ContainsAs(p, c, d, inside, indirect) ==
  \/ \E n \in Procs(p) : /\ c = <<"proc", n>>
                         /\ \E s \in TopOf(p, n) : d = <<"stmt", s>> \/ (indirect /\ d \in inside[s])
  \/ \E s \in Statements(p) : c = <<"stmt", s>> /\ kind(p, s) # "call" /\ d \in inside[s]

LEMMA ContainsPairs ==
    ASSUME NEW p, IsProgram(p), NEW indirect \in BOOLEAN, NEW c, NEW d, NEW inside,
           inside = [s \in Statements(p) |-> contained(p, indirect, s)]
    PROVE  d \in solve_contains_right(p, indirect, c)
             <=> ContainsAs(p, c, d, inside, indirect)
<1> DEFINE S == Statements(p)
<1>1. d \in solve_contains_right(p, indirect, c) <=> <<c, d>> \in contains_index(p, indirect)
  <2>1. \A e \in contains_index(p, indirect) : e = <<e[1], e[2]>>
    BY DEF contains_index
  <2>2. QED  BY <2>1 DEF solve_contains_right
<1>2. <<c, d>> \in contains_index(p, indirect)
        <=> \/ \E n \in Procs(p) : /\ c = Proc(n)
                 /\ \E s \in ListFrom(p, get_statement(p, n)) :
                      d \in HandedUp(p, indirect, s, contained(p, indirect, s))
            \/ \E s \in {t \in Walked(p) : kind(p, t) # "call"} :
                 c = Stmt(s) /\ d \in contained(p, indirect, s)
  BY DEF contains_index
<1>3. Walked(p) = S /\ Procs(p) = Procs(p)
  BY AllWalked
<1>4. ASSUME NEW n \in Procs(p)
      PROVE  (\E s \in ListFrom(p, get_statement(p, n)) :
                 d \in HandedUp(p, indirect, s, contained(p, indirect, s)))
               <=> \E s \in TopOf(p, n) : d = <<"stmt", s>> \/ (indirect /\ d \in inside[s])
  <2>1. get_statement(p, n) \in S
    BY ProcWalk
  <2>2. ListFrom(p, get_statement(p, n)) = Reach(S, NextG(p), get_statement(p, n))
    BY <2>1, ListFromReach
  <2>3. Reach(S, NextG(p), get_statement(p, n)) \subseteq S
    BY <2>1, ReachLeast, TreeWalks
  <2>4. ASSUME NEW s \in S
        PROVE  d \in HandedUp(p, indirect, s, contained(p, indirect, s))
                 <=> kind(p, s) # "call" /\ (d = <<"stmt", s>> \/ (indirect /\ d \in inside[s]))
    BY DEF HandedUp, Stmt
  <2>5. QED  BY <2>2, <2>3, <2>4 DEF TopOf
<1>5. ASSUME NEW s
      PROVE  s \in {t \in Walked(p) : kind(p, t) # "call"} <=> s \in S /\ kind(p, s) # "call"
  BY <1>3
<1>6. \A s \in S : inside[s] = contained(p, indirect, s)
  OBVIOUS
<1>7. (\E s \in {t \in Walked(p) : kind(p, t) # "call"} :
          c = Stmt(s) /\ d \in contained(p, indirect, s))
        <=> \E s \in S : c = <<"stmt", s>> /\ kind(p, s) # "call" /\ d \in inside[s]
  BY <1>5, <1>6 DEF Stmt
<1>8. (\E n \in Procs(p) : /\ c = Proc(n)
         /\ \E s \in ListFrom(p, get_statement(p, n)) :
              d \in HandedUp(p, indirect, s, contained(p, indirect, s)))
        <=> \E n \in Procs(p) : /\ c = <<"proc", n>>
                 /\ \E s \in TopOf(p, n) : d = <<"stmt", s>> \/ (indirect /\ d \in inside[s])
  BY <1>3, <1>4 DEF Proc
<1>9. QED  BY <1>1, <1>2, <1>7, <1>8 DEF ContainsAs

DeepIn(p, s) == Gather(Statements(p), InnerG(p), HeldG(p), s)

LEMMA InnerPlain ==
    ASSUME NEW p, IsProgram(p), NEW s \in Statements(p)
    PROVE  /\ Reach(Statements(p), InnerG(p), s) \subseteq Statements(p)
           /\ kind(p, s) = "call" => Reach(Statements(p), InnerG(p), s) = {s}
           /\ kind(p, s) # "call" =>
                \A t \in Reach(Statements(p), InnerG(p), s) : kind(p, t) # "call"
<1> DEFINE S == Statements(p)
           C == {t \in S : kind(p, t) # "call"}
<1>1. Reach(S, InnerG(p), s) \subseteq S /\ s \in Reach(S, InnerG(p), s)
  BY InnerWalk, ReachLeast
<1>2. ASSUME kind(p, s) = "call" PROVE Reach(S, InnerG(p), s) = {s}
  <2>1. InnerG(p)[s] = {}
    BY <1>2, InnerWalk
  <2>2. PICK C1 : C1 = {s}
    OBVIOUS
  <2>3. C1 \in SUBSET S /\ s \in C1 /\ \A d \in C1 : InnerG(p)[d] \subseteq C1
    BY <2>1, <2>2
  <2>4. Reach(S, InnerG(p), s) \subseteq C1
    BY <2>3, InnerWalk, ReachLeast
  <2>5. QED  BY <1>1, <2>2, <2>4
<1>3. ASSUME kind(p, s) # "call" PROVE Reach(S, InnerG(p), s) \subseteq C
  <2>1. \A d \in C : InnerG(p)[d] \subseteq C
    BY DEF InnerG, ChildG
  <2>2. C \in SUBSET S /\ s \in C
    BY <1>3
  <2> HIDE DEF C
  <2>3. QED  BY <2>1, <2>2, InnerWalk, ReachLeast
<1>4. QED  BY <1>1, <1>2, <1>3

------------------------------------------------------------------------------
(* What runs when a procedure or a statement does, as walks.               *)
Runs(p, n) == Reach(Procs(p), CallG(p), n)

StatementsIn(p, N) == {t \in Statements(p) : get_proc(p, t) \in N}

\* The statements in a statement, itself among them, and the procedures
\* called in it.
In(p, s)       == Reach(Statements(p), ChildG(p), s)

CalledIn(p, s) == {get_proc_called(p, c) : c \in {w \in In(p, s) : kind(p, w) = "call"}}

RunIn(p, s)    == UNION {Runs(p, m) : m \in CalledIn(p, s)}

\* The statements that run, and what they contribute together.
RunsAll(p, s) == In(p, s) \cup StatementsIn(p, RunIn(p, s))

(* index_variables recurses through lists and called procedures; where     *)
(* nothing leads back to itself, it finds what the walk finds.             *)
RunG(p) ==
  [t \in Statements(p) |->
     IF kind(p, t) = "call"
     THEN Reach(Statements(p), NextG(p), get_statement(p, get_proc_called(p, t)))
     ELSE ChildG(p)[t]]

RunsFounded(p) ==
  \A T \in SUBSET Statements(p) : T # {} => \E t \in T : RunG(p)[t] \cap T = {}

IndexHere(p, effect, f, t) == extract(p, effect, t) \cup UNION {f[u] : u \in RunG(p)[t]}

LEMMA RunWalk ==
    ASSUME NEW p, IsProgram(p)
    PROVE  RunG(p) \in [Statements(p) -> SUBSET Statements(p)]
<1>1. ASSUME NEW t \in Statements(p) PROVE RunG(p)[t] \subseteq Statements(p)
  <2>1. CASE kind(p, t) = "call"
    <3>1. get_proc_called(p, t) \in Procs(p)
      BY <2>1, AheadWalks
    <3>2. get_statement(p, get_proc_called(p, t)) \in Statements(p)
      BY <3>1, ProcWalk
    <3>3. Reach(Statements(p), NextG(p), get_statement(p, get_proc_called(p, t))) \subseteq Statements(p)
      BY <3>2, TreeWalks, ReachLeast
    <3>4. QED  BY <2>1, <3>3 DEF RunG
  <2>2. CASE kind(p, t) # "call"
    BY <2>2, TreeWalks DEF RunG
  <2>3. QED  BY <2>1, <2>2
<1>2. QED  BY <1>1 DEF RunG

LEMMA IndexesHere ==
    ASSUME NEW p, IsProgram(p), NEW effect, NEW f, NEW t \in Statements(p)
    PROVE  extract(p, effect, t)
             \cup (UNION {UNION {f[u] : u \in ListFrom(p, b)} : b \in Branches(p, t)})
             \cup (IF kind(p, t) = "call"
                   THEN UNION {f[u] : u \in ListFrom(p, get_statement(p, get_proc_called(p, t)))}
                   ELSE {})
             = IndexHere(p, effect, f, t)
<1>1. UNION {ListFrom(p, b) : b \in Branches(p, t)} = ChildG(p)[t]
  BY ChildrenOfParent DEF solve_parent_right
<1>2. UNION {UNION {f[u] : u \in ListFrom(p, b)} : b \in Branches(p, t)}
        = UNION {f[u] : u \in ChildG(p)[t]}
  <2>1. ASSUME NEW x
        PROVE  (\E b \in Branches(p, t) : \E u \in ListFrom(p, b) : x \in f[u])
                 <=> \E u \in ChildG(p)[t] : x \in f[u]
    BY <1>1
  <2>2. QED  BY <2>1
<1>3. CASE kind(p, t) = "call"
  <2>1. Branches(p, t) = {} /\ get_proc_called(p, t) \in Procs(p)
    BY <1>3, AheadWalks
  <2>2. get_statement(p, get_proc_called(p, t)) \in Statements(p)
    BY <2>1, ProcWalk
  <2>3. ListFrom(p, get_statement(p, get_proc_called(p, t))) = RunG(p)[t]
    BY <1>3, <2>2, ListFromReach DEF RunG
  <2>4. QED  BY <1>3, <2>1, <2>3 DEF IndexHere
<1>4. CASE kind(p, t) # "call"
  <2>1. RunG(p)[t] = ChildG(p)[t]
    BY <1>4 DEF RunG
  <2>2. QED  BY <1>2, <1>4, <2>1 DEF IndexHere
<1>5. QED  BY <1>3, <1>4

------------------------------------------------------------------------------
(***************************************************************************)
(* Next finds the edges of the flow graph that ProgramMeaning defines from *)
(* the text downwards: for a list, a place to go to behind it is handed    *)
(* down; the solver climbs to that place.                                  *)
(***************************************************************************)
BehindIt(p, t, after) == IF next(p, t) = NoStmt THEN after ELSE {next(p, t)}

FlowInside(p, f, t, after) ==
  CASE kind(p, t) = "while" ->
         ({t} \X BehindIt(p, t, after)) \cup ({t} \X Branches(p, t)) \cup f[get_body(p, t)][{t}]
    [] kind(p, t) = "if" ->
         ({t} \X Branches(p, t)) \cup UNION {f[b][BehindIt(p, t, after)] : b \in Branches(p, t)}
    [] OTHER -> {t} \X BehindIt(p, t, after)

FlowHere(p, f, t, after) ==
  FlowInside(p, f, t, after) \cup (IF next(p, t) = NoStmt THEN {} ELSE f[next(p, t)][after])

Exits(p) == SUBSET Statements(p)
Graphs(p) == [Exits(p) -> SUBSET (Statements(p) \X Statements(p))]

LEMMA FlowTyped ==
    ASSUME NEW p, IsProgram(p), NEW f \in [Statements(p) -> Graphs(p)], NEW t \in Statements(p),
           NEW after \in Exits(p)
    PROVE  /\ FlowHere(p, f, t, after) \subseteq Statements(p) \X Statements(p)
           /\ BehindIt(p, t, after) \in Exits(p)
<1> DEFINE S == Statements(p)
<1>1. /\ next(p, t) \in S \cup {NoStmt} /\ Branches(p, t) \subseteq S
      /\ kind(p, t) = "while" => get_body(p, t) \in S
  BY TreeLines, ContainerShape
<1>2. BehindIt(p, t, after) \subseteq S
  BY <1>1 DEF BehindIt, Exits
<1>3. \A u \in S : \A k \in Exits(p) : f[u][k] \subseteq S \X S
  <2>1. \A u \in S : f[u] \in Graphs(p)
    OBVIOUS
  <2>2. QED  BY <2>1 DEF Graphs
<1>4. {t} \in Exits(p) /\ BehindIt(p, t, after) \in Exits(p)
  BY <1>2 DEF Exits
<1>5. FlowInside(p, f, t, after) \subseteq S \X S
  <2>1. {t} \X BehindIt(p, t, after) \subseteq S \X S /\ {t} \X Branches(p, t) \subseteq S \X S
    BY <1>1, <1>2
  <2>2. CASE kind(p, t) = "while"
    <3>1. f[get_body(p, t)][{t}] \subseteq S \X S
      BY <1>1, <1>3, <1>4, <2>2
    <3>2. QED  BY <2>1, <2>2, <3>1 DEF FlowInside
  <2>3. CASE kind(p, t) = "if"
    <3>1. \A b \in Branches(p, t) : f[b][BehindIt(p, t, after)] \subseteq S \X S
      BY <1>1, <1>3, <1>4
    <3>2. UNION {f[b][BehindIt(p, t, after)] : b \in Branches(p, t)} \subseteq S \X S
      BY <3>1
    <3>3. QED  BY <2>1, <2>3, <3>2 DEF FlowInside
  <2>4. CASE kind(p, t) \notin {"while", "if"}
    BY <2>1, <2>4 DEF FlowInside
  <2>5. QED  BY <2>2, <2>3, <2>4
<1>6. next(p, t) # NoStmt => f[next(p, t)][after] \subseteq S \X S
  BY <1>1, <1>3
<1>7. QED  BY <1>4, <1>5, <1>6 DEF FlowHere

LEMMA FlowLater ==
    ASSUME NEW p, IsProgram(p), NEW t \in Statements(p), NEW f, NEW g, NEW after,
           \A u \in Statements(p) : t < u => f[u] = g[u]
    PROVE  FlowHere(p, f, t, after) = FlowHere(p, g, t, after)
<1>1. /\ next(p, t) # NoStmt => next(p, t) \in Statements(p) /\ t < next(p, t)
      /\ \A b \in Branches(p, t) : b \in Statements(p) /\ t < b
      /\ kind(p, t) = "while" => get_body(p, t) \in Branches(p, t)
  BY TreeLines, ContainerShape
<1>2. next(p, t) # NoStmt => f[next(p, t)] = g[next(p, t)]
  BY <1>1
<1>3. \A b \in Branches(p, t) : f[b] = g[b]
  BY <1>1
<1>4. kind(p, t) = "while" => f[get_body(p, t)] = g[get_body(p, t)]
  BY <1>1, <1>3
<1>5. UNION {f[b][BehindIt(p, t, after)] : b \in Branches(p, t)}
        = UNION {g[b][BehindIt(p, t, after)] : b \in Branches(p, t)}
  BY <1>3
<1>6. FlowInside(p, f, t, after) = FlowInside(p, g, t, after)
  BY <1>4, <1>5, Zenon DEF FlowInside
<1>7. QED  BY <1>2, <1>6, Zenon DEF FlowHere

FlowAs(p) ==
  CHOOSE flow : flow = [t \in Statements(p) |-> [after \in SUBSET Statements(p) |->
        LET behind == IF next(p, t) = NoStmt THEN after ELSE {next(p, t)}
            leave  == {t} \X behind
            enter  == {t} \X Branches(p, t)
            own    == CASE kind(p, t) = "while" ->
                             leave \cup enter \cup flow[get_body(p, t)][{t}]
                        [] kind(p, t) = "if" ->
                             enter \cup UNION {flow[b][behind] : b \in Branches(p, t)}
                        [] OTHER -> leave
        IN  own \cup (IF next(p, t) = NoStmt THEN {} ELSE flow[next(p, t)][after])]]

LEMMA FlowMade ==
    ASSUME NEW p, IsProgram(p)
    PROVE  \A t \in Statements(p) : \A after \in Exits(p) :
             FlowAs(p)[t][after] = FlowHere(p, FlowAs(p), t, after)
<1> DEFINE S == Statements(p)
           V == Graphs(p)
           F == [t \in S |-> [f \in [S -> V] |->
                  [after \in Exits(p) |-> FlowHere(p, f, t, after)]]]
<1>1. F \in Rules(S, V)
  <2>1. ASSUME NEW t \in S, NEW f \in [S -> V]
        PROVE  [after \in Exits(p) |-> FlowHere(p, f, t, after)] \in V
    BY FlowTyped DEF Graphs
  <2>2. QED  BY <2>1 DEF Rules
<1>2. ToldLater(S, V, F)
  <2>1. ASSUME NEW t \in S, NEW f \in [S -> V], NEW g \in [S -> V],
               \A u \in S : t < u => f[u] = g[u]
        PROVE  [after \in Exits(p) |-> FlowHere(p, f, t, after)]
                 = [after \in Exits(p) |-> FlowHere(p, g, t, after)]
    <3>1. \A after \in Exits(p) : FlowHere(p, f, t, after) = FlowHere(p, g, t, after)
      BY <2>1, FlowLater
    <3>2. QED  BY <3>1
  <2>2. QED  BY <2>1 DEF ToldLater
<1>3. PICK f \in [S -> V] : \A t \in S : f[t] = F[t][f]
  <2>1. PICK m \in Nat : S = 1 .. m
    BY TreeLines
  <2>2. V # {}
    <3>1. [after \in Exits(p) |-> {}] \in V
      BY DEF Graphs
    <3>2. QED  BY <3>1
  <2>3. PICK T, W, K : T = S /\ W = V /\ K = F
    OBVIOUS
  <2> HIDE DEF F, S, V
  <2>4. T = 1 .. m /\ W # {} /\ K \in Rules(T, W) /\ ToldLater(T, W, K)
    BY <1>1, <1>2, <2>1, <2>2, <2>3
  <2>5. Told(T, W, K)
    BY <2>4, LaterTells
  <2>6. QED  BY <2>3, <2>5 DEF Told
<1>4. \A t \in S : f[t] = [after \in Exits(p) |-> FlowHere(p, f, t, after)]
  BY <1>3
<1>5. f = [t \in S |-> [after \in Exits(p) |-> FlowHere(p, f, t, after)]]
  BY <1>4
<1>6. PICK flow : flow = FlowAs(p)
  OBVIOUS
<1>7. flow = CHOOSE h : h = [t \in S |-> [after \in Exits(p) |-> FlowHere(p, h, t, after)]]
  BY <1>6 DEF FlowAs, FlowHere, FlowInside, BehindIt, Exits
<1>8. flow = [t \in S |-> [after \in Exits(p) |-> FlowHere(p, flow, t, after)]]
  BY <1>5, <1>7
<1>9. \A t \in S : \A after \in Exits(p) : flow[t][after] = FlowHere(p, flow, t, after)
  BY <1>8
<1>10. QED  BY <1>6, <1>9

(* Where the solver goes to from the end of a list, by climbing.           *)
EndOf(p, c) == IF c = NoStmt THEN {} ELSE solve_container_next(p, c)

LEMMA EndPlaces ==
    ASSUME NEW p, IsProgram(p), NEW t \in Statements(p)
    PROVE  /\ EndOf(p, get_parent(p, t)) \in Exits(p)
           /\ Following(p, t) = BehindIt(p, t, EndOf(p, get_parent(p, t)))
           /\ Following(p, t) \subseteq Statements(p)
           /\ solve_next(p, t) \subseteq Statements(p)
           /\ \A u : u \in solve_next(p, t)
                <=> u \in Branches(p, t) \/ (kind(p, t) # "if" /\ u \in Following(p, t))
<1> DEFINE S == Statements(p)
           T == {u \in S : ~(Following(p, u) \subseteq S)}
<1>1. ASSUME NEW u \in S, get_parent(p, u) # NoStmt
      PROVE  EndOf(p, get_parent(p, u))
               = IF kind(p, get_parent(p, u)) = "while" THEN {get_parent(p, u)}
                 ELSE Following(p, get_parent(p, u))
  BY <1>1, ParentBefore, ContainerNext DEF EndOf
<1>2. ASSUME NEW u \in S
      PROVE  Following(p, u) = BehindIt(p, u, EndOf(p, get_parent(p, u)))
  BY DEF Following, BehindIt, EndOf
<1>3. ASSUME NEW u \in S, get_parent(p, u) # NoStmt => get_parent(p, u) \notin T
      PROVE  EndOf(p, get_parent(p, u)) \subseteq S
  <2>1. CASE get_parent(p, u) = NoStmt
    BY <2>1 DEF EndOf
  <2>2. CASE get_parent(p, u) # NoStmt
    <3>1. get_parent(p, u) \in S /\ Following(p, get_parent(p, u)) \subseteq S
      BY <1>3, <2>2, ParentBefore
    <3>2. QED  BY <1>1, <2>2, <3>1
  <2>3. QED  BY <2>1, <2>2
<1>4. T = {}
  <2>1. SUFFICES ASSUME T # {} PROVE FALSE
    OBVIOUS
  <2>2. PICK u \in T : \A k \in T : u <= k
    <3>1. T \in SUBSET Nat
      BY TreeLines
    <3> HIDE DEF T
    <3>2. QED  BY <2>1, <3>1, LeastOf
  <2>3. get_parent(p, u) # NoStmt => get_parent(p, u) \notin T
    BY <2>2, ParentBefore, TreeLines
  <2>4. EndOf(p, get_parent(p, u)) \subseteq S
    BY <1>3, <2>3
  <2>5. BehindIt(p, u, EndOf(p, get_parent(p, u))) \subseteq S
    BY <2>4, TreeLines DEF BehindIt
  <2>6. QED  BY <1>2, <2>5
<1>5. EndOf(p, get_parent(p, t)) \subseteq S /\ Following(p, t) \subseteq S
  BY <1>3, <1>4
<1>6. \A u : u \in solve_next(p, t)
         <=> u \in Branches(p, t) \/ (kind(p, t) # "if" /\ u \in Following(p, t))
  <2>1. CASE kind(p, t) = "if"
    BY <2>1, ContainerShape DEF solve_next
  <2>2. CASE kind(p, t) = "while"
    BY <2>2, ContainerShape DEF solve_next
  <2>3. CASE kind(p, t) \notin {"if", "while"}
    BY <2>3, ContainerShape DEF solve_next
  <2>4. QED  BY <2>1, <2>2, <2>3
<1>7. QED  BY <1>2, <1>5, <1>6, TreeLines DEF Exits

Flows(p, X) ==
  {e \in Statements(p) \X Statements(p) : e[1] \in X /\ e[2] \in solve_next(p, e[1])}

LEMMA FlowOfEnd ==
    ASSUME NEW p, IsProgram(p), NEW t \in Statements(p)
    PROVE  FlowAs(p)[t][EndOf(p, get_parent(p, t))]
             = Flows(p, Reach(Statements(p), AheadG(p), t))
<1> DEFINE S == Statements(p)
           R(u) == Reach(S, AheadG(p), u)
           F(u) == Flows(p, R(u))
           T == {u \in S : FlowAs(p)[u][EndOf(p, get_parent(p, u))] # F(u)}
<1>1. SUFFICES ASSUME T # {} PROVE FALSE
  OBVIOUS
<1>2. PICK u \in T : \A k \in T : k <= u
  <2>1. Len(p.stmts) \in Nat /\ T \in SUBSET (1 .. Len(p.stmts))
    BY TreeLines
  <2> HIDE DEF T
  <2>2. QED  BY <1>1, <2>1, LargestOf
<1> DEFINE after == EndOf(p, get_parent(p, u))
           behind == BehindIt(p, u, after)
           f == FlowAs(p)
<1>3. u \in S /\ after \in Exits(p) /\ behind = Following(p, u)
  BY EndPlaces
<1>4. ASSUME NEW d \in S, u < d PROVE f[d][EndOf(p, get_parent(p, d))] = F(d)
  BY <1>2, <1>3, <1>4, TreeLines
<1>5. next(p, u) # NoStmt => f[next(p, u)][after] = F(next(p, u))
  BY <1>3, <1>4, TreeLines
<1>6. \A b \in Branches(p, u) : f[b][EndOf(p, u)] = F(b)
  BY <1>3, <1>4, TreeLines
<1>7. EndOf(p, u) = IF kind(p, u) = "while" THEN {u} ELSE behind
  <2>1. u # NoStmt
    BY <1>3, TreeLines
  <2>2. solve_container_next(p, u) = IF kind(p, u) = "while" THEN {u} ELSE Following(p, u)
    BY <1>3, ContainerNext
  <2> HIDE DEF after, behind
  <2>3. QED  BY <1>3, <2>1, <2>2 DEF EndOf
<1>8. FlowInside(p, f, u, after) = ({u} \X solve_next(p, u)) \cup UNION {F(b) : b \in Branches(p, u)}
  <2> HIDE DEF F, f, after, behind
  <2>0. behind = BehindIt(p, u, after)
    BY DEF behind
  <2>1. CASE kind(p, u) = "while"
    <3>1. Branches(p, u) = {get_body(p, u)} /\ f[get_body(p, u)][{u}] = F(get_body(p, u))
      BY <1>3, <1>6, <1>7, <2>1, ContainerShape
    <3>2. UNION {F(b) : b \in Branches(p, u)} = F(get_body(p, u))
      BY <3>1
    <3>3. ({u} \X behind) \cup ({u} \X Branches(p, u)) = {u} \X solve_next(p, u)
      <4>1. \A x : x \in solve_next(p, u) <=> x \in Branches(p, u) \/ x \in behind
        BY <1>3, <2>1, EndPlaces
      <4>2. solve_next(p, u) = behind \cup Branches(p, u)
        BY <4>1
      <4>3. QED  BY <4>2
    <3>4. FlowInside(p, f, u, after)
            = (({u} \X behind) \cup ({u} \X Branches(p, u))) \cup f[get_body(p, u)][{u}]
      BY <2>0, <2>1 DEF FlowInside
    <3>5. QED  BY <3>1, <3>2, <3>3, <3>4
  <2>2. CASE kind(p, u) = "if"
    <3>1. solve_next(p, u) = Branches(p, u)
      BY <1>3, <2>2, EndPlaces
    <3>2. \A b \in Branches(p, u) : f[b][behind] = F(b)
      BY <1>6, <1>7, <2>2
    <3>3. UNION {f[b][behind] : b \in Branches(p, u)} = UNION {F(b) : b \in Branches(p, u)}
      BY <3>2
    <3>4. FlowInside(p, f, u, after)
            = ({u} \X Branches(p, u)) \cup UNION {f[b][behind] : b \in Branches(p, u)}
      BY <2>0, <2>2 DEF FlowInside
    <3>5. QED  BY <3>1, <3>3, <3>4
  <2>3. CASE kind(p, u) \notin {"while", "if"}
    <3>1. Branches(p, u) = {}
      BY <1>3, <2>3, ContainerShape
    <3>2. solve_next(p, u) = behind
      BY <1>3, <2>3, <3>1, EndPlaces
    <3>3. FlowInside(p, f, u, after) = {u} \X behind
      BY <2>0, <2>3 DEF FlowInside
    <3>4. QED  BY <3>1, <3>2, <3>3
  <2>4. QED  BY <2>1, <2>2, <2>3
<1>9. f[u][after] = FlowInside(p, f, u, after)
                      \cup (IF next(p, u) = NoStmt THEN {} ELSE f[next(p, u)][after])
  BY <1>3, FlowMade DEF FlowHere
<1>10. f[u][after] = ({u} \X solve_next(p, u)) \cup UNION {F(d) : d \in AheadG(p)[u]}
  <2> HIDE DEF F, f, after, behind
  <2>1. AheadG(p)[u] = Branches(p, u) \cup (IF next(p, u) = NoStmt THEN {} ELSE {next(p, u)})
    BY <1>3 DEF AheadG
  <2>2. CASE next(p, u) = NoStmt
    <3>1. AheadG(p)[u] = Branches(p, u)
      BY <2>1, <2>2
    <3>2. QED  BY <1>8, <1>9, <2>2, <3>1, Zenon
  <2>3. CASE next(p, u) # NoStmt
    <3>1. AheadG(p)[u] = Branches(p, u) \cup {next(p, u)}
      BY <2>1, <2>3
    <3>2. UNION {F(d) : d \in AheadG(p)[u]}
            = (UNION {F(d) : d \in Branches(p, u)}) \cup F(next(p, u))
      BY <3>1
    <3>3. f[u][after] = FlowInside(p, f, u, after) \cup F(next(p, u))
      BY <1>5, <1>9, <2>3
    <3>4. QED  BY <1>8, <3>2, <3>3
  <2>4. QED  BY <2>2, <2>3
<1>11. F(u) = ({u} \X solve_next(p, u)) \cup UNION {F(d) : d \in AheadG(p)[u]}
  <2>1. \A x : x \in R(u) <=> x = u \/ \E d \in AheadG(p)[u] : x \in R(d)
    BY <1>3, AheadWalks, ReachUnfold
  <2>2. solve_next(p, u) \subseteq S
    BY <1>3, EndPlaces
  <2> HIDE DEF R
  <2>3. ASSUME NEW e PROVE e \in F(u) <=> \/ e \in {u} \X solve_next(p, u)
                                          \/ \E d \in AheadG(p)[u] : e \in F(d)
    BY <1>3, <2>1, <2>2 DEF Flows
  <2> HIDE DEF F
  <2>4. QED  BY <2>3
<1>12. QED  BY <1>2, <1>10, <1>11

LEMMA FlowIsNext ==
    ASSUME NEW p, IsProgram(p)
    PROVE  Flow(p) = Flows(p, Statements(p))
<1> DEFINE S == Statements(p)
<1>1. ASSUME NEW n \in Procs(p)
      PROVE  FlowOfList(p, get_statement(p, n), {}) = Flows(p, {s \in S : get_proc(p, s) = n})
  <2>1. get_statement(p, n) \in S /\ get_parent(p, get_statement(p, n)) = NoStmt
    BY ProcWalk DEF IsProgram, WellFormed
  <2>2. EndOf(p, get_parent(p, get_statement(p, n))) = {}
    BY <2>1 DEF EndOf
  <2>3. FlowOfList(p, get_statement(p, n), {}) = FlowAs(p)[get_statement(p, n)][{}]
    BY DEF FlowOfList, FlowAs
  <2>4. FlowAs(p)[get_statement(p, n)][{}] = Flows(p, Reach(S, AheadG(p), get_statement(p, n)))
    BY <2>1, <2>2, FlowOfEnd
  <2>5. QED  BY <2>3, <2>4, ProcWalk
<1>2. \A s \in S : get_proc(p, s) \in Procs(p)
  BY AheadWalks
<1>3. ASSUME NEW e
      PROVE  e \in Flow(p) <=> e \in Flows(p, S)
  <2>1. e \in Flow(p) <=> \E n \in Procs(p) : e \in Flows(p, {s \in S : get_proc(p, s) = n})
    BY <1>1 DEF Flow
  <2>2. QED  BY <1>2, <2>1 DEF Flows
<1>4. QED  BY <1>3
------------------------------------------------------------------------------
(***************************************************************************)
(* The call graph and what runs with a procedure: the closure of the calls *)
(* is a walk, and the walk for Modifies and Uses, which ends without       *)
(* recursion, finds what the statements that run contribute.               *)
(***************************************************************************)
LEMMA ProgramFinite ==
    ASSUME NEW p, IsProgram(p)
    PROVE  /\ IsFiniteSet(Procs(p)) /\ IsFiniteSet(Statements(p))
           /\ IsFiniteSet(Statements(p) \cup {NoStmt})
<1>1. PICK m \in Nat : Statements(p) = 1 .. m
  BY TreeLines
<1>2. IsFiniteSet(Statements(p))
  BY <1>1, FS_Interval
<1>3. IsFiniteSet(Statements(p) \cup {NoStmt})
  BY <1>2, FS_AddElement
<1>4. PICK f : f = [s \in Statements(p) |-> get_proc(p, s)]
  OBVIOUS
<1>5. f \in Surjection(Statements(p), Procs(p))
  <2>1. f \in [Statements(p) -> Procs(p)]
    BY <1>4, AheadWalks
  <2>2. ASSUME NEW n \in Procs(p) PROVE \E s \in Statements(p) : f[s] = n
    <3>1. get_statement(p, n) \in Statements(p) /\ get_proc(p, get_statement(p, n)) = n
      BY DEF IsProgram, WellFormed
    <3>2. QED  BY <1>4, <3>1
  <2>3. QED  BY <2>1, <2>2 DEF Surjection
<1>6. IsFiniteSet(Procs(p))
  BY <1>2, <1>5, FS_Surjection
<1>7. QED  BY <1>2, <1>3, <1>6

LEMMA CallsWalks ==
    ASSUME NEW p, IsProgram(p)
    PROVE  CallG(p) \in [Procs(p) -> SUBSET Procs(p)]
BY AheadWalks DEF CallG, OfKind

LEMMA CallPaths ==
    ASSUME NEW p, IsProgram(p), NEW n \in Procs(p)
    PROVE  \A b : <<n, b>> \in Closure(CallGraph(p)) <=> b \in Beyond(Procs(p), CallG(p), n)
<1> DEFINE S == Procs(p)
           R == CallGraph(p)
<1>1. /\ CallG(p) \in [S -> SUBSET S]
      /\ \A a, b \in S : <<a, b>> \in R <=> b \in CallG(p)[a]
  BY CallsWalks, CallsAreGraph
<1>2. R \in SUBSET (S \X S)
  <2>1. ASSUME NEW c \in OfKind(p, "call")
        PROVE  get_proc(p, c) \in S /\ get_proc_called(p, c) \in S
    BY <2>1, AheadWalks DEF OfKind
  <2>2. QED  BY <2>1 DEF CallGraph
<1>3. IsFiniteSet(Middle(R))
  <2>1. Middle(R) \in SUBSET S
    BY <1>2 DEF Middle
  <2>2. QED  BY <2>1, ProgramFinite, FS_Subset
<1>4. StepsOf(S, R) = CallG(p)
  <2>1. \A a \in S : {b \in S : <<a, b>> \in R} = CallG(p)[a]
    BY <1>1
  <2>2. QED  BY <1>1, <2>1 DEF StepsOf
<1>5. PICK T, Q : T = S /\ Q = R
  OBVIOUS
<1>6. Q \in SUBSET (T \X T) /\ IsFiniteSet(Middle(Q)) /\ StepsOf(T, Q) = CallG(p)
  BY <1>2, <1>3, <1>4, <1>5
<1>7. \A a, b : <<a, b>> \in Closure(Q) <=> a \in T /\ b \in Beyond(T, StepsOf(T, Q), a)
  BY <1>6, ClosureWalks
<1>8. QED  BY <1>5, <1>6, <1>7

LEMMA RunningIs ==
    ASSUME NEW p, IsProgram(p), NEW n \in Procs(p)
    PROVE  Running(p, n) = Runs(p, n)
<1>1. /\ Reach(Procs(p), CallG(p), n) = {n} \cup Beyond(Procs(p), CallG(p), n)
      /\ Beyond(Procs(p), CallG(p), n) \subseteq Procs(p)
  BY CallsWalks, BeyondInside
<1>2. QED  BY <1>1, CallPaths DEF Running, Runs

LEMMA CallsRun ==
    ASSUME NEW p, IsProgram(p), NEW n \in Procs(p)
    PROVE  /\ n \in Runs(p, n) /\ Runs(p, n) \subseteq Procs(p)
           /\ \A c \in Statements(p) :
                kind(p, c) = "call" /\ get_proc(p, c) \in Runs(p, n)
                  => get_proc_called(p, c) \in Runs(p, n)
<1>1. /\ n \in Runs(p, n) /\ Runs(p, n) \subseteq Procs(p)
      /\ \A d \in Runs(p, n) : CallG(p)[d] \subseteq Runs(p, n)
  BY CallsWalks, ReachLeast DEF Runs
<1>2. ASSUME NEW c \in Statements(p), kind(p, c) = "call", get_proc(p, c) \in Runs(p, n)
      PROVE  get_proc_called(p, c) \in Runs(p, n)
  <2>1. get_proc_called(p, c) \in CallG(p)[get_proc(p, c)]
    BY <1>1, <1>2 DEF CallG, OfKind
  <2>2. QED  BY <1>1, <1>2, <2>1
<1>3. QED  BY <1>1, <1>2

(* Without recursion what runs below a procedure gets less with every      *)
(* call, and the lines grow below a statement: the walk for Modifies ends. *)
LEMMA CalledRunsLess ==
    ASSUME NEW p, IsProgram(p), Acyclic(p), NEW n \in Procs(p), NEW m \in CallG(p)[n]
    PROVE  /\ m \in Procs(p)
           /\ Cardinality(Beyond(Procs(p), CallG(p), m)) < Cardinality(Beyond(Procs(p), CallG(p), n))
<1> DEFINE S == Procs(p)
           B(c) == Beyond(S, CallG(p), c)
<1>1. m \in S /\ m \in B(n) /\ B(n) \subseteq S
  BY CallsWalks, BeyondInside
<1>2. B(m) \subseteq B(n)
  BY <1>1, CallsWalks, BeyondPassesOn
<1>3. m \notin B(m)
  <2>1. SUFFICES ASSUME m \in B(m) PROVE FALSE
    OBVIOUS
  <2>2. <<m, m>> \in Closure(CallGraph(p))
    BY <1>1, <2>1, CallPaths
  <2>3. QED  BY <2>2 DEF Acyclic
<1>4. IsFiniteSet(B(n))
  BY <1>1, ProgramFinite, FS_Subset
<1>5. PICK X, Y : X = B(n) /\ Y = B(m)
  OBVIOUS
<1>6. Y \in SUBSET X /\ IsFiniteSet(X) /\ Y # X
  BY <1>1, <1>2, <1>3, <1>4, <1>5
<1>7. /\ IsFiniteSet(Y) /\ Cardinality(Y) <= Cardinality(X)
      /\ Cardinality(X) = Cardinality(Y) => X = Y
  BY <1>6, FS_Subset
<1>8. Cardinality(X) \in Nat /\ Cardinality(Y) \in Nat
  BY <1>6, <1>7, FS_CardinalityType
<1>9. Cardinality(Y) < Cardinality(X)
  BY <1>6, <1>7, <1>8
<1>10. QED  BY <1>1, <1>5, <1>9

LEMMA RunsEnd ==
    ASSUME NEW p, IsProgram(p), Acyclic(p)
    PROVE  RunsFounded(p)
<1> DEFINE S == Statements(p)
           size(n) == Cardinality(Beyond(Procs(p), CallG(p), n))
<1> SUFFICES ASSUME NEW T \in SUBSET S, T # {}, \A t \in T : RunG(p)[t] \cap T # {}
             PROVE  FALSE
  BY DEF RunsFounded
<1>1. \A t \in S : get_proc(p, t) \in Procs(p)
  BY AheadWalks
<1>2. \A n \in Procs(p) : size(n) \in Nat
  <2>1. ASSUME NEW n \in Procs(p) PROVE size(n) \in Nat
    <3>1. Beyond(Procs(p), CallG(p), n) \subseteq Procs(p)
      BY CallsWalks, BeyondInside
    <3>2. QED  BY <3>1, ProgramFinite, FS_Subset, FS_CardinalityType
  <2>2. QED  BY <2>1
<1>3. PICK t0 \in T : \A t \in T : size(get_proc(p, t0)) <= size(get_proc(p, t))
  <2> DEFINE sizes == {size(get_proc(p, t)) : t \in T}
  <2>1. sizes \in SUBSET Nat /\ sizes # {}
    BY <1>1, <1>2
  <2> HIDE DEF size
  <2>2. PICK k \in sizes : \A j \in sizes : k <= j
    <3> HIDE DEF sizes
    <3>1. QED  BY <2>1, LeastOf
  <2>3. QED  BY <2>2
<1>4. PICK n \in Procs(p) : n = get_proc(p, t0)
  BY <1>1
<1> DEFINE here == {t \in T : get_proc(p, t) = n}
<1>5. PICK t \in here : \A u \in here : u <= t
  <2>1. PICK m \in Nat : S = 1 .. m
    BY TreeLines
  <2>2. here \in SUBSET (1 .. m) /\ here # {}
    BY <1>4, <2>1
  <2> HIDE DEF here
  <2>3. QED  BY <2>2, LargestOf
<1>6. PICK u \in T : u \in RunG(p)[t]
  OBVIOUS
<1>7. CASE kind(p, t) = "call"
  <2>1. PICK m \in Procs(p) : m = get_proc_called(p, t)
    BY <1>7, AheadWalks
  <2>2. get_proc(p, u) = m
    <3>1. u \in Reach(Statements(p), NextG(p), get_statement(p, m))
      BY <1>6, <1>7, <2>1 DEF RunG
    <3>2. QED  BY <3>1, SameProc
  <2>3. m \in CallG(p)[n]
    BY <1>7, <2>1 DEF CallG, OfKind
  <2>4. size(m) < size(n)
    BY <2>3, CalledRunsLess
  <2>5. size(n) <= size(m)
    BY <1>3, <1>4, <2>2
  <2> HIDE DEF size
  <2>6. QED  BY <1>2, <2>4, <2>5
<1>8. CASE kind(p, t) # "call"
  <2>1. u \in ChildG(p)[t]
    BY <1>6, <1>8 DEF RunG
  <2>2. get_proc(p, u) = n /\ t < u /\ u \in S /\ t \in S
    BY <2>1, SameProc, TreeWalks DEF Ascends
  <2>3. u \in here
    BY <2>2
  <2>4. u <= t
    BY <1>5, <2>3
  <2>5. t \in Nat /\ u \in Nat
    <3>1. PICK m \in Nat : S = 1 .. m
      BY TreeLines
    <3>2. t \in 1 .. m /\ u \in 1 .. m
      BY <2>2, <3>1
    <3>3. QED  BY <3>2
  <2>6. QED  BY <2>2, <2>4, <2>5
<1>9. QED  BY <1>7, <1>8
(* The recursion of the walk then has one solution.                        *)
LEMMA IndexUnique ==
    ASSUME NEW p, IsProgram(p), NEW effect, RunsFounded(p), NEW s \in Statements(p),
           NEW g, g = [t \in Statements(p) |-> g[t]],
           \A t \in Statements(p) : g[t] = IndexHere(p, effect, g, t)
    PROVE  index_variables(p, effect, s) = g[s]
<1> DEFINE S == Statements(p)
           here(f, t) == extract(p, effect, t)
             \cup (UNION {UNION {f[u] : u \in ListFrom(p, b)} : b \in Branches(p, t)})
             \cup (IF kind(p, t) = "call"
                   THEN UNION {f[u] : u \in ListFrom(p, get_statement(p, get_proc_called(p, t)))}
                   ELSE {})
           from == CHOOSE f : f = [t \in S |-> here(f, t)]
<1>1. g = [t \in S |-> here(g, t)]
  <2>1. \A t \in S : g[t] = here(g, t)
    BY IndexesHere
  <2> HIDE DEF here
  <2>2. QED  BY <2>1
<1>2. from = [t \in S |-> here(from, t)]
  <2> HIDE DEF here
  <2>1. QED  BY <1>1
<1>3. index_variables(p, effect, s) = from[s]
  BY DEF index_variables
<1>4. PICK r : r = from
  OBVIOUS
<1> HIDE DEF from
<1>5. \A t \in S : r[t] = IndexHere(p, effect, r, t)
  <2>1. ASSUME NEW t \in S PROVE r[t] = here(r, t)
    <3> HIDE DEF here
    <3>1. r = [u \in S |-> here(r, u)]
      BY <1>2, <1>4
    <3>2. QED  BY <3>1
  <2>2. ASSUME NEW t \in S PROVE here(r, t) = IndexHere(p, effect, r, t)
    BY IndexesHere
  <2> HIDE DEF here
  <2>3. QED  BY <2>1, <2>2
<1>6. \A t \in S : r[t] = g[t]
  <2> DEFINE bad == {t \in S : r[t] # g[t]}
  <2>1. SUFFICES ASSUME bad # {} PROVE FALSE
    OBVIOUS
  <2>2. PICK t \in bad : RunG(p)[t] \cap bad = {}
    BY <2>1 DEF RunsFounded
  <2>3. \A u \in RunG(p)[t] : r[u] = g[u]
    BY <2>2, RunWalk
  <2>4. IndexHere(p, effect, r, t) = IndexHere(p, effect, g, t)
    BY <2>3 DEF IndexHere
  <2>5. QED  BY <1>5, <2>2, <2>4
<1>7. QED  BY <1>3, <1>4, <1>6

Extracts(p, effect) == [t \in Statements(p) |-> extract(p, effect, t)]

LEMMA IndexGathers ==
    ASSUME NEW p, IsProgram(p), NEW effect, RunsFounded(p), NEW s \in Statements(p)
    PROVE  index_variables(p, effect, s)
             = Gather(Statements(p), RunG(p), Extracts(p, effect), s)
<1> DEFINE S == Statements(p)
<1>1. PICK g : g = [t \in S |-> Gather(S, RunG(p), Extracts(p, effect), t)]
  OBVIOUS
<1>2. ASSUME NEW t \in S PROVE g[t] = IndexHere(p, effect, g, t)
  <2>1. RunG(p)[t] \subseteq S
    BY RunWalk
  <2>2. g[t] = Extracts(p, effect)[t]
               \cup UNION {Gather(S, RunG(p), Extracts(p, effect), u) : u \in RunG(p)[t]}
    BY <1>1, RunWalk, GatherUnfold
  <2>3. \A u \in RunG(p)[t] : g[u] = Gather(S, RunG(p), Extracts(p, effect), u)
    BY <1>1, <2>1
  <2>4. Extracts(p, effect)[t] = extract(p, effect, t)
    BY DEF Extracts
  <2>5. QED  BY <2>2, <2>3, <2>4 DEF IndexHere
<1>3. g = [t \in S |-> g[t]]
  BY <1>1
<1>4. index_variables(p, effect, s) = g[s]
  BY <1>2, <1>3, IndexUnique
<1>5. QED  BY <1>1, <1>4

(* What runs below the list of a procedure is all the statements of the    *)
(* procedures that run with it.                                            *)
ListRuns(p, n) ==
  UNION {Reach(Statements(p), RunG(p), s) :
           s \in Reach(Statements(p), NextG(p), get_statement(p, n))}

LEMMA ListRunsInside ==
    ASSUME NEW p, IsProgram(p), NEW n \in Procs(p)
    PROVE  ListRuns(p, n) \subseteq StatementsIn(p, Runs(p, n))
<1> DEFINE S == Statements(p)
<1>1. PICK C \in SUBSET S : C = StatementsIn(p, Runs(p, n))
  BY DEF StatementsIn
<1>2. ASSUME NEW t \in C PROVE RunG(p)[t] \subseteq C
  <2>1. t \in S /\ get_proc(p, t) \in Runs(p, n)
    BY <1>1 DEF StatementsIn
  <2>2. CASE kind(p, t) = "call"
    <3>1. PICK m \in Procs(p) : m = get_proc_called(p, t)
      BY <2>1, <2>2, AheadWalks
    <3>2. m \in Runs(p, n)
      BY <2>1, <2>2, <3>1, CallsRun
    <3>3. RunG(p)[t] = Reach(S, NextG(p), get_statement(p, m))
      BY <2>1, <2>2, <3>1 DEF RunG
    <3>4. QED  BY <1>1, <3>2, <3>3, SameProc DEF StatementsIn
  <2>3. CASE kind(p, t) # "call"
    <3>1. RunG(p)[t] = ChildG(p)[t]
      BY <2>1, <2>3 DEF RunG
    <3>2. QED  BY <1>1, <2>1, <3>1, SameProc DEF StatementsIn
  <2>4. QED  BY <2>2, <2>3
<1>3. ASSUME NEW s \in Reach(S, NextG(p), get_statement(p, n)) PROVE Reach(S, RunG(p), s) \subseteq C
  <2>1. s \in S /\ s \in C
    BY <1>1, CallsRun, SameProc DEF StatementsIn
  <2>2. QED  BY <1>2, <2>1, RunWalk, ReachLeast
<1>4. QED  BY <1>1, <1>3 DEF ListRuns

LEMMA ProcAllRuns ==
    ASSUME NEW p, IsProgram(p), NEW W \in SUBSET Statements(p),
           \A t \in W : RunG(p)[t] \subseteq W,
           NEW n \in Procs(p), Reach(Statements(p), NextG(p), get_statement(p, n)) \subseteq W
    PROVE  StatementsIn(p, {n}) \subseteq W
<1> DEFINE S == Statements(p)
           list(t) == Reach(S, NextG(p), t)
<1>1. PICK C \in SUBSET S : C = {t \in W : list(t) \subseteq W}
  OBVIOUS
<1>2. PICK h \in S : h = get_statement(p, n)
  BY ProcWalk
<1>3. h \in C
  BY <1>1, <1>2, TreeWalks, ReachLeast
<1>4. ASSUME NEW t \in C PROVE AheadG(p)[t] \subseteq C
  <2>1. ASSUME NEW u \in AheadG(p)[t] PROVE u \in C
    <3>1. u \in S /\ t \in S /\ t \in W /\ list(t) \subseteq W
      BY <1>1, AheadWalks
    <3>2. list(t) = {t} \cup UNION {list(d) : d \in NextG(p)[t]}
      BY <3>1, TreeWalks, ReachUnfold
    <3>3. u \in list(u)
      BY <3>1, TreeWalks, ReachLeast
    <3>4. CASE u \in Branches(p, t)
      <4>1. kind(p, t) # "call" /\ get_parent(p, u) = t
        BY <3>1, <3>4, AheadWalks, TreeLines
      <4>2. RunG(p)[t] = ChildG(p)[t]
        BY <3>1, <4>1 DEF RunG
      <4>3. ASSUME NEW x \in list(u) PROVE x \in W
        <5>1. x \in S /\ get_parent(p, x) = t
          BY <3>1, <3>4, ListKeepsParent
        <5>2. x \in ChildG(p)[t]
          BY <3>1, <5>1, TreeWalks
        <5>3. QED  BY <3>1, <4>2, <5>2
      <4>4. QED  BY <1>1, <3>3, <4>3
    <3>5. CASE u = next(p, t)
      <4>1. u \in NextG(p)[t]
        BY <3>1, <3>5, TreeWalks
      <4>2. list(u) \subseteq W
        BY <3>1, <3>2, <4>1
      <4>3. QED  BY <1>1, <3>3, <4>2
    <3>6. QED  BY <3>1, <3>4, <3>5 DEF AheadG
  <2>2. QED  BY <2>1
<1>5. Reach(S, AheadG(p), h) \subseteq C
  BY <1>3, <1>4, AheadWalks, ReachLeast
<1>6. QED  BY <1>1, <1>2, <1>5, ProcWalk DEF StatementsIn

LEMMA ListRunsIs ==
    ASSUME NEW p, IsProgram(p), NEW n \in Procs(p)
    PROVE  ListRuns(p, n) = StatementsIn(p, Runs(p, n))
<1> DEFINE S == Statements(p)
           list(m) == Reach(S, NextG(p), get_statement(p, m))
<1>1. \A m \in Procs(p) : list(m) \subseteq S
  BY SameProc
<1>2. \A s \in S : s \in Reach(S, RunG(p), s) /\ Reach(S, RunG(p), s) \subseteq S
                   /\ \A t \in Reach(S, RunG(p), s) : RunG(p)[t] \subseteq Reach(S, RunG(p), s)
  BY RunWalk, ReachLeast
<1>3. PICK W \in SUBSET S : W = ListRuns(p, n)
  BY <1>1, <1>2 DEF ListRuns
<1>4. list(n) \subseteq W
  BY <1>1, <1>2, <1>3 DEF ListRuns
<1>5. ASSUME NEW t \in W PROVE RunG(p)[t] \subseteq W
  <2>1. PICK s \in list(n) : t \in Reach(S, RunG(p), s)
    BY <1>3 DEF ListRuns
  <2>2. RunG(p)[t] \subseteq Reach(S, RunG(p), s)
    BY <1>1, <1>2, <2>1
  <2>3. QED  BY <1>3, <2>2 DEF ListRuns
<1>6. PICK M \in SUBSET Procs(p) : M = {m \in Procs(p) : list(m) \subseteq W}
  OBVIOUS
<1>7. ASSUME NEW m \in M PROVE CallG(p)[m] \subseteq M
  <2>1. m \in Procs(p) /\ list(m) \subseteq W
    BY <1>6
  <2>2. StatementsIn(p, {m}) \subseteq W
    BY <1>5, <2>1, ProcAllRuns
  <2>3. ASSUME NEW k \in CallG(p)[m] PROVE k \in M
    <3>1. PICK c \in S : kind(p, c) = "call" /\ get_proc(p, c) = m /\ k = get_proc_called(p, c)
      BY <2>1, <2>3 DEF CallG, OfKind
    <3>2. c \in W
      BY <2>2, <3>1 DEF StatementsIn
    <3>3. k \in Procs(p) /\ RunG(p)[c] = list(k)
      BY <3>1, AheadWalks DEF RunG
    <3>4. QED  BY <1>5, <1>6, <3>2, <3>3
  <2>4. QED  BY <2>3
<1>8. Runs(p, n) \subseteq M
  BY <1>4, <1>6, <1>7, CallsWalks, ReachLeast DEF Runs
<1>9. StatementsIn(p, Runs(p, n)) \subseteq W
  <2>1. ASSUME NEW t \in StatementsIn(p, Runs(p, n)) PROVE t \in W
    <3>1. PICK m \in M : t \in S /\ get_proc(p, t) = m
      BY <1>8 DEF StatementsIn
    <3>2. StatementsIn(p, {m}) \subseteq W
      BY <1>5, <1>6, ProcAllRuns
    <3>3. QED  BY <3>1, <3>2 DEF StatementsIn
  <2>2. QED  BY <2>1
<1>10. QED  BY <1>3, <1>9, ListRunsInside
==============================================================================
