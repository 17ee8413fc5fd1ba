------------------------- MODULE ExprParser_proofs -------------------------
(***************************************************************************)
(* Proofs about Tokenizer and ExprParser, for texts of any length: every   *)
(* character belongs to one token, and the parser finds the expression that *)
(* the grammar spells for the tokens, or rejects them where no expression can *)
(* go on.                                                                  *)
(***************************************************************************)
EXTENDS ExprParser, SequenceTheorems, FiniteSetTheorems, WellFoundedInduction, TLAPS

(***************************************************************************)
(* The digits of a number are its leading zeros and the significant ones:  *)
(* the positions dropped are an interval from 1 on.                        *)
(***************************************************************************)
Dropped(digits) ==
  {i \in DOMAIN digits : \A j \in 1 .. i : digits[j] = "0"} \ {Len(digits)}

LEMMA LeastIndex ==
    ASSUME NEW m \in Nat, NEW T \in SUBSET (1 .. m), T # {}
    PROVE  \E k \in T : \A j \in T : k <= j
<1> DEFINE Heads   == {1 .. k : k \in T}
           Smaller == StrictSubsetOrdering(1 .. m)
<1>1. IsFiniteSet(1 .. m)
  BY FS_Interval
<1>2. IsWellFoundedOn(Smaller, FiniteSubsetsOf(1 .. m))
  BY <1>1, FS_StrictSubsetOrderingWellFounded
<1>3. Heads \subseteq FiniteSubsetsOf(1 .. m) /\ Heads # {}
  <2>1. FiniteSubsetsOf(1 .. m) = SUBSET (1 .. m)
    BY <1>1, FS_FiniteSubsetsOfFinite
  <2>2. PICK k : k \in T
    OBVIOUS
  <2>3. 1 .. k \in Heads
    BY <2>2
  <2>4. Heads \subseteq SUBSET (1 .. m)
    OBVIOUS
  <2> HIDE DEF Heads
  <2>5. QED  BY <2>1, <2>3, <2>4
<1>4. PICK x \in Heads : \A y \in Heads : <<y, x>> \notin Smaller
  <2> HIDE DEF Heads, Smaller
  <2>1. QED  BY <1>2, <1>3, WFMin
<1>5. PICK k \in T : x = 1 .. k
  OBVIOUS
<1>6. ASSUME NEW j \in T, ~(k <= j) PROVE FALSE
  <2>1. 1 .. j \in Heads /\ 1 .. j \subseteq x /\ 1 .. j # x
    <3>1. k \in x /\ k \notin 1 .. j
      BY <1>5, <1>6
    <3>2. QED  BY <1>5, <1>6, <3>1
  <2>2. x \in SUBSET (1 .. m) /\ 1 .. j \in SUBSET (1 .. m)
    BY <1>5
  <2>3. <<1 .. j, x>> \in Smaller
    BY <2>1, <2>2 DEF StrictSubsetOrdering
  <2>4. QED  BY <1>4, <2>1, <2>3
<1>7. QED  BY <1>6

LEMMA DroppedInterval ==
    ASSUME NEW S, NEW s \in Seq(S), s # <<>>
    PROVE  \E n \in 0 .. Len(s) - 1 :
             /\ Dropped(s) = 1 .. n
             /\ \A i \in 1 .. n : s[i] = "0"
             /\ s[n + 1] # "0" \/ n + 1 = Len(s)
<1> DEFINE T == {i \in 1 .. Len(s) : s[i] # "0"}
<1>1. Len(s) \in Nat \ {0} /\ DOMAIN s = 1 .. Len(s)
  BY EmptySeq, LenProperties
<1>2. CASE T = {}
  <2>1. Dropped(s) = 1 .. Len(s) - 1
    BY <1>1, <1>2 DEF Dropped
  <2>2. /\ Len(s) - 1 \in 0 .. Len(s) - 1 /\ (Len(s) - 1) + 1 = Len(s)
        /\ \A i \in 1 .. Len(s) - 1 : s[i] = "0"
    BY <1>1, <1>2
  <2>3. QED  BY <2>1, <2>2
<1>3. CASE T # {}
  <2>1. PICK k \in T : \A j \in T : k <= j
    BY <1>1, <1>3, LeastIndex
  <2>2. k \in 1 .. Len(s) /\ s[k] # "0"
    OBVIOUS
  <2>3. \A i \in 1 .. k - 1 : s[i] = "0"
    BY <1>1, <2>1, <2>2
  <2>4. Dropped(s) = 1 .. k - 1
    BY <1>1, <2>2, <2>3 DEF Dropped
  <2>5. k - 1 \in 0 .. Len(s) - 1 /\ s[(k - 1) + 1] # "0"
    BY <1>1, <2>2
  <2>6. QED  BY <2>3, <2>4, <2>5
<1>4. QED  BY <1>2, <1>3

LEMMA SignificantSpells ==
    ASSUME NEW S, NEW s \in Seq(S), s # <<>>
    PROVE  /\ \E n \in 0 .. Len(s) - 1 : s = Zeros(n) \o Significant(s)
           /\ Significant(s)[1] # "0" \/ Len(Significant(s)) = 1
           /\ \E i \in DOMAIN s : Significant(s)[1] = s[i]
<1>1. PICK n \in 0 .. Len(s) - 1 :
        /\ Dropped(s) = 1 .. n
        /\ \A i \in 1 .. n : s[i] = "0"
        /\ s[n + 1] # "0" \/ n + 1 = Len(s)
  BY DroppedInterval
<1>2. Len(s) \in Nat \ {0} /\ DOMAIN s = 1 .. Len(s) /\ n \in Nat
  BY EmptySeq, LenProperties
<1>3. Cardinality(1 .. n) = n
  BY <1>2, FS_Interval
<1>4. Significant(s) = SubSeq(s, n + 1, Len(s))
  BY <1>1, <1>3 DEF Significant, Dropped
<1> DEFINE zeros == Zeros(n)
           rest  == SubSeq(s, n + 1, Len(s))
<1>5. /\ rest \in Seq(S) /\ Len(rest) = Len(s) - n
      /\ \A i \in 1 .. Len(s) - n : rest[i] = s[n + i]
  BY <1>2
<1>6. zeros \in Seq({"0"}) /\ Len(zeros) = n /\ \A i \in 1 .. n : zeros[i] = "0"
  BY <1>2 DEF Zeros
<1>7. s = zeros \o rest
  <2> HIDE DEF zeros, rest
  <2>1. s \in Seq(S \cup {"0"}) /\ zeros \in Seq(S \cup {"0"}) /\ rest \in Seq(S \cup {"0"})
    BY <1>5, <1>6, SeqMonotonic
  <2>2. /\ zeros \o rest \in Seq(S \cup {"0"})
        /\ Len(zeros \o rest) = Len(s)
        /\ \A i \in 1 .. Len(s) :
             (zeros \o rest)[i] = IF i <= n THEN zeros[i] ELSE rest[i - n]
    <3>1. Len(zeros) + Len(rest) = Len(s)
      BY <1>2, <1>5, <1>6
    <3>2. \A i \in 1 .. Len(zeros) + Len(rest) :
            (zeros \o rest)[i] = IF i <= Len(zeros) THEN zeros[i] ELSE rest[i - Len(zeros)]
      BY <2>1, ConcatProperties
    <3>3. /\ zeros \o rest \in Seq(S \cup {"0"})
          /\ Len(zeros \o rest) = Len(zeros) + Len(rest)
      BY <2>1, ConcatProperties
    <3>4. Len(zeros) = n
      BY <1>6
    <3>5. QED  BY <3>1, <3>2, <3>3, <3>4
  <2>3. ASSUME NEW i \in 1 .. Len(s) PROVE (zeros \o rest)[i] = s[i]
    <3>1. CASE i <= n
      BY <1>1, <1>6, <2>2, <3>1
    <3>2. CASE ~(i <= n)
      <4>1. i - n \in 1 .. Len(s) - n /\ n + (i - n) = i
        BY <1>2, <3>2
      <4>2. QED  BY <1>5, <2>2, <3>2, <4>1
    <3>3. QED  BY <3>1, <3>2
  <2>4. QED  BY <2>1, <2>2, <2>3, SeqEqual
<1>8. rest[1] = s[n + 1] /\ n + 1 \in DOMAIN s
  BY <1>2, <1>5
<1>9. rest[1] # "0" \/ Len(rest) = 1
  <2> HIDE DEF rest, zeros
  <2>1. n + 1 = Len(s) => Len(s) - n = 1
    <3>1. PICK m \in Nat : m = Len(s)
      BY <1>2
    <3>2. n \in Nat /\ n + 1 = m => m - n = 1
      OBVIOUS
    <3>3. QED  BY <1>2, <3>1, <3>2
  <2>2. QED  BY <1>1, <1>5, <1>8, <2>1
<1> HIDE DEF zeros, rest
<1>10. QED  BY <1>4, <1>7, <1>8, <1>9 DEF zeros, rest

\* A number denotes one int at most.
LEMMA DenotesSignificant ==
    ASSUME NEW s, s \in Seq(Digits), s # <<>>, NEW t \in Ints, Denotes(s, t)
    PROVE  t = Significant(s)
<1>1. PICK m \in 0 .. Len(s) - 1 :
        /\ Dropped(s) = 1 .. m
        /\ \A i \in 1 .. m : s[i] = "0"
        /\ s[m + 1] # "0" \/ m + 1 = Len(s)
  BY DroppedInterval
<1>2. PICK k \in Nat : k = Len(s) /\ k # 0
  BY EmptySeq, LenProperties
<1>3. PICK n \in 0 .. k - 1 : s = Zeros(n) \o t
  BY <1>2 DEF Denotes
<1>4. /\ t \in Seq(Digits \cup {"-"}) /\ t # <<>> /\ Len(t) \in Nat /\ Len(t) >= 1
      /\ t[1] = "0" => Len(t) = 1
  BY IntsAssumption, EmptySeq, LenProperties
<1>5. /\ k = n + Len(t)
      /\ \A i \in 1 .. n : s[i] = "0"
      /\ \A i \in 1 .. Len(t) : s[n + i] = t[i]
  <2> DEFINE T == Digits \cup {"-", "0"}
             zeros == Zeros(n)
  <2>1. zeros \in Seq(T) /\ Len(zeros) = n /\ \A i \in 1 .. n : zeros[i] = "0"
    BY DEF Zeros
  <2>2. t \in Seq(T)
    BY <1>4, SeqMonotonic
  <2> HIDE DEF T, zeros
  <2>3. /\ Len(zeros \o t) = Len(zeros) + Len(t)
        /\ \A i \in 1 .. Len(zeros) + Len(t) :
             (zeros \o t)[i] = IF i <= Len(zeros) THEN zeros[i] ELSE t[i - Len(zeros)]
    BY <2>1, <2>2, ConcatProperties
  <2>4. s = zeros \o t
    BY <1>3 DEF zeros
  <2>5. k = n + Len(t)
    BY <1>2, <2>1, <2>3, <2>4
  <2>6. \A i \in 1 .. n : s[i] = "0"
    BY <1>4, <2>1, <2>3, <2>4
  <2>7. ASSUME NEW i \in 1 .. Len(t) PROVE s[n + i] = t[i]
    <3>1. n + i \in 1 .. n + Len(t) /\ ~(n + i <= n) /\ (n + i) - n = i
      BY <1>4
    <3>2. QED  BY <2>1, <2>3, <2>4, <3>1
  <2>8. QED  BY <2>5, <2>6, <2>7
<1>6. n = m
  <2>1. CASE n < m
    <3>1. n + 1 \in 1 .. m /\ 1 \in 1 .. Len(t)
      BY <1>2, <1>4, <2>1
    <3>2. t[1] = "0"
      BY <1>1, <1>5, <3>1
    <3>3. m \in Nat /\ m <= k - 1
      BY <1>2
    <3>4. k = n + 1
      BY <1>4, <1>5, <3>2
    <3>5. QED  BY <1>2, <2>1, <3>3, <3>4
  <2>2. CASE m < n
    <3>1. m + 1 \in 1 .. n
      BY <1>1, <1>2, <2>2
    <3>2. s[m + 1] = "0"
      BY <1>5, <3>1
    <3>3. QED  BY <1>1, <1>2, <1>4, <1>5, <2>2, <3>2
  <2>3. QED  BY <1>1, <1>2, <2>1, <2>2
<1>7. Significant(s) = SubSeq(s, n + 1, k)
  <2>1. Cardinality(1 .. m) = m
    BY <1>1, <1>2, FS_Interval
  <2>2. QED  BY <1>1, <1>2, <1>6, <2>1 DEF Significant, Dropped
<1>8. PICK u : u = SubSeq(s, n + 1, k)
  OBVIOUS
<1>9. /\ u \in Seq(Digits) /\ Len(u) = k - n
      /\ \A i \in 1 .. k - n : u[i] = s[n + i]
  BY <1>2, <1>8
<1>10. \A i \in 1 .. Len(t) : u[i] = t[i]
  BY <1>4, <1>5, <1>9
<1>11. u \in Seq(Digits \cup {"-"}) /\ Len(u) = Len(t)
  BY <1>4, <1>5, <1>9, SeqMonotonic
<1>12. QED  BY <1>4, <1>7, <1>8, <1>10, <1>11, SeqEqual

(***************************************************************************)
(* The first character of a lexeme tells which shape it has.               *)
(***************************************************************************)
LEMMA ShapeOfName ==
    ASSUME NEW S, NEW s \in Seq(S), s # <<>>, IsAlpha(s[1])
    PROVE  (IsLexeme(s) <=> IsName(s)) /\ ~IsNumber(s) /\ ~IsNewLine(s)
<1>1. 1 \in DOMAIN s /\ s[1] \notin Digits
  <2>1. 1 \in DOMAIN s
    BY EmptySeq, LenProperties
  <2>2. s[1] \notin Digits
    BY TokenizerAssumption DEF IsAlpha, Quote, Blank, NewLine, Return, EOF
  <2>3. QED  BY <2>1, <2>2
<1>2. s[1] \notin {Quote, NewLine, Return} \cup Marks
  BY TokenizerAssumption DEF IsAlpha, Quote, Blank, NewLine, Return, EOF
<1>3. ~IsNumber(s) /\ ~IsLiteral(s) /\ ~IsMark(s)
  BY <1>1, <1>2 DEF IsNumber, IsLiteral, IsMark
<1>4. ~IsNewLine(s)
  BY <1>2 DEF IsNewLine
<1>5. QED  BY <1>3, <1>4 DEF IsLexeme

LEMMA ShapeOfOthers ==
    ASSUME NEW S, NEW s \in Seq(S), s # <<>>
    PROVE  /\ s[1] \in Digits => (IsLexeme(s) <=> IsNumber(s))
           /\ s[1] = Quote => (IsLexeme(s) <=> IsLiteral(s))
           /\ s[1] = NewLine => (IsLexeme(s) <=> Len(s) = 1)
           /\ s[1] = Return => (IsLexeme(s) <=> IsNewLine(s))
           /\ s[1] \in Marks => (IsLexeme(s) <=> Len(s) = 1)
           /\ s[1] \in Digits \cup Marks \cup {Quote} => ~IsNewLine(s)
           /\ s[1] \in Marks \cup {Quote, NewLine, Return} => ~IsNumber(s)
<1>1. 1 \in DOMAIN s /\ Len(s) \in Nat \ {0} /\ DOMAIN s = 1 .. Len(s)
  BY EmptySeq, LenProperties
<1>2. \A c : \/ c \in Digits  /\ ~IsAlpha(c) /\ c \notin {Quote, NewLine, Return} \cup Marks
             \/ c \in Marks   /\ ~IsAlpha(c) /\ c \notin {Quote, NewLine, Return} \cup Digits
             \/ c = Quote     /\ ~IsAlpha(c) /\ c \notin {NewLine, Return} \cup Digits \cup Marks
             \/ c = NewLine   /\ ~IsAlpha(c) /\ c \notin {Quote, Return} \cup Digits \cup Marks
             \/ c = Return    /\ ~IsAlpha(c) /\ c \notin {Quote, NewLine} \cup Digits \cup Marks
             \/ c \notin {Quote, NewLine, Return} \cup Digits \cup Marks
  BY TokenizerAssumption DEF IsAlpha, Quote, Blank, NewLine, Return, EOF
<1>3. /\ IsName(s)    => IsAlpha(s[1])
      /\ IsNumber(s)  => s[1] \in Digits
      /\ IsLiteral(s) => s[1] = Quote
      /\ IsNewLine(s) => s[1] \in {NewLine, Return}
      /\ IsMark(s)    => s[1] \in Marks /\ Len(s) = 1
  BY <1>1 DEF IsName, IsNumber, IsLiteral, IsNewLine, IsMark
<1>4. Len(s) = 1 => s = <<s[1]>>
  BY <1>1
<1>5. /\ s[1] = NewLine => (IsNewLine(s) <=> Len(s) = 1)
      /\ s[1] \in Marks => (IsMark(s) <=> Len(s) = 1)
  <2>1. IsNewLine(s) /\ s[1] = NewLine => s = <<NewLine>>
    BY DEF IsNewLine, NewLine, Return
  <2>2. QED  BY <1>4, <2>1 DEF IsNewLine, IsMark
<1>6. QED  BY <1>2, <1>3, <1>5 DEF IsLexeme

(***************************************************************************)
(* The tokens, and that none could be longer: `d' is the character behind. *)
(***************************************************************************)
Ready(s, t, d) ==
  IF t = EOFToken THEN s = <<>> /\ d = EOF
  ELSE /\ IsLexeme(s)
       /\ Spells(s, t)
       /\ ~IsLexeme(Append(s, d))

LEMMA OneCharReady ==
    ASSUME NEW c \in Marks \cup {NewLine}, NEW d
    PROVE  Ready(<<c>>, <<c>>, d)
<1> DEFINE s == <<c>>
           S == {c, d}
<1>1. s \in Seq(S) /\ Len(s) = 1 /\ s[1] = c /\ s # <<>>
  OBVIOUS
<1>2. Append(s, d) \in Seq(S) /\ Len(Append(s, d)) = 2 /\ Append(s, d)[1] = c
  OBVIOUS
<1>3. Append(s, d) # <<>>
  BY <1>2
<1>4. <<c>> # EOFToken
  <2>1. c # EOF
    BY TokenizerAssumption DEF NewLine, EOF
  <2>2. QED  BY <2>1 DEF EOFToken
<1>5. c \in Marks => c # NewLine
  BY TokenizerAssumption
<1> HIDE DEF s, S
<1>6. IsLexeme(s) /\ ~IsNumber(s)
  BY <1>1, ShapeOfOthers
<1>7. ~IsLexeme(Append(s, d))
  <2>1. PICK longer \in Seq(S) : longer = Append(s, d)
    BY <1>2
  <2>2. Len(longer) # 1 /\ longer # <<>> /\ longer[1] \in Marks \cup {NewLine}
    BY <1>2, <1>3, <2>1
  <2>3. ~IsLexeme(longer)
    BY <2>2, ShapeOfOthers
  <2>4. QED  BY <2>1, <2>3
<1>8. Spells(s, <<c>>)
  <2>1. CASE c \in Marks
    BY <1>1, <1>6, <2>1, ShapeOfOthers DEF Spells, s
  <2>2. CASE c = NewLine
    BY <1>6, <2>2 DEF Spells, s, NewLineToken
  <2>3. QED  BY <2>1, <2>2
<1>9. QED  BY <1>4, <1>6, <1>7, <1>8 DEF Ready, s

LEMMA NewLineReady ==
    ASSUME NEW d
    PROVE  /\ d # NewLine => Ready(<<Return>>, NewLineToken, d)
           /\ Ready(<<Return, NewLine>>, NewLineToken, d)
<1>1. NewLineToken # EOFToken
  BY DEF NewLineToken, EOFToken, NewLine, EOF
<1>2. ASSUME NEW s \in {<<Return>>, <<Return, NewLine>>},
             NEW e, ~IsNewLine(Append(s, e))
      PROVE  Ready(s, NewLineToken, e)
  <2> DEFINE S == {Return, NewLine, e}
  <2>1. s \in Seq(S) /\ Len(s) \in Nat \ {0} /\ s # <<>> /\ s[1] = Return
    <3>1. CASE s = <<Return>>
      BY <3>1
    <3>2. CASE s = <<Return, NewLine>>
      BY <3>2
    <3>3. QED  BY <3>1, <3>2
  <2>2. Append(s, e) \in Seq(S) /\ Append(s, e) # <<>> /\ Append(s, e)[1] = Return
    BY <2>1, AppendProperties
  <2>3. IsNewLine(s) /\ IsLexeme(s) /\ ~IsNumber(s)
    BY <1>2, <2>1, ShapeOfOthers DEF IsNewLine, IsLexeme
  <2>4. ~IsLexeme(Append(s, e))
    BY <1>2, <2>2, ShapeOfOthers
  <2>5. QED  BY <1>1, <2>3, <2>4 DEF Ready, Spells
<1>3. d # NewLine => ~IsNewLine(Append(<<Return>>, d))
  <2>1. <<Return>> \in Seq({Return, d}) /\ Len(<<Return>>) = 1
    OBVIOUS
  <2>2. Len(Append(<<Return>>, d)) = 2 /\ Append(<<Return>>, d)[2] = d
    BY <2>1, AppendProperties
  <2>3. PICK longer : longer = Append(<<Return>>, d)
    OBVIOUS
  <2>4. /\ longer # <<NewLine>> /\ longer # <<Return>>
        /\ d # NewLine => longer # <<Return, NewLine>>
    <3>1. Len(<<NewLine>>) = 1 /\ Len(<<Return>>) = 1 /\ <<Return, NewLine>>[2] = NewLine
      OBVIOUS
    <3>2. Len(longer) = 2 /\ longer[2] = d
      BY <2>2, <2>3
    <3>3. longer # <<NewLine>> /\ longer # <<Return>>
      BY <3>1, <3>2
    <3>4. QED  BY <3>1, <3>2, <3>3
  <2>5. QED  BY <2>3, <2>4 DEF IsNewLine
<1>4. ~IsNewLine(Append(<<Return, NewLine>>, d))
  BY DEF IsNewLine
<1>5. QED  BY <1>2, <1>3, <1>4

LEMMA NameReady ==
    ASSUME NEW s \in Seq(Chars), IsName(s), NEW d, ~IsAlnum(d)
    PROVE  Ready(s, s, d)
<1>1. /\ Len(s) \in Nat \ {0} /\ DOMAIN s = 1 .. Len(s) /\ s # <<>> /\ IsAlpha(s[1])
      /\ s = s
  BY EmptySeq, LenProperties DEF IsName
<1>2. /\ Append(s, d) # <<>> /\ Append(s, d)[1] = s[1]
      /\ Len(s) + 1 \in DOMAIN Append(s, d) /\ Append(s, d)[Len(s) + 1] = d
  <2>1. s \in Seq(Chars \cup {d}) /\ d \in Chars \cup {d}
    BY SeqMonotonic
  <2>2. QED  BY <1>1, <2>1, AppendProperties
<1>3. ~IsName(Append(s, d))
  BY <1>2 DEF IsName
<1>4. ~IsLexeme(Append(s, d))
  <2>1. PICK longer \in Seq(Chars \cup {d}) : longer = Append(s, d)
    BY SeqMonotonic, AppendProperties
  <2>2. QED  BY <1>1, <1>2, <1>3, <2>1, ShapeOfName
<1>5. IsLexeme(s) /\ ~IsNumber(s) /\ ~IsNewLine(s)
  BY <1>1, ShapeOfName DEF IsLexeme
<1>6. s # EOFToken
  <2>1. ~IsAlpha(EOF)
    BY TokenizerAssumption DEF IsAlpha, EOF
  <2>2. QED  BY <1>1, <2>1 DEF EOFToken
<1>7. QED  BY <1>4, <1>5, <1>6 DEF Ready, Spells

LEMMA NumberReady ==
    ASSUME NEW s \in Seq(Chars), IsNumber(s), NEW t \in atoi(s), NEW d, d \notin Digits
    PROVE  Ready(s, t, d)
<1>1. /\ Len(s) \in Nat \ {0} /\ DOMAIN s = 1 .. Len(s) /\ s # <<>> /\ s[1] \in Digits
      /\ \A i \in DOMAIN s : s[i] \in Digits
  BY EmptySeq, LenProperties DEF IsNumber
<1> DEFINE longer == Append(s, d)
<1>2. /\ longer \in Seq(Chars \cup {d}) /\ longer # <<>> /\ longer[1] = s[1]
      /\ Len(s) + 1 \in DOMAIN longer /\ longer[Len(s) + 1] = d
  <2>1. s \in Seq(Chars \cup {d}) /\ d \in Chars \cup {d}
    BY SeqMonotonic
  <2>2. QED  BY <1>1, <2>1, AppendProperties
<1> HIDE DEF longer
<1>3. ~IsLexeme(longer)
  <2>1. ~IsNumber(longer)
    BY <1>2 DEF IsNumber
  <2>2. QED  BY <1>1, <1>2, <2>1, ShapeOfOthers
<1>4. t \in Ints
  BY DEF atoi
<1>5. Denotes(s, t) \/ \A i \in Ints : ~Denotes(s, i)
  <2>1. CASE Significant(s) \in Ints
    <3>1. t = Significant(s)
      BY <2>1 DEF atoi
    <3>2. QED  BY <1>1, <3>1, SignificantSpells DEF Denotes
  <2>2. CASE Significant(s) \notin Ints
    <3>1. s \in Seq(Digits)
      BY <1>1, SeqMonotonic, ElementOfSeq
    <3>2. QED  BY <1>1, <2>2, <3>1, DenotesSignificant
  <2>3. QED  BY <2>1, <2>2
<1>6. Spells(s, t)
  <2>1. ~IsNewLine(s)
    BY <1>1, ShapeOfOthers
  <2>2. QED  BY <1>4, <1>5, <2>1 DEF Spells
<1>7. t # EOFToken
  <2>1. t \in Seq(Digits \cup {"-"}) /\ EOF \notin Digits \cup {"-"}
    BY <1>4, IntsAssumption, TokenizerAssumption DEF EOF
  <2>2. EOFToken[1] = EOF /\ 1 \in 1 .. Len(EOFToken)
    BY DEF EOFToken
  <2>3. QED  BY <2>1, <2>2, ElementOfSeq
<1>8. QED  BY <1>3, <1>6, <1>7 DEF Ready, IsLexeme, longer

LEMMA LiteralReady ==
    ASSUME NEW s \in Seq(Chars), \A i \in DOMAIN s : s[i] # Quote, NEW d
    PROVE  LET q == <<Quote>> \o s \o <<Quote>>
           IN  q \in Seq(Chars) /\ Ready(q, q, d)
<1> DEFINE q == <<Quote>> \o s \o <<Quote>>
<1>1. Quote \in Chars /\ Len(s) \in Nat /\ DOMAIN s = 1 .. Len(s)
  BY LenProperties DEF Chars
<1>2. /\ <<Quote>> \o s \in Seq(Chars) /\ Len(<<Quote>> \o s) = Len(s) + 1
      /\ (<<Quote>> \o s)[1] = Quote
      /\ \A i \in 1 .. Len(s) : (<<Quote>> \o s)[i + 1] = s[i]
  BY <1>1, ConcatProperties
<1>3. /\ q \in Seq(Chars) /\ Len(q) = Len(s) + 2
      /\ q[1] = Quote /\ q[Len(s) + 2] = Quote
      /\ \A i \in 2 .. Len(s) + 1 : q[i] = s[i - 1]
  BY <1>1, <1>2, ConcatProperties
<1> HIDE DEF q
<1>4. IsLiteral(q) /\ q # <<>>
  BY <1>1, <1>3 DEF IsLiteral
<1> DEFINE longer == Append(q, d)
<1>5. /\ longer \in Seq(Chars \cup {d}) /\ longer # <<>> /\ longer[1] = Quote
      /\ Len(longer) = Len(s) + 3 /\ longer[Len(s) + 2] = Quote
  <2>1. q \in Seq(Chars \cup {d}) /\ d \in Chars \cup {d}
    BY <1>3, SeqMonotonic
  <2>2. QED  BY <1>1, <1>3, <2>1, AppendProperties
<1> HIDE DEF longer
<1>6. ~IsLexeme(longer)
  <2>1. ~IsLiteral(longer)
    BY <1>1, <1>5 DEF IsLiteral
  <2>2. QED  BY <1>5, <2>1, ShapeOfOthers
<1>7. ~IsNumber(q) /\ ~IsNewLine(q)
  BY <1>3, <1>4, ShapeOfOthers
<1>8. q # EOFToken
  <2>1. EOFToken[1] = EOF
    BY DEF EOFToken
  <2>2. Quote # EOF
    BY DEF EOF, Quote
  <2>3. QED  BY <1>3, <2>1, <2>2
<1>9. Ready(q, q, d)
  BY <1>4, <1>6, <1>7, <1>8 DEF Ready, Spells, IsLexeme, longer
<1>10. QED  BY <1>3, <1>9 DEF q
------------------------------------------------------------------------------
(***************************************************************************)
(* The inductive invariant: what was eaten since the last call is blanks   *)
(* and then the part of a token that the loop it is in has read.           *)
(***************************************************************************)
TokenizerTypeOK ==
  /\ it \in Nat
  /\ current_char \in Chars \cup {EOF}
  /\ scan \in {"start", "return", "literal", "name", "number", "ready"}
  /\ lexeme \in Seq(Chars)
  /\ scan \in {"start", "return", "ready"} => lexeme = <<>>

SoFar(s) ==
  /\ scan = "start"   => s = <<>>
  /\ scan = "return"  => s = <<Return>>
  /\ scan = "literal" => s = <<Quote>> \o lexeme /\ \A i \in DOMAIN lexeme : lexeme[i] # Quote
  /\ scan = "name"    => s = lexeme /\ IsName(s)
  /\ scan = "number"  => s = lexeme /\ IsNumber(s)
  /\ scan = "ready"   => Ready(s, token, current_char)

TokenizerInv ==
  /\ TokenizerTypeOK
  /\ \E b \in Seq({Blank}), s \in Seq(Chars) : since = b \o s /\ SoFar(s)

LEMMA BlankChar == Seq({Blank}) \subseteq Seq(Chars) /\ Blank \in Chars
<1>1. {Blank} \subseteq Chars
  BY DEF Chars
<1>2. QED  BY <1>1, SeqMonotonic

LEMMA NextChars ==
    ASSUME NEW i \in Nat, NEW before
    PROVE  CharAt(i, before) \subseteq Chars \cup {EOF}
<1>1. (IF IsAlnum(before) THEN {} ELSE Letters) \subseteq Chars
  BY DEF Chars
<1>2. MaxChars \in Nat /\ MaxLong \in Nat
  BY TokenizerAssumption
<1>3. {Quote, EOF} \subseteq Chars \cup {EOF} /\ Marks \cup Others \subseteq Chars
  BY DEF Chars
<1>4. QED  BY <1>1, <1>2, <1>3 DEF CharAt

LEMMA EatenChar ==
    ASSUME TokenizerTypeOK, next_char, current_char # EOF,
           NEW b \in Seq({Blank}), NEW s \in Seq(Chars), since = b \o s
    PROVE  /\ it' \in Nat /\ current_char' \in Chars \cup {EOF}
           /\ Append(s, current_char) \in Seq(Chars)
           /\ since' = b \o Append(s, current_char)
<1>1. /\ it' = it + 1 /\ current_char' \in CharAt(it', current_char)
      /\ since' = Append(since, current_char)
  BY DEF next_char
<1>2. current_char \in Chars
  BY DEF TokenizerTypeOK
<1>3. Append(b \o s, current_char) = b \o Append(s, current_char)
  <2>1. PICK c \in Chars : c = current_char
    BY <1>2
  <2>2. b \in Seq(Chars) /\ <<c>> \in Seq(Chars) /\ b \o s \in Seq(Chars)
    BY BlankChar, ConcatProperties
  <2>3. Append(b \o s, c) = (b \o s) \o <<c>> /\ Append(s, c) = s \o <<c>>
    BY <2>2, AppendIsConcat
  <2>4. QED  BY <2>1, <2>2, <2>3, ConcatAssociative
<1>4. it' \in Nat
  BY <1>1 DEF TokenizerTypeOK
<1>5. current_char' \in Chars \cup {EOF}
  BY <1>1, <1>4, NextChars
<1>6. Append(s, current_char) \in Seq(Chars)
  BY <1>2, AppendProperties
<1>7. QED  BY <1>1, <1>3, <1>4, <1>5, <1>6

LEMMA EatenBlank ==
    ASSUME TokenizerTypeOK, next_char, current_char = Blank,
           NEW b \in Seq({Blank}), since = b
    PROVE  /\ it' \in Nat /\ current_char' \in Chars \cup {EOF}
           /\ Append(b, Blank) \in Seq({Blank}) /\ since' = Append(b, Blank)
<1>1. current_char # EOF
  BY DEF Blank, EOF
<1>2. /\ it' = it + 1 /\ current_char' \in CharAt(it', current_char)
      /\ since' = Append(since, current_char)
  BY <1>1 DEF next_char
<1>3. it' \in Nat
  BY <1>2 DEF TokenizerTypeOK
<1>4. current_char' \in Chars \cup {EOF}
  BY <1>2, <1>3, NextChars
<1>5. QED  BY <1>2, <1>3, <1>4, AppendProperties

LEMMA InitStep == TokenizerInit => TokenizerInv
<1> SUFFICES ASSUME TokenizerInit PROVE TokenizerInv
  OBVIOUS
<1> USE DEF TokenizerInit
<1>1. TokenizerTypeOK
  BY NextChars DEF TokenizerTypeOK
<1>2. <<>> \in Seq({Blank}) /\ <<>> \in Seq(Chars) /\ since = <<>> \o <<>> /\ SoFar(<<>>)
  BY DEF SoFar
<1>3. QED  BY <1>1, <1>2 DEF TokenizerInv

LEMMA CallStep ==
    ASSUME TokenizerInv, scan = "ready", Call_next_token
    PROVE  TokenizerInv'
<1> USE DEF TokenizerInv, Call_next_token
<1>1. TokenizerTypeOK'
  BY DEF TokenizerTypeOK
<1>2. /\ <<>> \in Seq({Blank}) /\ <<>> \in Seq(Chars) /\ since' = <<>> \o <<>>
      /\ SoFar(<<>>)'
  BY DEF SoFar
<1>3. QED  BY <1>1, <1>2

LEMMA SkipBlankStep ==
    ASSUME TokenizerInv, SkipBlank
    PROVE  TokenizerInv'
<1> USE DEF TokenizerInv, SkipBlank
<1>1. PICK b \in Seq({Blank}), s \in Seq(Chars) : since = b \o s /\ SoFar(s)
  OBVIOUS
<1>2. s = <<>> /\ since = b
  BY <1>1, ConcatEmptySeq DEF SoFar
<1>3. /\ it' \in Nat /\ current_char' \in Chars \cup {EOF}
      /\ Append(b, Blank) \in Seq({Blank}) /\ since' = Append(b, Blank)
  BY <1>2, EatenBlank
<1>4. TokenizerTypeOK'
  BY <1>3 DEF TokenizerTypeOK
<1>5. <<>> \in Seq(Chars) /\ since' = Append(b, Blank) \o <<>> /\ SoFar(<<>>)'
  BY <1>3, ConcatEmptySeq DEF SoFar
<1>6. QED  BY <1>3, <1>4, <1>5

\* A step that eats a character and extends what was read so far with it.
LEMMA GrowStep ==
    ASSUME TokenizerInv, next_char, NEW c, c = current_char, c # EOF,
           NEW sc \in {"return", "literal", "name", "number", "ready"}, scan' = sc,
           lexeme' \in Seq(Chars), sc \in {"return", "ready"} => lexeme' = <<>>,
           \A s \in Seq(Chars) : SoFar(s) => SoFar(Append(s, c))'
    PROVE  TokenizerInv'
<1> USE DEF TokenizerInv
<1>1. PICK b \in Seq({Blank}), s \in Seq(Chars) : since = b \o s /\ SoFar(s)
  OBVIOUS
<1>2. /\ it' \in Nat /\ current_char' \in Chars \cup {EOF}
      /\ Append(s, c) \in Seq(Chars)
      /\ since' = b \o Append(s, c)
  BY <1>1, EatenChar
<1>3. TokenizerTypeOK'
  BY <1>2 DEF TokenizerTypeOK
<1>4. SoFar(Append(s, c))'
  BY <1>1
<1>5. QED  BY <1>2, <1>3, <1>4

\* A step that eats nothing and returns the token read.
LEMMA ReturnStep ==
    ASSUME TokenizerInv, UNCHANGED <<it, current_char, since>>,
           NEW t, Return_token(t),
           \A s \in Seq(Chars) : SoFar(s) => Ready(s, t, current_char)
    PROVE  TokenizerInv'
<1> USE DEF TokenizerInv, Return_token
<1>1. PICK b \in Seq({Blank}), s \in Seq(Chars) : since = b \o s /\ SoFar(s)
  OBVIOUS
<1>2. TokenizerTypeOK'
  <2>1. <<>> \in Seq(Chars)
    OBVIOUS
  <2>2. QED  BY <2>1 DEF TokenizerTypeOK
<1>3. Ready(s, token', current_char')
  BY <1>1
<1>4. SoFar(s)'
  BY <1>3 DEF SoFar
<1>5. since' = b \o s
  BY <1>1
<1>6. QED  BY <1>2, <1>4, <1>5
LEMMA AppendOne ==
    ASSUME NEW x, NEW y
    PROVE  Append(<<x>>, y) = <<x, y>>
<1> DEFINE S == {x, y}
<1>1. <<x>> \in Seq(S) /\ Len(<<x>>) = 1 /\ <<x>>[1] = x /\ y \in S
  OBVIOUS
<1>2. <<x, y>> \in Seq(S) /\ Len(<<x, y>>) = 2 /\ <<x, y>>[1] = x /\ <<x, y>>[2] = y
  OBVIOUS
<1>3. PICK s \in Seq(S) : s = Append(<<x>>, y) /\ Len(s) = 2 /\ s[1] = x /\ s[2] = y
  <2> HIDE DEF S
  <2>1. PICK t \in Seq(S) : t = <<x>>
    BY <1>1
  <2>2. Len(t) = 1 /\ t[1] = x /\ 1 \in 1 .. Len(t) /\ Len(t) + 1 = 2
    BY <1>1, <2>1
  <2>3. /\ Append(t, y) \in Seq(S) /\ Len(Append(t, y)) = Len(t) + 1
        /\ \A i \in 1 .. Len(t) : Append(t, y)[i] = t[i]
        /\ Append(t, y)[Len(t) + 1] = y
    BY <1>1, AppendProperties
  <2>4. Append(t, y)[1] = x /\ Append(t, y)[2] = y /\ Len(Append(t, y)) = 2
    BY <2>2, <2>3
  <2>5. QED  BY <2>1, <2>3, <2>4
<1>4. \A i \in 1 .. Len(s) : s[i] = <<x, y>>[i]
  <2>1. 1 .. Len(s) = {1, 2}
    BY <1>3
  <2>2. QED  BY <1>2, <1>3, <2>1
<1> HIDE DEF S
<1>5. QED  BY <1>2, <1>3, <1>4, SeqEqual

LEMMA OneCharTokenStep ==
    ASSUME TokenizerInv, OneCharToken
    PROVE  TokenizerInv'
<1> USE DEF OneCharToken
<1>1. PICK c : c = current_char
  OBVIOUS
<1>2. CASE c = EOF
  <2>1. UNCHANGED <<it, current_char, since>> /\ Return_token(<<EOF>>)
    BY <1>1, <1>2 DEF next_char
  <2>2. \A s \in Seq(Chars) : SoFar(s) => Ready(s, <<EOF>>, current_char)
    BY <1>1, <1>2 DEF SoFar, Ready, EOFToken
  <2>3. QED  BY <2>1, <2>2, ReturnStep
<1>3. CASE c # EOF
  <2>1. \A d : Ready(<<c>>, <<c>>, d)
    BY <1>1, <1>3, OneCharReady
  <2>2. token' = <<c>> /\ scan' = "ready" /\ lexeme' = <<>> /\ <<>> \in Seq(Chars)
    BY <1>1 DEF Return_token
  <2>3. ASSUME NEW s \in Seq(Chars), SoFar(s) PROVE SoFar(Append(s, c))'
    <3>1. Append(s, c) = <<c>>
      BY <2>3 DEF SoFar
    <3>2. Ready(Append(s, c), token', current_char')
      BY <2>1, <2>2, <3>1
    <3>3. QED  BY <2>2, <3>2 DEF SoFar
  <2>4. QED  BY <1>1, <1>3, <2>2, <2>3, GrowStep
<1>4. QED  BY <1>2, <1>3

LEMMA NewLineSteps ==
    ASSUME TokenizerInv, BeginNewLine \/ EndNewLine
    PROVE  TokenizerInv'
<1>1. CASE BeginNewLine
  <2> USE <1>1 DEF BeginNewLine
  <2>1. Return # EOF
    BY DEF Return, EOF
  <2>2. lexeme' = <<>> /\ lexeme' \in Seq(Chars)
    BY DEF TokenizerInv, TokenizerTypeOK
  <2>3. ASSUME NEW s \in Seq(Chars), SoFar(s) PROVE SoFar(Append(s, Return))'
    BY <2>3 DEF SoFar
  <2>4. QED  BY <2>1, <2>2, <2>3, GrowStep
<1>2. CASE EndNewLine /\ current_char = NewLine
  <2> USE <1>2 DEF EndNewLine
  <2>1. NewLine # EOF
    BY DEF NewLine, EOF
  <2>2. /\ scan' = "ready" /\ token' = NewLineToken
        /\ lexeme' = <<>> /\ lexeme' \in Seq(Chars) /\ next_char
    BY DEF Return_token
  <2>3. ASSUME NEW s \in Seq(Chars), SoFar(s) PROVE SoFar(Append(s, NewLine))'
    <3>1. Append(s, NewLine) = <<Return, NewLine>>
      <4>1. s = <<Return>>
        BY <2>3 DEF SoFar
      <4>2. Append(<<Return>>, NewLine) = <<Return, NewLine>>
        BY AppendOne
      <4>3. QED  BY <4>1, <4>2
    <3>2. Ready(Append(s, NewLine), token', current_char')
      BY <2>2, <3>1, NewLineReady
    <3>3. QED  BY <2>2, <3>2 DEF SoFar
  <2>4. QED  BY <2>1, <2>2, <2>3, GrowStep
<1>3. CASE EndNewLine /\ current_char # NewLine
  <2> USE <1>3 DEF EndNewLine
  <2>1. \A s \in Seq(Chars) : SoFar(s) => Ready(s, NewLineToken, current_char)
    BY NewLineReady DEF SoFar
  <2>2. QED  BY <2>1, ReturnStep
<1>4. QED  BY <1>1, <1>2, <1>3

LEMMA LiteralSteps ==
    ASSUME TokenizerInv, BeginLiteral \/ GrowLiteral \/ EndLiteral
    PROVE  TokenizerInv'
<1>1. CASE BeginLiteral
  <2> USE <1>1 DEF BeginLiteral
  <2>1. Quote # EOF
    BY DEF Quote, EOF
  <2>2. lexeme' = <<>> /\ lexeme' \in Seq(Chars)
    BY DEF TokenizerInv, TokenizerTypeOK
  <2>3. ASSUME NEW s \in Seq(Chars), SoFar(s) PROVE SoFar(Append(s, Quote))'
    <3>1. Append(s, Quote) = <<Quote>> \o <<>>
      <4>1. Append(s, Quote) = <<Quote>>
        BY <2>3 DEF SoFar
      <4>2. <<Quote>> \in Seq({Quote})
        OBVIOUS
      <4>3. QED  BY <4>1, <4>2, ConcatEmptySeq
    <3>2. QED  BY <2>2, <3>1 DEF SoFar
  <2>4. QED  BY <2>1, <2>2, <2>3, GrowStep
<1>2. CASE GrowLiteral
  <2> USE <1>2 DEF GrowLiteral
  <2>1. PICK c \in Chars : c = current_char /\ c # Quote /\ c # EOF
    BY DEF TokenizerInv, TokenizerTypeOK
  <2>2. PICK lex \in Seq(Chars) : lex = lexeme
    BY DEF TokenizerInv, TokenizerTypeOK
  <2>3. lexeme' = Append(lex, c) /\ lexeme' \in Seq(Chars) /\ scan' = "literal" /\ next_char
    BY <2>1, <2>2, AppendProperties
  <2>4. ASSUME NEW s \in Seq(Chars), SoFar(s) PROVE SoFar(Append(s, c))'
    <3>1. s = <<Quote>> \o lex /\ \A i \in DOMAIN lex : lex[i] # Quote
      BY <2>2, <2>4 DEF SoFar
    <3>2. Append(s, c) = <<Quote>> \o Append(lex, c)
      <4>1. <<Quote>> \in Seq(Chars) /\ <<c>> \in Seq(Chars)
        <5>1. Quote \in Chars
          BY DEF Chars
        <5>2. QED  BY <5>1
      <4>2. Append(s, c) = s \o <<c>> /\ Append(lex, c) = lex \o <<c>>
        BY <2>1, AppendIsConcat
      <4>3. QED  BY <3>1, <4>1, <4>2, ConcatAssociative
    <3>3. \A i \in DOMAIN Append(lex, c) : Append(lex, c)[i] # Quote
      BY <2>1, <3>1, AppendProperties
    <3>4. QED  BY <2>3, <3>2, <3>3 DEF SoFar
  <2>5. QED  BY <2>1, <2>3, <2>4, GrowStep
<1>3. CASE EndLiteral
  <2> USE <1>3 DEF EndLiteral
  <2>1. Quote # EOF
    BY DEF Quote, EOF
  <2>2. PICK lex \in Seq(Chars) : lex = lexeme
    BY DEF TokenizerInv, TokenizerTypeOK
  <2>3. PICK q : q = <<Quote>> \o lex \o <<Quote>>
    OBVIOUS
  <2>4. /\ scan' = "ready" /\ token' = q
        /\ lexeme' = <<>> /\ lexeme' \in Seq(Chars) /\ next_char
    BY <2>2, <2>3 DEF Return_token
  <2>5. ASSUME NEW s \in Seq(Chars), SoFar(s) PROVE SoFar(Append(s, Quote))'
    <3>1. s = <<Quote>> \o lex /\ \A i \in DOMAIN lex : lex[i] # Quote
      BY <2>2, <2>5 DEF SoFar
    <3>2. Append(s, Quote) = q
      <4>1. Quote \in Chars
        BY DEF Chars
      <4>2. QED  BY <2>3, <3>1, <4>1, AppendIsConcat
    <3>3. Ready(q, q, current_char')
      BY <2>3, <3>1, LiteralReady
    <3>4. Ready(Append(s, Quote), token', current_char')
      BY <2>4, <3>2, <3>3
    <3>5. QED  BY <2>4, <3>4 DEF SoFar
  <2>6. QED  BY <2>1, <2>4, <2>5, GrowStep
<1>4. QED  BY <1>1, <1>2, <1>3

LEMMA NameSteps ==
    ASSUME TokenizerInv, BeginName \/ GrowName \/ EndName
    PROVE  TokenizerInv'
<1>1. PICK c \in Chars \cup {EOF} : c = current_char
  BY DEF TokenizerInv, TokenizerTypeOK
<1>2. IsAlnum(c) => c \in Chars /\ c # EOF
  BY <1>1, TokenizerAssumption DEF IsAlnum, Chars, EOF
<1>3. IsAlpha(c) => IsAlnum(c)
  BY DEF IsAlpha, IsAlnum
<1>4. CASE BeginName
  <2> USE <1>4 DEF BeginName
  <2>1. c \in Chars /\ c # EOF /\ lexeme' = <<c>> /\ lexeme' \in Seq(Chars)
    BY <1>1, <1>2, <1>3
  <2>2. ASSUME NEW s \in Seq(Chars), SoFar(s) PROVE SoFar(Append(s, c))'
    <3>1. Append(s, c) = <<c>> /\ IsName(<<c>>)
      BY <1>1, <1>3, <2>2 DEF SoFar, IsName
    <3>2. QED  BY <2>1, <3>1 DEF SoFar
  <2>3. QED  BY <1>1, <2>1, <2>2, GrowStep
<1>5. CASE GrowName
  <2> USE <1>5 DEF GrowName
  <2>1. PICK lex \in Seq(Chars) : lex = lexeme
    BY DEF TokenizerInv, TokenizerTypeOK
  <2>2. /\ c \in Chars /\ c # EOF /\ IsAlnum(c) /\ scan' = "name"
        /\ lexeme' = Append(lex, c) /\ lexeme' \in Seq(Chars) /\ next_char
    BY <1>1, <1>2, <2>1, AppendProperties
  <2>3. ASSUME NEW s \in Seq(Chars), SoFar(s) PROVE SoFar(Append(s, c))'
    <3>1. s = lex /\ IsName(lex)
      BY <2>1, <2>3 DEF SoFar
    <3>2. IsName(Append(lex, c))
      <4>1. lex # <<>> /\ IsAlpha(lex[1]) /\ \A i \in DOMAIN lex : IsAlnum(lex[i])
        BY <3>1 DEF IsName
      <4>2. Len(lex) \in Nat \ {0} /\ DOMAIN lex = 1 .. Len(lex)
        BY <4>1, EmptySeq, LenProperties
      <4>3. PICK longer \in Seq(Chars) :
              /\ longer = Append(lex, c) /\ longer # <<>> /\ DOMAIN longer = 1 .. Len(lex) + 1
              /\ \A i \in 1 .. Len(lex) : longer[i] = lex[i]
              /\ longer[Len(lex) + 1] = c
        BY <2>2, AppendProperties, LenProperties
      <4>4. \A i \in DOMAIN longer : IsAlnum(longer[i])
        BY <2>2, <4>1, <4>2, <4>3
      <4>5. QED  BY <4>1, <4>2, <4>3, <4>4 DEF IsName
    <3>3. QED  BY <2>2, <3>1, <3>2 DEF SoFar
  <2>4. QED  BY <1>1, <2>2, <2>3, GrowStep
<1>6. CASE EndName
  <2> USE <1>6 DEF EndName
  <2>1. PICK lex \in Seq(Chars) : lex = lexeme
    BY DEF TokenizerInv, TokenizerTypeOK
  <2>2. \A s \in Seq(Chars) : SoFar(s) => Ready(s, lex, current_char)
    BY <2>1, NameReady DEF SoFar
  <2>3. QED  BY <2>1, <2>2, ReturnStep
<1>7. QED  BY <1>4, <1>5, <1>6

LEMMA NumberSteps ==
    ASSUME TokenizerInv, BeginNumber \/ GrowNumber \/ EndNumber
    PROVE  TokenizerInv'
<1>1. PICK c \in Chars \cup {EOF} : c = current_char
  BY DEF TokenizerInv, TokenizerTypeOK
<1>2. c \in Digits => c \in Chars /\ c # EOF
  BY <1>1, TokenizerAssumption DEF Chars
<1>3. CASE BeginNumber
  <2> USE <1>3 DEF BeginNumber
  <2>1. c \in Chars /\ c # EOF /\ lexeme' = <<c>> /\ lexeme' \in Seq(Chars)
    BY <1>1, <1>2
  <2>2. ASSUME NEW s \in Seq(Chars), SoFar(s) PROVE SoFar(Append(s, c))'
    <3>1. Append(s, c) = <<c>> /\ IsNumber(<<c>>)
      BY <1>1, <2>2 DEF SoFar, IsNumber
    <3>2. QED  BY <2>1, <3>1 DEF SoFar
  <2>3. QED  BY <1>1, <2>1, <2>2, GrowStep
<1>4. CASE GrowNumber
  <2> USE <1>4 DEF GrowNumber
  <2>1. PICK lex \in Seq(Chars) : lex = lexeme
    BY DEF TokenizerInv, TokenizerTypeOK
  <2>2. /\ c \in Chars /\ c # EOF /\ c \in Digits /\ scan' = "number"
        /\ lexeme' = Append(lex, c) /\ lexeme' \in Seq(Chars) /\ next_char
    BY <1>1, <1>2, <2>1, AppendProperties
  <2>3. ASSUME NEW s \in Seq(Chars), SoFar(s) PROVE SoFar(Append(s, c))'
    <3>1. s = lex /\ IsNumber(lex)
      BY <2>1, <2>3 DEF SoFar
    <3>2. IsNumber(Append(lex, c))
      <4>1. Len(lex) \in Nat /\ DOMAIN lex = 1 .. Len(lex) /\ \A i \in DOMAIN lex : lex[i] \in Digits
        BY <3>1, LenProperties DEF IsNumber
      <4>2. PICK longer \in Seq(Chars) :
              /\ longer = Append(lex, c) /\ longer # <<>> /\ DOMAIN longer = 1 .. Len(lex) + 1
              /\ \A i \in 1 .. Len(lex) : longer[i] = lex[i]
              /\ longer[Len(lex) + 1] = c
        BY <2>2, AppendProperties, LenProperties
      <4>3. \A i \in DOMAIN longer : longer[i] \in Digits
        BY <2>2, <4>1, <4>2
      <4>4. QED  BY <4>2, <4>3 DEF IsNumber
    <3>3. QED  BY <2>2, <3>1, <3>2 DEF SoFar
  <2>4. QED  BY <1>1, <2>2, <2>3, GrowStep
<1>5. CASE EndNumber
  <2> USE <1>5 DEF EndNumber
  <2>1. PICK lex \in Seq(Chars) : lex = lexeme
    BY DEF TokenizerInv, TokenizerTypeOK
  <2>2. PICK t \in atoi(lex) : Return_token(t)
    BY <2>1
  <2>3. \A s \in Seq(Chars) : SoFar(s) => Ready(s, t, current_char)
    BY <2>1, <2>2, NumberReady DEF SoFar
  <2>4. QED  BY <2>2, <2>3, ReturnStep
<1>6. QED  BY <1>3, <1>4, <1>5

------------------------------------------------------------------------------
LEMMA InvImpliesMeaning == TokenizerInv => TokensMeanText
<1> SUFFICES ASSUME TokenizerInv, scan = "ready"
             PROVE  \E n \in 0 .. Len(since) :
                      LET s == SubSeq(since, n + 1, Len(since))
                      IN  /\ \A i \in 1 .. n : since[i] = Blank
                          /\ Ready(s, token, current_char)
  BY DEF TokensMeanText, Ready
<1>1. PICK b \in Seq({Blank}), s \in Seq(Chars) : since = b \o s /\ SoFar(s)
  BY DEF TokenizerInv
<1>2. b \in Seq(Chars)
  BY BlankChar
<1>3. /\ Len(b) \in Nat /\ Len(s) \in Nat /\ Len(since) = Len(b) + Len(s)
      /\ since \in Seq(Chars)
      /\ \A i \in 1 .. Len(b) + Len(s) :
           since[i] = IF i <= Len(b) THEN b[i] ELSE s[i - Len(b)]
  BY <1>1, <1>2, ConcatProperties, LenProperties
<1>4. \A i \in 1 .. Len(b) : since[i] = Blank
  <2>1. \A i \in 1 .. Len(b) : b[i] = Blank
    BY ElementOfSeq
  <2>2. QED  BY <1>3, <2>1
<1>5. SubSeq(since, Len(b) + 1, Len(since)) = s
  <2>1. PICK t : t = SubSeq(since, Len(b) + 1, Len(since))
    OBVIOUS
  <2>2. \A i \in Len(b) + 1 .. Len(since) : since[i] \in Chars
    BY <1>3, ElementOfSeq
  <2>3. /\ t \in Seq(Chars) /\ Len(t) = Len(s)
        /\ \A i \in 1 .. Len(s) : t[i] = since[Len(b) + i]
    BY <1>3, <2>1, <2>2
  <2>4. ASSUME NEW i \in 1 .. Len(s) PROVE t[i] = s[i]
    <3>1. /\ Len(b) + i \in 1 .. Len(b) + Len(s) /\ ~(Len(b) + i <= Len(b))
          /\ (Len(b) + i) - Len(b) = i
      BY <1>3
    <3>2. QED  BY <1>3, <2>3, <3>1
  <2>5. QED  BY <2>1, <2>3, <2>4, SeqEqual
<1>6. Ready(s, token, current_char)
  BY <1>1 DEF SoFar
<1>7. Len(b) \in 0 .. Len(since)
  BY <1>3
<1>8. QED  BY <1>4, <1>5, <1>6, <1>7

(***************************************************************************)
(* Whatever the text and however long, and whenever a parser asks for a    *)
(* token: no character is lost or belongs to two tokens, no token stops    *)
(* before its last character, and a number denotes the int of its token,   *)
(* or no int at all (iterator_tokenizer.h:129-171).                        *)
(***************************************************************************)
THEOREM TextIsItsTokens == TokenizerSpec => []TokensMeanText
<1>1. TokenizerInit => TokenizerInv
  BY InitStep
<1>2. ASSUME TokenizerInv,
             [TokenizerNext \/ (scan = "ready" /\ Call_next_token)]_tokenizerVars
      PROVE  TokenizerInv'
  <2>1. CASE UNCHANGED tokenizerVars
    BY <1>2, <2>1
       DEF tokenizerVars, TokenizerInv, TokenizerTypeOK, SoFar, Ready
  <2>2. CASE TokenizerNext
    BY <1>2, <2>2, SkipBlankStep, OneCharTokenStep, NewLineSteps, LiteralSteps,
       NameSteps, NumberSteps DEF TokenizerNext
  <2>3. QED  BY <1>2, <2>1, <2>2, CallStep
<1>3. QED  BY <1>1, <1>2, InvImpliesMeaning, PTL DEF TokenizerSpec

------------------------------------------------------------------------------
(***************************************************************************)
(* Counting the brackets of a text.                                        *)
(***************************************************************************)
LEMMA LeastOf ==
    ASSUME NEW T \in SUBSET Nat, T # {}
    PROVE  \E m \in T : \A k \in T : m <= k
<1> DEFINE Below == OpToRel(<, Nat)
<1>1. \A x, y \in Nat : <<y, x>> \in Below <=> y < x
  BY DEF OpToRel
<1>2. IsWellFoundedOn(Below, Nat)
  BY NatLessThanWellFounded
<1> HIDE DEF Below
<1>3. PICK x \in T : \A y \in T : <<y, x>> \notin Below
  BY <1>2, WFMin
<1>4. ASSUME NEW y \in T PROVE x <= y
  <2>1. ~ (y < x)
    BY <1>1, <1>3
  <2>2. QED  BY <2>1
<1>5. QED  BY <1>4

LEMMA LastOf ==
    ASSUME NEW n \in Nat, NEW T \in SUBSET (1 .. n), T # {}
    PROVE  Last(T) \in T /\ \A k \in T : k <= Last(T)
<1> DEFINE U == {n - k : k \in T}
<1>1. U \in SUBSET Nat /\ U # {}
  <2>1. PICK k : k \in T
    OBVIOUS
  <2>2. n - k \in U
    BY <2>1
  <2>3. \A k1 \in T : n - k1 \in Nat
    OBVIOUS
  <2>4. QED  BY <2>2, <2>3
<1>2. PICK x \in U : \A y \in U : x <= y
  <2> HIDE DEF U
  <2>1. QED  BY <1>1, LeastOf
<1>3. PICK m \in T : x = n - m
  OBVIOUS
<1>4. \A k \in T : n - m <= n - k
  BY <1>2, <1>3
<1>5. ASSUME NEW k \in T PROVE k <= m
  <2>1. k \in 1 .. n /\ m \in 1 .. n /\ n - m <= n - k
    BY <1>4
  <2>2. QED  BY <2>1
<1>6. QED  BY <1>5 DEF Last

------------------------------------------------------------------------------
(* Counting tokens.                                                        *)
LEMMA CountNone ==
    ASSUME NEW u, NEW x
    PROVE  Count(u, 0, x) = 0
BY FS_EmptySet DEF Count

LEMMA CountStep ==
    ASSUME NEW u, NEW x, NEW i \in Nat
    PROVE  /\ Count(u, i, x) \in Nat
           /\ Count(u, i + 1, x) = Count(u, i, x) + (IF u[i + 1] = x THEN 1 ELSE 0)
<1> DEFINE S(k) == {j \in 1 .. k : u[j] = x}
<1>1. IsFiniteSet(1 .. i) /\ S(i) \in SUBSET (1 .. i)
  BY FS_Interval
<1>2. IsFiniteSet(S(i)) /\ Cardinality(S(i)) \in Nat
  BY <1>1, FS_Subset, FS_CardinalityType
<1>3. Count(u, i, x) = Cardinality(S(i)) /\ Count(u, i + 1, x) = Cardinality(S(i + 1))
  BY DEF Count
<1>4. CASE u[i + 1] = x
  <2>1. S(i + 1) = S(i) \cup {i + 1} /\ i + 1 \notin S(i)
    BY <1>4
  <2>2. Cardinality(S(i) \cup {i + 1}) = Cardinality(S(i)) + 1
    <3>1. i + 1 \notin S(i)
      BY <2>1
    <3> HIDE DEF S
    <3>2. QED  BY <1>2, <3>1, FS_AddElement
  <2>3. QED  BY <1>2, <1>3, <1>4, <2>1, <2>2
<1>5. CASE u[i + 1] # x
  <2>1. S(i + 1) = S(i)
    BY <1>5
  <2>2. QED  BY <1>2, <1>3, <1>5, <2>1
<1>6. QED  BY <1>4, <1>5

LEMMA CountSame ==
    ASSUME NEW u, NEW v, NEW x, NEW n \in Nat, \A j \in 1 .. n : u[j] = v[j]
    PROVE  Count(u, n, x) = Count(v, n, x)
<1>1. {j \in 1 .. n : u[j] = x} = {j \in 1 .. n : v[j] = x}
  OBVIOUS
<1>2. QED  BY <1>1 DEF Count

LEMMA CountBehind ==
    ASSUME NEW u, NEW v, NEW x, NEW m \in Nat, NEW n \in Nat,
           \A j \in 1 .. n : u[m + j] = v[j]
    PROVE  Count(u, m + n, x) = Count(u, m, x) + Count(v, n, x)
<1> DEFINE Wrong == {k \in Nat : k <= n /\ Count(u, m + k, x) # Count(u, m, x) + Count(v, k, x)}
<1>1. ASSUME Wrong # {} PROVE FALSE
  <2>1. PICK k \in Wrong : \A l \in Wrong : k <= l
    <3>1. Wrong \in SUBSET Nat
      OBVIOUS
    <3> HIDE DEF Wrong
    <3>2. QED  BY <1>1, <3>1, LeastOf
  <2>2. k \in Nat /\ k <= n /\ Count(u, m + k, x) # Count(u, m, x) + Count(v, k, x)
    OBVIOUS
  <2>3. k # 0
    <3>1. Count(v, 0, x) = 0 /\ Count(u, m, x) \in Nat /\ m + 0 = m
      BY CountNone, CountStep
    <3>2. QED  BY <2>2, <3>1
  <2>4. PICK l \in Nat : k = l + 1
    BY <2>2, <2>3, k - 1 \in Nat
  <2>5. l \notin Wrong
    <3>1. ~ (k <= l)
      BY <2>4
    <3> HIDE DEF Wrong
    <3>2. QED  BY <2>1, <3>1
  <2>6. Count(u, m + l, x) = Count(u, m, x) + Count(v, l, x)
    BY <2>2, <2>4, <2>5
  <2>7. m + k = (m + l) + 1 /\ u[m + k] = v[k] /\ m + l \in Nat
    BY <2>2, <2>4
  <2>8. /\ Count(u, m + k, x) = Count(u, m + l, x) + (IF u[m + k] = x THEN 1 ELSE 0)
        /\ Count(v, k, x) = Count(v, l, x) + (IF v[k] = x THEN 1 ELSE 0)
        /\ Count(u, m, x) \in Nat /\ Count(v, l, x) \in Nat
    BY <2>4, <2>7, CountStep
  <2>9. QED  BY <2>2, <2>6, <2>7, <2>8
<1>2. n \notin Wrong
  BY <1>1
<1>3. QED  BY <1>2

(* How deep in brackets a position of a text is.                           *)
\* How many brackets are open after i tokens, and that each has its other one.
Depth(u, i) == Count(u, i, Open) - Count(u, i, Close)
Turn(t)     == IF t = Open THEN 1 ELSE IF t = Close THEN -1 ELSE 0
Balanced(u) == Depth(u, Len(u)) = 0 /\ \A i \in 0 .. Len(u) : Depth(u, i) >= 0

LEMMA DepthType ==
    ASSUME NEW u, NEW i \in Nat
    PROVE  /\ Depth(u, i) \in Int /\ Depth(u, 0) = 0
           /\ Outside(u, i) <=> Depth(u, i) = 0
           /\ Depth(u, i + 1) = Depth(u, i) + Turn(u[i + 1])
<1>1. Open # Close
  BY DEF Open, Close
<1>2. /\ Count(u, i, Open) \in Nat /\ Count(u, i, Close) \in Nat
      /\ Count(u, 0, Open) = 0 /\ Count(u, 0, Close) = 0
      /\ Count(u, i + 1, Open) = Count(u, i, Open) + (IF u[i + 1] = Open THEN 1 ELSE 0)
      /\ Count(u, i + 1, Close) = Count(u, i, Close) + (IF u[i + 1] = Close THEN 1 ELSE 0)
  BY CountNone, CountStep
<1>3. Depth(u, i) \in Int /\ Depth(u, 0) = 0 /\ (Outside(u, i) <=> Depth(u, i) = 0)
  BY <1>2 DEF Depth, Outside
<1>4. Depth(u, i + 1) = Depth(u, i) + Turn(u[i + 1])
  <2>1. CASE u[i + 1] = Open
    BY <1>1, <1>2, <2>1 DEF Depth, Turn
  <2>2. CASE u[i + 1] = Close
    BY <1>1, <1>2, <2>2 DEF Depth, Turn
  <2>3. CASE u[i + 1] # Open /\ u[i + 1] # Close
    BY <1>2, <2>3 DEF Depth, Turn
  <2>4. QED  BY <2>1, <2>2, <2>3
<1>5. QED  BY <1>3, <1>4

LEMMA DepthBehind ==
    ASSUME NEW u, NEW v, NEW m \in Nat, NEW n \in Nat, \A j \in 1 .. n : u[m + j] = v[j]
    PROVE  Depth(u, m + n) = Depth(u, m) + Depth(v, n)
<1>1. /\ Count(u, m, Open) \in Nat /\ Count(u, m, Close) \in Nat
      /\ Count(v, n, Open) \in Nat /\ Count(v, n, Close) \in Nat
  BY CountStep
<1>2. /\ Count(u, m + n, Open) = Count(u, m, Open) + Count(v, n, Open)
      /\ Count(u, m + n, Close) = Count(u, m, Close) + Count(v, n, Close)
  BY CountBehind
<1>3. QED  BY <1>1, <1>2 DEF Depth
LEMMA DepthSame ==
    ASSUME NEW u, NEW v, NEW n \in Nat, \A j \in 1 .. n : u[j] = v[j]
    PROVE  Depth(u, n) = Depth(v, n)
BY CountSame DEF Depth

------------------------------------------------------------------------------
(***************************************************************************)
(* The brackets and operators of a composed text are those of its parts.   *)
(***************************************************************************)
Texts == Seq(Alphabet)

\* A text of two texts with a token between, and one of a text in brackets.
Joined(t, l, o, r) ==
    /\ Len(t) = Len(l) + 1 + Len(r) /\ t[Len(l) + 1] = o
    /\ \A i \in 1 .. Len(l) : t[i] = l[i]
    /\ \A i \in 1 .. Len(r) : t[Len(l) + 1 + i] = r[i]

Wrapped(t, e) ==
    /\ Len(t) = Len(e) + 2 /\ t[1] = Open /\ t[Len(e) + 2] = Close
    /\ \A i \in 1 .. Len(e) : t[1 + i] = e[i]

LEMMA JoinedDepth ==
    ASSUME NEW t \in Texts, NEW l \in Texts, NEW o, NEW r \in Texts, Joined(t, l, o, r),
           Turn(o) = 0, Balanced(l), Balanced(r)
    PROVE  /\ Balanced(t)
           /\ \A i \in 0 .. Len(l) : Depth(t, i) = Depth(l, i)
           /\ Depth(t, Len(l) + 1) = 0
           /\ \A i \in 0 .. Len(r) : Depth(t, Len(l) + 1 + i) = Depth(r, i)
<1>1. PICK m, n \in Nat : m = Len(l) /\ n = Len(r)
  BY LenProperties DEF Texts
<1>2. /\ Len(t) = m + 1 + n /\ t[m + 1] = o
      /\ \A i \in 1 .. m : t[i] = l[i]
      /\ \A i \in 1 .. n : t[m + 1 + i] = r[i]
  BY <1>1 DEF Joined
<1>3. \A i \in 0 .. m : Depth(t, i) = Depth(l, i)
  BY <1>2, DepthSame
<1>4. /\ Depth(l, m) = 0 /\ \A i \in 0 .. m : Depth(l, i) >= 0
      /\ Depth(r, n) = 0 /\ \A i \in 0 .. n : Depth(r, i) >= 0
  BY <1>1 DEF Balanced
<1>5. Depth(t, m + 1) = 0
  <2>1. Depth(t, m) = 0
    BY <1>3, <1>4
  <2>2. Depth(t, m + 1) = Depth(t, m) + Turn(t[m + 1])
    BY DepthType
  <2>3. QED  BY <1>2, <2>1, <2>2
<1>6. ASSUME NEW i \in 0 .. n PROVE Depth(t, m + 1 + i) = Depth(r, i)
  <2>1. PICK p \in Nat : p = m + 1
    OBVIOUS
  <2>2. \A j \in 1 .. i : t[p + j] = r[j]
    BY <1>2, <2>1
  <2>3. Depth(t, p + i) = Depth(t, p) + Depth(r, i)
    BY <2>2, DepthBehind
  <2>4. Depth(r, i) \in Int
    BY DepthType
  <2>5. QED  BY <1>5, <2>1, <2>3, <2>4
<1>7. Balanced(t)
  <2>1. Depth(t, Len(t)) = 0
    BY <1>2, <1>4, <1>6
  <2>2. ASSUME NEW i \in 0 .. Len(t) PROVE Depth(t, i) >= 0
    <3>1. CASE i <= m
      BY <1>3, <1>4, <3>1
    <3>2. CASE i > m
      <4>1. i - (m + 1) \in 0 .. n /\ i = m + 1 + (i - (m + 1))
        BY <1>2, <3>2
      <4>2. QED  BY <1>4, <1>6, <4>1
    <3>3. QED  BY <1>2, <3>1, <3>2
  <2>3. QED  BY <2>1, <2>2 DEF Balanced
<1>8. QED  BY <1>1, <1>3, <1>5, <1>6, <1>7

LEMMA JoinedSplits ==
    ASSUME NEW t \in Texts, NEW l \in Texts, NEW o, NEW r \in Texts, Joined(t, l, o, r),
           Turn(o) = 0, Balanced(l), Balanced(r), NEW ops, NEW i \in Nat
    PROVE  i \in Splits(t, ops) <=>
              \/ i \in Splits(l, ops)
              \/ i = Len(l) + 1 /\ o \in ops
              \/ i - (Len(l) + 1) \in Splits(r, ops)
<1>1. PICK m, n \in Nat : m = Len(l) /\ n = Len(r)
  BY LenProperties DEF Texts
<1>2. /\ Len(t) = m + 1 + n /\ t[m + 1] = o
      /\ \A k \in 1 .. m : t[k] = l[k]
      /\ \A k \in 1 .. n : t[m + 1 + k] = r[k]
  BY <1>1 DEF Joined
<1>3. /\ DOMAIN t = 1 .. m + 1 + n /\ DOMAIN l = 1 .. m /\ DOMAIN r = 1 .. n
  BY <1>1, <1>2, LenProperties DEF Texts
<1>4. /\ \A k \in 0 .. m : Depth(t, k) = Depth(l, k)
      /\ Depth(t, m + 1) = 0
      /\ \A k \in 0 .. n : Depth(t, m + 1 + k) = Depth(r, k)
  BY <1>1, JoinedDepth
<1>5. /\ i \in Splits(t, ops) <=> i \in 1 .. m + 1 + n /\ t[i] \in ops /\ Depth(t, i) = 0
      /\ i \in Splits(l, ops) <=> i \in 1 .. m /\ l[i] \in ops /\ Depth(l, i) = 0
  BY <1>3, DepthType DEF Splits
<1>6. i - (m + 1) \in Splits(r, ops) <=>
         /\ i - (m + 1) \in 1 .. n
         /\ r[i - (m + 1)] \in ops /\ Depth(r, i - (m + 1)) = 0
  <2>1. \A k \in 1 .. n : Outside(r, k) <=> Depth(r, k) = 0
    BY DepthType
  <2>2. QED  BY <1>3, <2>1 DEF Splits
<1>7. CASE i <= m
  BY <1>1, <1>2, <1>4, <1>5, <1>6, <1>7
<1>8. CASE i = m + 1
  <2>1. ~ (i \in 1 .. m) /\ ~ (i - (m + 1) \in 1 .. n) /\ i \in 1 .. m + 1 + n
    BY <1>8
  <2>2. QED  BY <1>1, <1>2, <1>4, <1>5, <1>6, <1>8, <2>1
<1>9. CASE i > m + 1
  <2>1. PICK k \in Nat : k = i - (m + 1) /\ i = m + 1 + k /\ k # 0
    BY <1>9
  <2>2. k \in 1 .. n <=> i \in 1 .. m + 1 + n
    BY <2>1
  <2>3. ~ (i \in 1 .. m) /\ i # m + 1
    BY <1>9
  <2>4. k \in 1 .. n => t[i] = r[k] /\ Depth(t, i) = Depth(r, k)
    BY <1>2, <1>4, <2>1
  <2>5. QED  BY <1>1, <1>5, <1>6, <2>1, <2>2, <2>3, <2>4
<1>10. QED  BY <1>7, <1>8, <1>9

LEMMA JoinedParts ==
    ASSUME NEW t \in Texts, NEW l \in Texts, NEW o, NEW r \in Texts, Joined(t, l, o, r)
    PROVE  Left(t, Len(l) + 1) = l /\ Right(t, Len(l) + 1) = r
<1>1. PICK m, n \in Nat : m = Len(l) /\ n = Len(r)
  BY LenProperties DEF Texts
<1>2. /\ Len(t) = m + 1 + n /\ \A k \in 1 .. m + 1 + n : t[k] \in Alphabet
      /\ \A k \in 1 .. m : t[k] = l[k]
      /\ \A k \in 1 .. n : t[m + 1 + k] = r[k]
  BY <1>1, ElementOfSeq DEF Joined, Texts
<1>3. Left(t, m + 1) = l
  <2>1. PICK u : u = SubSeq(t, 1, m)
    OBVIOUS
  <2>2. u \in Texts /\ Len(u) = m /\ \A i \in 1 .. m : u[i] = t[i]
    <3>1. \A i \in 1 .. m : t[i] \in Alphabet
      BY <1>2
    <3>2. /\ SubSeq(t, 1, m) \in Seq(Alphabet)
          /\ Len(SubSeq(t, 1, m)) = IF 1 <= m THEN m - 1 + 1 ELSE 0
          /\ \A i \in 1 .. m - 1 + 1 : SubSeq(t, 1, m)[i] = t[1 + i - 1]
      BY <3>1, SubSeqProperties
    <3>3. QED  BY <2>1, <3>2 DEF Texts
  <2>3. u = l
    BY <1>1, <1>2, <2>2, SeqEqual DEF Texts
  <2>4. QED  BY <2>1, <2>3 DEF Left
<1>4. Right(t, m + 1) = r
  <2>1. PICK u : u = SubSeq(t, m + 2, m + 1 + n)
    OBVIOUS
  <2>2. u \in Texts /\ Len(u) = n /\ \A i \in 1 .. n : u[i] = t[m + 1 + i]
    <3>1. \A i \in m + 2 .. m + 1 + n : t[i] \in Alphabet
      BY <1>2
    <3>2. /\ SubSeq(t, m + 2, m + 1 + n) \in Seq(Alphabet)
          /\ Len(SubSeq(t, m + 2, m + 1 + n)) =
                IF m + 2 <= m + 1 + n THEN m + 1 + n - (m + 2) + 1 ELSE 0
          /\ \A i \in 1 .. m + 1 + n - (m + 2) + 1 :
                SubSeq(t, m + 2, m + 1 + n)[i] = t[m + 2 + i - 1]
      BY <3>1, SubSeqProperties
    <3>3. m + 1 + n - (m + 2) + 1 = n /\ \A i \in 1 .. n : m + 2 + i - 1 = m + 1 + i
      OBVIOUS
    <3>4. QED  BY <2>1, <3>2, <3>3 DEF Texts
  <2>3. u = r
    BY <1>1, <1>2, <2>2, SeqEqual DEF Texts
  <2>4. m + 1 + 1 = m + 2
    OBVIOUS
  <2>5. QED  BY <1>2, <2>1, <2>3, <2>4 DEF Right
<1>5. QED  BY <1>1, <1>3, <1>4

LEMMA WrappedDepth ==
    ASSUME NEW t \in Texts, NEW e \in Texts, Wrapped(t, e), Balanced(e)
    PROVE  Balanced(t) /\ \A i \in 1 .. Len(e) + 1 : Depth(t, i) > 0
<1>1. PICK n \in Nat : n = Len(e)
  BY LenProperties DEF Texts
<1>2. /\ Len(t) = n + 2 /\ t[1] = Open /\ t[n + 2] = Close
      /\ \A i \in 1 .. n : t[1 + i] = e[i]
  BY <1>1 DEF Wrapped
<1>3. Depth(t, 0) = 0 /\ Depth(t, 1) = 1
  <2>1. Depth(t, 0 + 1) = Depth(t, 0) + Turn(t[0 + 1]) /\ Depth(t, 0) = 0
    BY DepthType
  <2>2. QED  BY <1>2, <2>1 DEF Turn
<1>4. ASSUME NEW i \in 0 .. n PROVE Depth(t, 1 + i) = 1 + Depth(e, i)
  <2>1. i \in Nat /\ \A j \in 1 .. i : t[1 + j] = e[j]
    BY <1>2
  <2>2. QED  BY <1>3, <2>1, DepthBehind
<1>5. Depth(e, n) = 0 /\ \A i \in 0 .. n : Depth(e, i) >= 0 /\ Depth(e, i) \in Int
  BY <1>1, DepthType DEF Balanced
<1>6. ASSUME NEW i \in 1 .. n + 1 PROVE Depth(t, i) > 0
  <2>1. i - 1 \in 0 .. n /\ i = 1 + (i - 1)
    OBVIOUS
  <2>2. QED  BY <1>4, <1>5, <2>1
<1>7. Depth(t, n + 2) = 0
  <2>1. Depth(t, (1 + n) + 1) = Depth(t, 1 + n) + Turn(t[(1 + n) + 1])
    BY DepthType
  <2>2. Depth(t, 1 + n) = 1
    BY <1>4, <1>5
  <2>3. (1 + n) + 1 = n + 2 /\ Turn(Close) = -1
    BY DEF Turn, Open, Close
  <2>4. QED  BY <1>2, <2>1, <2>2, <2>3
<1>8. Balanced(t)
  <2>1. ASSUME NEW i \in 0 .. n + 2 PROVE Depth(t, i) >= 0
    <3>1. i = 0 \/ i = n + 2 \/ i \in 1 .. n + 1
      OBVIOUS
    <3>2. CASE i \in 1 .. n + 1
      <4>1. Depth(t, i) > 0 /\ Depth(t, i) \in Int
        BY <1>6, <3>2, DepthType
      <4>2. QED  BY <4>1
    <3>3. QED  BY <1>3, <1>7, <3>1, <3>2
  <2>2. QED  BY <1>2, <1>7, <2>1 DEF Balanced
<1>9. QED  BY <1>1, <1>6, <1>8

LEMMA WrappedSplits ==
    ASSUME NEW t \in Texts, NEW e \in Texts, Wrapped(t, e), Balanced(e),
           NEW ops, Close \notin ops
    PROVE  Splits(t, ops) = {}
<1>1. PICK n \in Nat : n = Len(e)
  BY LenProperties DEF Texts
<1>2. Len(t) = n + 2 /\ t[n + 2] = Close /\ DOMAIN t = 1 .. n + 2
  BY <1>1, LenProperties DEF Wrapped, Texts
<1>3. SUFFICES ASSUME NEW i \in 1 .. n + 2, t[i] \in ops, Outside(t, i) PROVE FALSE
  BY <1>2 DEF Splits
<1>4. i \in 1 .. n + 1
  BY <1>2, <1>3
<1>5. Depth(t, i) > 0
  BY <1>1, <1>4, WrappedDepth
<1>6. Depth(t, i) = 0
  BY <1>3, DepthType
<1>7. QED  BY <1>5, <1>6

LEMMA WrappedPart ==
    ASSUME NEW t \in Texts, NEW e \in Texts, Wrapped(t, e)
    PROVE  Inner(t) = e
<1>1. PICK n \in Nat : n = Len(e)
  BY LenProperties DEF Texts
<1>2. /\ Len(t) = n + 2 /\ \A k \in 1 .. n + 2 : t[k] \in Alphabet
      /\ \A k \in 1 .. n : t[1 + k] = e[k]
  BY <1>1, ElementOfSeq DEF Wrapped, Texts
<1>3. PICK u : u = SubSeq(t, 2, n + 1)
  OBVIOUS
<1>4. u \in Texts /\ Len(u) = n /\ \A i \in 1 .. n : u[i] = t[1 + i]
  <2>1. \A i \in 2 .. n + 1 : t[i] \in Alphabet
    BY <1>2
  <2>2. /\ SubSeq(t, 2, n + 1) \in Seq(Alphabet)
        /\ Len(SubSeq(t, 2, n + 1)) = IF 2 <= n + 1 THEN n + 1 - 2 + 1 ELSE 0
        /\ \A i \in 1 .. n + 1 - 2 + 1 : SubSeq(t, 2, n + 1)[i] = t[2 + i - 1]
    BY <2>1, SubSeqProperties
  <2>3. n + 1 - 2 + 1 = n /\ \A i \in 1 .. n : 2 + i - 1 = 1 + i
    OBVIOUS
  <2>4. QED  BY <1>3, <2>2, <2>3 DEF Texts
<1>5. u = e
  BY <1>1, <1>2, <1>4, SeqEqual DEF Texts
<1>6. n + 2 - 1 = n + 1
  OBVIOUS
<1>7. QED  BY <1>2, <1>3, <1>5, <1>6 DEF Inner

------------------------------------------------------------------------------
(***************************************************************************)
(* The grammar is a recursive function on texts, whose parts are shorter. It *)
(* solves its own equation: solutions for the texts up to a length agree and *)
(* extend one another, and there is no least length without one.           *)
(***************************************************************************)
LEMMA PartOf ==
    ASSUME NEW t \in Texts, NEW a \in Nat, NEW b \in Nat, 1 <= a, a <= b + 1, b <= Len(t)
    PROVE  /\ SubSeq(t, a, b) \in Texts /\ Len(SubSeq(t, a, b)) = b - a + 1
           /\ \A i \in 1 .. b - a + 1 : SubSeq(t, a, b)[i] = t[a + i - 1]
<1>1. Len(t) \in Nat
  BY LenProperties DEF Texts
<1>2. \A i \in a .. b : t[i] \in Alphabet
  BY <1>1, ElementOfSeq DEF Texts
<1>3. /\ SubSeq(t, a, b) \in Seq(Alphabet)
      /\ Len(SubSeq(t, a, b)) = IF a <= b THEN b - a + 1 ELSE 0
      /\ \A i \in 1 .. b - a + 1 : SubSeq(t, a, b)[i] = t[a + i - 1]
  BY <1>2, SubSeqProperties
<1>4. QED  BY <1>3 DEF Texts

\* The parts a text is split in.
LEMMA SplitParts ==
    ASSUME NEW t \in Texts, SplitAt(t) # {}, NEW i, i = Last(SplitAt(t))
    PROVE  /\ i \in 1 .. Len(t) /\ t[i] \in Ops
           /\ Left(t, i) \in Texts /\ Len(Left(t, i)) = i - 1
           /\ Right(t, i) \in Texts /\ Len(Right(t, i)) = Len(t) - i
           /\ Joined(t, Left(t, i), t[i], Right(t, i))
<1>1. PICK n \in Nat : n = Len(t) /\ DOMAIN t = 1 .. n
  BY LenProperties DEF Texts
<1>2. SplitAt(t) \in SUBSET (1 .. n) /\ \A j \in SplitAt(t) : t[j] \in Ops
  BY <1>1 DEF SplitAt, Splits, Ops
<1>3. i \in 1 .. n /\ t[i] \in Ops
  <2>1. Last(SplitAt(t)) \in SplitAt(t)
    BY <1>2, LastOf
  <2>2. QED  BY <1>2, <2>1
<1>4. /\ Left(t, i) \in Texts /\ Len(Left(t, i)) = i - 1
      /\ \A k \in 1 .. i - 1 : Left(t, i)[k] = t[k]
  <2>1. PICK b \in Nat : b = i - 1
    BY <1>3
  <2>2. /\ SubSeq(t, 1, b) \in Texts /\ Len(SubSeq(t, 1, b)) = b - 1 + 1
        /\ \A k \in 1 .. b - 1 + 1 : SubSeq(t, 1, b)[k] = t[1 + k - 1]
    BY <1>1, <1>3, <2>1, PartOf
  <2>3. b - 1 + 1 = b /\ \A k \in 1 .. b : 1 + k - 1 = k
    OBVIOUS
  <2>4. QED  BY <2>1, <2>2, <2>3 DEF Left
<1>5. /\ Right(t, i) \in Texts /\ Len(Right(t, i)) = n - i
      /\ \A k \in 1 .. n - i : Right(t, i)[k] = t[i + k]
  <2>1. PICK a \in Nat : a = i + 1
    BY <1>3
  <2>2. /\ SubSeq(t, a, n) \in Texts /\ Len(SubSeq(t, a, n)) = n - a + 1
        /\ \A k \in 1 .. n - a + 1 : SubSeq(t, a, n)[k] = t[a + k - 1]
    BY <1>1, <1>3, <2>1, PartOf
  <2>3. n - a + 1 = n - i /\ \A k \in 1 .. n - i : a + k - 1 = i + k
    BY <1>3, <2>1
  <2>4. QED  BY <1>1, <2>1, <2>2, <2>3 DEF Right
<1>6. Joined(t, Left(t, i), t[i], Right(t, i))
  <2>1. PICK l, r : l = Left(t, i) /\ r = Right(t, i)
    OBVIOUS
  <2>2. /\ Len(l) = i - 1 /\ \A k \in 1 .. i - 1 : l[k] = t[k]
        /\ Len(r) = n - i /\ \A k \in 1 .. n - i : r[k] = t[i + k]
    BY <1>4, <1>5, <2>1
  <2>3. n = Len(l) + 1 + Len(r) /\ Len(l) + 1 = i
    BY <1>3, <2>2
  <2>4. Joined(t, l, t[i], r)
    BY <1>1, <2>2, <2>3 DEF Joined
  <2>5. QED  BY <2>1, <2>4
<1>7. QED  BY <1>1, <1>3, <1>4, <1>5, <1>6

LEMMA BracketPart ==
    ASSUME NEW t \in Texts, Bracketed(t)
    PROVE  /\ Inner(t) \in Texts /\ Len(Inner(t)) = Len(t) - 2 /\ Len(t) > 2
           /\ Wrapped(t, Inner(t))
<1>1. PICK n \in Nat : n = Len(t) /\ n > 2 /\ t[1] = Open /\ t[n] = Close
  BY LenProperties DEF Texts, Bracketed
<1>2. PICK b \in Nat : b = n - 1
  BY <1>1
<1>3. PICK u : u = SubSeq(t, 2, b)
  OBVIOUS
<1>4. /\ u \in Texts /\ Len(u) = b - 2 + 1 /\ \A k \in 1 .. b - 2 + 1 : u[k] = t[2 + k - 1]
  BY <1>1, <1>2, <1>3, PartOf
<1>5. b - 2 + 1 = n - 2 /\ \A k \in 1 .. n - 2 : 2 + k - 1 = 1 + k
  BY <1>1, <1>2
<1>6. Inner(t) = u
  BY <1>1, <1>2, <1>3 DEF Inner
<1>7. Wrapped(t, u)
  BY <1>1, <1>4, <1>5 DEF Wrapped
<1>8. QED  BY <1>1, <1>4, <1>5, <1>6, <1>7

------------------------------------------------------------------------------
\* Grammar solves its equation: parts of a text are shorter.
Spelled(f, t) ==
  IF SplitAt(t) # {}
  THEN LET i == Last(SplitAt(t))
       IN  {Binary(t[i], l, r) : l \in f[Left(t, i)], r \in f[Right(t, i)]}
  ELSE IF Len(t) = 1 THEN {Leaf(x) : x \in {t[1]} \cap Operands}
  ELSE IF Bracketed(t) THEN f[Inner(t)] ELSE {}

GrammarEquation(f) == f = [t \in Seq(Alphabet) |-> Spelled(f, t)]

LEMMA SpelledLocal ==
    ASSUME NEW f, NEW g, NEW t \in Texts, \A u \in Texts : Len(u) < Len(t) => f[u] = g[u]
    PROVE  Spelled(f, t) = Spelled(g, t)
<1>1. Len(t) \in Nat
  BY LenProperties DEF Texts
<1>2. CASE SplitAt(t) # {}
  <2>1. PICK i : i = Last(SplitAt(t))
    OBVIOUS
  <2>2. f[Left(t, i)] = g[Left(t, i)] /\ f[Right(t, i)] = g[Right(t, i)]
    <3>1. /\ i \in 1 .. Len(t)
          /\ Left(t, i) \in Texts /\ Len(Left(t, i)) = i - 1
          /\ Right(t, i) \in Texts /\ Len(Right(t, i)) = Len(t) - i
      BY <1>2, <2>1, SplitParts
    <3>2. Len(Left(t, i)) < Len(t) /\ Len(Right(t, i)) < Len(t)
      BY <1>1, <3>1
    <3>3. QED  BY <3>1, <3>2
  <2>3. /\ Spelled(f, t) = {Binary(t[i], l, r) : l \in f[Left(t, i)], r \in f[Right(t, i)]}
        /\ Spelled(g, t) = {Binary(t[i], l, r) : l \in g[Left(t, i)], r \in g[Right(t, i)]}
    BY <1>2, <2>1 DEF Spelled
  <2>4. QED  BY <2>2, <2>3
<1>3. CASE SplitAt(t) = {} /\ Len(t) # 1 /\ Bracketed(t)
  <2>1. Inner(t) \in Texts /\ Len(Inner(t)) < Len(t)
    BY <1>1, <1>3, BracketPart
  <2>2. QED  BY <1>3, <2>1 DEF Spelled
<1>4. CASE SplitAt(t) = {} /\ (Len(t) = 1 \/ ~Bracketed(t))
  BY <1>4 DEF Spelled
<1>5. QED  BY <1>2, <1>3, <1>4

\* A solution for the texts up to a length.
UpTo(n) == {t \in Texts : Len(t) <= n}
Partial(g, n) == g = [t \in UpTo(n) |-> Spelled(g, t)]

LEMMA PartialSpells ==
    ASSUME NEW n \in Nat, NEW g, Partial(g, n), NEW t \in UpTo(n)
    PROVE  g[t] = Spelled(g, t)
<1>1. g = [u \in UpTo(n) |-> Spelled(g, u)]
  BY DEF Partial
<1> DEFINE h == [u \in UpTo(n) |-> Spelled(g, u)]
<1>2. h[t] = Spelled(g, t)
  OBVIOUS
<1> HIDE DEF h
<1>3. g = h
  BY <1>1 DEF h
<1>4. QED  BY <1>2, <1>3

LEMMA PartialsAgree ==
    ASSUME NEW n \in Nat, NEW g, Partial(g, n), NEW m \in Nat, NEW h, Partial(h, m),
           NEW t \in UpTo(n) \cap UpTo(m)
    PROVE  g[t] = h[t]
<1> DEFINE Wrong == {k \in Nat : \E u \in UpTo(n) \cap UpTo(m) : Len(u) = k /\ g[u] # h[u]}
<1>1. ASSUME Wrong # {} PROVE FALSE
  <2>1. PICK k \in Wrong : \A l \in Wrong : k <= l
    <3>1. Wrong \in SUBSET Nat
      OBVIOUS
    <3> HIDE DEF Wrong
    <3>2. QED  BY <1>1, <3>1, LeastOf
  <2>2. PICK u \in UpTo(n) \cap UpTo(m) : Len(u) = k /\ g[u] # h[u]
    OBVIOUS
  <2>3. u \in Texts /\ k \in Nat /\ k <= n /\ k <= m
    BY <2>2 DEF UpTo
  <2>4. ASSUME NEW w \in Texts, Len(w) < Len(u) PROVE g[w] = h[w]
    <3>1. Len(w) \in Nat /\ ~ (k <= Len(w))
      BY <2>2, <2>3, <2>4, LenProperties DEF Texts
    <3>2. w \in UpTo(n) \cap UpTo(m)
      BY <2>2, <2>3, <2>4, <3>1 DEF UpTo
    <3>3. Len(w) \notin Wrong
      <4> HIDE DEF Wrong
      <4>1. QED  BY <2>1, <3>1
    <3>4. QED  BY <3>1, <3>2, <3>3
  <2>5. Spelled(g, u) = Spelled(h, u)
    BY <2>3, <2>4, SpelledLocal
  <2>6. g[u] = Spelled(g, u) /\ h[u] = Spelled(h, u)
    BY <2>2, PartialSpells
  <2>7. QED  BY <2>2, <2>5, <2>6
<1>2. Len(t) \in Nat
  BY LenProperties DEF Texts, UpTo
<1>3. QED  BY <1>1, <1>2

LEMMA PartialFrom ==
    ASSUME NEW n \in Nat, NEW g0,
           \A t \in UpTo(n) : \A u \in Texts : Len(u) < Len(t) => g0[u] = Spelled(g0, u)
    PROVE  \E g : Partial(g, n)
<1> DEFINE g == [t \in UpTo(n) |-> Spelled(g0, t)]
<1>1. ASSUME NEW t \in UpTo(n) PROVE Spelled(g, t) = Spelled(g0, t)
  <2>1. t \in Texts /\ Len(t) \in Nat /\ Len(t) <= n
    BY LenProperties DEF UpTo, Texts
  <2>2. ASSUME NEW u \in Texts, Len(u) < Len(t) PROVE g[u] = g0[u]
    <3>1. Len(u) \in Nat
      BY LenProperties DEF Texts
    <3>2. u \in UpTo(n)
      BY <2>1, <2>2, <3>1 DEF UpTo
    <3>3. g[u] = Spelled(g0, u)
      BY <3>2
    <3>4. QED  BY <2>2, <3>3
  <2> HIDE DEF g
  <2>3. QED  BY <2>1, <2>2, SpelledLocal
<1>2. g = [t \in UpTo(n) |-> Spelled(g0, t)]
  OBVIOUS
<1> HIDE DEF g
<1>3. g = [t \in UpTo(n) |-> Spelled(g, t)]
  BY <1>1, <1>2
<1>4. QED  BY <1>3 DEF Partial

LEMMA PartialExists ==
    ASSUME NEW n \in Nat PROVE \E g : Partial(g, n)
<1> DEFINE Wrong == {k \in Nat : ~ \E g : Partial(g, k)}
<1>1. ASSUME Wrong # {} PROVE FALSE
  <2>1. PICK k \in Wrong : \A l \in Wrong : k <= l
    <3>1. Wrong \in SUBSET Nat
      OBVIOUS
    <3> HIDE DEF Wrong
    <3>2. QED  BY <1>1, <3>1, LeastOf
  <2>2. k \in Nat /\ ~ \E g : Partial(g, k)
    OBVIOUS
  <2>3. CASE k = 0
    <3>1. \A t \in UpTo(0) : \A u \in Texts : ~ (Len(u) < Len(t))
      BY LenProperties DEF UpTo, Texts
    <3>2. QED  BY <2>2, <2>3, <3>1, PartialFrom
  <2>4. CASE k # 0
    <3>1. PICK l \in Nat : k = l + 1
      BY <2>2, <2>4, k - 1 \in Nat
    <3>2. l \notin Wrong
      <4>1. ~ (k <= l)
        BY <3>1
      <4> HIDE DEF Wrong
      <4>2. QED  BY <2>1, <4>1
    <3>3. PICK g0 : Partial(g0, l)
      BY <3>2
    <3>4. ASSUME NEW t \in UpTo(k), NEW u \in Texts, Len(u) < Len(t)
          PROVE  g0[u] = Spelled(g0, u)
      <4>1. Len(u) \in Nat /\ Len(t) \in Nat /\ Len(t) <= k
        BY LenProperties DEF UpTo, Texts
      <4>2. u \in UpTo(l)
        BY <3>1, <3>4, <4>1 DEF UpTo
      <4>3. QED  BY <3>3, <4>2, PartialSpells
    <3>5. QED  BY <2>2, <3>4, PartialFrom
  <2>5. QED  BY <2>3, <2>4
<1>2. QED  BY <1>1

LEMMA GrammarSolvable == \E f : GrammarEquation(f)
<1> DEFINE f == [t \in Texts |-> (CHOOSE g : Partial(g, Len(t)))[t]]
<1>1. ASSUME NEW t \in Texts, NEW n \in Nat, NEW g, Partial(g, n), Len(t) <= n
      PROVE  f[t] = g[t]
  <2>1. Len(t) \in Nat
    BY LenProperties DEF Texts
  <2>2. PICK h : h = CHOOSE x : Partial(x, Len(t))
    OBVIOUS
  <2>3. Partial(h, Len(t))
    BY <2>1, <2>2, PartialExists
  <2>4. t \in UpTo(n) \cap UpTo(Len(t))
    BY <1>1, <2>1 DEF UpTo
  <2>5. h[t] = g[t]
    BY <1>1, <2>1, <2>3, <2>4, PartialsAgree
  <2>6. QED  BY <2>2, <2>5
<1>2. f = [t \in Texts |-> f[t]]
  OBVIOUS
<1> HIDE DEF f
<1>3. ASSUME NEW t \in Texts PROVE f[t] = Spelled(f, t)
  <2>1. Len(t) \in Nat
    BY LenProperties DEF Texts
  <2>2. PICK g : Partial(g, Len(t))
    BY <2>1, PartialExists
  <2>3. t \in UpTo(Len(t))
    BY <2>1 DEF UpTo
  <2>4. f[t] = g[t] /\ g[t] = Spelled(g, t)
    BY <1>1, <2>1, <2>2, <2>3, PartialSpells
  <2>5. ASSUME NEW u \in Texts, Len(u) < Len(t) PROVE g[u] = f[u]
    <3>1. Len(u) <= Len(t)
      BY <2>1, <2>5, LenProperties DEF Texts
    <3>2. QED  BY <1>1, <2>1, <2>2, <3>1
  <2>6. Spelled(g, t) = Spelled(f, t)
    BY <2>5, SpelledLocal
  <2>7. QED  BY <2>4, <2>6
<1>4. f = [t \in Texts |-> Spelled(f, t)]
  BY <1>2, <1>3
<1>5. GrammarEquation(f)
  BY <1>4, Zenon DEF GrammarEquation, Texts
<1>6. QED  BY <1>5

LEMMA GrammarSpells ==
    ASSUME NEW t \in Texts PROVE Grammar[t] = Spelled(Grammar, t)
<1>1. PICK f : f = CHOOSE g : GrammarEquation(g)
  OBVIOUS
<1>2. GrammarEquation(f)
  BY <1>1, GrammarSolvable
<1>3. Grammar = f
  BY <1>1 DEF Grammar, GrammarEquation, Spelled
<1> DEFINE h == [u \in Seq(Alphabet) |-> Spelled(f, u)]
<1>4. h[t] = Spelled(f, t)
  BY DEF Texts
<1> HIDE DEF h
<1>5. f = h
  BY <1>2 DEF h, GrammarEquation
<1>6. QED  BY <1>3, <1>4, <1>5

------------------------------------------------------------------------------
(***************************************************************************)
(* What texts read as, by how they are composed.                           *)
(***************************************************************************)
\* What a text reads as, and how tightly its operators bind.
Reads(t, e) == t \in Texts /\ Balanced(t) /\ Grammar[t] = {e}
IsTerm(t)   == Splits(t, AddOps) = {}
IsFactor(t) == IsTerm(t) /\ Splits(t, MulOps) = {}

LEMMA Tokens ==
    /\ Open # Close /\ Operands \cap Ops = {}
    /\ Open \notin Operands \cup Ops /\ Close \notin Operands \cup Ops
    /\ AddOps \cap MulOps = {}
    /\ Turn(Open) = 1 /\ Turn(Close) = -1
    /\ \A x \in Operands \cup Ops : Turn(x) = 0
<1>1. /\ Open # Close /\ Open \notin Ops /\ Close \notin Ops /\ AddOps \cap MulOps = {}
  BY DEF Open, Close, Ops, AddOps, MulOps
<1>2. QED  BY <1>1, OperandsAssumption DEF Turn

LEMMA LeafReads ==
    ASSUME NEW t \in Texts, Len(t) = 1, t[1] \in Operands
    PROVE  Reads(t, Leaf(t[1])) /\ IsFactor(t)
<1>1. DOMAIN t = 1 .. 1
  BY LenProperties DEF Texts
<1>2. t[1] \notin Ops /\ Turn(t[1]) = 0
  BY Tokens
<1>3. Splits(t, AddOps) = {} /\ Splits(t, MulOps) = {}
  BY <1>1, <1>2 DEF Splits, Ops
<1>4. Depth(t, 0) = 0 /\ Depth(t, 1) = 0
  <2>1. Depth(t, 0 + 1) = Depth(t, 0) + Turn(t[0 + 1]) /\ Depth(t, 0) = 0
    BY DepthType
  <2>2. QED  BY <1>2, <2>1
<1>5. Balanced(t)
  BY <1>4, \A i \in 0 .. 1 : i = 0 \/ i = 1 DEF Balanced
<1>6. Spelled(Grammar, t) = {Leaf(t[1])}
  BY <1>3 DEF Spelled, SplitAt
<1>7. QED  BY <1>3, <1>5, <1>6, GrammarSpells DEF Reads, IsFactor, IsTerm

LEMMA EmptySpells == <<>> \in Texts /\ Grammar[<<>>] = {}
<1>1. <<>> \in Texts /\ Len(<<>>) = 0 /\ DOMAIN <<>> = {}
  BY EmptySeq DEF Texts
<1>2. SplitAt(<<>>) = {}
  BY <1>1 DEF SplitAt, Splits
<1>3. ~Bracketed(<<>>)
  BY <1>1 DEF Bracketed
<1>4. Spelled(Grammar, <<>>) = {}
  BY <1>1, <1>2, <1>3 DEF Spelled
<1>5. QED  BY <1>1, <1>4, GrammarSpells

LEMMA NotEmpty ==
    ASSUME NEW t, NEW e, Reads(t, e)
    PROVE  t \in Texts /\ Len(t) \in Nat /\ Len(t) >= 1
<1>1. t \in Texts /\ t # <<>>
  BY EmptySpells DEF Reads
<1>2. QED  BY <1>1, EmptySeq DEF Texts

LEMMA BracketReads ==
    ASSUME NEW t \in Texts, NEW u, NEW e, Wrapped(t, u), Reads(u, e)
    PROVE  Reads(t, e) /\ IsFactor(t)
<1>1. u \in Texts /\ Len(u) \in Nat /\ Len(u) >= 1 /\ Balanced(u) /\ Grammar[u] = {e}
  BY NotEmpty DEF Reads
<1>2. Balanced(t)
  BY <1>1, WrappedDepth
<1>3. Splits(t, AddOps) = {} /\ Splits(t, MulOps) = {}
  <2>1. Close \notin AddOps /\ Close \notin MulOps
    BY Tokens DEF Ops
  <2>2. QED  BY <1>1, <2>1, WrappedSplits
<1>4. Inner(t) = u
  BY <1>1, WrappedPart
<1>5. Len(t) = Len(u) + 2 /\ Bracketed(t)
  BY <1>1 DEF Wrapped, Bracketed
<1>6. Spelled(Grammar, t) = Grammar[u]
  <2>1. Len(t) # 1
    BY <1>1, <1>5
  <2>2. QED  BY <1>3, <1>4, <1>5, <2>1 DEF Spelled, SplitAt
<1>7. QED  BY <1>1, <1>2, <1>3, <1>6, GrammarSpells DEF Reads, IsFactor, IsTerm

LEMMA SplitReads ==
    ASSUME NEW t \in Texts, NEW l, NEW o \in Ops, NEW r, Joined(t, l, o, r),
           NEW x, Reads(l, x), NEW y, Reads(r, y), Last(SplitAt(t)) = Len(l) + 1,
           SplitAt(t) # {}
    PROVE  Reads(t, Binary(o, x, y))
<1>1. /\ l \in Texts /\ Balanced(l) /\ Grammar[l] = {x}
      /\ r \in Texts /\ Balanced(r) /\ Grammar[r] = {y}
  BY DEF Reads
<1>2. Balanced(t)
  BY <1>1, Tokens, JoinedDepth
<1>3. /\ Left(t, Len(l) + 1) = l /\ Right(t, Len(l) + 1) = r
      /\ t[Len(l) + 1] = o
  <2>1. Left(t, Len(l) + 1) = l /\ Right(t, Len(l) + 1) = r
    BY <1>1, JoinedParts
  <2>2. QED  BY <2>1 DEF Joined
<1>4. Spelled(Grammar, t) = {Binary(o, a, b) : a \in {x}, b \in {y}}
  BY <1>1, <1>3 DEF Spelled
<1>5. {Binary(o, a, b) : a \in {x}, b \in {y}} = {Binary(o, x, y)}
  OBVIOUS
<1>6. QED  BY <1>2, <1>4, <1>5, GrammarSpells DEF Reads

\* The last of some positions.
LEMMA LastIs ==
    ASSUME NEW n \in Nat, NEW T \in SUBSET (1 .. n), NEW i \in T, \A j \in T : j <= i
    PROVE  Last(T) = i
<1>1. Last(T) \in T /\ \A k \in T : k <= Last(T)
  BY LastOf
<1>2. PICK m : m = Last(T)
  OBVIOUS
<1>3. m \in 1 .. n /\ i \in 1 .. n /\ m <= i /\ i <= m
  BY <1>1, <1>2
<1>4. QED  BY <1>2, <1>3

LEMMA SumReads ==
    ASSUME NEW t \in Texts, NEW l, NEW o \in AddOps, NEW r, Joined(t, l, o, r),
           NEW x, Reads(l, x), NEW y, Reads(r, y), IsTerm(r)
    PROVE  Reads(t, Binary(o, x, y))
<1>1. /\ l \in Texts /\ Balanced(l) /\ r \in Texts /\ Balanced(r)
      /\ o \in Ops /\ Turn(o) = 0
  BY Tokens DEF Reads, Ops
<1>2. PICK m, n \in Nat : m = Len(l) /\ n = Len(t) /\ m + 1 <= n /\ DOMAIN t = 1 .. n /\ DOMAIN l = 1 .. m
  BY <1>1, LenProperties DEF Texts, Joined
<1>3. \A i \in Nat : i \in Splits(t, AddOps) <=> i \in Splits(l, AddOps) \/ i = m + 1
  <2>1. TAKE i \in Nat
  <2>2. i - (m + 1) \notin Splits(r, AddOps)
    BY DEF IsTerm
  <2>3. QED  BY <1>1, <1>2, <2>2, JoinedSplits
<1>4. Splits(t, AddOps) \in SUBSET (1 .. n) /\ Splits(l, AddOps) \in SUBSET (1 .. m)
  BY <1>2 DEF Splits
<1>5. m + 1 \in Splits(t, AddOps) /\ \A i \in Splits(t, AddOps) : i <= m + 1
  <2>1. m + 1 \in Splits(t, AddOps)
    BY <1>3
  <2>2. ASSUME NEW i \in Splits(t, AddOps) PROVE i <= m + 1
    <3>1. i \in Nat
      BY <1>4
    <3>2. i \in Splits(l, AddOps) \/ i = m + 1
      BY <1>3, <3>1
    <3>3. QED  BY <1>4, <3>1, <3>2
  <2>3. QED  BY <2>1, <2>2
<1>6. Last(Splits(t, AddOps)) = m + 1
  BY <1>4, <1>5, LastIs
<1>7. SplitAt(t) = Splits(t, AddOps) /\ SplitAt(t) # {}
  BY <1>5 DEF SplitAt
<1>8. QED  BY <1>1, <1>2, <1>6, <1>7, SplitReads

LEMMA ProductReads ==
    ASSUME NEW t \in Texts, NEW l, NEW o \in MulOps, NEW r, Joined(t, l, o, r),
           NEW x, Reads(l, x), IsTerm(l), NEW y, Reads(r, y), IsFactor(r)
    PROVE  Reads(t, Binary(o, x, y)) /\ IsTerm(t)
<1>1. /\ l \in Texts /\ Balanced(l) /\ r \in Texts /\ Balanced(r)
      /\ o \in Ops /\ Turn(o) = 0 /\ o \notin AddOps
  BY Tokens DEF Reads, Ops
<1>2. PICK m, n \in Nat : m = Len(l) /\ n = Len(t) /\ m + 1 <= n /\ DOMAIN t = 1 .. n /\ DOMAIN l = 1 .. m
  BY <1>1, LenProperties DEF Texts, Joined
<1>3. Splits(t, AddOps) = {}
  <2>1. ASSUME NEW i \in Splits(t, AddOps) PROVE FALSE
    <3>1. i \in Nat
      BY <1>2 DEF Splits
    <3>2. i \notin Splits(l, AddOps) /\ i - (m + 1) \notin Splits(r, AddOps)
      BY DEF IsTerm, IsFactor
    <3>3. QED  BY <1>1, <1>2, <2>1, <3>1, <3>2, JoinedSplits
  <2>2. QED  BY <2>1
<1>4. \A i \in Nat : i \in Splits(t, MulOps) <=> i \in Splits(l, MulOps) \/ i = m + 1
  <2>1. TAKE i \in Nat
  <2>2. i - (m + 1) \notin Splits(r, MulOps)
    BY DEF IsFactor
  <2>3. QED  BY <1>1, <1>2, <2>2, JoinedSplits
<1>5. Splits(t, MulOps) \in SUBSET (1 .. n) /\ Splits(l, MulOps) \in SUBSET (1 .. m)
  BY <1>2 DEF Splits
<1>6. m + 1 \in Splits(t, MulOps) /\ \A i \in Splits(t, MulOps) : i <= m + 1
  <2>1. m + 1 \in Splits(t, MulOps)
    BY <1>4
  <2>2. ASSUME NEW i \in Splits(t, MulOps) PROVE i <= m + 1
    <3>1. i \in Nat
      BY <1>5
    <3>2. i \in Splits(l, MulOps) \/ i = m + 1
      BY <1>4, <3>1
    <3>3. QED  BY <1>5, <3>1, <3>2
  <2>3. QED  BY <2>1, <2>2
<1>7. Last(Splits(t, MulOps)) = m + 1
  BY <1>5, <1>6, LastIs
<1>8. SplitAt(t) = Splits(t, MulOps) /\ SplitAt(t) # {}
  BY <1>3, <1>6 DEF SplitAt
<1>9. QED  BY <1>1, <1>2, <1>3, <1>7, <1>8, SplitReads DEF IsTerm

------------------------------------------------------------------------------
(***************************************************************************)
(* The stack, counted from its bottom: frame d was called at place from[d] of *)
(* the text, and its right operand begins at here[d].                      *)
(***************************************************************************)
\* A stack counted from its bottom.
At(s, d) == s[Len(s) + 1 - d]

LEMMA PushAt ==
    ASSUME NEW S, NEW s \in Seq(S), NEW x \in S
    PROVE  /\ <<x>> \o s \in Seq(S) /\ Len(<<x>> \o s) = Len(s) + 1
           /\ At(<<x>> \o s, Len(s) + 1) = x
           /\ \A d \in 1 .. Len(s) : At(<<x>> \o s, d) = At(s, d)
<1>1. PICK n \in Nat : n = Len(s)
  BY LenProperties
<1>2. <<x>> \in Seq(S) /\ Len(<<x>>) = 1 /\ <<x>>[1] = x
  OBVIOUS
<1>3. /\ <<x>> \o s \in Seq(S)
      /\ Len(<<x>> \o s) = 1 + n
      /\ \A i \in 1 .. 1 + n : (<<x>> \o s)[i] = IF i <= 1 THEN <<x>>[i] ELSE s[i - 1]
  BY <1>1, <1>2, ConcatProperties
<1>4. PICK t : t = <<x>> \o s
  OBVIOUS
<1>5. t \in Seq(S) /\ Len(t) = n + 1 /\ t[1] = x /\ \A i \in 2 .. n + 1 : t[i] = s[i - 1]
  BY <1>2, <1>3, <1>4
<1>6. At(t, n + 1) = x
  BY <1>5, (n + 1) + 1 - (n + 1) = 1 DEF At
<1>7. \A d \in 1 .. n : At(t, d) = At(s, d)
  <2>1. TAKE d \in 1 .. n
  <2>2. (n + 1) + 1 - d \in 2 .. n + 1 /\ ((n + 1) + 1 - d) - 1 = n + 1 - d
    OBVIOUS
  <2>3. QED  BY <1>1, <1>5, <2>2 DEF At
<1>8. QED  BY <1>1, <1>4, <1>5, <1>6, <1>7

LEMMA PopAt ==
    ASSUME NEW S, NEW s \in Seq(S), s # <<>>
    PROVE  /\ Tail(s) \in Seq(S) /\ Len(Tail(s)) = Len(s) - 1
           /\ Head(s) = At(s, Len(s)) /\ Head(s) \in S /\ Len(s) >= 1
           /\ \A d \in 1 .. Len(s) - 1 : At(Tail(s), d) = At(s, d)
<1>1. PICK n \in Nat : n = Len(s) /\ n >= 1
  BY LenProperties, EmptySeq
<1>2. PICK t : t = Tail(s)
  OBVIOUS
<1>3. t \in Seq(S) /\ Len(t) = n - 1 /\ (\A i \in 1 .. n - 1 : t[i] = s[i + 1])
      /\ Head(s) = s[1] /\ Head(s) \in S
  BY <1>1, <1>2, HeadTailProperties
<1>4. Head(s) = At(s, n)
  BY <1>1, <1>3, n + 1 - n = 1 DEF At
<1>5. \A d \in 1 .. n - 1 : At(t, d) = At(s, d)
  <2>1. TAKE d \in 1 .. n - 1
  <2>2. (n - 1) + 1 - d \in 1 .. n - 1 /\ ((n - 1) + 1 - d) + 1 = n + 1 - d
    BY <1>1
  <2>3. QED  BY <1>1, <1>3, <2>2 DEF At
<1>6. QED  BY <1>1, <1>2, <1>3, <1>4, <1>5

LEMMA ReplaceAt ==
    ASSUME NEW S, NEW s \in Seq(S), s # <<>>, NEW x \in S
    PROVE  /\ <<x>> \o Tail(s) \in Seq(S) /\ Len(<<x>> \o Tail(s)) = Len(s)
           /\ At(<<x>> \o Tail(s), Len(s)) = x /\ Len(s) \in Nat /\ Len(s) >= 1
           /\ \A d \in 1 .. Len(s) - 1 : At(<<x>> \o Tail(s), d) = At(s, d)
<1>1. PICK n \in Nat : n = Len(s) /\ n >= 1
  BY LenProperties, EmptySeq
<1>2. PICK t : t = Tail(s)
  OBVIOUS
<1>3. t \in Seq(S) /\ Len(t) = n - 1 /\ \A d \in 1 .. n - 1 : At(t, d) = At(s, d)
  BY <1>1, <1>2, PopAt
<1>4. /\ <<x>> \o t \in Seq(S) /\ Len(<<x>> \o t) = Len(t) + 1
      /\ At(<<x>> \o t, Len(t) + 1) = x
      /\ \A d \in 1 .. Len(t) : At(<<x>> \o t, d) = At(t, d)
  BY <1>3, PushAt
<1>5. Len(t) + 1 = n
  BY <1>1, <1>3
<1>6. QED  BY <1>1, <1>2, <1>3, <1>4, <1>5

------------------------------------------------------------------------------
\* A frame whose call began at position a and whose right operand is at b.
FrameOK(text, f, a, b) ==
    /\ f.min \in {Lowest, 102} /\ f.op \in Ops \cup {NoOp} /\ f.bracket \in BOOLEAN
    /\ f.min = 102 => f.op \notin AddOps /\ ~f.bracket
    /\ a \in Nat /\ b \in Nat /\ 1 <= a /\ a <= b /\ b <= Len(text) + 1
    /\ f.op = NoOp => a = b
    /\ f.op # NoOp =>
          /\ a < b /\ text[b - 1] = f.op
          /\ Reads(SubSeq(text, a, b - 2), f.lhs)
          /\ f.op \in MulOps => IsTerm(SubSeq(text, a, b - 2))

\* A frame f that begins at a above a frame g whose right operand is at c.
Above(text, g, c, f, a) ==
    IF f.bracket THEN a = c + 1 /\ text[c] = Open
    ELSE a = c /\ f.min = 102 /\ g.op \in AddOps

\* Every frame has its place, the one above it begins at its right operand.
Nested(text, s, from, here) ==
    /\ from \in [Nat -> Nat] /\ here \in [Nat -> Nat]
    /\ s # <<>>
    /\ \A d \in 1 .. Len(s) : FrameOK(text, At(s, d), from[d], here[d])
    /\ from[1] = 1 /\ ~At(s, 1).bracket /\ At(s, 1).min = Lowest
    /\ \A d \in 1 .. Len(s) - 1 : Above(text, At(s, d), here[d], At(s, d + 1), from[d + 1])

\* A text that a frame can take for its right operand.
Suits(f, v) ==
    /\ f.op \in MulOps => IsFactor(v)
    /\ f.op \in AddOps \/ f.min = 102 => IsTerm(v)

LEMMA PartGrows ==
    ASSUME NEW t \in Texts, NEW x \in Alphabet, NEW a \in Nat, NEW b \in Int,
           1 <= a, a <= b + 1, b <= Len(t)
    PROVE  SubSeq(Append(t, x), a, b) = SubSeq(t, a, b)
<1>1. b \in Nat /\ Len(t) \in Nat
  BY LenProperties DEF Texts
<1>2. /\ Append(t, x) \in Texts /\ Len(Append(t, x)) = Len(t) + 1
      /\ \A i \in 1 .. Len(t) : Append(t, x)[i] = t[i]
  BY AppendProperties DEF Texts
<1>3. PICK u : u = Append(t, x)
  OBVIOUS
<1>4. PICK p : p = SubSeq(u, a, b)
  OBVIOUS
<1>5. PICK q : q = SubSeq(t, a, b)
  OBVIOUS
<1>6. b <= Len(u)
  BY <1>1, <1>2, <1>3
<1>7. p \in Texts /\ Len(p) = b - a + 1 /\ \A i \in 1 .. b - a + 1 : p[i] = u[a + i - 1]
  BY <1>1, <1>2, <1>3, <1>4, <1>6, PartOf
<1>8. q \in Texts /\ Len(q) = b - a + 1 /\ \A i \in 1 .. b - a + 1 : q[i] = t[a + i - 1]
  BY <1>1, <1>5, PartOf
<1>9. \A i \in 1 .. b - a + 1 : a + i - 1 \in 1 .. Len(t)
  BY <1>1
<1>10. \A i \in 1 .. Len(p) : p[i] = q[i]
  BY <1>2, <1>3, <1>7, <1>8, <1>9
<1>11. p = q
  BY <1>7, <1>8, <1>10, SeqEqual DEF Texts
<1>12. QED  BY <1>3, <1>4, <1>5, <1>11

LEMMA FrameGrows ==
    ASSUME NEW t \in Texts, NEW x \in Alphabet, NEW f, NEW a, NEW b, FrameOK(t, f, a, b)
    PROVE  FrameOK(Append(t, x), f, a, b)
<1>1. Len(t) \in Nat
  BY LenProperties DEF Texts
<1>2. PICK u : u = Append(t, x)
  OBVIOUS
<1>3. /\ u \in Texts /\ Len(u) = Len(t) + 1
      /\ \A i \in 1 .. Len(t) : u[i] = t[i]
  BY <1>2, AppendProperties DEF Texts
<1>4. /\ f.min \in {Lowest, 102} /\ f.op \in Ops \cup {NoOp} /\ f.bracket \in BOOLEAN
      /\ f.min = 102 => f.op \notin AddOps /\ ~f.bracket
      /\ a \in Nat /\ b \in Nat /\ 1 <= a /\ a <= b /\ b <= Len(t) + 1
      /\ f.op = NoOp => a = b
  BY DEF FrameOK
<1>5. b <= Len(u) + 1
  BY <1>1, <1>3, <1>4
<1>6. CASE f.op = NoOp
  BY <1>2, <1>4, <1>5, <1>6 DEF FrameOK
<1>7. CASE f.op # NoOp
  <2>1. /\ a < b /\ t[b - 1] = f.op
        /\ Reads(SubSeq(t, a, b - 2), f.lhs)
        /\ f.op \in MulOps => IsTerm(SubSeq(t, a, b - 2))
    BY <1>7 DEF FrameOK
  <2>2. b - 1 \in 1 .. Len(t) /\ b - 2 \in Int /\ a <= b - 2 + 1 /\ b - 2 <= Len(t)
    BY <1>1, <1>4, <2>1
  <2>3. u[b - 1] = f.op /\ SubSeq(u, a, b - 2) = SubSeq(t, a, b - 2)
    <3>1. PICK c \in Int : c = b - 2
      BY <2>2
    <3>2. SubSeq(Append(t, x), a, c) = SubSeq(t, a, c)
      BY <1>4, <2>2, <3>1, PartGrows
    <3>3. QED  BY <1>2, <1>3, <2>1, <2>2, <3>1, <3>2
  <2>4. QED  BY <1>2, <1>4, <1>5, <2>1, <2>3 DEF FrameOK
<1>8. QED  BY <1>6, <1>7

LEMMA NestedGrows ==
    ASSUME NEW t \in Texts, NEW x \in Alphabet, NEW s, NEW from, NEW here,
           NEW S, s \in Seq(S), Nested(t, s, from, here)
    PROVE  Nested(Append(t, x), s, from, here)
<1>1. Len(t) \in Nat /\ Len(s) \in Nat
  BY LenProperties DEF Texts
<1>2. PICK u : u = Append(t, x)
  OBVIOUS
<1>3. \A i \in 1 .. Len(t) : u[i] = t[i]
  BY <1>2, AppendProperties DEF Texts
<1>4. \A d \in 1 .. Len(s) : FrameOK(u, At(s, d), from[d], here[d])
  BY <1>2, FrameGrows DEF Nested
<1>5. \A d \in 1 .. Len(s) - 1 : Above(u, At(s, d), here[d], At(s, d + 1), from[d + 1])
  <2> TAKE d \in 1 .. Len(s) - 1
  <2>1. d \in 1 .. Len(s) /\ d + 1 \in 1 .. Len(s)
    BY <1>1
  <2>2. /\ Above(t, At(s, d), here[d], At(s, d + 1), from[d + 1])
        /\ FrameOK(t, At(s, d), from[d], here[d])
        /\ FrameOK(t, At(s, d + 1), from[d + 1], here[d + 1])
    BY <2>1 DEF Nested
  <2>3. CASE At(s, d + 1).bracket
    <3>1. from[d + 1] = here[d] + 1 /\ t[here[d]] = Open
      BY <2>2, <2>3 DEF Above
    <3>2. here[d] \in 1 .. Len(t)
      BY <1>1, <2>2, <3>1 DEF FrameOK
    <3>3. QED  BY <1>3, <2>3, <3>1, <3>2 DEF Above
  <2>4. CASE ~At(s, d + 1).bracket
    BY <2>2, <2>4 DEF Above
  <2>5. QED  BY <2>3, <2>4
<1>6. QED  BY <1>2, <1>4, <1>5 DEF Nested

LEMMA NestedPush ==
    ASSUME NEW t \in Texts, NEW s, NEW from, NEW here, NEW S, s \in Seq(S),
           Nested(t, s, from, here), NEW f \in S, NEW a, NEW b, FrameOK(t, f, a, b),
           Above(t, At(s, Len(s)), here[Len(s)], f, a)
    PROVE  \E from1, here1 : /\ Nested(t, <<f>> \o s, from1, here1)
                             /\ here1[Len(<<f>> \o s)] = b
<1>1. PICK n \in Nat : n = Len(s) /\ n >= 1
  BY LenProperties, EmptySeq DEF Nested
<1>2. PICK s1 : s1 = <<f>> \o s
  OBVIOUS
<1>3. /\ s1 \in Seq(S) /\ Len(s1) = n + 1 /\ At(s1, n + 1) = f
      /\ \A d \in 1 .. n : At(s1, d) = At(s, d)
  BY <1>1, <1>2, PushAt
<1>4. s1 # <<>>
  BY <1>1, <1>3, EmptySeq
<1>5. PICK from1, here1 : from1 = [from EXCEPT ![n + 1] = a] /\ here1 = [here EXCEPT ![n + 1] = b]
  OBVIOUS
<1>6. /\ from1 \in [Nat -> Nat] /\ here1 \in [Nat -> Nat]
      /\ from1[n + 1] = a /\ here1[n + 1] = b
      /\ \A d \in 1 .. n : from1[d] = from[d] /\ here1[d] = here[d]
  <2>1. from \in [Nat -> Nat] /\ here \in [Nat -> Nat]
    BY DEF Nested
  <2>2. a \in Nat /\ b \in Nat
    BY Zenon DEF FrameOK
  <2>3. n + 1 \in Nat /\ \A d \in 1 .. n : d \in Nat /\ d # n + 1
    BY <1>1
  <2>4. QED  BY <1>5, <2>1, <2>2, <2>3
<1>7. ASSUME NEW d \in 1 .. n + 1 PROVE FrameOK(t, At(s1, d), from1[d], here1[d])
  <2>1. d = n + 1 \/ d \in 1 .. n
    BY <1>1
  <2>2. QED  BY <1>1, <1>3, <1>6, <2>1 DEF Nested
<1>8. ASSUME NEW d \in 1 .. n
      PROVE Above(t, At(s1, d), here1[d], At(s1, d + 1), from1[d + 1])
  <2>1. CASE d = n
    BY <1>1, <1>3, <1>6, <2>1
  <2>2. CASE d # n
    <3>1. d \in 1 .. n - 1 /\ d + 1 \in 1 .. n
      BY <1>1, <2>2
    <3>2. QED  BY <1>1, <1>3, <1>6, <3>1 DEF Nested
  <2>3. QED  BY <2>1, <2>2
<1>9. from1[1] = 1 /\ ~At(s1, 1).bracket /\ At(s1, 1).min = Lowest
  BY <1>1, <1>3, <1>6, 1 \in 1 .. n DEF Nested
<1>10. Nested(t, s1, from1, here1)
  <2>1. Len(s1) = n + 1 /\ Len(s1) - 1 = n
    BY <1>1, <1>3
  <2>2. /\ \A d \in 1 .. Len(s1) : FrameOK(t, At(s1, d), from1[d], here1[d])
        /\ \A d \in 1 .. Len(s1) - 1 :
              Above(t, At(s1, d), here1[d], At(s1, d + 1), from1[d + 1])
    BY <1>7, <1>8, <2>1
  <2>3. QED  BY <1>4, <1>6, <1>9, <2>2 DEF Nested
<1>11. QED  BY <1>2, <1>3, <1>6, <1>10

LEMMA NestedPop ==
    ASSUME NEW t \in Texts, NEW s, NEW from, NEW here, NEW S, s \in Seq(S),
           Nested(t, s, from, here), Len(s) > 1
    PROVE  Nested(t, Tail(s), from, here) /\ Tail(s) \in Seq(S) /\ Tail(s) # <<>>
<1>1. PICK n \in Nat : n = Len(s) /\ n > 1
  BY LenProperties
<1>2. PICK s1 : s1 = Tail(s)
  OBVIOUS
<1>3. /\ s1 \in Seq(S) /\ Len(s1) = n - 1
      /\ \A d \in 1 .. n - 1 : At(s1, d) = At(s, d)
  BY <1>1, <1>2, PopAt DEF Nested
<1>4. s1 # <<>>
  BY <1>1, <1>3, EmptySeq
<1>5. /\ \A d \in 1 .. n - 1 : d \in 1 .. n
      /\ \A d \in 1 .. (n - 1) - 1 : d \in 1 .. n - 1 /\ d + 1 \in 1 .. n - 1
      /\ 1 \in 1 .. n - 1
  BY <1>1
<1>6. \A d \in 1 .. n - 1 : FrameOK(t, At(s1, d), from[d], here[d])
  BY <1>1, <1>3, <1>5 DEF Nested
<1>7. \A d \in 1 .. (n - 1) - 1 : Above(t, At(s1, d), here[d], At(s1, d + 1), from[d + 1])
  BY <1>1, <1>3, <1>5 DEF Nested
<1>8. QED  BY <1>1, <1>2, <1>3, <1>4, <1>5, <1>6, <1>7 DEF Nested

LEMMA NestedReplace ==
    ASSUME NEW t \in Texts, NEW s, NEW from, NEW here, NEW S, s \in Seq(S),
           Nested(t, s, from, here), NEW f \in S, NEW b,
           FrameOK(t, f, from[Len(s)], b),
           f.min = At(s, Len(s)).min, f.bracket = At(s, Len(s)).bracket
    PROVE  \E here1 : /\ Nested(t, <<f>> \o Tail(s), from, here1)
                      /\ here1[Len(<<f>> \o Tail(s))] = b
<1>1. PICK n \in Nat : n = Len(s) /\ n >= 1
  BY LenProperties, EmptySeq DEF Nested
<1>2. PICK s1 : s1 = <<f>> \o Tail(s)
  OBVIOUS
<1>3. /\ s1 \in Seq(S) /\ Len(s1) = n /\ At(s1, n) = f
      /\ \A d \in 1 .. n - 1 : At(s1, d) = At(s, d)
  BY <1>1, <1>2, ReplaceAt DEF Nested
<1>4. s1 # <<>>
  BY <1>1, <1>3, EmptySeq
<1>5. PICK here1 : here1 = [here EXCEPT ![n] = b]
  OBVIOUS
<1>6. /\ here1 \in [Nat -> Nat] /\ here1[n] = b
      /\ \A d \in 1 .. n - 1 : here1[d] = here[d]
  <2>1. here \in [Nat -> Nat]
    BY DEF Nested
  <2>2. b \in Nat
    BY Zenon DEF FrameOK
  <2>3. n \in Nat /\ \A d \in 1 .. n - 1 : d \in Nat /\ d # n
    BY <1>1
  <2>4. QED  BY <1>5, <2>1, <2>2, <2>3
<1>7. ASSUME NEW d \in 1 .. n PROVE FrameOK(t, At(s1, d), from[d], here1[d])
  <2>1. d = n \/ d \in 1 .. n - 1
    BY <1>1
  <2>2. QED  BY <1>1, <1>3, <1>6, <2>1 DEF Nested
<1>8. ASSUME NEW d \in 1 .. n - 1
      PROVE Above(t, At(s1, d), here1[d], At(s1, d + 1), from[d + 1])
  <2>1. Above(t, At(s, d), here[d], At(s, d + 1), from[d + 1])
    BY <1>1 DEF Nested
  <2>2. At(s1, d) = At(s, d) /\ here1[d] = here[d]
    BY <1>3, <1>6
  <2>3. At(s1, d + 1).min = At(s, d + 1).min /\ At(s1, d + 1).bracket = At(s, d + 1).bracket
    <3>1. d + 1 = n \/ d + 1 \in 1 .. n - 1
      BY <1>1
    <3>2. QED  BY <1>1, <1>3, <3>1
  <2>4. QED  BY <2>1, <2>2, <2>3 DEF Above
<1>9. from[1] = 1 /\ ~At(s1, 1).bracket /\ At(s1, 1).min = Lowest
  <2>1. from[1] = 1 /\ ~At(s, 1).bracket /\ At(s, 1).min = Lowest
    BY DEF Nested
  <2>2. CASE n = 1
    BY <1>1, <1>3, <2>1, <2>2
  <2>3. CASE n > 1
    BY <1>1, <1>3, <2>1, <2>3, 1 \in 1 .. n - 1
  <2>4. QED  BY <1>1, <2>2, <2>3
<1>10. from \in [Nat -> Nat]
  BY DEF Nested
<1>11. Nested(t, s1, from, here1)
  BY <1>3, <1>4, <1>6, <1>7, <1>8, <1>9, <1>10 DEF Nested
<1>12. QED  BY <1>2, <1>3, <1>6, <1>11

------------------------------------------------------------------------------
(***************************************************************************)
(* The places of the frames, and the texts from them on.                   *)
(***************************************************************************)
\* The frames over some expressions, and the text from a place on.
Frames(S) == [min : {Lowest, 102}, lhs : S, op : Ops \cup {NoOp}, bracket : BOOLEAN]

From(text, b) == SubSeq(text, b, Len(text))

\* The text from place b, in frame f, reads as e; nothing is there if e is none.
ValueOK(text, e, f, b) ==
    IF e = NoExpr THEN b = Len(text) + 1
    ELSE Reads(From(text, b), e) /\ Suits(f, From(text, b))

\* A sum is not offered to an operator that binds tighter.
Greedy(v, f, ready, t) == f.op = NoOp => IsTerm(v) \/ (ready /\ t \notin MulOps \cup {NewLineToken})

\* The text is spelled by the frames of a stack, each at places of its own.
Placed(text, s, e, ready, t) ==
    \E from, here :
        /\ Nested(text, s, from, here)
        /\ ValueOK(text, e, At(s, Len(s)), here[Len(s)])
        /\ e # NoExpr => Greedy(From(text, here[Len(s)]), At(s, Len(s)), ready, t)

LEMMA Precedences ==
    /\ \A o \in AddOps : Precedence(o) = 101
    /\ \A o \in MulOps : Precedence(o) = 201
    /\ \A o : o \notin Ops => Precedence(o) = 0
    /\ \A o : Precedence(o) \in {0, 101, 201}
    /\ NoOp \notin Ops /\ Lowest = 1
<1>1. AddOps \cap MulOps = {}
  BY Tokens
<1>2. NoOp \notin Ops
  <2>1. <<>> # <<"+">> /\ <<>> # <<"-">> /\ <<>> # <<"*">>
    OBVIOUS
  <2>2. QED  BY <2>1 DEF NoOp, NoToken, Ops, AddOps, MulOps
<1>3. QED  BY <1>1, <1>2 DEF Precedence, Ops, Lowest

LEMMA ExprsAre ==
    /\ \A t : Leaf(t) # NoExpr
    /\ \A o, l, r : Binary(o, l, r) # NoExpr
<1>1. ASSUME NEW t PROVE Leaf(t) # NoExpr
  <2>1. Leaf(t).type # "none"
    BY DEF Leaf
  <2>2. NoExpr.type = "none"
    BY DEF NoExpr
  <2>3. QED  BY <2>1, <2>2
<1>2. ASSUME NEW o, NEW l, NEW r PROVE Binary(o, l, r) # NoExpr
  <2>1. Binary(o, l, r).type = "BinaryOpET"
    BY DEF Binary
  <2>2. NoExpr.type = "none"
    BY DEF NoExpr
  <2>3. QED  BY <2>1, <2>2
<1>3. QED  BY <1>1, <1>2

LEMMA TextGrows ==
    ASSUME NEW t \in Texts, NEW x \in Alphabet
    PROVE  /\ Append(t, x) \in Texts /\ Len(t) \in Nat /\ Len(Append(t, x)) = Len(t) + 1
           /\ Append(t, x)[Len(t) + 1] = x
           /\ \A i \in 1 .. Len(t) : Append(t, x)[i] = t[i]
BY LenProperties, AppendProperties DEF Texts

LEMMA FromPart ==
    ASSUME NEW t \in Texts, NEW b \in Nat, 1 <= b, b <= Len(t) + 1
    PROVE  /\ From(t, b) \in Texts /\ Len(From(t, b)) = Len(t) - b + 1 /\ Len(t) \in Nat
           /\ \A i \in 1 .. Len(t) - b + 1 : From(t, b)[i] = t[b + i - 1]
<1>1. Len(t) \in Nat
  BY LenProperties DEF Texts
<1>2. QED  BY <1>1, PartOf DEF From

LEMMA FromBegin ==
    ASSUME NEW t \in Texts
    PROVE  From(t, 1) = t
<1>1. PICK u : u = From(t, 1)
  OBVIOUS
<1>2. Len(t) \in Nat /\ 1 <= Len(t) + 1
  BY LenProperties DEF Texts
<1>3. /\ From(t, 1) \in Texts /\ Len(From(t, 1)) = Len(t) - 1 + 1
      /\ \A i \in 1 .. Len(t) - 1 + 1 : From(t, 1)[i] = t[1 + i - 1]
  BY <1>2, FromPart
<1>4. u \in Texts /\ Len(u) = Len(t) /\ \A i \in 1 .. Len(u) : u[i] = t[i]
  BY <1>1, <1>2, <1>3
<1>5. u = t
  BY <1>4, SeqEqual DEF Texts
<1>6. QED  BY <1>1, <1>5

LEMMA JoinedText ==
    ASSUME NEW t \in Texts, NEW a \in Nat, NEW b \in Nat, 1 <= a, a < b, b <= Len(t) + 1
    PROVE  Joined(From(t, a), SubSeq(t, a, b - 2), t[b - 1], From(t, b))
<1>1. PICK n \in Nat : n = Len(t)
  BY LenProperties DEF Texts
<1>2. PICK w, l, r : w = From(t, a) /\ l = SubSeq(t, a, b - 2) /\ r = From(t, b)
  OBVIOUS
<1>3. Len(w) = n - a + 1 /\ \A i \in 1 .. n - a + 1 : w[i] = t[a + i - 1]
  <2>1. a <= Len(t) + 1
    BY <1>1
  <2>2. QED  BY <1>1, <1>2, <2>1, FromPart
<1>4. Len(r) = n - b + 1 /\ \A i \in 1 .. n - b + 1 : r[i] = t[b + i - 1]
  <2>1. 1 <= b
    OBVIOUS
  <2>2. QED  BY <1>1, <1>2, <2>1, FromPart
<1>5. Len(l) = b - 1 - a /\ \A i \in 1 .. b - 1 - a : l[i] = t[a + i - 1]
  <2>1. PICK c \in Nat : c = b - 2
    BY b - 2 \in Nat
  <2>2. /\ Len(SubSeq(t, a, c)) = c - a + 1
        /\ \A i \in 1 .. c - a + 1 : SubSeq(t, a, c)[i] = t[a + i - 1]
    BY <1>1, <2>1, PartOf
  <2>3. c - a + 1 = b - 1 - a
    BY <2>1
  <2>4. QED  BY <1>2, <2>1, <2>2, <2>3
<1>6. Len(w) = Len(l) + 1 + Len(r)
  BY <1>3, <1>4, <1>5
<1>7. w[Len(l) + 1] = t[b - 1]
  <2>1. b - a \in 1 .. n - a + 1 /\ a + (b - a) - 1 = b - 1 /\ (b - 1 - a) + 1 = b - a
    BY <1>1
  <2>2. QED  BY <1>3, <1>5, <2>1
<1>8. \A i \in 1 .. Len(l) : w[i] = l[i]
  BY <1>1, <1>3, <1>5
<1>9. \A i \in 1 .. Len(r) : w[Len(l) + 1 + i] = r[i]
  <2>1. TAKE i \in 1 .. Len(r)
  <2>2. b - a + i \in 1 .. n - a + 1 /\ a + (b - a + i) - 1 = b + i - 1
        /\ (b - 1 - a) + 1 + i = b - a + i
    BY <1>1, <1>4
  <2>3. QED  BY <1>3, <1>4, <1>5, <2>2
<1>10. QED  BY <1>2, <1>6, <1>7, <1>8, <1>9 DEF Joined

LEMMA WrappedText ==
    ASSUME NEW t \in Texts, NEW a \in Nat, 1 <= a, a < Len(t) + 1, t[a] = Open
    PROVE  Wrapped(From(Append(t, Close), a), From(t, a + 1))
<1>1. PICK n \in Nat : n = Len(t)
  BY LenProperties DEF Texts
<1>2. PICK u : u = Append(t, Close)
  OBVIOUS
<1>3. u \in Texts /\ Len(u) = n + 1 /\ u[n + 1] = Close /\ \A i \in 1 .. n : u[i] = t[i]
  BY <1>1, <1>2, TextGrows DEF Alphabet
<1>4. PICK w, e : w = From(u, a) /\ e = From(t, a + 1)
  OBVIOUS
<1>5. Len(w) = n + 2 - a /\ \A i \in 1 .. n + 2 - a : w[i] = u[a + i - 1]
  <2>1. a <= Len(u) + 1
    BY <1>1, <1>3
  <2>2. /\ Len(From(u, a)) = Len(u) - a + 1
        /\ \A i \in 1 .. Len(u) - a + 1 : From(u, a)[i] = u[a + i - 1]
    BY <1>3, <2>1, FromPart
  <2>3. Len(u) - a + 1 = n + 2 - a
    BY <1>1, <1>3
  <2>4. QED  BY <1>4, <2>2, <2>3
<1>6. Len(e) = n - a /\ \A i \in 1 .. n - a : e[i] = t[a + i]
  <2>1. PICK b \in Nat : b = a + 1
    OBVIOUS
  <2>2. 1 <= b /\ b <= Len(t) + 1
    BY <1>1, <2>1
  <2>3. /\ Len(From(t, b)) = n - b + 1
        /\ \A i \in 1 .. n - b + 1 : From(t, b)[i] = t[b + i - 1]
    BY <1>1, <2>2, FromPart
  <2>4. n - b + 1 = n - a /\ \A i \in 1 .. n - a : b + i - 1 = a + i
    BY <1>1, <2>1
  <2>5. QED  BY <1>4, <2>1, <2>3, <2>4
<1>7. w[1] = Open
  <2>1. a + 1 - 1 = a /\ a \in 1 .. n /\ 1 \in 1 .. n + 2 - a
    BY <1>1
  <2>2. QED  BY <1>3, <1>5, <2>1
<1>8. w[Len(e) + 2] = Close
  <2>1. Len(e) + 2 \in 1 .. n + 2 - a /\ a + (Len(e) + 2) - 1 = n + 1
    BY <1>1, <1>6
  <2>2. QED  BY <1>3, <1>5, <2>1
<1>9. \A i \in 1 .. Len(e) : w[1 + i] = e[i]
  <2>1. TAKE i \in 1 .. Len(e)
  <2>2. 1 + i \in 1 .. n + 2 - a /\ a + (1 + i) - 1 = a + i /\ a + i \in 1 .. n
    BY <1>1, <1>6
  <2>3. QED  BY <1>3, <1>5, <1>6, <2>2
<1>10. Len(w) = Len(e) + 2
  BY <1>1, <1>5, <1>6
<1>11. QED  BY <1>2, <1>4, <1>7, <1>8, <1>9, <1>10 DEF Wrapped

------------------------------------------------------------------------------
(***************************************************************************)
(* What each step of the parser does to the places.                        *)
(***************************************************************************)
\* What a value is: the text from the place of the right operand.
LEMMA ValueText ==
    ASSUME NEW t \in Texts, NEW f, NEW a, NEW b, FrameOK(t, f, a, b), NEW e, e # NoExpr,
           ValueOK(t, e, f, b)
    PROVE  /\ a \in Nat /\ b \in Nat /\ 1 <= a /\ a <= b /\ b < Len(t) + 1 /\ Len(t) \in Nat
           /\ From(t, b) \in Texts /\ Reads(From(t, b), e) /\ Suits(f, From(t, b))
<1>1. a \in Nat /\ b \in Nat /\ 1 <= a /\ a <= b /\ b <= Len(t) + 1
  BY Zenon DEF FrameOK
<1>2. Reads(From(t, b), e) /\ Suits(f, From(t, b))
  BY DEF ValueOK
<1>3. 1 <= b
  BY <1>1
<1>4. From(t, b) \in Texts /\ Len(From(t, b)) = Len(t) - b + 1 /\ Len(t) \in Nat
  BY <1>1, <1>3, FromPart
<1>5. Len(From(t, b)) >= 1
  BY <1>2, NotEmpty
<1>6. b < Len(t) + 1
  BY <1>1, <1>4, <1>5
<1>7. QED  BY <1>1, <1>2, <1>4, <1>6

LEMMA TopFrame ==
    ASSUME NEW t \in Texts, NEW S, NEW s \in Seq(S), NEW from, NEW here, Nested(t, s, from, here)
    PROVE  /\ Head(s) = At(s, Len(s)) /\ Len(s) \in Nat /\ Len(s) >= 1
           /\ FrameOK(t, Head(s), from[Len(s)], here[Len(s)])
<1>1. s # <<>>
  BY DEF Nested
<1>2. Head(s) = At(s, Len(s)) /\ Len(s) \in Nat /\ Len(s) >= 1
  BY <1>1, PopAt, LenProperties
<1>3. Len(s) \in 1 .. Len(s)
  BY <1>2
<1>4. QED  BY <1>2, <1>3 DEF Nested

------------------------------------------------------------------------------
(* Each action keeps the stack over its text.                              *)
LEMMA LeafPlaced ==
    ASSUME NEW t \in Texts, NEW S, NEW s \in Seq(S), NEW ready, NEW x \in Operands,
           Placed(t, s, NoExpr, ready, x), NEW ready1, NEW x1
    PROVE  Placed(Append(t, x), s, Leaf(x), ready1, x1)
<1>1. PICK from, here : Nested(t, s, from, here) /\ ValueOK(t, NoExpr, At(s, Len(s)), here[Len(s)])
  BY DEF Placed
<1>2. x \in Alphabet /\ Len(t) \in Nat
  BY TextGrows DEF Alphabet, Texts
<1>3. PICK u, b : u = Append(t, x) /\ b = here[Len(s)]
  OBVIOUS
<1>4. u \in Texts /\ Len(u) = Len(t) + 1 /\ u[Len(t) + 1] = x /\ b = Len(t) + 1
  BY <1>1, <1>2, <1>3, TextGrows DEF ValueOK
<1>5. PICK v : v = From(u, b)
  OBVIOUS
<1>6. v \in Texts /\ Len(v) = 1 /\ v[1] = x
  <2>1. b \in Nat /\ 1 <= b /\ b <= Len(u) + 1
    BY <1>2, <1>4
  <2>2. /\ From(u, b) \in Texts /\ Len(From(u, b)) = Len(u) - b + 1
        /\ \A i \in 1 .. Len(u) - b + 1 : From(u, b)[i] = u[b + i - 1]
    BY <1>4, <2>1, FromPart
  <2>3. Len(u) - b + 1 = 1 /\ b + 1 - 1 = Len(t) + 1
    BY <1>2, <1>4
  <2>4. QED  BY <1>4, <1>5, <2>2, <2>3
<1>7. Reads(v, Leaf(x)) /\ IsFactor(v)
  BY <1>6, LeafReads
<1>8. ValueOK(u, Leaf(x), At(s, Len(s)), b) /\ Greedy(v, At(s, Len(s)), ready1, x1)
  BY <1>5, <1>7, ExprsAre DEF ValueOK, Suits, IsFactor, Greedy
<1>9. Nested(u, s, from, here)
  BY <1>1, <1>2, <1>3, NestedGrows
<1>10. QED  BY <1>3, <1>5, <1>8, <1>9 DEF Placed

LEMMA OpenPlaced ==
    ASSUME NEW t \in Texts, NEW S, NEW s \in Seq(Frames(S)), NoExpr \in S, NEW ready, NEW x,
           Placed(t, s, NoExpr, ready, x), NEW ready1, NEW x1
    PROVE  /\ Placed(Append(t, Open), <<Frame(Lowest, NoExpr, NoOp, TRUE)>> \o s, NoExpr, ready1, x1)
           /\ Frame(Lowest, NoExpr, NoOp, TRUE) \in Frames(S)
<1>1. PICK from, here : Nested(t, s, from, here) /\ ValueOK(t, NoExpr, At(s, Len(s)), here[Len(s)])
  BY DEF Placed
<1>2. Open \in Alphabet /\ Len(t) \in Nat
  BY TextGrows DEF Alphabet, Texts
<1>3. PICK u : u = Append(t, Open)
  OBVIOUS
<1>4. /\ u \in Texts /\ Len(u) = Len(t) + 1 /\ u[Len(t) + 1] = Open
      /\ here[Len(s)] = Len(t) + 1
  BY <1>1, <1>2, <1>3, TextGrows DEF ValueOK
<1>5. PICK f : f = Frame(Lowest, NoExpr, NoOp, TRUE)
  OBVIOUS
<1>6. f \in Frames(S) /\ f.min = Lowest /\ f.op = NoOp /\ f.bracket = TRUE
  BY <1>5 DEF Frame, Frames
<1>7. PICK a \in Nat : a = Len(t) + 2
  BY <1>2
<1>8. FrameOK(u, f, a, a)
  <2>1. a <= Len(u) + 1 /\ a <= a /\ 1 <= a
    BY <1>2, <1>4, <1>7
  <2>2. f.min # 102 /\ f.min \in {Lowest, 102} /\ f.op \in Ops \cup {NoOp}
    BY <1>6 DEF Lowest
  <2>3. f.bracket \in BOOLEAN
    BY <1>6, Zenon
  <2>4. QED  BY <1>6, <1>7, <2>1, <2>2, <2>3 DEF FrameOK
<1>9. Above(u, At(s, Len(s)), here[Len(s)], f, a)
  BY <1>2, <1>4, <1>6, <1>7 DEF Above
<1>10. Nested(u, s, from, here)
  BY <1>1, <1>2, <1>3, NestedGrows
<1>11. PICK from1, here1 : Nested(u, <<f>> \o s, from1, here1) /\ here1[Len(<<f>> \o s)] = a
  BY <1>4, <1>6, <1>8, <1>9, <1>10, NestedPush
<1>12. a = Len(u) + 1
  BY <1>2, <1>4, <1>7
<1>13. QED  BY <1>3, <1>5, <1>6, <1>11, <1>12 DEF Placed, ValueOK

LEMMA EatPlaced ==
    ASSUME NEW t \in Texts, NEW S, NEW s \in Seq(Frames(S)), NEW e \in S, e # NoExpr,
           NEW x, Placed(t, s, e, TRUE, x),
           Head(s).op = NoOp, Precedence(x) >= Head(s).min, NEW ready1, NEW x1
    PROVE  /\ Placed(Append(t, x), <<[Head(s) EXCEPT !.lhs = e, !.op = x]>> \o Tail(s), NoExpr,
                     ready1, x1)
           /\ [Head(s) EXCEPT !.lhs = e, !.op = x] \in Frames(S) /\ x \in Ops
<1>1. PICK from, here : /\ Nested(t, s, from, here)
                        /\ ValueOK(t, e, At(s, Len(s)), here[Len(s)])
                        /\ Greedy(From(t, here[Len(s)]), At(s, Len(s)), TRUE, x)
  BY DEF Placed
<1>2. PICK n, f : n = Len(s) /\ f = Head(s)
  OBVIOUS
<1>3. /\ f = At(s, n) /\ n \in Nat /\ n >= 1 /\ FrameOK(t, f, from[n], here[n])
  BY <1>1, <1>2, TopFrame
<1>4. PICK a, b : a = from[n] /\ b = here[n]
  OBVIOUS
<1>5. /\ a \in Nat /\ b \in Nat /\ 1 <= a /\ b < Len(t) + 1 /\ Len(t) \in Nat
      /\ Reads(From(t, b), e)
  BY <1>1, <1>2, <1>3, <1>4, ValueText
<1>6. /\ f.min \in {Lowest, 102} /\ (f.min = 102 => ~f.bracket) /\ f.bracket \in BOOLEAN /\ a = b
  BY <1>2, <1>3, <1>4, Zenon DEF FrameOK
<1>7. x \in Ops /\ (f.min = 102 => x \notin AddOps)
  <2>1. Precedence(x) >= f.min /\ f.min \in {1, 102}
    BY <1>2, <1>6, Precedences
  <2>2. x \in Ops
    BY <2>1, Precedences
  <2>3. ASSUME f.min = 102, x \in AddOps PROVE FALSE
    <3>1. Precedence(x) = 101
      BY <2>3, Precedences
    <3>2. QED  BY <2>1, <2>3, <3>1
  <2>4. QED  BY <2>2, <2>3
<1>8. PICK g : g = [f EXCEPT !.lhs = e, !.op = x]
  OBVIOUS
<1>9. f \in Frames(S)
  BY <1>1, <1>2, PopAt DEF Nested
<1>10. /\ g \in Frames(S) /\ g.lhs = e /\ g.op = x /\ g.min = f.min /\ g.bracket = f.bracket
  BY <1>7, <1>8, <1>9 DEF Frames
<1>11. PICK u : u = Append(t, x)
  OBVIOUS
<1>12. x \in Alphabet
  BY <1>7 DEF Alphabet
<1>13. u \in Texts /\ Len(u) = Len(t) + 1 /\ u[Len(t) + 1] = x
  BY <1>11, <1>12, TextGrows
<1>14. PICK c \in Nat : c = Len(t) + 2
  BY <1>5
<1>15. FrameOK(u, g, a, c)
  <2>1. SubSeq(u, a, c - 2) = From(t, a)
    <3>1. c - 2 = Len(t) /\ a <= Len(t) + 1 /\ Len(t) \in Int
      BY <1>5, <1>6, <1>14
    <3>2. SubSeq(Append(t, x), a, Len(t)) = SubSeq(t, a, Len(t))
      BY <1>5, <1>12, <3>1, PartGrows
    <3>3. QED  BY <1>11, <3>1, <3>2 DEF From
  <2>2. x \in MulOps => IsTerm(From(t, a))
    BY <1>1, <1>2, <1>3, <1>4, <1>6 DEF Greedy
  <2>3. c - 1 = Len(t) + 1 /\ a < c /\ c <= Len(u) + 1 /\ a <= c
    BY <1>5, <1>6, <1>13, <1>14
  <2>4. g.op # NoOp /\ g.op \in Ops
    BY <1>7, <1>10, Precedences
  <2>5. Reads(SubSeq(u, a, c - 2), g.lhs) /\ (g.op \in MulOps => IsTerm(SubSeq(u, a, c - 2)))
        /\ u[c - 1] = g.op
    BY <1>5, <1>6, <1>10, <1>13, <2>1, <2>2, <2>3
  <2>6. g.min \in {Lowest, 102} /\ g.bracket \in BOOLEAN /\ (g.min = 102 => g.op \notin AddOps /\ ~g.bracket)
    BY <1>6, <1>7, <1>10
  <2>7. QED  BY <1>5, <1>14, <2>3, <2>4, <2>5, <2>6 DEF FrameOK
<1>16. Nested(u, s, from, here)
  BY <1>1, <1>11, <1>12, NestedGrows
<1>17. PICK here1 : Nested(u, <<g>> \o Tail(s), from, here1) /\ here1[Len(<<g>> \o Tail(s))] = c
  BY <1>2, <1>3, <1>4, <1>10, <1>13, <1>15, <1>16, NestedReplace
<1>18. c = Len(u) + 1
  BY <1>5, <1>13, <1>14
<1>19. QED  BY <1>2, <1>7, <1>8, <1>10, <1>11, <1>17, <1>18 DEF Placed, ValueOK

LEMMA ClimbPlaced ==
    ASSUME NEW t \in Texts, NEW S, NEW s \in Seq(Frames(S)), NoExpr \in S, NEW e, e # NoExpr,
           NEW x, Placed(t, s, e, TRUE, x),
           Head(s).op # NoOp, Precedence(Head(s).op) < Precedence(x)
    PROVE  /\ Placed(t, <<Frame(Precedence(Head(s).op) + 1, NoExpr, NoOp, FALSE)>> \o s, e, TRUE, x)
           /\ Frame(Precedence(Head(s).op) + 1, NoExpr, NoOp, FALSE) \in Frames(S)
<1>1. PICK from, here : /\ Nested(t, s, from, here)
                        /\ ValueOK(t, e, At(s, Len(s)), here[Len(s)])
  BY DEF Placed
<1>2. PICK n, f : n = Len(s) /\ f = Head(s)
  OBVIOUS
<1>3. /\ f = At(s, n) /\ n \in Nat /\ n >= 1 /\ FrameOK(t, f, from[n], here[n])
  BY <1>1, <1>2, TopFrame
<1>4. PICK b : b = here[n]
  OBVIOUS
<1>5. /\ b \in Nat /\ 1 <= b /\ b < Len(t) + 1 /\ Len(t) \in Nat
      /\ Reads(From(t, b), e) /\ Suits(f, From(t, b))
  <2>1. from[n] \in Nat /\ b \in Nat /\ 1 <= from[n] /\ from[n] <= b /\ b < Len(t) + 1
        /\ Len(t) \in Nat /\ Reads(From(t, b), e) /\ Suits(f, From(t, b))
    BY <1>1, <1>2, <1>3, <1>4, ValueText
  <2>2. QED  BY <2>1
<1>6. f.op \in AddOps /\ Precedence(f.op) = 101
  <2>1. f.op \in Ops
    BY <1>2, <1>3, Zenon DEF FrameOK
  <2>2. ASSUME f.op \in MulOps PROVE FALSE
    <3>1. Precedence(f.op) = 201 /\ Precedence(x) \in {0, 101, 201}
      BY <2>2, Precedences
    <3>2. QED  BY <1>2, <3>1
  <2>3. f.op \in AddOps
    BY <2>1, <2>2 DEF Ops
  <2>4. QED  BY <2>3, Precedences
<1>7. PICK g : g = Frame(Precedence(f.op) + 1, NoExpr, NoOp, FALSE)
  OBVIOUS
<1>8. g \in Frames(S) /\ g.min = 102 /\ g.op = NoOp /\ g.bracket = FALSE
  BY <1>6, <1>7 DEF Frame, Frames
<1>9. NoOp \notin AddOps /\ NoOp \notin MulOps
  BY Precedences DEF Ops
<1>10. FrameOK(t, g, b, b)
  <2>1. b <= Len(t) + 1 /\ b <= b
    BY <1>5
  <2>2. g.op \in Ops \cup {NoOp} /\ g.op \notin AddOps /\ ~g.bracket /\ g.bracket \in BOOLEAN
        /\ g.min \in {Lowest, 102}
    BY <1>8, <1>9
  <2>3. QED  BY <1>5, <1>8, <2>1, <2>2 DEF FrameOK
<1>11. Above(t, At(s, Len(s)), here[Len(s)], g, b)
  BY <1>2, <1>3, <1>4, <1>6, <1>8 DEF Above
<1>12. PICK from1, here1 : Nested(t, <<g>> \o s, from1, here1) /\ here1[Len(<<g>> \o s)] = b
  BY <1>1, <1>8, <1>10, <1>11, NestedPush
<1>13. IsTerm(From(t, b))
  BY <1>5, <1>6 DEF Suits
<1>14. At(<<g>> \o s, Len(<<g>> \o s)) = g
  BY <1>8, PushAt
<1>15. ValueOK(t, e, g, b) /\ Greedy(From(t, b), g, TRUE, x)
  BY <1>5, <1>8, <1>9, <1>13 DEF ValueOK, Suits, Greedy
<1>16. QED  BY <1>2, <1>7, <1>8, <1>12, <1>14, <1>15 DEF Placed

LEMMA JoinPlaced ==
    ASSUME NEW t \in Texts, NEW S, NEW s \in Seq(Frames(S)), NoExpr \in S, NEW e, e # NoExpr,
           NEW x, Placed(t, s, e, TRUE, x), x # NewLineToken,
           Head(s).op # NoOp, Precedence(Head(s).op) >= Precedence(x)
    PROVE  /\ Placed(t, <<[Head(s) EXCEPT !.lhs = NoExpr, !.op = NoOp]>> \o Tail(s),
                     Binary(Head(s).op, Head(s).lhs, e), TRUE, x)
           /\ [Head(s) EXCEPT !.lhs = NoExpr, !.op = NoOp] \in Frames(S)
<1>1. PICK from, here : /\ Nested(t, s, from, here)
                        /\ ValueOK(t, e, At(s, Len(s)), here[Len(s)])
  BY DEF Placed
<1>2. PICK n, f : n = Len(s) /\ f = Head(s)
  OBVIOUS
<1>3. /\ f = At(s, n) /\ n \in Nat /\ n >= 1 /\ FrameOK(t, f, from[n], here[n])
  BY <1>1, <1>2, TopFrame
<1>4. PICK a, b : a = from[n] /\ b = here[n]
  OBVIOUS
<1>5. /\ a \in Nat /\ b \in Nat /\ 1 <= a /\ a <= b /\ b < Len(t) + 1 /\ Len(t) \in Nat
      /\ From(t, b) \in Texts /\ Reads(From(t, b), e) /\ Suits(f, From(t, b))
  BY <1>1, <1>2, <1>3, <1>4, ValueText
<1>6. /\ f.min \in {Lowest, 102} /\ f.op \in Ops /\ f.bracket \in BOOLEAN
      /\ f.min = 102 => f.op \notin AddOps /\ ~f.bracket
      /\ a < b /\ t[b - 1] = f.op
      /\ Reads(SubSeq(t, a, b - 2), f.lhs)
      /\ f.op \in MulOps => IsTerm(SubSeq(t, a, b - 2))
  BY <1>2, <1>3, <1>4 DEF FrameOK
<1>7. PICK g : g = [f EXCEPT !.lhs = NoExpr, !.op = NoOp]
  OBVIOUS
<1>8. f \in Frames(S)
  BY <1>1, <1>2, PopAt DEF Nested
<1>9. /\ g \in Frames(S) /\ g.op = NoOp /\ g.min = f.min /\ g.bracket = f.bracket
  BY <1>7, <1>8 DEF Frames
<1>10. NoOp \notin AddOps /\ NoOp \notin MulOps
  BY Precedences DEF Ops
<1>11. FrameOK(t, g, a, a)
  <2>1. a <= Len(t) + 1 /\ a <= a
    BY <1>5
  <2>2. QED  BY <1>5, <1>6, <1>9, <1>10, <2>1 DEF FrameOK
<1>12. PICK s1, here1 : /\ s1 = <<g>> \o Tail(s)
                        /\ Nested(t, s1, from, here1) /\ here1[Len(s1)] = a
  <2>1. PICK h : /\ Nested(t, <<g>> \o Tail(s), from, h)
                 /\ h[Len(<<g>> \o Tail(s))] = a
    BY <1>1, <1>2, <1>3, <1>4, <1>9, <1>11, NestedReplace
  <2>2. QED  BY <2>1
<1>13. At(s1, Len(s1)) = g
  BY <1>1, <1>9, <1>12, ReplaceAt DEF Nested
<1>14. PICK w, l, v : w = From(t, a) /\ l = SubSeq(t, a, b - 2) /\ v = From(t, b)
  OBVIOUS
<1>15. w \in Texts /\ Joined(w, l, f.op, v)
  <2>1. a <= Len(t) + 1 /\ b <= Len(t) + 1
    BY <1>5
  <2>2. QED  BY <1>5, <1>6, <1>14, <2>1, FromPart, JoinedText
<1>16. PICK e1 : e1 = Binary(f.op, f.lhs, e)
  OBVIOUS
<1>17. CASE f.op \in MulOps
  <2>1. Reads(w, e1) /\ IsTerm(w)
    <3>1. IsFactor(v)
      BY <1>5, <1>14, <1>17 DEF Suits
    <3>2. QED  BY <1>5, <1>6, <1>14, <1>15, <1>16, <1>17, <3>1, ProductReads
  <2>2. ValueOK(t, e1, g, a) /\ Greedy(w, g, TRUE, x)
    BY <1>9, <1>10, <1>14, <1>16, <2>1, ExprsAre DEF ValueOK, Suits, Greedy
  <2>3. Placed(t, s1, e1, TRUE, x)
    BY <1>12, <1>13, <1>14, <2>2 DEF Placed
  <2>4. QED  BY <1>2, <1>7, <1>9, <1>12, <1>16, <2>3
<1>18. CASE f.op \in AddOps
  <2>1. Reads(w, e1)
    <3>1. IsTerm(v)
      BY <1>5, <1>14, <1>18 DEF Suits
    <3>2. QED  BY <1>5, <1>6, <1>14, <1>15, <1>16, <1>18, <3>1, SumReads
  <2>2. x \notin MulOps
    <3>1. SUFFICES ASSUME x \in MulOps PROVE FALSE
      OBVIOUS
    <3>2. Precedence(x) = 201 /\ Precedence(f.op) = 101
      BY <1>18, <3>1, Precedences
    <3>3. QED  BY <1>2, <3>2
  <2>3. g.min # 102
    BY <1>6, <1>9, <1>18
  <2>4. ValueOK(t, e1, g, a)
    BY <1>9, <1>10, <1>14, <1>16, <2>1, <2>3, ExprsAre DEF ValueOK, Suits
  <2>5. Greedy(w, g, TRUE, x)
    BY <2>2 DEF Greedy
  <2>6. Placed(t, s1, e1, TRUE, x)
    BY <1>12, <1>13, <1>14, <2>4, <2>5 DEF Placed
  <2>7. QED  BY <1>2, <1>7, <1>9, <1>12, <1>16, <2>6
<1>19. QED  BY <1>6, <1>17, <1>18 DEF Ops

LEMMA ReturnPlaced ==
    ASSUME NEW t \in Texts, NEW S, NEW s \in Seq(Frames(S)), NEW e, e # NoExpr,
           NEW ready, NEW x, Placed(t, s, e, ready, x),
           Head(s).op = NoOp, ~Head(s).bracket, Len(s) > 1
    PROVE  Placed(t, Tail(s), e, ready, x)
<1>1. PICK from, here : /\ Nested(t, s, from, here)
                        /\ ValueOK(t, e, At(s, Len(s)), here[Len(s)])
  BY DEF Placed
<1>2. PICK n, f : n = Len(s) /\ f = Head(s)
  OBVIOUS
<1>3. /\ f = At(s, n) /\ n \in Nat /\ n > 1 /\ FrameOK(t, f, from[n], here[n])
  BY <1>1, <1>2, TopFrame
<1>4. PICK b : b = here[n]
  OBVIOUS
<1>5. Reads(From(t, b), e) /\ Suits(f, From(t, b))
  BY <1>1, <1>2, <1>3, <1>4, ValueText
<1>6. from[n] = b
  BY <1>2, <1>3, <1>4, Zenon DEF FrameOK
<1>7. PICK m \in Nat : n = m + 1 /\ m >= 1
  BY <1>3, n - 1 \in Nat
<1>8. /\ Nested(t, Tail(s), from, here) /\ Len(Tail(s)) = m
      /\ At(Tail(s), m) = At(s, m)
  <2>1. Nested(t, Tail(s), from, here) /\ s # <<>>
    BY <1>1, NestedPop DEF Nested
  <2>2. Len(s) - 1 = m /\ m \in 1 .. Len(s) - 1
    BY <1>2, <1>7
  <2>3. QED  BY <2>1, <2>2, PopAt
<1>9. PICK g : g = At(s, m)
  OBVIOUS
<1>10. here[m] = b /\ f.min = 102 /\ g.op \in AddOps
  <2>1. m \in 1 .. Len(s) - 1
    BY <1>2, <1>7
  <2>2. Above(t, At(s, m), here[m], At(s, m + 1), from[m + 1])
    BY <1>1, <2>1 DEF Nested
  <2>3. QED  BY <1>2, <1>3, <1>6, <1>7, <1>9, <2>2 DEF Above
<1>11. IsTerm(From(t, b)) /\ g.op \notin MulOps /\ g.op # NoOp
  BY <1>5, <1>10, Tokens, Precedences DEF Suits, Ops
<1>12. ValueOK(t, e, g, b) /\ Greedy(From(t, b), g, ready, x)
  BY <1>5, <1>11 DEF ValueOK, Suits, Greedy
<1>13. QED  BY <1>8, <1>9, <1>10, <1>12 DEF Placed

LEMMA ClosePlaced ==
    ASSUME NEW t \in Texts, NEW S, NEW s \in Seq(Frames(S)), NEW e, e # NoExpr,
           NEW ready, NEW x, Placed(t, s, e, ready, x),
           Head(s).op = NoOp, Head(s).bracket, NEW ready1, NEW x1
    PROVE  Placed(Append(t, Close), Tail(s), e, ready1, x1) /\ Len(s) > 1
<1>1. PICK from, here : /\ Nested(t, s, from, here)
                        /\ ValueOK(t, e, At(s, Len(s)), here[Len(s)])
  BY DEF Placed
<1>2. PICK n, f : n = Len(s) /\ f = Head(s)
  OBVIOUS
<1>3. /\ f = At(s, n) /\ n \in Nat /\ n >= 1 /\ FrameOK(t, f, from[n], here[n])
  BY <1>1, <1>2, TopFrame
<1>4. PICK b : b = here[n]
  OBVIOUS
<1>5. b \in Nat /\ b < Len(t) + 1 /\ Len(t) \in Nat /\ Reads(From(t, b), e)
  BY <1>1, <1>2, <1>3, <1>4, ValueText
<1>6. from[n] = b
  BY <1>2, <1>3, <1>4, Zenon DEF FrameOK
<1>7. n # 1
  BY <1>1, <1>2, <1>3 DEF Nested
<1>8. PICK m \in Nat : n = m + 1 /\ m >= 1
  BY <1>3, <1>7, n - 1 \in Nat
<1>9. Len(s) > 1
  BY <1>2, <1>8
<1>10. PICK u : u = Append(t, Close)
  OBVIOUS
<1>11. Close \in Alphabet
  BY DEF Alphabet
<1>12. u \in Texts /\ Nested(u, s, from, here)
  BY <1>1, <1>10, <1>11, NestedGrows, TextGrows
<1>13. /\ Nested(u, Tail(s), from, here) /\ Len(Tail(s)) = m
       /\ At(Tail(s), m) = At(s, m)
  <2>1. s # <<>>
    BY <1>1 DEF Nested
  <2>2. Nested(u, Tail(s), from, here)
    BY <1>9, <1>12, NestedPop
  <2>3. Len(s) - 1 = m /\ m \in 1 .. Len(s) - 1
    BY <1>2, <1>8
  <2>4. QED  BY <2>1, <2>2, <2>3, PopAt
<1>14. PICK g, a : g = At(s, m) /\ a = here[m]
  OBVIOUS
<1>15. b = a + 1 /\ t[a] = Open /\ a \in Nat /\ 1 <= a
  <2>1. m \in 1 .. Len(s) - 1 /\ m \in 1 .. Len(s)
    BY <1>2, <1>8
  <2>2. Above(t, At(s, m), here[m], At(s, m + 1), from[m + 1]) /\ FrameOK(t, At(s, m), from[m], here[m])
    BY <1>1, <2>1 DEF Nested
  <2>3. from[m] \in Nat /\ a \in Nat /\ 1 <= from[m] /\ from[m] <= a
    BY <1>14, <2>2, Zenon DEF FrameOK
  <2>4. b = a + 1 /\ t[a] = Open
    BY <1>2, <1>3, <1>6, <1>8, <1>14, <2>2 DEF Above
  <2>5. QED  BY <2>3, <2>4
<1>16. a < Len(t) + 1
  BY <1>5, <1>15
<1>17. PICK w : w = From(u, a)
  OBVIOUS
<1>18. w \in Texts /\ Wrapped(w, From(t, b))
  <2>1. Len(u) = Len(t) + 1
    BY <1>10, <1>11, TextGrows
  <2>2. a <= Len(u) + 1
    BY <1>5, <1>15, <1>16, <2>1
  <2>3. w \in Texts
    BY <1>12, <1>15, <1>17, <2>2, FromPart
  <2>4. QED  BY <1>10, <1>15, <1>16, <1>17, <2>3, WrappedText
<1>19. Reads(w, e) /\ IsFactor(w)
  BY <1>5, <1>18, BracketReads
<1>20. ValueOK(u, e, g, a) /\ Greedy(w, g, ready1, x1)
  BY <1>17, <1>19 DEF ValueOK, Suits, Greedy, IsFactor
<1>21. QED  BY <1>9, <1>10, <1>13, <1>14, <1>17, <1>20 DEF Placed

------------------------------------------------------------------------------
(***************************************************************************)
(* The inductive invariant of the parser: its stack has places in what it has *)
(* read. One lemma per action.                                             *)
(***************************************************************************)
\* What is read so far is spelled by the stack; the token is none while the
\* tokenizer looks for one.
ParseInv ==
    /\ read \in Texts
    /\ \E S : NoExpr \in S /\ value \in S /\ stack \in Seq(Frames(S))
    /\ Placed(read, stack, value, scan = "ready", token)
    /\ scan # "ready" => token = NoToken

\* The parser returns from its outermost call, at a token it has no use for.
DoneInv ==
    status = "done" => /\ value # NoExpr /\ Len(stack) = 1 /\ Head(stack).op = NoOp
                       /\ token \notin Ops

LEMMA MoreFrames ==
    ASSUME NEW S, NEW s \in Seq(Frames(S)), NEW T, S \subseteq T
    PROVE  s \in Seq(Frames(T))
<1>1. Frames(S) \subseteq Frames(T)
  BY DEF Frames
<1>2. /\ Len(s) \in Nat /\ DOMAIN s = 1 .. Len(s)
      /\ \A i \in 1 .. Len(s) : s[i] \in Frames(S)
  BY LenProperties, ElementOfSeq
<1>3. s = [i \in 1 .. Len(s) |-> s[i]]
  BY SeqDef
<1>4. [i \in 1 .. Len(s) |-> s[i]] \in Seq(Frames(T))
  BY <1>1, <1>2, IsASeq
<1>5. QED  BY <1>3, <1>4

LEMMA ParseInit == Init => ParseInv /\ DoneInv
<1> SUFFICES ASSUME Init PROVE ParseInv /\ DoneInv
  OBVIOUS
<1>1. PICK f : f = Frame(Lowest, NoExpr, NoOp, FALSE)
  OBVIOUS
<1>2. f \in Frames({NoExpr}) /\ f.min = Lowest /\ f.op = NoOp /\ f.bracket = FALSE
  BY <1>1 DEF Frame, Frames
<1>3. stack \in Seq(Frames({NoExpr})) /\ Len(stack) = 1 /\ stack[1] = f /\ stack # <<>>
  <2>1. stack = <<f>>
    BY <1>1 DEF Init
  <2>2. /\ <<f>> \in Seq(Frames({NoExpr})) /\ Len(<<f>>) = 1 /\ <<f>>[1] = f
        /\ <<f>> # <<>>
    BY <1>2
  <2>3. QED  BY <2>1, <2>2
<1>4. read = <<>> /\ read \in Texts /\ Len(read) = 0 /\ value = NoExpr
  BY EmptySpells, EmptySeq DEF Init
<1>5. At(stack, 1) = f
  BY <1>3, 1 + 1 - 1 = 1 DEF At
<1>6. PICK from : from = [i \in Nat |-> 1]
  OBVIOUS
<1>7. from \in [Nat -> Nat] /\ from[1] = 1
  BY <1>6
<1>8. FrameOK(read, f, 1, 1)
  <2>1. f.min # 102 /\ f.min \in {Lowest, 102} /\ f.op \in Ops \cup {NoOp}
    BY <1>2 DEF Lowest
  <2>2. f.bracket \in BOOLEAN
    BY <1>2, Zenon
  <2>3. QED  BY <1>2, <1>4, <2>1, <2>2 DEF FrameOK
<1>9. Nested(read, stack, from, from)
  <2>1. \A d \in 1 .. Len(stack) : d = 1
    BY <1>3
  <2>2. 1 .. Len(stack) - 1 = {}
    BY <1>3
  <2>3. ~f.bracket
    BY <1>2
  <2>4. QED  BY <1>2, <1>3, <1>5, <1>7, <1>8, <2>1, <2>2, <2>3 DEF Nested
<1>10. ValueOK(read, value, At(stack, Len(stack)), from[Len(stack)])
  BY <1>3, <1>4, <1>7 DEF ValueOK
<1>11. Placed(read, stack, value, scan = "ready", token)
  BY <1>4, <1>9, <1>10 DEF Placed
<1>12. token = NoToken /\ status = "parsing"
  BY DEF Init, TokenizerInit
<1>13. QED  BY <1>3, <1>4, <1>11, <1>12 DEF ParseInv, DoneInv

\* What an action of the parser that eats or looks at a token sees.
LEMMA SeesToken ==
    ASSUME ParseInv, HasToken
    PROVE  /\ status = "parsing" /\ scan = "ready" /\ token # NewLineToken
           /\ read \in Texts /\ Placed(read, stack, value, TRUE, token)
           /\ \E S : NoExpr \in S /\ value \in S /\ stack \in Seq(Frames(S))
           /\ stack # <<>> /\ Head(stack).bracket \in BOOLEAN
<1>1. status = "parsing" /\ scan = "ready" /\ token # NewLineToken
  BY DEF HasToken
<1>2. (scan = "ready") = TRUE
  BY <1>1, Zenon
<1>3. Placed(read, stack, value, TRUE, token)
  BY <1>2, Zenon DEF ParseInv
<1>4. PICK S : stack \in Seq(Frames(S))
  BY DEF ParseInv
<1>5. stack # <<>>
  BY <1>3 DEF Placed, Nested
<1>6. Head(stack) \in Frames(S)
  BY <1>4, <1>5, PopAt
<1>7. Head(stack).bracket \in BOOLEAN
  BY <1>6, Zenon DEF Frames
<1>8. QED  BY <1>1, <1>3, <1>5, <1>7 DEF ParseInv

LEMMA EatsToken ==
    ASSUME next_token
    PROVE  read' = Append(read, token) /\ token' = NoToken /\ scan' = "start"
BY DEF next_token, Call_next_token

LEMMA LeafStep == ParseInv /\ parse_leaf => ParseInv'
<1> SUFFICES ASSUME ParseInv, parse_leaf PROVE ParseInv'
  OBVIOUS
<1>1. /\ HasToken /\ value = NoExpr /\ token \in Operands /\ value' = Leaf(token)
      /\ next_token /\ stack' = stack
  BY DEF parse_leaf, Primary
<1>2. read \in Texts /\ Placed(read, stack, NoExpr, TRUE, token)
  BY <1>1, SeesToken
<1>3. PICK S : NoExpr \in S /\ value \in S /\ stack \in Seq(Frames(S))
  BY <1>1, SeesToken
<1>4. read' = Append(read, token) /\ token' = NoToken /\ scan' = "start"
  BY <1>1, EatsToken
<1>5. token \in Alphabet
  BY <1>1 DEF Alphabet
<1>6. read' \in Texts
  BY <1>2, <1>4, <1>5, TextGrows
<1>7. Placed(Append(read, token), stack, Leaf(token), scan' = "ready", token')
  BY <1>1, <1>2, <1>3, LeafPlaced
<1>8. Placed(read', stack', value', scan' = "ready", token')
  BY <1>1, <1>4, <1>7, Zenon
<1>9. PICK T : T = S \cup {value'}
  OBVIOUS
<1>10. NoExpr \in T /\ value' \in T /\ stack' \in Seq(Frames(T))
  BY <1>1, <1>3, <1>9, MoreFrames
<1>11. QED  BY <1>4, <1>6, <1>8, <1>10 DEF ParseInv

LEMMA OpenStep == ParseInv /\ OpenBracket => ParseInv'
<1> SUFFICES ASSUME ParseInv, OpenBracket PROVE ParseInv'
  OBVIOUS
<1>1. /\ HasToken /\ value = NoExpr /\ token = Open /\ value' = value
      /\ next_token /\ stack' = <<Frame(Lowest, NoExpr, NoOp, TRUE)>> \o stack
  BY DEF OpenBracket, Primary
<1>2. read \in Texts /\ Placed(read, stack, NoExpr, TRUE, token)
  BY <1>1, SeesToken
<1>3. PICK S : NoExpr \in S /\ value \in S /\ stack \in Seq(Frames(S))
  BY <1>1, SeesToken
<1>4. read' = Append(read, Open) /\ token' = NoToken /\ scan' = "start"
  BY <1>1, EatsToken
<1>5. read' \in Texts
  BY <1>2, <1>4, TextGrows DEF Alphabet
<1>6. /\ Placed(Append(read, Open), <<Frame(Lowest, NoExpr, NoOp, TRUE)>> \o stack, NoExpr,
                scan' = "ready", token')
      /\ Frame(Lowest, NoExpr, NoOp, TRUE) \in Frames(S)
  BY <1>2, <1>3, OpenPlaced
<1>7. Placed(read', stack', value', scan' = "ready", token')
  BY <1>1, <1>4, <1>6, Zenon
<1>8. stack' \in Seq(Frames(S))
  BY <1>1, <1>3, <1>6, PushAt
<1>9. QED  BY <1>1, <1>3, <1>4, <1>5, <1>7, <1>8 DEF ParseInv

LEMMA EatStep == ParseInv /\ EatOperator => ParseInv'
<1> SUFFICES ASSUME ParseInv, EatOperator PROVE ParseInv'
  OBVIOUS
<1>1. /\ HasToken /\ value # NoExpr /\ Head(stack).op = NoOp
      /\ Precedence(token) >= Head(stack).min
      /\ stack' = <<[Head(stack) EXCEPT !.lhs = value, !.op = token]>> \o Tail(stack)
      /\ value' = NoExpr /\ next_token
  BY DEF EatOperator, Parsed
<1>2. read \in Texts /\ Placed(read, stack, value, TRUE, token) /\ stack # <<>>
  BY <1>1, SeesToken
<1>3. PICK S : NoExpr \in S /\ value \in S /\ stack \in Seq(Frames(S))
  BY <1>1, SeesToken
<1>4. read' = Append(read, token) /\ token' = NoToken /\ scan' = "start"
  BY <1>1, EatsToken
<1>5. PICK g : g = [Head(stack) EXCEPT !.lhs = value, !.op = token]
  OBVIOUS
<1>6. /\ Placed(Append(read, token), <<g>> \o Tail(stack), NoExpr, scan' = "ready", token')
      /\ g \in Frames(S) /\ token \in Ops
  BY <1>1, <1>2, <1>3, <1>5, EatPlaced
<1>7. Placed(read', stack', value', scan' = "ready", token')
  BY <1>1, <1>4, <1>5, <1>6, Zenon
<1>8. stack' \in Seq(Frames(S))
  BY <1>1, <1>2, <1>3, <1>5, <1>6, ReplaceAt
<1>9. token \in Alphabet
  BY <1>6 DEF Alphabet
<1>10. read' \in Texts
  BY <1>2, <1>4, <1>9, TextGrows
<1>11. QED  BY <1>1, <1>3, <1>4, <1>7, <1>8, <1>10 DEF ParseInv

LEMMA ClimbStep == ParseInv /\ Climb => ParseInv'
<1> SUFFICES ASSUME ParseInv, Climb PROVE ParseInv'
  OBVIOUS
<1>1. /\ HasToken /\ value # NoExpr /\ Head(stack).op # NoOp
      /\ Precedence(Head(stack).op) < Precedence(token)
      /\ stack' = <<Frame(Precedence(Head(stack).op) + 1, NoExpr, NoOp, FALSE)>> \o stack
      /\ UNCHANGED <<read, value, scan, token>>
  BY DEF Climb, Parsed, tokenizerVars
<1>2. /\ read \in Texts /\ Placed(read, stack, value, TRUE, token)
      /\ scan = "ready"
  BY <1>1, SeesToken
<1>3. PICK S : NoExpr \in S /\ value \in S /\ stack \in Seq(Frames(S))
  BY <1>1, SeesToken
<1>4. PICK g : g = Frame(Precedence(Head(stack).op) + 1, NoExpr, NoOp, FALSE)
  OBVIOUS
<1>5. Placed(read, <<g>> \o stack, value, TRUE, token) /\ g \in Frames(S)
  BY <1>1, <1>2, <1>3, <1>4, ClimbPlaced
<1>6. (scan' = "ready") = TRUE
  BY <1>1, <1>2, Zenon
<1>7. Placed(read', stack', value', scan' = "ready", token')
  BY <1>1, <1>4, <1>5, <1>6, Zenon
<1>8. stack' \in Seq(Frames(S))
  BY <1>1, <1>3, <1>4, <1>5, PushAt
<1>9. QED  BY <1>1, <1>2, <1>3, <1>7, <1>8 DEF ParseInv

LEMMA JoinStep == ParseInv /\ Join => ParseInv'
<1> SUFFICES ASSUME ParseInv, Join PROVE ParseInv'
  OBVIOUS
<1>1. /\ HasToken /\ value # NoExpr /\ Head(stack).op # NoOp
      /\ Precedence(Head(stack).op) >= Precedence(token)
      /\ value' = Binary(Head(stack).op, Head(stack).lhs, value)
      /\ stack' = <<[Head(stack) EXCEPT !.lhs = NoExpr, !.op = NoOp]>> \o Tail(stack)
      /\ UNCHANGED <<read, scan, token>>
  BY DEF Join, Parsed, tokenizerVars
<1>2. /\ read \in Texts /\ Placed(read, stack, value, TRUE, token)
      /\ scan = "ready" /\ token # NewLineToken /\ stack # <<>>
  BY <1>1, SeesToken
<1>3. PICK S : NoExpr \in S /\ value \in S /\ stack \in Seq(Frames(S))
  BY <1>1, SeesToken
<1>4. PICK g : g = [Head(stack) EXCEPT !.lhs = NoExpr, !.op = NoOp]
  OBVIOUS
<1>5. PICK e : e = Binary(Head(stack).op, Head(stack).lhs, value)
  OBVIOUS
<1>6. Placed(read, <<g>> \o Tail(stack), e, TRUE, token) /\ g \in Frames(S)
  BY <1>1, <1>2, <1>3, <1>4, <1>5, JoinPlaced
<1>7. (scan' = "ready") = TRUE
  BY <1>1, <1>2, Zenon
<1>8. Placed(read', stack', value', scan' = "ready", token')
  BY <1>1, <1>4, <1>5, <1>6, <1>7, Zenon
<1>9. <<g>> \o Tail(stack) \in Seq(Frames(S))
  BY <1>2, <1>3, <1>6, ReplaceAt
<1>10. PICK T : T = S \cup {value'}
  OBVIOUS
<1>11. NoExpr \in T /\ value' \in T /\ stack' \in Seq(Frames(T))
  BY <1>1, <1>3, <1>4, <1>9, <1>10, MoreFrames
<1>12. QED  BY <1>1, <1>2, <1>8, <1>11 DEF ParseInv

LEMMA LoopReturnStep == ParseInv /\ ReturnRhs => ParseInv'
<1> SUFFICES ASSUME ParseInv, ReturnRhs PROVE ParseInv'
  OBVIOUS
<1>1. /\ HasToken /\ value # NoExpr /\ Head(stack).op = NoOp /\ ~Head(stack).bracket
      /\ Len(stack) > 1 /\ stack' = Tail(stack)
      /\ UNCHANGED <<read, value, scan, token>>
  BY DEF ReturnRhs, LoopReturns, Parsed, tokenizerVars
<1>2. /\ read \in Texts /\ Placed(read, stack, value, TRUE, token)
      /\ scan = "ready" /\ stack # <<>>
  BY <1>1, SeesToken
<1>3. PICK S : NoExpr \in S /\ value \in S /\ stack \in Seq(Frames(S))
  BY <1>1, SeesToken
<1>4. Placed(read, Tail(stack), value, TRUE, token)
  BY <1>1, <1>2, <1>3, ReturnPlaced
<1>5. (scan' = "ready") = TRUE
  BY <1>1, <1>2, Zenon
<1>6. Placed(read', stack', value', scan' = "ready", token')
  BY <1>1, <1>4, <1>5, Zenon
<1>7. stack' \in Seq(Frames(S))
  BY <1>1, <1>2, <1>3, PopAt
<1>8. QED  BY <1>1, <1>2, <1>3, <1>6, <1>7 DEF ParseInv

LEMMA CloseStep == ParseInv /\ CloseBracket => ParseInv'
<1> SUFFICES ASSUME ParseInv, CloseBracket PROVE ParseInv'
  OBVIOUS
<1>1. /\ HasToken /\ value # NoExpr /\ Head(stack).op = NoOp /\ Head(stack).bracket
      /\ token = Close /\ stack' = Tail(stack) /\ next_token /\ value' = value
  BY DEF CloseBracket, LoopReturns, Parsed
<1>2. /\ read \in Texts /\ Placed(read, stack, value, TRUE, token)
      /\ stack # <<>>
  BY <1>1, SeesToken
<1>3. PICK S : NoExpr \in S /\ value \in S /\ stack \in Seq(Frames(S))
  BY <1>1, SeesToken
<1>4. read' = Append(read, Close) /\ token' = NoToken /\ scan' = "start"
  BY <1>1, EatsToken
<1>5. Placed(Append(read, Close), Tail(stack), value, scan' = "ready", token')
  BY <1>1, <1>2, <1>3, ClosePlaced
<1>6. Placed(read', stack', value', scan' = "ready", token')
  BY <1>1, <1>4, <1>5, Zenon
<1>7. stack' \in Seq(Frames(S))
  BY <1>1, <1>2, <1>3, PopAt
<1>8. read' \in Texts
  BY <1>2, <1>4, TextGrows DEF Alphabet
<1>9. QED  BY <1>1, <1>3, <1>4, <1>6, <1>7, <1>8 DEF ParseInv

\* The tokenizer's part.
LEMMA ScanStep ==
    ASSUME ParseInv, Tokenize \/ SkipNewLine
    PROVE  ParseInv'
<1>1. UNCHANGED <<read, value, stack>>
  BY DEF Tokenize, SkipNewLine, parserVars
<1>2. /\ scan # "ready" \/ token = NewLineToken
      /\ scan' # "ready" => token' = NoToken
  <2>1. CASE Tokenize
    <3>1. TokenizerNext /\ (scan # "ready" => token = NoToken)
      BY <2>1 DEF Tokenize, ParseInv
    <3>2. QED
      BY <3>1 DEF TokenizerNext, SkipBlank, OneCharToken, BeginNewLine, EndNewLine, BeginLiteral,
                  GrowLiteral, EndLiteral, BeginName, GrowName, EndName, BeginNumber,
                  GrowNumber, EndNumber, Return_token
  <2>2. CASE SkipNewLine
    BY <2>2 DEF SkipNewLine, Call_next_token
  <2>3. QED  BY <2>1, <2>2
<1>3. PICK from, here :
         /\ Nested(read, stack, from, here)
         /\ ValueOK(read, value, At(stack, Len(stack)), here[Len(stack)])
         /\ value # NoExpr => Greedy(From(read, here[Len(stack)]), At(stack, Len(stack)),
                                     scan = "ready", token)
  BY DEF ParseInv, Placed
<1>4. value # NoExpr => Greedy(From(read, here[Len(stack)]), At(stack, Len(stack)),
                               scan' = "ready", token')
  BY <1>2, <1>3 DEF Greedy
<1>5. Placed(read, stack, value, scan' = "ready", token')
  BY <1>3, <1>4 DEF Placed
<1>6. Placed(read', stack', value', scan' = "ready", token')
  BY <1>1, <1>5, Zenon
<1>7. QED  BY <1>1, <1>2, <1>6 DEF ParseInv

LEMMA SameStep ==
    ASSUME ParseInv, UNCHANGED <<tokenizerVars, read, value, stack>>
    PROVE  ParseInv'
<1>1. UNCHANGED <<scan, token, read, value, stack>>
  BY DEF tokenizerVars
<1>2. Placed(read', stack', value', scan' = "ready", token')
  BY <1>1, Zenon DEF ParseInv
<1>3. QED  BY <1>1, <1>2 DEF ParseInv

LEMMA ParseStep == ParseInv /\ DoneInv /\ [Next]_vars => ParseInv' /\ DoneInv'
<1> SUFFICES ASSUME ParseInv, DoneInv, [Next]_vars PROVE ParseInv' /\ DoneInv'
  OBVIOUS
<1>1. CASE Done
  <2>1. /\ HasToken /\ value # NoExpr /\ Head(stack).op = NoOp
        /\ Precedence(token) < Head(stack).min /\ Len(stack) = 1
        /\ UNCHANGED <<tokenizerVars, read, value, stack>>
    BY <1>1 DEF Done, LoopReturns, Parsed
  <2>2. ParseInv'
    BY <2>1, SameStep
  <2>3. Head(stack).min = Lowest
    <3>1. PICK S : stack \in Seq(Frames(S)) /\ stack # <<>>
      BY <2>1, SeesToken
    <3>2. Head(stack) = At(stack, 1)
      BY <2>1, <3>1, PopAt
    <3>3. At(stack, 1).min = Lowest
      BY DEF ParseInv, Placed, Nested
    <3>4. QED  BY <3>2, <3>3
  <2>4. token \notin Ops
    <3>1. \A o \in Ops : Precedence(o) \in {101, 201}
      BY DEF Precedence, Ops
    <3>2. QED  BY <2>1, <2>3, <3>1, Precedences
  <2>5. token' = token /\ value' = value /\ stack' = stack
    BY <2>1 DEF tokenizerVars
  <2>6. QED  BY <2>1, <2>2, <2>4, <2>5 DEF DoneInv
<1>2. CASE InvalidPrimary \/ MissingBracket \/ InvalidToken
  <2>1. UNCHANGED <<tokenizerVars, read, value, stack>> /\ status' = "rejected"
    BY <1>2 DEF InvalidPrimary, MissingBracket, InvalidToken
  <2>2. QED  BY <2>1, SameStep DEF DoneInv
<1>3. CASE UNCHANGED vars
  <2>1. UNCHANGED <<tokenizerVars, read, value, stack>> /\ status' = status
        /\ token' = token /\ value' = value /\ stack' = stack
    BY <1>3 DEF vars, parserVars, tokenizerVars
  <2>2. QED  BY <2>1, SameStep DEF DoneInv
<1>4. ASSUME Next, ~Done, ~(InvalidPrimary \/ MissingBracket \/ InvalidToken)
      PROVE  ParseInv' /\ DoneInv'
  <2>1. ParseInv'
    BY <1>4, LeafStep, OpenStep, EatStep, ClimbStep, JoinStep, LoopReturnStep, CloseStep,
       ScanStep DEF Next
  <2>2. status' = "parsing"
    BY <1>4 DEF Next, Tokenize, SkipNewLine, parse_leaf, OpenBracket, EatOperator, Climb, Join,
       ReturnRhs, CloseBracket, LoopReturns, Primary, Parsed, HasToken, parserVars
  <2>3. QED  BY <2>1, <2>2 DEF DoneInv
<1>5. QED  BY <1>1, <1>2, <1>3, <1>4

LEMMA ParseInvHolds == Spec => [](ParseInv /\ DoneInv)
<1>1. QED  BY ParseInit, ParseStep, PTL DEF Spec

(***************************************************************************)
(* Whatever the text, however long and however deep its brackets: what is  *)
(* parsed is the one expression that the grammar spells for the tokens     *)
(* consumed, * binding tighter than + and - and equal ones grouped from the *)
(* left, and no operator comes next (expr_parser.cpp:27-54).               *)
(***************************************************************************)
THEOREM ParserFollowsGrammar == Spec => []ParsesTheGrammar
<1>1. ParseInv /\ DoneInv => ParsesTheGrammar
  <2>1. SUFFICES ASSUME ParseInv, DoneInv, status = "done"
                 PROVE  /\ read \in Seq(Alphabet) /\ Grammar[read] = {value}
                        /\ token \notin Ops
    BY DEF ParsesTheGrammar
  <2>2. value # NoExpr /\ Len(stack) = 1 /\ Head(stack).op = NoOp /\ token \notin Ops
    BY <2>1 DEF DoneInv
  <2>3. read \in Texts
    BY <2>1 DEF ParseInv
  <2>4. PICK S : stack \in Seq(Frames(S))
    BY <2>1 DEF ParseInv
  <2>5. PICK from, here : /\ Nested(read, stack, from, here)
                          /\ ValueOK(read, value, At(stack, Len(stack)), here[Len(stack)])
    BY <2>1 DEF ParseInv, Placed
  <2>6. /\ Head(stack) = At(stack, 1) /\ FrameOK(read, Head(stack), from[1], here[1])
        /\ from[1] = 1
    <3>1. Head(stack) = At(stack, Len(stack)) /\ FrameOK(read, Head(stack), from[Len(stack)], here[Len(stack)])
      BY <2>3, <2>4, <2>5, TopFrame
    <3>2. QED  BY <2>2, <2>5, <3>1 DEF Nested
  <2>7. here[1] = 1
    BY <2>2, <2>6, Zenon DEF FrameOK
  <2>8. Reads(From(read, 1), value)
    BY <2>2, <2>5, <2>7 DEF ValueOK
  <2>9. From(read, 1) = read
    BY <2>3, FromBegin
  <2>10. QED  BY <2>2, <2>3, <2>8, <2>9 DEF Reads, Texts
<1>2. QED  BY <1>1, ParseInvHolds, PTL

------------------------------------------------------------------------------
(***************************************************************************)
(* In an expression operands and operators alternate, so that two tokens that *)
(* do not follow one another leave no hope.                                *)
(***************************************************************************)
\* The tokens that an operand begins and ends with, and how they alternate.
Starts == Operands \cup {Open}
Ends   == Operands \cup {Close}

Shaped(t) ==
    /\ Len(t) >= 1 /\ t[1] \in Starts /\ t[Len(t)] \in Ends
    /\ \A i \in 1 .. Len(t) - 1 : t[i] \in Ends <=> t[i + 1] \notin Starts

LEMMA Sides ==
    /\ \A o \in Ops : o \notin Starts /\ o \notin Ends
    /\ Open \in Starts /\ Open \notin Ends /\ Close \in Ends /\ Close \notin Starts
BY Tokens DEF Starts, Ends

LEMMA JoinedShaped ==
    ASSUME NEW t \in Texts, NEW l \in Texts, NEW o \in Ops, NEW r \in Texts,
           Joined(t, l, o, r), Shaped(l), Shaped(r)
    PROVE  Shaped(t)
<1>1. PICK m, n \in Nat : m = Len(l) /\ n = Len(r)
  BY LenProperties DEF Texts
<1>2. /\ Len(t) = m + 1 + n /\ t[m + 1] = o
      /\ \A i \in 1 .. m : t[i] = l[i]
      /\ \A i \in 1 .. n : t[m + 1 + i] = r[i]
  BY <1>1 DEF Joined
<1>3. /\ m >= 1 /\ l[1] \in Starts /\ l[m] \in Ends
      /\ \A i \in 1 .. m - 1 : l[i] \in Ends <=> l[i + 1] \notin Starts
      /\ n >= 1 /\ r[1] \in Starts /\ r[n] \in Ends
      /\ \A i \in 1 .. n - 1 : r[i] \in Ends <=> r[i + 1] \notin Starts
  BY <1>1 DEF Shaped
<1>4. o \notin Starts /\ o \notin Ends
  BY Sides
<1>5. t[1] \in Starts /\ t[m + 1 + n] \in Ends
  BY <1>2, <1>3
<1>6. ASSUME NEW i \in 1 .. m + n PROVE t[i] \in Ends <=> t[i + 1] \notin Starts
  <2>1. CASE i < m
    BY <1>2, <1>3, <2>1
  <2>2. CASE i = m
    BY <1>2, <1>3, <1>4, <2>2
  <2>3. CASE i = m + 1
    <3>1. t[m + 1 + 1] = r[1]
      BY <1>2, <1>3
    <3>2. QED  BY <1>2, <1>3, <1>4, <2>3, <3>1
  <2>4. CASE i > m + 1
    <3>1. PICK k \in 1 .. n - 1 : i = m + 1 + k
      <4>1. i - (m + 1) \in 1 .. n - 1 /\ i = m + 1 + (i - (m + 1))
        BY <1>3, <2>4
      <4>2. QED  BY <4>1
    <3>2. t[i] = r[k] /\ t[i + 1] = r[k + 1]
      <4>1. k \in 1 .. n /\ k + 1 \in 1 .. n /\ i + 1 = m + 1 + (k + 1)
        BY <1>3, <3>1
      <4>2. QED  BY <1>2, <3>1, <4>1
    <3>3. QED  BY <1>3, <3>1, <3>2
  <2>5. QED  BY <1>1, <1>3, <2>1, <2>2, <2>3, <2>4
<1>7. Len(t) >= 1 /\ Len(t) - 1 = m + n
  BY <1>2
<1>8. QED  BY <1>2, <1>5, <1>6, <1>7 DEF Shaped

LEMMA WrappedShaped ==
    ASSUME NEW t \in Texts, NEW e \in Texts, Wrapped(t, e), Shaped(e)
    PROVE  Shaped(t)
<1>1. PICK n \in Nat : n = Len(e)
  BY LenProperties DEF Texts
<1>2. /\ Len(t) = n + 2 /\ t[1] = Open /\ t[n + 2] = Close
      /\ \A i \in 1 .. n : t[1 + i] = e[i]
  BY <1>1 DEF Wrapped
<1>3. /\ n >= 1 /\ e[1] \in Starts /\ e[n] \in Ends
      /\ \A i \in 1 .. n - 1 : e[i] \in Ends <=> e[i + 1] \notin Starts
  BY <1>1 DEF Shaped
<1>4. ASSUME NEW i \in 1 .. n + 1 PROVE t[i] \in Ends <=> t[i + 1] \notin Starts
  <2>1. CASE i = 1
    <3>1. t[1 + 1] = e[1]
      BY <1>2, <1>3
    <3>2. QED  BY <1>2, <1>3, <2>1, <3>1, Sides
  <2>2. CASE i = n + 1
    <3>1. t[1 + n] = e[n] /\ i + 1 = n + 2 /\ i = 1 + n
      BY <1>2, <1>3, <2>2
    <3>2. QED  BY <1>2, <1>3, <3>1, Sides
  <2>3. CASE i # 1 /\ i # n + 1
    <3>1. PICK k \in 1 .. n - 1 : i = 1 + k
      <4>1. i - 1 \in 1 .. n - 1 /\ i = 1 + (i - 1)
        BY <2>3
      <4>2. QED  BY <4>1
    <3>2. t[i] = e[k] /\ t[i + 1] = e[k + 1]
      <4>1. k \in 1 .. n /\ k + 1 \in 1 .. n /\ i + 1 = 1 + (k + 1)
        BY <1>3, <3>1
      <4>2. QED  BY <1>2, <3>1, <4>1
    <3>3. QED  BY <1>3, <3>1, <3>2
  <2>4. QED  BY <2>1, <2>2, <2>3
<1>5. Len(t) >= 1 /\ Len(t) - 1 = n + 1 /\ t[Len(t)] = Close
  BY <1>1, <1>2
<1>6. QED  BY <1>2, <1>4, <1>5, Sides DEF Shaped

LEMMA ExprShaped ==
    ASSUME NEW t \in Texts, Grammar[t] # {}
    PROVE  Shaped(t)
<1> DEFINE Wrong == {k \in Nat : \E u \in Texts : Len(u) = k /\ Grammar[u] # {} /\ ~Shaped(u)}
<1>1. ASSUME Wrong # {} PROVE FALSE
  <2>1. PICK k \in Wrong : \A l \in Wrong : k <= l
    <3>1. Wrong \in SUBSET Nat
      OBVIOUS
    <3> HIDE DEF Wrong
    <3>2. QED  BY <1>1, <3>1, LeastOf
  <2>2. PICK u \in Texts : Len(u) = k /\ Grammar[u] # {} /\ ~Shaped(u)
    OBVIOUS
  <2>3. k \in Nat
    OBVIOUS
  <2>4. ASSUME NEW w \in Texts, Len(w) < k, Grammar[w] # {} PROVE Shaped(w)
    <3>1. Len(w) \in Nat /\ ~ (k <= Len(w))
      BY <2>3, <2>4, LenProperties DEF Texts
    <3>2. Len(w) \notin Wrong
      <4> HIDE DEF Wrong
      <4>1. QED  BY <2>1, <3>1
    <3>3. QED  BY <2>4, <3>1, <3>2
  <2>5. Spelled(Grammar, u) # {}
    BY <2>2, GrammarSpells
  <2>6. CASE SplitAt(u) # {}
    <3>1. PICK i : i = Last(SplitAt(u))
      OBVIOUS
    <3>2. PICK l, r : l = Left(u, i) /\ r = Right(u, i)
      OBVIOUS
    <3>3. /\ i \in 1 .. k /\ u[i] \in Ops
          /\ l \in Texts /\ Len(l) = i - 1 /\ r \in Texts /\ Len(r) = k - i
          /\ Joined(u, l, u[i], r)
      BY <2>2, <2>6, <3>1, <3>2, SplitParts
    <3>4. Spelled(Grammar, u) = {Binary(u[i], x, y) : x \in Grammar[l], y \in Grammar[r]}
      BY <2>6, <3>1, <3>2 DEF Spelled
    <3>5. Grammar[l] # {} /\ Grammar[r] # {}
      BY <2>5, <3>4
    <3>6. Len(l) < k /\ Len(r) < k
      BY <2>3, <3>3
    <3>7. Shaped(l) /\ Shaped(r)
      BY <2>4, <3>3, <3>5, <3>6
    <3>8. QED  BY <2>2, <3>3, <3>7, JoinedShaped
  <2>7. CASE SplitAt(u) = {} /\ Len(u) = 1
    <3>1. u[1] \in Operands
      BY <2>5, <2>7 DEF Spelled
    <3>2. Shaped(u)
      BY <2>7, <3>1 DEF Shaped, Starts, Ends
    <3>3. QED  BY <2>2, <3>2
  <2>8. CASE SplitAt(u) = {} /\ Len(u) # 1
    <3>1. Bracketed(u) /\ Grammar[Inner(u)] # {}
      BY <2>5, <2>8 DEF Spelled
    <3>2. /\ Inner(u) \in Texts /\ Len(Inner(u)) = k - 2 /\ Wrapped(u, Inner(u))
      BY <2>2, <3>1, BracketPart
    <3>3. Len(Inner(u)) < k
      BY <2>3, <3>2
    <3>4. Shaped(Inner(u))
      BY <2>4, <3>1, <3>2, <3>3
    <3>5. QED  BY <2>2, <3>2, <3>4, WrappedShaped
  <2>9. QED  BY <2>6, <2>7, <2>8
<1>2. Len(t) \in Nat
  BY LenProperties DEF Texts
<1>3. QED  BY <1>1, <1>2

\* Two tokens that no expression has side by side end no text that can go on.
LEMMA Hopeless ==
    ASSUME NEW t \in Texts, NEW x,
           \/ x \notin Alphabet
           \/ x \notin Starts /\ (t = <<>> \/ t[Len(t)] \notin Ends)
           \/ x \in Starts /\ t # <<>> /\ t[Len(t)] \in Ends
    PROVE  ~Completable(Append(t, x))
<1>1. PICK n \in Nat : n = Len(t)
  BY LenProperties DEF Texts
<1>2. PICK T : T = Alphabet \cup {x}
  OBVIOUS
<1>3. t \in Seq(T)
  <2>1. Texts \subseteq Seq(T)
    BY <1>2 DEF Texts
  <2>2. QED  BY <2>1
<1>4. PICK u : u = Append(t, x)
  OBVIOUS
<1>5. /\ u \in Seq(T) /\ Len(u) = n + 1 /\ u[n + 1] = x
      /\ \A i \in 1 .. n : u[i] = t[i]
  <2>1. x \in T
    BY <1>2
  <2>2. QED  BY <1>1, <1>3, <1>4, <2>1, AppendProperties
<1>6. ASSUME NEW w, IsExpr(w), n + 1 <= Len(w), \A i \in 1 .. n + 1 : w[i] = u[i] PROVE FALSE
  <2>1. w \in Texts /\ Grammar[w] # {}
    BY <1>6 DEF IsExpr, Texts
  <2>2. Len(w) \in Nat /\ (\A i \in 1 .. Len(w) : w[i] \in Alphabet) /\ Shaped(w)
    BY <2>1, ExprShaped, LenProperties, ElementOfSeq DEF Texts
  <2>3. w[n + 1] = x /\ n + 1 \in 1 .. Len(w) /\ \A i \in 1 .. n : w[i] = t[i]
    BY <1>5, <1>6, <2>2
  <2>4. x \in Alphabet
    BY <2>2, <2>3
  <2>5. CASE n = 0
    <3>1. t = <<>>
      BY <1>1, <2>5, EmptySeq DEF Texts
    <3>2. w[1] = x /\ w[1] \in Starts
      BY <2>2, <2>3, <2>5 DEF Shaped
    <3>3. QED  BY <2>4, <3>1, <3>2
  <2>6. CASE n # 0
    <3>1. n \in 1 .. Len(w) - 1 /\ t # <<>> /\ w[n] = t[n]
      BY <1>1, <1>6, <2>2, <2>3, <2>6, EmptySeq
    <3>2. w[n] \in Ends <=> w[n + 1] \notin Starts
      BY <2>2, <3>1 DEF Shaped
    <3>3. QED  BY <1>1, <2>3, <2>4, <3>1, <3>2
  <2>7. QED  BY <2>5, <2>6
<1>7. SUFFICES ASSUME Completable(u) PROVE FALSE
  BY <1>4
<1>8. PICK k : k = Count(u, Len(u), Open) - Count(u, Len(u), Close)
  OBVIOUS
<1>9. PICK c : c = [i \in 1 .. k |-> Close]
  OBVIOUS
<1>10. PICK v : v = CHOOSE y \in Vars : TRUE
  OBVIOUS
<1>11. IsExpr(u \o c) \/ IsExpr(u \o <<v>> \o c)
  BY <1>7, <1>8, <1>9, <1>10 DEF Completable
<1>12. PICK U : U = T \cup {Close, v}
  OBVIOUS
<1>13. c \in Seq(U)
  <2>1. Count(u, Len(u), Open) \in Nat /\ Count(u, Len(u), Close) \in Nat
    BY <1>5, CountStep
  <2>2. k \in Int
    BY <1>8, <2>1
  <2>3. CASE k \in Nat
    BY <1>9, <1>12, <2>3, IsASeq
  <2>4. CASE k \notin Nat
    <3>1. 1 .. k = {} /\ 1 .. 0 = {}
      BY <2>2, <2>4
    <3>2. c = [i \in 1 .. 0 |-> Close]
      BY <1>9, <3>1
    <3>3. QED  BY <1>12, <3>2, IsASeq
  <2>5. QED  BY <2>3, <2>4
<1>14. u \in Seq(U)
  <2>1. Seq(T) \subseteq Seq(U)
    BY <1>12
  <2>2. QED  BY <1>5, <2>1
<1>15. Len(c) \in Nat
  BY <1>13, LenProperties
<1>16. /\ Len(u \o c) = Len(u) + Len(c)
       /\ \A i \in 1 .. Len(u) + Len(c) :
             (u \o c)[i] = IF i <= Len(u) THEN u[i] ELSE c[i - Len(u)]
  BY <1>13, <1>14, ConcatProperties
<1>17. ~IsExpr(u \o c)
  <2>1. n + 1 <= Len(u \o c) /\ \A i \in 1 .. n + 1 : (u \o c)[i] = u[i]
    BY <1>5, <1>15, <1>16
  <2>2. QED  BY <1>6, <2>1
<1>18. PICK z : z = u \o <<v>>
  OBVIOUS
<1>19. z \in Seq(U) /\ Len(z) = n + 2 /\ \A i \in 1 .. n + 1 : z[i] = u[i]
  <2>1. <<v>> \in Seq(U) /\ Len(<<v>>) = 1
    BY <1>12
  <2>2. /\ u \o <<v>> \in Seq(U) /\ Len(u \o <<v>>) = Len(u) + 1
        /\ \A i \in 1 .. Len(u) + 1 :
             (u \o <<v>>)[i] = IF i <= Len(u) THEN u[i] ELSE <<v>>[i - Len(u)]
    BY <1>14, <2>1, ConcatProperties
  <2>3. QED  BY <1>5, <1>18, <2>2
<1>20. /\ Len(z \o c) = Len(z) + Len(c)
       /\ \A i \in 1 .. Len(z) + Len(c) :
             (z \o c)[i] = IF i <= Len(z) THEN z[i] ELSE c[i - Len(z)]
  BY <1>13, <1>19, ConcatProperties
<1>21. ~IsExpr(z \o c)
  <2>1. n + 1 <= Len(z \o c) /\ \A i \in 1 .. n + 1 : (z \o c)[i] = u[i]
    BY <1>15, <1>19, <1>20
  <2>2. QED  BY <1>6, <2>1
<1>22. QED  BY <1>11, <1>17, <1>18, <1>21

------------------------------------------------------------------------------
(***************************************************************************)
(* What has been read goes on to an expression: unwinding the stack, each  *)
(* frame takes its right operand, and a bracket takes what closes it.      *)
(***************************************************************************)
\* A text w that is the one before place c, then v, then k closing brackets.
Completes(w, t, c, v, k) ==
    /\ Len(w) = c - 1 + Len(v) + k
    /\ \A i \in 1 .. c - 1 : w[i] = t[i]
    /\ \A i \in 1 .. Len(v) : w[c - 1 + i] = v[i]
    /\ \A i \in 1 .. k : w[c - 1 + Len(v) + i] = Close

\* A text w that is the one from place a up to b, then v.
Behind(w, t, a, b, v) ==
    /\ Len(w) = b - a + Len(v)
    /\ \A i \in 1 .. b - a : w[i] = t[a + i - 1]
    /\ \A i \in 1 .. Len(v) : w[b - a + i] = v[i]

\* What a frame makes of a right operand.
LEMMA FrameTakes ==
    ASSUME NEW t \in Texts, NEW f, NEW a, NEW b, FrameOK(t, f, a, b),
           NEW v, NEW e, Reads(v, e), Suits(f, v)
    PROVE  \E w, e1 : /\ w \in Texts /\ Reads(w, e1) /\ Behind(w, t, a, b, v)
                      /\ f.min = 102 => IsTerm(w)
<1>1. v \in Texts /\ Len(v) \in Nat /\ Len(v) >= 1
  BY NotEmpty
<1>2. /\ a \in Nat /\ b \in Nat /\ 1 <= a /\ a <= b /\ b <= Len(t) + 1
      /\ f.op \in Ops \cup {NoOp} /\ (f.op = NoOp => a = b)
      /\ (f.min = 102 => f.op \notin AddOps)
  BY Zenon DEF FrameOK
<1>3. CASE f.op = NoOp
  <2>1. Behind(v, t, a, b, v)
    <3>1. b - a = 0
      BY <1>2, <1>3
    <3>2. QED  BY <1>1, <3>1 DEF Behind
  <2>2. f.min = 102 => IsTerm(v)
    BY DEF Suits
  <2>3. QED  BY <1>1, <2>1, <2>2
<1>4. CASE f.op # NoOp
  <2>1. /\ a < b /\ t[b - 1] = f.op /\ f.op \in Ops
        /\ Reads(SubSeq(t, a, b - 2), f.lhs)
        /\ f.op \in MulOps => IsTerm(SubSeq(t, a, b - 2))
    BY <1>2, <1>4 DEF FrameOK
  <2>2. PICK n, m \in Nat : n = Len(v) /\ m = b - a
    BY <1>1, <1>2, b - a \in Nat
  <2>3. Len(t) \in Nat /\ \A i \in 1 .. Len(t) : t[i] \in Alphabet
    BY LenProperties, ElementOfSeq DEF Texts
  <2>4. \A i \in 1 .. n : v[i] \in Alphabet
    BY <1>1, <2>2, ElementOfSeq DEF Texts
  <2>5. PICK w : w = [i \in 1 .. m + n |-> IF i <= m THEN t[a + i - 1] ELSE v[i - m]]
    OBVIOUS
  <2>6. ASSUME NEW i \in 1 .. m + n
        PROVE  (IF i <= m THEN t[a + i - 1] ELSE v[i - m]) \in Alphabet
    <3>1. CASE i <= m
      <4>1. a + i - 1 \in 1 .. Len(t)
        BY <1>2, <2>2, <2>3, <3>1
      <4>2. QED  BY <2>3, <3>1, <4>1
    <3>2. CASE ~ (i <= m)
      <4>1. i - m \in 1 .. n
        BY <3>2
      <4>2. QED  BY <2>4, <3>2, <4>1
    <3>3. QED  BY <3>1, <3>2
  <2>7. w \in Texts /\ Len(w) = m + n
    <3>1. m + n \in Nat
      OBVIOUS
    <3>2. w \in Seq(Alphabet)
      BY <2>5, <2>6, <3>1, IsASeq
    <3>3. DOMAIN w = 1 .. m + n
      BY <2>5
    <3>4. QED  BY <3>1, <3>2, <3>3, LenProperties DEF Texts
  <2>8. \A i \in 1 .. m + n : w[i] = IF i <= m THEN t[a + i - 1] ELSE v[i - m]
    BY <2>5
  <2>9. Behind(w, t, a, b, v)
    <3>1. \A i \in 1 .. m : w[i] = t[a + i - 1]
      BY <2>8
    <3>2. ASSUME NEW i \in 1 .. n PROVE w[m + i] = v[i]
      <4>1. m + i \in 1 .. m + n /\ ~ (m + i <= m) /\ m + i - m = i
        OBVIOUS
      <4>2. QED  BY <2>8, <4>1
    <3>3. QED  BY <2>2, <2>7, <3>1, <3>2 DEF Behind
  <2>10. PICK l : l = SubSeq(t, a, b - 2)
    OBVIOUS
  <2>11. Len(l) = m - 1 /\ \A i \in 1 .. m - 1 : l[i] = t[a + i - 1]
    <3>1. PICK c \in Nat : c = b - 2
      <4>1. b - 2 + 1 >= a /\ a >= 1
        BY <1>2, <2>1
      <4>2. l \in Texts /\ Len(l) \in Nat /\ Len(l) >= 1
        BY <2>1, <2>10, NotEmpty
      <4>3. CASE b = 1
        BY <1>2, <2>1, <4>3
      <4>4. CASE b # 1
        <5>1. b - 2 \in Nat
          BY <1>2, <2>1, <4>4
        <5>2. QED  BY <5>1
      <4>5. QED  BY <4>3, <4>4
    <3>2. a <= c + 1 /\ c <= Len(t)
      BY <1>2, <2>1, <2>3, <3>1
    <3>3. /\ Len(SubSeq(t, a, c)) = c - a + 1
          /\ \A i \in 1 .. c - a + 1 : SubSeq(t, a, c)[i] = t[a + i - 1]
      BY <1>2, <3>2, PartOf
    <3>4. c - a + 1 = m - 1
      BY <1>2, <2>2, <3>1
    <3>5. QED  BY <2>10, <3>1, <3>3, <3>4
  <2>12. Joined(w, l, f.op, v)
    <3>1. m >= 1 /\ (m - 1) + 1 = m /\ a + m - 1 = b - 1
      BY <1>2, <2>1, <2>2
    <3>2. Len(w) = Len(l) + 1 + Len(v)
      BY <2>2, <2>7, <2>11, <3>1
    <3>3. w[Len(l) + 1] = f.op
      <4>1. m \in 1 .. m + n /\ m <= m
        BY <3>1
      <4>2. w[m] = t[a + m - 1]
        BY <2>8, <4>1
      <4>3. QED  BY <2>1, <2>11, <3>1, <4>2
    <3>4. \A i \in 1 .. Len(l) : w[i] = l[i]
      <4>1. \A i \in 1 .. m - 1 : i \in 1 .. m + n /\ i <= m
        BY <3>1
      <4>2. QED  BY <2>8, <2>11, <4>1
    <3>5. \A i \in 1 .. Len(v) : w[Len(l) + 1 + i] = v[i]
      BY <2>2, <2>9, <2>11, <3>1 DEF Behind
    <3>6. QED  BY <3>2, <3>3, <3>4, <3>5 DEF Joined
  <2>13. CASE f.op \in MulOps
    <3>1. IsFactor(v)
      BY <2>13 DEF Suits
    <3>2. Reads(w, Binary(f.op, f.lhs, e)) /\ IsTerm(w)
      BY <2>1, <2>7, <2>10, <2>12, <2>13, <3>1, ProductReads
    <3>3. QED  BY <2>7, <2>9, <3>2
  <2>14. CASE f.op \in AddOps
    <3>1. IsTerm(v) /\ f.min # 102
      BY <1>2, <2>14 DEF Suits
    <3>2. Reads(w, Binary(f.op, f.lhs, e))
      BY <2>1, <2>7, <2>10, <2>12, <2>14, <3>1, SumReads
    <3>3. QED  BY <2>7, <2>9, <3>1, <3>2
  <2>15. QED  BY <2>1, <2>13, <2>14 DEF Ops
<1>5. QED  BY <1>3, <1>4

LEMMA InBrackets ==
    ASSUME NEW w \in Texts
    PROVE  \E u \in Texts : Wrapped(u, w)
<1>1. PICK n \in Nat : n = Len(w)
  BY LenProperties DEF Texts
<1>2. \A i \in 1 .. n : w[i] \in Alphabet
  BY <1>1, ElementOfSeq DEF Texts
<1>3. PICK u : u = [i \in 1 .. n + 2 |-> IF i = 1 THEN Open ELSE IF i = n + 2 THEN Close ELSE w[i - 1]]
  OBVIOUS
<1>4. ASSUME NEW i \in 1 .. n + 2
      PROVE  (IF i = 1 THEN Open ELSE IF i = n + 2 THEN Close ELSE w[i - 1]) \in Alphabet
  <2>1. Open \in Alphabet /\ Close \in Alphabet
    BY DEF Alphabet
  <2>2. i # 1 /\ i # n + 2 => i - 1 \in 1 .. n
    OBVIOUS
  <2>3. QED  BY <1>2, <2>1, <2>2
<1>5. n + 2 \in Nat
  OBVIOUS
<1>6. u \in Seq(Alphabet) /\ DOMAIN u = 1 .. n + 2
  BY <1>3, <1>4, <1>5, IsASeq
<1>7. Len(u) = n + 2
  BY <1>5, <1>6, LenProperties
<1>8. u[1] = Open /\ u[n + 2] = Close
  BY <1>3, 1 \in 1 .. n + 2, n + 2 \in 1 .. n + 2, n + 2 # 1
<1>9. ASSUME NEW i \in 1 .. n PROVE u[1 + i] = w[i]
  <2>1. 1 + i \in 1 .. n + 2 /\ 1 + i # 1 /\ 1 + i # n + 2 /\ 1 + i - 1 = i
    OBVIOUS
  <2>2. QED  BY <1>3, <2>1
<1>10. Wrapped(u, w)
  BY <1>1, <1>7, <1>8, <1>9 DEF Wrapped
<1>11. QED  BY <1>6, <1>10 DEF Texts

\* Below a bracket and an operator the text goes on in the same way.
LEMMA BracketCompletes ==
    ASSUME NEW t, NEW a \in Nat, NEW b \in Nat, NEW c \in Nat, a <= b, 1 <= c,
           a = c + 1, t[c] = Open, NEW v \in Texts, NEW w \in Texts, Behind(w, t, a, b, v),
           NEW u \in Texts, Wrapped(u, w), NEW k \in Nat, NEW z, Completes(z, t, c, u, k)
    PROVE  Completes(z, t, b, v, k + 1)
<1>1. PICK n, m, p \in Nat : n = Len(v) /\ m = Len(w) /\ p = b - a
  BY LenProperties, b - a \in Nat DEF Texts
<1>2. /\ m = p + n
      /\ \A i \in 1 .. p : w[i] = t[a + i - 1]
      /\ \A i \in 1 .. n : w[p + i] = v[i]
  BY <1>1 DEF Behind
<1>3. /\ Len(u) = m + 2 /\ u[1] = Open /\ u[m + 2] = Close
      /\ \A i \in 1 .. m : u[1 + i] = w[i]
  BY <1>1 DEF Wrapped
<1>4. /\ Len(z) = c - 1 + (m + 2) + k
      /\ \A i \in 1 .. c - 1 : z[i] = t[i]
      /\ \A i \in 1 .. m + 2 : z[c - 1 + i] = u[i]
      /\ \A i \in 1 .. k : z[c - 1 + (m + 2) + i] = Close
  BY <1>3 DEF Completes
<1>5. Len(z) = b - 1 + n + (k + 1)
  <2>1. m = p + n /\ b = c + 1 + p
    BY <1>1, <1>2
  <2>2. c - 1 + (m + 2) + k = b - 1 + n + (k + 1)
    BY <2>1
  <2>3. QED  BY <1>4, <2>2
<1>6. ASSUME NEW i \in 1 .. b - 1 PROVE z[i] = t[i]
  <2>1. CASE i <= c - 1
    BY <1>4, <2>1
  <2>2. CASE i = c
    <3>1. 1 \in 1 .. m + 2 /\ c - 1 + 1 = c
      BY <1>2
    <3>2. QED  BY <1>3, <1>4, <2>2, <3>1
  <2>3. CASE i > c
    <3>1. PICK j \in 1 .. p : i = c + j
      <4>1. i - c \in 1 .. p /\ i = c + (i - c)
        BY <1>1, <2>3
      <4>2. QED  BY <4>1
    <3>2. 1 + j \in 1 .. m + 2 /\ c - 1 + (1 + j) = i /\ j \in 1 .. m /\ a + j - 1 = i
      <4>1. m = p + n /\ i = c + j /\ j \in 1 .. p
        BY <1>2, <3>1
      <4>2. QED  BY <4>1
    <3>3. QED  BY <1>2, <1>3, <1>4, <3>1, <3>2
  <2>4. QED  BY <2>1, <2>2, <2>3
<1>7. ASSUME NEW i \in 1 .. n PROVE z[b - 1 + i] = v[i]
  <2>1. 1 + (p + i) \in 1 .. m + 2 /\ p + i \in 1 .. m /\ c - 1 + (1 + (p + i)) = b - 1 + i
    BY <1>1, <1>2
  <2>2. QED  BY <1>2, <1>3, <1>4, <2>1
<1>8. ASSUME NEW i \in 1 .. k + 1 PROVE z[b - 1 + n + i] = Close
  <2>1. CASE i = 1
    <3>1. m + 2 \in 1 .. m + 2 /\ c - 1 + (m + 2) = b - 1 + n + 1
      BY <1>1, <1>2
    <3>2. QED  BY <1>3, <1>4, <2>1, <3>1
  <2>2. CASE i # 1
    <3>1. PICK j \in 1 .. k : i = j + 1
      <4>1. i - 1 \in 1 .. k /\ i = (i - 1) + 1
        BY <2>2
      <4>2. QED  BY <4>1
    <3>2. c - 1 + (m + 2) + j = b - 1 + n + i
      BY <1>1, <1>2, <3>1
    <3>3. QED  BY <1>4, <3>1, <3>2
  <2>3. QED  BY <2>1, <2>2
<1>9. QED  BY <1>1, <1>5, <1>6, <1>7, <1>8 DEF Completes

LEMMA OperatorCompletes ==
    ASSUME NEW t, NEW a \in Nat, NEW b \in Nat, a <= b, 1 <= a,
           NEW v \in Texts, NEW w \in Texts, Behind(w, t, a, b, v),
           NEW k \in Nat, NEW z, Completes(z, t, a, w, k)
    PROVE  Completes(z, t, b, v, k)
<1>1. PICK n, m, p \in Nat : n = Len(v) /\ m = Len(w) /\ p = b - a
  BY LenProperties, b - a \in Nat DEF Texts
<1>2. /\ m = p + n
      /\ \A i \in 1 .. p : w[i] = t[a + i - 1]
      /\ \A i \in 1 .. n : w[p + i] = v[i]
  BY <1>1 DEF Behind
<1>3. /\ Len(z) = a - 1 + m + k
      /\ \A i \in 1 .. a - 1 : z[i] = t[i]
      /\ \A i \in 1 .. m : z[a - 1 + i] = w[i]
      /\ \A i \in 1 .. k : z[a - 1 + m + i] = Close
  BY <1>1 DEF Completes
<1>4. Len(z) = b - 1 + n + k
  BY <1>1, <1>2, <1>3
<1>5. ASSUME NEW i \in 1 .. b - 1 PROVE z[i] = t[i]
  <2>1. CASE i <= a - 1
    BY <1>3, <2>1
  <2>2. CASE i > a - 1
    <3>1. PICK j \in 1 .. p : i = a - 1 + j
      <4>1. i - (a - 1) \in 1 .. p /\ i = a - 1 + (i - (a - 1))
        BY <1>1, <2>2
      <4>2. QED  BY <4>1
    <3>2. j \in 1 .. m /\ a + j - 1 = i
      BY <1>2, <3>1
    <3>3. QED  BY <1>2, <1>3, <3>1, <3>2
  <2>3. QED  BY <2>1, <2>2
<1>6. ASSUME NEW i \in 1 .. n PROVE z[b - 1 + i] = v[i]
  <2>1. p + i \in 1 .. m /\ a - 1 + (p + i) = b - 1 + i
    BY <1>1, <1>2
  <2>2. QED  BY <1>2, <1>3, <2>1
<1>7. ASSUME NEW i \in 1 .. k PROVE z[b - 1 + n + i] = Close
  <2>1. a - 1 + m + i = b - 1 + n + i
    BY <1>1, <1>2
  <2>2. QED  BY <1>3, <2>1
<1>8. QED  BY <1>1, <1>4, <1>5, <1>6, <1>7 DEF Completes

------------------------------------------------------------------------------
(***************************************************************************)
(* The brackets to close are the ones that are missing: Completable.       *)
(***************************************************************************)
\* What a right operand at place c can become, when brackets are closed.
Completed(t, f, c) ==
    \A v, e : Reads(v, e) /\ Suits(f, v) =>
        \E z, e1 : \E k \in Nat : Reads(z, e1) /\ Completes(z, t, c, v, k)

LEMMA FrameCompleted ==
    ASSUME NEW t \in Texts, NEW S, NEW s \in Seq(S), NEW from, NEW here,
           Nested(t, s, from, here), NEW d \in 1 .. Len(s),
           d # 1 => Completed(t, At(s, d - 1), here[d - 1])
    PROVE  Completed(t, At(s, d), here[d])
<1>1. SUFFICES ASSUME NEW v, NEW e, Reads(v, e), Suits(At(s, d), v)
               PROVE  \E z, e1 : \E k \in Nat : Reads(z, e1) /\ Completes(z, t, here[d], v, k)
  BY DEF Completed
<1>2. PICK f, a, b : f = At(s, d) /\ a = from[d] /\ b = here[d]
  OBVIOUS
<1>3. FrameOK(t, f, a, b)
  BY <1>2 DEF Nested
<1>4. a \in Nat /\ b \in Nat /\ 1 <= a /\ a <= b /\ f.min \in {Lowest, 102}
  BY <1>3, Zenon DEF FrameOK
<1>5. v \in Texts /\ Len(v) \in Nat
  BY <1>1, NotEmpty
<1>6. PICK w, e1 : /\ w \in Texts /\ Reads(w, e1) /\ Behind(w, t, a, b, v)
                   /\ f.min = 102 => IsTerm(w)
  BY <1>1, <1>2, <1>3, FrameTakes
<1>7. CASE d = 1
  <2>1. a = 1
    BY <1>2, <1>7 DEF Nested
  <2>2. Completes(w, t, b, v, 0)
    <3>1. PICK n, p \in Nat : n = Len(v) /\ p = b - 1
      BY <1>4, <1>5, b - 1 \in Nat
    <3>2. /\ Len(w) = p + n /\ \A i \in 1 .. p : w[i] = t[1 + i - 1]
          /\ \A i \in 1 .. n : w[p + i] = v[i]
      BY <1>6, <2>1, <3>1 DEF Behind
    <3>3. \A i \in 1 .. p : 1 + i - 1 = i
      OBVIOUS
    <3>4. Len(w) = p + n + 0 /\ 1 .. 0 = {}
      BY <3>2
    <3>5. QED  BY <3>1, <3>2, <3>3, <3>4 DEF Completes
  <2>3. QED  BY <1>2, <1>6, <2>2
<1>8. CASE d # 1
  <2>1. PICK m \in Nat : d = m + 1 /\ m \in 1 .. Len(s) - 1 /\ m \in 1 .. Len(s) /\ m = d - 1
    <3>1. Len(s) \in Nat
      BY LenProperties
    <3>2. d - 1 \in Nat /\ d = (d - 1) + 1 /\ d - 1 \in 1 .. Len(s) - 1 /\ d - 1 \in 1 .. Len(s)
      BY <1>8, <3>1
    <3>3. QED  BY <3>2
  <2>2. PICK g, c : g = At(s, m) /\ c = here[m]
    OBVIOUS
  <2>3. Above(t, g, c, f, a)
    BY <1>2, <2>1, <2>2 DEF Nested
  <2>4. c \in Nat /\ 1 <= c
    <3>1. FrameOK(t, g, from[m], c)
      BY <2>1, <2>2 DEF Nested
    <3>2. from[m] \in Nat /\ c \in Nat /\ 1 <= from[m] /\ from[m] <= c
      BY <3>1, Zenon DEF FrameOK
    <3>3. QED  BY <3>2
  <2>5. Completed(t, g, c)
    BY <1>8, <2>1, <2>2
  <2>6. CASE f.bracket
    <3>1. a = c + 1 /\ t[c] = Open
      BY <2>3, <2>6 DEF Above
    <3>2. PICK u \in Texts : Wrapped(u, w)
      BY <1>6, InBrackets
    <3>3. Reads(u, e1) /\ IsFactor(u)
      BY <1>6, <3>2, BracketReads
    <3>4. Suits(g, u)
      BY <3>3 DEF Suits, IsFactor
    <3>5. PICK z, e2 : \E k \in Nat : Reads(z, e2) /\ Completes(z, t, c, u, k)
      BY <2>5, <3>3, <3>4 DEF Completed
    <3>6. PICK k \in Nat : Reads(z, e2) /\ Completes(z, t, c, u, k)
      BY <3>5
    <3>7. Completes(z, t, b, v, k + 1)
      <4>1. a \in Nat /\ b \in Nat /\ a <= b /\ v \in Texts
        BY <1>4, <1>5
      <4>2. Behind(w, t, a, b, v) /\ Completes(z, t, c, u, k)
        BY <1>6, <3>6
      <4>3. QED  BY <1>6, <2>4, <3>1, <3>2, <4>1, <4>2, BracketCompletes
    <3>8. k + 1 \in Nat
      OBVIOUS
    <3>9. QED  BY <1>2, <3>6, <3>7, <3>8
  <2>7. CASE ~f.bracket
    <3>1. a = c /\ f.min = 102 /\ g.op \in AddOps
      BY <2>3, <2>7 DEF Above
    <3>2. Suits(g, w)
      BY <1>6, <3>1, Tokens DEF Suits
    <3>3. PICK z, e2 : \E k \in Nat : Reads(z, e2) /\ Completes(z, t, c, w, k)
      BY <1>6, <2>5, <3>2 DEF Completed
    <3>4. PICK k \in Nat : Reads(z, e2) /\ Completes(z, t, c, w, k)
      BY <3>3
    <3>5. Completes(z, t, b, v, k)
      BY <1>4, <1>5, <1>6, <3>1, <3>4, OperatorCompletes
    <3>6. QED  BY <1>2, <3>4, <3>5
  <2>8. QED  BY <2>6, <2>7
<1>9. QED  BY <1>7, <1>8

LEMMA AllCompleted ==
    ASSUME NEW t \in Texts, NEW S, NEW s \in Seq(S), NEW from, NEW here,
           Nested(t, s, from, here)
    PROVE  \A d \in 1 .. Len(s) : Completed(t, At(s, d), here[d])
<1> DEFINE Wrong == {d \in 1 .. Len(s) : ~Completed(t, At(s, d), here[d])}
<1>1. ASSUME Wrong # {} PROVE FALSE
  <2>1. PICK d \in Wrong : \A l \in Wrong : d <= l
    <3>1. Wrong \in SUBSET Nat
      OBVIOUS
    <3> HIDE DEF Wrong
    <3>2. QED  BY <1>1, <3>1, LeastOf
  <2>2. d \in 1 .. Len(s) /\ ~Completed(t, At(s, d), here[d])
    OBVIOUS
  <2>3. ASSUME d # 1 PROVE Completed(t, At(s, d - 1), here[d - 1])
    <3>1. d - 1 \in 1 .. Len(s) /\ ~ (d <= d - 1)
      BY <2>2, <2>3, LenProperties
    <3>2. d - 1 \notin Wrong
      <4> HIDE DEF Wrong
      <4>1. QED  BY <2>1, <3>1
    <3>3. QED  BY <3>1, <3>2
  <2>4. QED  BY <2>2, <2>3, FrameCompleted
<1>2. QED  BY <1>1

LEMMA ClosesAre ==
    ASSUME NEW k \in Nat, NEW c, \A i \in 1 .. k : c[i] = Close
    PROVE  Depth(c, k) = 0 - k
<1>1. {j \in 1 .. k : c[j] = Close} = 1 .. k /\ {j \in 1 .. k : c[j] = Open} = {}
  BY Tokens
<1>2. Cardinality(1 .. k) = k /\ Cardinality({}) = 0
  BY FS_Interval, FS_EmptySet
<1>3. QED  BY <1>1, <1>2 DEF Depth, Count

\* The closing brackets are the ones that are missing.
LEMMA ClosedText ==
    ASSUME NEW u \in Texts, NEW z \in Texts, Balanced(z), NEW k \in Nat, Len(z) = Len(u) + k,
           \A i \in 1 .. Len(u) : z[i] = u[i],
           \A i \in 1 .. k : z[Len(u) + i] = Close
    PROVE  /\ Depth(u, Len(u)) = k
           /\ z = u \o [i \in 1 .. k |-> Close]
<1>1. PICK n \in Nat : n = Len(u)
  BY LenProperties DEF Texts
<1>2. PICK c : c = [i \in 1 .. k |-> Close]
  OBVIOUS
<1>3. c \in Texts /\ Len(c) = k /\ \A i \in 1 .. k : c[i] = Close
  <2>1. Close \in Alphabet
    BY DEF Alphabet
  <2>2. c \in Seq(Alphabet)
    BY <1>2, <2>1, IsASeq
  <2>3. DOMAIN c = 1 .. k
    BY <1>2
  <2>4. QED  BY <1>2, <2>2, <2>3, LenProperties DEF Texts
<1>4. Depth(z, n + k) = 0
  BY <1>1 DEF Balanced
<1>5. Depth(z, n + k) = Depth(z, n) + Depth(c, k)
  <2>1. \A j \in 1 .. k : z[n + j] = c[j]
    BY <1>1, <1>3
  <2>2. PICK w : w = z
    OBVIOUS
  <2>3. \A j \in 1 .. k : w[n + j] = c[j]
    BY <2>1, <2>2
  <2>4. Depth(w, n + k) = Depth(w, n) + Depth(c, k)
    BY <2>3, DepthBehind
  <2>5. QED  BY <2>2, <2>4
<1>6. Depth(z, n) = Depth(u, n) /\ Depth(u, n) \in Int
  BY <1>1, DepthSame, DepthType
<1>7. Depth(c, k) = 0 - k
  BY <1>3, ClosesAre
<1>8. Depth(u, n) = k
  BY <1>4, <1>5, <1>6, <1>7
<1>9. /\ u \o c \in Texts /\ Len(u \o c) = n + k
      /\ \A i \in 1 .. n + k : (u \o c)[i] = IF i <= n THEN u[i] ELSE c[i - n]
  BY <1>1, <1>3, ConcatProperties DEF Texts
<1>10. \A i \in 1 .. n + k : (u \o c)[i] = z[i]
  <2>1. TAKE i \in 1 .. n + k
  <2>2. CASE i <= n
    BY <1>1, <1>9, <2>2
  <2>3. CASE ~ (i <= n)
    <3>1. i - n \in 1 .. k /\ n + (i - n) = i
      BY <2>3
    <3>2. z[n + (i - n)] = Close /\ c[i - n] = Close
      BY <1>1, <1>3, <3>1
    <3>3. QED  BY <1>9, <2>3, <3>1, <3>2
  <2>4. QED  BY <2>2, <2>3
<1>11. PICK y : y = u \o c
  OBVIOUS
<1>12. y = z
  <2>1. y \in Seq(Alphabet) /\ z \in Seq(Alphabet) /\ Len(y) = Len(z)
        /\ \A i \in 1 .. Len(y) : y[i] = z[i]
    BY <1>1, <1>9, <1>10, <1>11 DEF Texts
  <2>2. QED  BY <2>1, SeqEqual
<1>13. QED  BY <1>1, <1>2, <1>8, <1>11, <1>12

LEMMA PlacedCompletable ==
    ASSUME NEW t \in Texts, NEW S, NEW s \in Seq(S), NEW e, NEW ready, NEW x,
           Placed(t, s, e, ready, x)
    PROVE  Completable(t)
<1>1. PICK from, here : /\ Nested(t, s, from, here)
                        /\ ValueOK(t, e, At(s, Len(s)), here[Len(s)])
  BY DEF Placed
<1>2. PICK f, a, b : f = At(s, Len(s)) /\ a = from[Len(s)] /\ b = here[Len(s)]
  OBVIOUS
<1>3. FrameOK(t, f, a, b) /\ Len(s) \in 1 .. Len(s)
  BY <1>1, <1>2, TopFrame
<1>4. Completed(t, f, b)
  BY <1>1, <1>2, <1>3, AllCompleted
<1>5. Len(t) \in Nat /\ \A i \in 1 .. Len(t) : t[i] \in Alphabet
  BY LenProperties, ElementOfSeq DEF Texts
<1>6. Depth(t, Len(t)) = Count(t, Len(t), Open) - Count(t, Len(t), Close)
  BY DEF Depth
<1>7. CASE e # NoExpr
  <2>1. /\ b \in Nat /\ 1 <= b /\ b < Len(t) + 1
        /\ From(t, b) \in Texts /\ Reads(From(t, b), e) /\ Suits(f, From(t, b))
    <3>1. a \in Nat /\ b \in Nat /\ 1 <= a /\ a <= b /\ b < Len(t) + 1 /\ Len(t) \in Nat
          /\ From(t, b) \in Texts /\ Reads(From(t, b), e) /\ Suits(f, From(t, b))
      BY <1>1, <1>2, <1>3, <1>7, ValueText
    <3>2. QED  BY <3>1
  <2>2. PICK z, e1 : \E k \in Nat : Reads(z, e1) /\ Completes(z, t, b, From(t, b), k)
    BY <1>4, <2>1 DEF Completed
  <2>3. PICK k \in Nat : Reads(z, e1) /\ Completes(z, t, b, From(t, b), k)
    BY <2>2
  <2>4. z \in Texts /\ Balanced(z) /\ Grammar[z] # {}
    BY <2>3 DEF Reads
  <2>5. /\ Len(z) = Len(t) + k
        /\ \A i \in 1 .. Len(t) : z[i] = t[i]
        /\ \A i \in 1 .. k : z[Len(t) + i] = Close
    <3>1. PICK v, n : v = From(t, b) /\ n = Len(t)
      OBVIOUS
    <3>2. n \in Nat /\ Len(v) = n - b + 1 /\ \A i \in 1 .. n - b + 1 : v[i] = t[b + i - 1]
      <4>1. b <= Len(t) + 1
        BY <1>5, <2>1
      <4>2. QED  BY <1>5, <2>1, <3>1, <4>1, FromPart
    <3>3. PICK m \in Nat : m = n - b + 1 /\ b - 1 + m = n
      <4>1. n - b + 1 \in Nat /\ b - 1 + (n - b + 1) = n
        BY <2>1, <3>1, <3>2
      <4>2. QED  BY <4>1
    <3>4. /\ Len(z) = b - 1 + m + k
          /\ \A i \in 1 .. b - 1 : z[i] = t[i]
          /\ \A i \in 1 .. m : z[b - 1 + i] = v[i]
          /\ \A i \in 1 .. k : z[b - 1 + m + i] = Close
      BY <2>3, <3>1, <3>2, <3>3 DEF Completes
    <3>5. ASSUME NEW i \in 1 .. n PROVE z[i] = t[i]
      <4>1. CASE i <= b - 1
        BY <3>4, <4>1
      <4>2. CASE i > b - 1
        <5>1. PICK j \in 1 .. m : b - 1 + j = i /\ b + j - 1 = i
          <6>1. i - (b - 1) \in 1 .. m /\ b - 1 + (i - (b - 1)) = i /\ b + (i - (b - 1)) - 1 = i
            BY <2>1, <3>3, <4>2
          <6>2. QED  BY <6>1
        <5>2. QED  BY <3>2, <3>3, <3>4, <5>1
      <4>3. QED  BY <2>1, <4>1, <4>2
    <3>6. QED  BY <3>1, <3>3, <3>4, <3>5
  <2>6. Depth(t, Len(t)) = k /\ z = t \o [i \in 1 .. k |-> Close]
    BY <2>4, <2>5, ClosedText
  <2>7. IsExpr(z)
    BY <2>4 DEF IsExpr, Texts
  <2>8. QED  BY <1>6, <2>6, <2>7 DEF Completable
<1>8. CASE e = NoExpr
  <2>1. b = Len(t) + 1
    BY <1>1, <1>2, <1>8 DEF ValueOK
  <2>2. PICK y : y = CHOOSE y1 \in Vars : TRUE
    OBVIOUS
  <2>3. y \in Operands /\ y \in Alphabet
    BY <2>2, OperandsAssumption DEF Operands, Alphabet
  <2>4. PICK v \in Texts : v = <<y>> /\ Len(v) = 1 /\ v[1] = y
    <3>1. <<y>> \in Seq(Alphabet) /\ Len(<<y>>) = 1 /\ <<y>>[1] = y
      BY <2>3
    <3>2. QED  BY <3>1 DEF Texts
  <2>5. Reads(v, Leaf(y)) /\ IsFactor(v)
    BY <2>3, <2>4, LeafReads
  <2>6. Suits(f, v)
    BY <2>5 DEF Suits, IsFactor
  <2>7. PICK z, e1 : \E k \in Nat : Reads(z, e1) /\ Completes(z, t, b, v, k)
    BY <1>4, <2>5, <2>6 DEF Completed
  <2>8. PICK k \in Nat : Reads(z, e1) /\ Completes(z, t, b, v, k)
    BY <2>7
  <2>9. z \in Texts /\ Balanced(z) /\ Grammar[z] # {}
    BY <2>8 DEF Reads
  <2>10. PICK n \in Nat : n = Len(t)
    BY <1>5
  <2>11. PICK u : u = t \o <<y>>
    OBVIOUS
  <2>12. /\ u \in Texts /\ Len(u) = n + 1 /\ u[n + 1] = y
         /\ \A i \in 1 .. n : u[i] = t[i]
    <3>1. /\ t \o v \in Texts /\ Len(t \o v) = n + 1
          /\ \A i \in 1 .. n + 1 : (t \o v)[i] = IF i <= n THEN t[i] ELSE v[i - n]
      BY <2>4, <2>10, ConcatProperties DEF Texts
    <3>2. n + 1 \in 1 .. n + 1 /\ ~ (n + 1 <= n) /\ n + 1 - n = 1
      OBVIOUS
    <3>3. (t \o v)[n + 1] = y
      BY <2>4, <3>1, <3>2
    <3>4. \A i \in 1 .. n : i \in 1 .. n + 1 /\ i <= n
      OBVIOUS
    <3>5. QED  BY <2>4, <2>11, <3>1, <3>3, <3>4
  <2>13. /\ Len(z) = (n + 1) + k
         /\ \A i \in 1 .. n + 1 : z[i] = u[i]
         /\ \A i \in 1 .. k : z[(n + 1) + i] = Close
    <3>1. b - 1 = n /\ n + 1 + k = (n + 1) + k
      BY <2>1, <2>10
    <3>2. /\ Len(z) = (n + 1) + k
          /\ \A i \in 1 .. n : z[i] = t[i]
          /\ \A i \in 1 .. 1 : z[n + i] = v[i]
          /\ \A i \in 1 .. k : z[(n + 1) + i] = Close
      BY <2>4, <2>8, <3>1 DEF Completes
    <3>3. z[n + 1] = y
      BY <2>4, <3>2
    <3>4. \A i \in 1 .. n + 1 : i \in 1 .. n \/ i = n + 1
      OBVIOUS
    <3>5. QED  BY <2>12, <3>2, <3>3, <3>4
  <2>14. Depth(u, n + 1) = k /\ z = u \o [i \in 1 .. k |-> Close]
    <3>1. /\ Len(z) = Len(u) + k /\ \A i \in 1 .. Len(u) : z[i] = u[i]
          /\ \A i \in 1 .. k : z[Len(u) + i] = Close
      BY <2>12, <2>13
    <3>2. Depth(u, Len(u)) = k /\ z = u \o [i \in 1 .. k |-> Close]
      BY <2>9, <2>12, <3>1, ClosedText
    <3>3. QED  BY <2>12, <3>2
  <2>15. Depth(t, n) = k
    <3>1. Depth(u, n + 1) = Depth(u, n) + Turn(u[n + 1]) /\ Depth(u, n) \in Int
      BY DepthType
    <3>2. Turn(y) = 0
      BY <2>3, Tokens
    <3>3. Depth(u, n) = Depth(t, n)
      BY <2>12, DepthSame
    <3>4. QED  BY <2>12, <2>14, <3>1, <3>2, <3>3
  <2>16. IsExpr(z)
    BY <2>9 DEF IsExpr, Texts
  <2>17. QED  BY <1>6, <2>2, <2>10, <2>11, <2>14, <2>15, <2>16 DEF Completable
<1>9. QED  BY <1>7, <1>8

------------------------------------------------------------------------------
(***************************************************************************)
(* The parser rejects only nonsense.                                       *)
(***************************************************************************)
\* What an operand is missing after.
LEMMA LastBeforeOperand ==
    ASSUME NEW t \in Texts, NEW S, NEW s \in Seq(S), NEW ready, NEW x,
           Placed(t, s, NoExpr, ready, x), t # <<>>
    PROVE  t[Len(t)] \notin Ends
<1>1. PICK from, here : /\ Nested(t, s, from, here)
                        /\ ValueOK(t, NoExpr, At(s, Len(s)), here[Len(s)])
  BY DEF Placed
<1>2. PICK n \in Nat : n = Len(s) /\ n >= 1
  BY <1>1, TopFrame
<1>3. PICK f, b : f = At(s, n) /\ b = here[n]
  OBVIOUS
<1>4. b = Len(t) + 1 /\ FrameOK(t, f, from[n], b)
  BY <1>1, <1>2, <1>3, TopFrame DEF ValueOK
<1>5. Len(t) \in Nat /\ b - 1 = Len(t) /\ Len(t) # 0
  BY <1>4, LenProperties, EmptySeq DEF Texts
<1>6. CASE f.op # NoOp
  <2>1. t[b - 1] = f.op /\ f.op \in Ops
    BY <1>4, <1>6 DEF FrameOK
  <2>2. QED  BY <1>5, <2>1, Sides
<1>7. CASE f.op = NoOp
  <2>1. from[n] = b
    BY <1>4, <1>7, Zenon DEF FrameOK
  <2>2. n # 1
    BY <1>1, <1>4, <1>5, <2>1 DEF Nested
  <2>3. PICK m \in Nat : n = m + 1 /\ m \in 1 .. Len(s) - 1 /\ m \in 1 .. Len(s)
    <3>1. n - 1 \in Nat /\ n = (n - 1) + 1 /\ n - 1 \in 1 .. Len(s) - 1 /\ n - 1 \in 1 .. Len(s)
      BY <1>2, <2>2
    <3>2. QED  BY <3>1
  <2>4. PICK g, c : g = At(s, m) /\ c = here[m]
    OBVIOUS
  <2>5. Above(t, g, c, f, b) /\ FrameOK(t, g, from[m], c)
    BY <1>1, <1>3, <2>1, <2>3, <2>4 DEF Nested
  <2>6. CASE f.bracket
    <3>1. b = c + 1 /\ t[c] = Open
      BY <2>5, <2>6 DEF Above
    <3>2. c \in Nat
      BY <2>5, Zenon DEF FrameOK
    <3>3. c = Len(t)
      <4>1. b = Len(t) + 1 /\ b = c + 1 /\ Len(t) \in Nat
        BY <1>4, <1>5, <3>1
      <4>2. QED  BY <3>2, <4>1
    <3>4. QED  BY <3>1, <3>3, Sides
  <2>7. CASE ~f.bracket
    <3>1. b = c /\ g.op \in AddOps
      BY <2>5, <2>7 DEF Above
    <3>2. g.op \in Ops /\ g.op # NoOp
      BY <3>1, Precedences DEF Ops
    <3>3. t[c - 1] = g.op
      BY <2>5, <3>2 DEF FrameOK
    <3>4. QED  BY <1>5, <3>1, <3>2, <3>3, Sides
  <2>8. QED  BY <2>6, <2>7
<1>8. QED  BY <1>6, <1>7

\* What an operand has been read after.
LEMMA LastOfOperand ==
    ASSUME NEW t \in Texts, NEW S, NEW s \in Seq(S), NEW e, e # NoExpr, NEW ready, NEW x,
           Placed(t, s, e, ready, x)
    PROVE  t # <<>> /\ t[Len(t)] \in Ends
<1>1. PICK from, here : /\ Nested(t, s, from, here)
                        /\ ValueOK(t, e, At(s, Len(s)), here[Len(s)])
  BY DEF Placed
<1>2. PICK f, a, b : f = At(s, Len(s)) /\ a = from[Len(s)] /\ b = here[Len(s)]
  OBVIOUS
<1>3. FrameOK(t, f, a, b)
  BY <1>1, <1>2, TopFrame
<1>4. /\ a \in Nat /\ b \in Nat /\ 1 <= a /\ a <= b /\ b < Len(t) + 1 /\ Len(t) \in Nat
      /\ From(t, b) \in Texts /\ Reads(From(t, b), e)
  BY <1>1, <1>2, <1>3, ValueText
<1>5. PICK v : v = From(t, b)
  OBVIOUS
<1>6. Len(v) = Len(t) - b + 1 /\ \A i \in 1 .. Len(t) - b + 1 : v[i] = t[b + i - 1]
  <2>1. 1 <= b /\ b <= Len(t) + 1
    BY <1>4
  <2>2. QED  BY <1>4, <1>5, <2>1, FromPart
<1>7. Shaped(v)
  <2>1. v \in Texts /\ Grammar[v] # {}
    BY <1>4, <1>5 DEF Reads
  <2>2. QED  BY <2>1, ExprShaped
<1>8. v[Len(v)] = t[Len(t)]
  <2>1. Len(t) - b + 1 \in 1 .. Len(t) - b + 1 /\ b + (Len(t) - b + 1) - 1 = Len(t)
    BY <1>4
  <2>2. QED  BY <1>6, <2>1
<1>9. Len(t) # 0
  BY <1>4
<1>10. QED  BY <1>7, <1>8, <1>9, EmptySeq DEF Shaped

LEMMA NoTokenOutside == NoToken \notin Alphabet
<1>1. NoToken \notin Operands /\ NoToken \notin Ops
  BY OperandsAssumption, Precedences DEF NoOp
<1>2. NoToken # Open /\ NoToken # Close
  BY DEF NoToken, Open, Close
<1>3. QED  BY <1>1, <1>2 DEF Alphabet

LEMMA RejectStep ==
    ASSUME ParseInv, InvalidPrimary \/ MissingBracket \/ InvalidToken
    PROVE  RejectsOnlyNonsense'
<1>1. read \in Texts /\ Placed(read, stack, value, scan = "ready", token)
  BY DEF ParseInv
<1>2. PICK S : stack \in Seq(S)
  BY DEF ParseInv
<1>3. Completable(read)
  BY <1>1, <1>2, PlacedCompletable
<1>4. ~Completable(Append(read, token))
  <2>1. CASE InvalidToken
    <3>1. token = NoToken
      BY <2>1 DEF InvalidToken, InvalidChar, ParseInv
    <3>2. token \notin Alphabet
      BY <3>1, NoTokenOutside
    <3>3. QED  BY <1>1, <3>2, Hopeless
  <2>2. CASE InvalidPrimary
    <3>1. value = NoExpr /\ token \notin Starts
      BY <2>2 DEF InvalidPrimary, Primary, Starts
    <3>2. read # <<>> => read[Len(read)] \notin Ends
      BY <1>1, <1>2, <3>1, LastBeforeOperand
    <3>3. QED  BY <1>1, <3>1, <3>2, Hopeless
  <2>3. CASE MissingBracket
    <3>1. /\ value # NoExpr /\ HasToken /\ Head(stack).bracket /\ token # Close
          /\ Precedence(token) < Head(stack).min
      BY <2>3 DEF MissingBracket, LoopReturns, Parsed
    <3>2. read # <<>> /\ read[Len(read)] \in Ends
      BY <1>1, <1>2, <3>1, LastOfOperand
    <3>3. token \notin Ops
      <4>1. PICK from, here : Nested(read, stack, from, here)
        BY <1>1 DEF Placed
      <4>2. FrameOK(read, Head(stack), from[Len(stack)], here[Len(stack)])
        BY <1>1, <1>2, <4>1, TopFrame
      <4>3. Head(stack).min = 1
        BY <3>1, <4>2, Zenon DEF FrameOK, Lowest
      <4>4. \A o \in Ops : Precedence(o) \in {101, 201}
        BY DEF Precedence, Ops
      <4>5. QED  BY <3>1, <4>3, <4>4
    <3>4. token \notin Alphabet \/ token \in Starts
      BY <3>1, <3>3 DEF Alphabet, Starts
    <3>5. QED  BY <1>1, <3>2, <3>4, Hopeless
  <2>4. QED  BY <2>1, <2>2, <2>3
<1>5. read' = read /\ token' = token
  BY DEF InvalidPrimary, MissingBracket, InvalidToken, tokenizerVars
<1>6. QED  BY <1>3, <1>4, <1>5 DEF RejectsOnlyNonsense

(***************************************************************************)
(* Whatever the text: one that is rejected starts no expression with its next *)
(* token, and started one without it (the exceptions of parse_primary and  *)
(* parse_parent_expr, expr_parser.cpp:57-91).                              *)
(***************************************************************************)
THEOREM ParserRejectsNonsense == Spec => []RejectsOnlyNonsense
<1>1. Init => RejectsOnlyNonsense
  BY DEF Init, RejectsOnlyNonsense
<1>2. ParseInv /\ RejectsOnlyNonsense /\ [Next]_vars => RejectsOnlyNonsense'
  <2> SUFFICES ASSUME ParseInv, RejectsOnlyNonsense, [Next]_vars PROVE RejectsOnlyNonsense'
    OBVIOUS
  <2>1. CASE InvalidPrimary \/ MissingBracket \/ InvalidToken
    BY <2>1, RejectStep
  <2>2. CASE UNCHANGED vars
    <3>1. status' = status /\ read' = read /\ token' = token
      BY <2>2 DEF vars, parserVars, tokenizerVars
    <3>2. QED  BY <3>1 DEF RejectsOnlyNonsense
  <2>3. ASSUME Next, ~(InvalidPrimary \/ MissingBracket \/ InvalidToken)
        PROVE  RejectsOnlyNonsense'
    <3>1. status' # "rejected"
      BY <2>3 DEF Next, Tokenize, SkipNewLine, parse_leaf, OpenBracket, EatOperator, Climb, Join,
         ReturnRhs, CloseBracket, Done, LoopReturns, Primary, Parsed, HasToken, parserVars
    <3>2. QED  BY <3>1 DEF RejectsOnlyNonsense
  <2>4. QED  BY <2>1, <2>2, <2>3
<1>3. QED  BY <1>1, <1>2, ParseInvHolds, PTL DEF Spec

------------------------------------------------------------------------------
\* The parser is one of the callers that the tokenizer allows.
LEMMA ReadsTokens == Spec => TokenizerSpec
<1>1. Init => TokenizerInit
  BY DEF Init
<1>2. [Next]_vars => [TokenizerNext \/ (scan = "ready" /\ Call_next_token)]_tokenizerVars
  <2> SUFFICES ASSUME [Next]_vars
               PROVE  [TokenizerNext \/ (scan = "ready" /\ Call_next_token)]_tokenizerVars
    OBVIOUS
  <2>1. CASE UNCHANGED vars
    BY <2>1 DEF vars
  <2>2. CASE Next
    BY <2>2 DEF Next, Tokenize, InvalidToken, SkipNewLine, parse_leaf, OpenBracket, InvalidPrimary,
       EatOperator, Climb, Join, ReturnRhs, CloseBracket, MissingBracket, Done, LoopReturns,
       Primary, Parsed, HasToken, next_token
  <2>3. QED  BY <2>1, <2>2
<1>3. QED  BY <1>1, <1>2, PTL DEF Spec, TokenizerSpec

(***************************************************************************)
(* The tokens that the parser reads have lost no character of the text, and *)
(* none stops before its last one (expr_parser.cpp next_token, which runs  *)
(* iterator_tokenizer.h:129-154).                                          *)
(***************************************************************************)
THEOREM ParserReadsTokens == Spec => []TokensMeanText
<1>1. QED  BY ReadsTokens, TextIsItsTokens, PTL
==============================================================================
