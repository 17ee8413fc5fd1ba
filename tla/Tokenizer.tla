------------------------------- MODULE Tokenizer ------------------------------
(***************************************************************************)
(* impl/parser/iterator_tokenizer.h: IteratorTokenizer makes tokens of a   *)
(* text, character by character, whenever its parser asks for one.  The    *)
(* text is arbitrary and is chosen as it is read.                          *)
(*                                                                         *)
(* `scan' is the loop that next_token is in, "ready" when it has returned. *)
(* A token is the sequence of the characters that spell it; the first one  *)
(* tells its type (impl/parser/token.h).  An integer is its digits without *)
(* zeros in front, behind a sign if it is negative.                        *)
(***************************************************************************)
EXTENDS Naturals, Sequences, FiniteSets

CONSTANTS
  Letters, Digits,
  Marks,            \* the characters that are tokens
  Others,           \* the characters that are in no token
  Ints,             \* the values of an int, as tokens
  MaxChars,         \* bound: characters of the text
  MaxLong           \* bound: characters of it before which tokens may grow and
                    \* blanks, numbers, literals and ends of lines begin

VARIABLES
  it,               \* _it, as the number of characters before it
  current_char,     \* _current_char
  scan,
  lexeme,           \* value
  token,            \* the token returned last
  since             \* the characters eaten for it

tokenizerVars == <<it, current_char, scan, lexeme, token, since>>

EOF     == "EOF"
Quote   == "\""
Blank   == " "            \* or a tab
NewLine == "\n"
Return  == "\r"

Chars == Letters \cup Digits \cup Marks \cup Others
         \cup {"_", Quote, Blank, NewLine, Return}

\* A character is of one kind (isalpha, isdigit and the cases of next_token).
ASSUME TokenizerAssumption ==
  LET Cases == {"_", Quote, Blank, NewLine, Return, EOF}
  IN  /\ MaxChars \in Nat /\ MaxLong \in Nat
      /\ Letters \cap (Digits \cup Marks \cup Others \cup Cases) = {}
      /\ Digits \cap (Marks \cup Others \cup Cases) = {}
      /\ Marks \cap (Others \cup Cases) = {}
      /\ Others \cap Cases = {}

IsAlpha(c) == c \in Letters \cup {"_"}
IsAlnum(c) == c \in Letters \cup Digits \cup {"_"}

EOFToken     == <<EOF>>
NewLineToken == <<NewLine>>
NoToken      == <<>>

\* The character at a position of the text, behind another one.  Of an empty
\* text the constructor reads the zero behind it, which counts as its end.
CharAt(i, before) ==
  CASE i >= MaxChars -> {EOF}
    [] i < MaxLong   -> Chars \cup {EOF}
    [] scan = "literal" \/ before = Quote -> {Quote, EOF}
    [] OTHER -> Marks \cup Others \cup {EOF}
                \cup IF IsAlnum(before) THEN {} ELSE Letters

\* The constructor, and the call of next_token in that of the parser.
TokenizerInit ==
  /\ it = 0
  /\ current_char \in CharAt(0, Blank)
  /\ scan = "start"
  /\ lexeme = <<>>
  /\ token = NoToken
  /\ since = <<>>

\* At the end of the text it stays there.
next_char ==
  IF current_char = EOF THEN UNCHANGED <<it, current_char, since>>
  ELSE /\ it' = it + 1
       /\ current_char' \in CharAt(it', current_char)
       /\ since' = Append(since, current_char)

Return_token(t) == token' = t /\ scan' = "ready" /\ lexeme' = <<>>

\* The parser asks for a token.
Call_next_token ==
  /\ scan' = "start"
  /\ token' = NoToken
  /\ since' = <<>>
  /\ UNCHANGED <<it, current_char, lexeme>>

\* Mutant: a blank is looked at again and again.
SkipBlankForever ==
  /\ scan = "start"
  /\ current_char = Blank
  /\ UNCHANGED tokenizerVars

SkipBlank ==
  /\ scan = "start"
  /\ current_char = Blank
  /\ next_char
  /\ UNCHANGED <<scan, lexeme, token>>

\* The cases of the switch that return at once.
OneCharToken ==
  /\ scan = "start"
  /\ current_char \in Marks \cup {NewLine, EOF}
  /\ next_char
  /\ Return_token(<<current_char>>)

\* case '\r'.
BeginNewLine ==
  /\ scan = "start"
  /\ current_char = Return
  /\ next_char
  /\ scan' = "return"
  /\ UNCHANGED <<lexeme, token>>

EndNewLine ==
  /\ scan = "return"
  /\ IF current_char = NewLine THEN next_char
     ELSE UNCHANGED <<it, current_char, since>>
  /\ Return_token(NewLineToken)

------------------------------------------------------------------------------
\* case '"'.  At the end of the text the loop adds EOF to the value for ever:
\* no step here.
BeginLiteral ==
  /\ scan = "start"
  /\ current_char = Quote
  /\ next_char
  /\ scan' = "literal"
  /\ UNCHANGED <<lexeme, token>>

GrowLiteral ==
  /\ scan = "literal"
  /\ current_char \notin {Quote, EOF}
  /\ lexeme' = Append(lexeme, current_char)
  /\ next_char
  /\ UNCHANGED <<scan, token>>

EndLiteral ==
  /\ scan = "literal"
  /\ current_char = Quote
  /\ next_char
  /\ Return_token(<<Quote>> \o lexeme \o <<Quote>>)

\* Names, the wildcard `_' among them.
BeginName ==
  /\ scan = "start"
  /\ IsAlpha(current_char)
  /\ lexeme' = <<current_char>>
  /\ next_char
  /\ scan' = "name"
  /\ UNCHANGED token

GrowName ==
  /\ scan = "name"
  /\ IsAlnum(current_char)
  /\ lexeme' = Append(lexeme, current_char)
  /\ next_char
  /\ UNCHANGED <<scan, token>>

EndName ==
  /\ scan = "name"
  /\ ~IsAlnum(current_char)
  /\ Return_token(lexeme)
  /\ UNCHANGED <<it, current_char, since>>

BeginNumber ==
  /\ scan = "start"
  /\ current_char \in Digits
  /\ lexeme' = <<current_char>>
  /\ next_char
  /\ scan' = "number"
  /\ UNCHANGED token

GrowNumber ==
  /\ scan = "number"
  /\ current_char \in Digits
  /\ lexeme' = Append(lexeme, current_char)
  /\ next_char
  /\ UNCHANGED <<scan, token>>

\* Every digit is an int, and no int has two tokens.
ASSUME IntsAssumption ==
  /\ "-" \notin Digits
  /\ \A d \in Digits : <<d>> \in Ints
  /\ \A t \in Ints : /\ t \in Seq(Digits \cup {"-"})
                     /\ t # <<>> /\ t # <<"-">>
                     /\ t[1] = "0" => Len(t) = 1

Significant(digits) ==
  LET zeros == {i \in DOMAIN digits : \A j \in 1 .. i : digits[j] = "0"} \ {Len(digits)}
  IN  SubSeq(digits, Cardinality(zeros) + 1, Len(digits))

\* What atoi may return.  The value of a number that is too large for an int
\* is undefined: any int, a negative one or that of another number.
atoi(digits) ==
  IF Significant(digits) \in Ints THEN {Significant(digits)} ELSE Ints

\* Mutant: the character behind a number is eaten with it.
EndNumberBehind ==
  /\ scan = "number"
  /\ current_char \notin Digits
  /\ \E t \in atoi(lexeme) : Return_token(t)
  /\ next_char

EndNumber ==
  /\ scan = "number"
  /\ current_char \notin Digits
  /\ \E t \in atoi(lexeme) : Return_token(t)
  /\ UNCHANGED <<it, current_char, since>>

\* The exception behind all cases.
InvalidChar == scan = "start" /\ current_char \in Others

TokenizerNext ==
  \/ SkipBlank \/ OneCharToken \/ BeginNewLine \/ EndNewLine
  \/ BeginLiteral \/ GrowLiteral \/ EndLiteral
  \/ BeginName \/ GrowName \/ EndName
  \/ BeginNumber \/ GrowNumber \/ EndNumber

\* A parser that reads tokens.
TokenizerSpec ==
  TokenizerInit /\ [][TokenizerNext \/ (scan = "ready" /\ Call_next_token)]_tokenizerVars

\* The loop of a literal that is not closed.
Endless == scan = "literal" /\ current_char = EOF

------------------------------------------------------------------------------
(***************************************************************************)
(* What the characters of a token mean, by their shape.                    *)
(***************************************************************************)
IsName(s)    == s # <<>> /\ IsAlpha(s[1]) /\ \A i \in DOMAIN s : IsAlnum(s[i])
IsNumber(s)  == s # <<>> /\ \A i \in DOMAIN s : s[i] \in Digits
IsLiteral(s) == /\ Len(s) > 1 /\ s[1] = Quote /\ s[Len(s)] = Quote
                /\ \A i \in 2 .. Len(s) - 1 : s[i] # Quote
IsNewLine(s) == s \in {<<NewLine>>, <<Return>>, <<Return, NewLine>>}
IsMark(s)    == Len(s) = 1 /\ s[1] \in Marks

IsLexeme(s) == IsName(s) \/ IsNumber(s) \/ IsLiteral(s) \/ IsNewLine(s) \/ IsMark(s)

Zeros(n) == [i \in 1 .. n |-> "0"]

Denotes(s, t) == \E n \in 0 .. Len(s) - 1 : s = Zeros(n) \o t

\* Numbers that differ by zeros in front are one int, and one that denotes no
\* int may become any.
Spells(s, t) ==
  CASE IsNumber(s)  -> /\ t \in Ints
                       /\ Denotes(s, t) \/ \A i \in Ints : ~Denotes(s, i)
    [] IsNewLine(s) -> t = NewLineToken
    [] OTHER        -> t = s

(***************************************************************************)
(* No character is lost or read twice: those eaten for a token are blanks  *)
(* and the token, and the next character would not make it longer          *)
(* (iterator_tokenizer.h:129-154, the loops that look one character        *)
(* ahead).                                                                 *)
(***************************************************************************)
TokensMeanText ==
  scan = "ready" =>
    \E n \in 0 .. Len(since) :
      LET s == SubSeq(since, n + 1, Len(since))
      IN  /\ \A i \in 1 .. n : since[i] = Blank
          /\ IF token = EOFToken THEN s = <<>> /\ current_char = EOF
             ELSE /\ IsLexeme(s)
                  /\ Spells(s, token)
                  /\ ~IsLexeme(Append(s, current_char))
==============================================================================
