------------------------------ MODULE ExprParser ------------------------------
(***************************************************************************)
(* Expressions by precedence climbing (impl/parser/expr_parser.cpp for     *)
(* patterns, the same code in parser.cpp for assignments).                 *)
(*                                                                         *)
(* The recursion of parse_expr, parse_binary_op_rhs, parse_primary and     *)
(* parse_parent_expr is a stack, innermost first.  A frame is one call of  *)
(* parse_binary_op_rhs with the parse_expr around it: the precedence it    *)
(* was called with, its left operand and operator if it has eaten one, and *)
(* whether it lies in brackets.  `value' is the expression just parsed,    *)
(* NoExpr when parse_primary comes next.                                   *)
(*                                                                         *)
(* The text is read one token ahead, and a step of the parser waits for    *)
(* the tokenizer to return one.                                            *)
(***************************************************************************)
EXTENDS Tokenizer

CONSTANT
  Vars              \* the tokens that name variables

VARIABLES
  read,             \* the tokens consumed
  value,
  stack,
  status            \* "parsing", "rejected" by an exception, or "done"

parserVars == <<read, value, stack, status>>
vars == <<tokenizerVars, parserVars>>

\* An expression is a leaf with its token, a variable or a constant, or a
\* binary operation.
Leaf(t)         == [type |-> IF t \in Vars THEN "VariableET" ELSE "ConstantET",
                    token |-> t]
Binary(o, l, r) == [type |-> "BinaryOpET", op |-> o, lhs |-> l, rhs |-> r]
NoExpr          == [type |-> "none"]

Operands == Vars \cup Ints
AddOps   == {<<"+">>, <<"-">>}
MulOps   == {<<"*">>}
Ops      == AddOps \cup MulOps
NoOp     == NoToken

Open  == <<"(">>
Close == <<")">>

Alphabet == Operands \cup Ops \cup {Open, Close}

\* Names and integers are neither operators nor brackets, nor no token.
ASSUME OperandsAssumption ==
  /\ Vars # {}
  /\ Operands \cap (Ops \cup {Open, Close, NoToken, NewLineToken}) = {}

\* Mutant: multiplication binds no tighter.
PrecedenceFlat(t) == IF t \in Ops THEN 101 ELSE 0

\* Mutant: subtraction is not supported.
PrecedenceNoMinus(t) == IF t \in MulOps THEN 201 ELSE IF t = <<"+">> THEN 101 ELSE 0

\* operator_precedence() + 1, so that "none" is zero.
Precedence(t) == IF t \in MulOps THEN 201 ELSE IF t \in AddOps THEN 101 ELSE 0

\* The precedence that parse_expr passes, on the same scale.
Lowest == 1

Frame(min, lhs, op, bracket) ==
  [min |-> min, lhs |-> lhs, op |-> op, bracket |-> bracket]

Init ==
  /\ TokenizerInit
  /\ read = <<>>
  /\ value = NoExpr
  /\ stack = <<Frame(Lowest, NoExpr, NoOp, FALSE)>>
  /\ status = "parsing"

\* The parser eats a token and asks for another one.
next_token ==
  /\ read' = Append(read, token)
  /\ Call_next_token

\* ExprParser::next_token skips the ends of lines.
SkipNewLine ==
  /\ status = "parsing" /\ scan = "ready"
  /\ token = NewLineToken
  /\ Call_next_token
  /\ UNCHANGED parserVars

Tokenize ==
  /\ status = "parsing"
  /\ TokenizerNext
  /\ UNCHANGED parserVars

\* Its exception ends the parse, too.
InvalidToken ==
  /\ status = "parsing"
  /\ InvalidChar
  /\ status' = "rejected"
  /\ UNCHANGED <<tokenizerVars, read, value, stack>>

HasToken == status = "parsing" /\ scan = "ready" /\ token # NewLineToken

Primary == HasToken /\ value = NoExpr
Parsed  == HasToken /\ value # NoExpr

\* parse_variable, parse_const.
parse_leaf ==
  /\ Primary
  /\ token \in Operands
  /\ value' = Leaf(token)
  /\ next_token
  /\ UNCHANGED <<stack, status>>

\* The start of parse_parent_expr.
OpenBracket ==
  /\ Primary
  /\ token = Open
  /\ next_token
  /\ stack' = <<Frame(Lowest, NoExpr, NoOp, TRUE)>> \o stack
  /\ UNCHANGED <<value, status>>

InvalidPrimary ==
  /\ Primary
  /\ token \notin Operands \cup {Open}
  /\ status' = "rejected"
  /\ UNCHANGED <<tokenizerVars, read, value, stack>>

\* The head of the loop of parse_binary_op_rhs: the operator belongs to it.
EatOperator ==
  /\ Parsed
  /\ Head(stack).op = NoOp
  /\ Precedence(token) >= Head(stack).min
  /\ stack' = <<[Head(stack) EXCEPT !.lhs = value, !.op = token]>> \o Tail(stack)
  /\ value' = NoExpr
  /\ next_token
  /\ UNCHANGED status

\* The right operand is the left one of an operator that binds tighter.
Climb ==
  /\ Parsed
  /\ Head(stack).op # NoOp
  /\ Precedence(Head(stack).op) < Precedence(token)
  /\ stack' = <<Frame(Precedence(Head(stack).op) + 1, NoExpr, NoOp, FALSE)>>
              \o stack
  /\ UNCHANGED <<tokenizerVars, read, value, status>>

\* Mutant: the left operand is used twice.
JoinTwice ==
  /\ Parsed
  /\ Head(stack).op # NoOp
  /\ Precedence(Head(stack).op) >= Precedence(token)
  /\ value' = Binary(Head(stack).op, Head(stack).lhs, Head(stack).lhs)
  /\ stack' = <<[Head(stack) EXCEPT !.lhs = NoExpr, !.op = NoOp]>> \o Tail(stack)
  /\ UNCHANGED <<tokenizerVars, read, status>>

\* lhs = new SimpleBinaryOpAst(current_op, lhs, rhs).
Join ==
  /\ Parsed
  /\ Head(stack).op # NoOp
  /\ Precedence(Head(stack).op) >= Precedence(token)
  /\ value' = Binary(Head(stack).op, Head(stack).lhs, value)
  /\ stack' = <<[Head(stack) EXCEPT !.lhs = NoExpr, !.op = NoOp]>> \o Tail(stack)
  /\ UNCHANGED <<tokenizerVars, read, status>>

\* The operator, if any, belongs to a caller: the loop returns.
LoopReturns ==
  /\ Parsed
  /\ Head(stack).op = NoOp
  /\ Precedence(token) < Head(stack).min

ReturnRhs ==
  /\ LoopReturns
  /\ Len(stack) > 1
  /\ ~Head(stack).bracket
  /\ stack' = Tail(stack)
  /\ UNCHANGED <<tokenizerVars, read, value, status>>

\* The end of parse_parent_expr.
CloseBracket ==
  /\ LoopReturns
  /\ Head(stack).bracket
  /\ token = Close
  /\ next_token
  /\ stack' = Tail(stack)
  /\ UNCHANGED <<value, status>>

MissingBracket ==
  /\ LoopReturns
  /\ Head(stack).bracket
  /\ token # Close
  /\ status' = "rejected"
  /\ UNCHANGED <<tokenizerVars, read, value, stack>>

\* The outermost call returns; the caller looks at the current token.
Done ==
  /\ LoopReturns
  /\ Len(stack) = 1
  /\ status' = "done"
  /\ UNCHANGED <<tokenizerVars, read, value, stack>>

Next ==
  \/ Tokenize \/ InvalidToken \/ SkipNewLine
  \/ parse_leaf \/ OpenBracket \/ InvalidPrimary
  \/ EatOperator \/ Climb \/ Join
  \/ ReturnRhs \/ CloseBracket \/ MissingBracket \/ Done

\* The only thread runs the parser until it returns.
Spec == Init /\ [][Next]_vars /\ WF_vars(Next)

------------------------------------------------------------------------------
(***************************************************************************)
(* The grammar, by splitting a text at the operator that binds least: the  *)
(* last + or - outside brackets, else the last * outside brackets.         *)
(***************************************************************************)
Count(text, i, t) == Cardinality({j \in 1 .. i : text[j] = t})

Outside(text, i) == Count(text, i, Open) = Count(text, i, Close)

Splits(text, ops) == {i \in DOMAIN text : text[i] \in ops /\ Outside(text, i)}

Last(S) == CHOOSE i \in S : \A j \in S : j <= i

Bracketed(text) == /\ Len(text) > 2
                   /\ text[1] = Open /\ text[Len(text)] = Close

Inner(text)     == SubSeq(text, 2, Len(text) - 1)
Left(text, i)   == SubSeq(text, 1, i - 1)
Right(text, i)  == SubSeq(text, i + 1, Len(text))

SplitAt(text) ==
  IF Splits(text, AddOps) # {} THEN Splits(text, AddOps) ELSE Splits(text, MulOps)

\* The expression that a text spells, in a set; none if it spells none.
Grammar[text \in Seq(Alphabet)] ==
  IF SplitAt(text) # {}
  THEN LET i == Last(SplitAt(text))
       IN  {Binary(text[i], l, r) : l \in Grammar[Left(text, i)],
                                    r \in Grammar[Right(text, i)]}
  ELSE IF Len(text) = 1 THEN {Leaf(t) : t \in {text[1]} \cap Operands}
  ELSE IF Bracketed(text) THEN Grammar[Inner(text)] ELSE {}

IsExpr(text) == text \in Seq(Alphabet) /\ Grammar[text] # {}

\* Some expression starts with the text: an operand, where one is missing,
\* and the closing brackets complete it.
Completable(text) ==
  LET missing == Count(text, Len(text), Open) - Count(text, Len(text), Close)
      close   == [i \in 1 .. missing |-> Close]
  IN  \/ IsExpr(text \o close)
      \/ LET operand == CHOOSE v \in Vars : TRUE
         IN  IsExpr(text \o <<operand>> \o close)

------------------------------------------------------------------------------
(***************************************************************************)
(* Properties                                                              *)
(***************************************************************************)

(***************************************************************************)
(* What is parsed is the longest expression the text starts with, with *   *)
(* binding tighter than + and -, equal ones grouped from the left, and     *)
(* brackets respected (expr_parser.cpp:36-54, the comparisons with the     *)
(* current and the next precedence).                                       *)
(***************************************************************************)
ParsesTheGrammar ==
  status = "done" => /\ read \in Seq(Alphabet)
                     /\ Grammar[read] = {value}
                     /\ token \notin Ops

(***************************************************************************)
(* Only a text that starts no expression is rejected.                      *)
(***************************************************************************)
RejectsOnlyNonsense ==
  status = "rejected" => /\ IF read = <<>> THEN TRUE ELSE Completable(read)
                         /\ ~Completable(Append(read, token))

(***************************************************************************)
(* The parser returns or throws, whatever the text, with one exception:    *)
(* when the text ends inside a literal, the tokenizer reads on for ever    *)
(* (iterator_tokenizer.h:131-133; a file that lacks a quote, or a query).  *)
(***************************************************************************)
ParserReturns ==
  \/ <>(status # "parsing")
  \/ <>[](Endless /\ status = "parsing")
==============================================================================
