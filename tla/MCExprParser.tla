---------------------------- MODULE MCExprParser ----------------------------
(***************************************************************************)
(* Instance of ExprParser and ExprSolvers for TLC: all texts of up to      *)
(* seven characters with a letter, two digits, the operators, brackets, a  *)
(* semicolon and a character that no token has.                            *)
(***************************************************************************)
EXTENDS ExprSolvers

MCLetters == {"x"}
MCDigits  == {"0", "1"}
MCMarks   == {"+", "-", "*", "(", ")", ";"}
MCOthers  == {"/"}

Strings(S) == UNION {[1 .. n -> S] : n \in 1 .. MaxLong}

MCVars   == {s \in Strings(MCLetters \cup MCDigits \cup {"_"}) : IsName(s)} \ {<<"_">>}

\* An int of three bits: a binary number of three digits is too large.
MCInts == {<<"0">>, <<"1">>, <<"1", "0">>, <<"1", "1">>,
           <<"-", "1">>, <<"-", "1", "0">>, <<"-", "1", "1">>, <<"-", "1", "0", "0">>}

\* Expressions with up to two operations.
Leaves  == {Leaf(<<"x">>), Leaf(<<"0">>)}
Over(S, T) == {Binary(o, l, r) : o \in Ops, l \in S, r \in T}

MCPatterns ==
  Leaves \cup Over(Leaves, Leaves)
         \cup Over(Leaves, Over(Leaves, Leaves))
         \cup Over(Over(Leaves, Leaves), Leaves)
==============================================================================
