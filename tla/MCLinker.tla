------------------------------ MODULE MCLinker ------------------------------
(* Instances of QueryLinkers for TLC.                                      *)
EXTENDS QueryLinkers, TLC

CONSTANTS w, x, y, z, a, b, d

(* Three variables, two conditions.                                        *)
XYZ == {x, y, z}
AB  == {a, b}

(* A query may declare some of its variables and leave others to be        *)
(* initialised on first use; a predicate may be empty.                     *)
MixedDomains == { (x :> AB @@ y :> AB), (x :> {a} @@ y :> {}),
                  (x :> AB @@ y :> {b} @@ z :> AB) }

(* A triangle; one of its sides linked from either end.                    *)
Triangle == {<<x, y>>, <<y, z>>, <<z, x>>}
AllPairs == Triangle \cup {<<y, x>>}

SomeRelations == { {<<a, a>>, <<b, b>>}, {<<a, a>>, <<a, b>>}, {<<b, a>>}, {},
                   {<<a, b>>, <<b, a>>}, {<<b, a>>, <<b, b>>},
                   {<<a, a>>, <<b, a>>, <<b, b>>}, AB \X AB }

(* Three conditions: with fewer, a condition that loses its support while  *)
(* a pair of a cycle is being linked always empties some variable too.     *)
ABD         == {a, b, d}
WideDomains == { (x :> ABD @@ y :> {a, b} @@ z :> {a, b}) }
WideRelations == { {<<a, a>>, <<d, b>>}, {<<a, b>>, <<b, a>>},
                   {<<a, a>>, <<b, b>>, <<a, d>>} }
(* Alphabetical order of the names, and every selection of one to three of *)
(* the variables x, y and z, repeated ones included.                       *)
Alphabetical == w :> 1 @@ x :> 2 @@ y :> 3 @@ z :> 4
XYZRank      == [q \in XYZ |-> Alphabetical[q]]
UpToThree    == UNION {[1..n -> XYZ] : n \in 1..3}

(* A fourth variable: x between w on one side and y, z on the other.       *)
WXYZ        == {w, x, y, z}
WXYZDomains == { (w :> {a} @@ x :> AB @@ y :> AB @@ z :> AB) }
DetourPairs == {<<x, w>>, <<x, y>>, <<y, z>>}
DetourRelations == { {<<a, a>>, <<b, a>>}, {<<a, a>>, <<b, b>>} }
XZ          == {<<x, z>>}

(* The selections the cluster build is asked for: one of two variables in  *)
(* the order opposite to their columns, one that names a variable twice.   *)
SomeAsked == {<<z, x>>, <<y, y>>}
SomeRelated == { {<<a, a>>, <<b, b>>}, {<<b, a>>}, {<<a, a>>, <<b, a>>, <<b, b>>} }
=============================================================================
