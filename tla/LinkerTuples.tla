---------------------------- MODULE LinkerTuples ----------------------------
(***************************************************************************)
(* The read side of SimpleQueryLinker (impl/linker.cpp): make_tuples, which*)
(* answers "Select <q1, q2, ...>" from the tables, and the search through  *)
(* intermediate query variables it uses for variables that no clause links *)
(* directly.  Both are functions of a state of Linker; a call that meets a *)
(* variable for the first time also initialises it (Linker!GetConditions). *)
(***************************************************************************)
EXTENDS Linker

CONSTANTS
    Rank,        \* position of a query variable's name in std::string order
    Selections   \* lists of query variables a query may select

ASSUME TuplesAssumption ==
    /\ IsFiniteSet(Qvars)
    /\ Rank \in [Qvars -> Nat]
    /\ \A q, p \in Qvars : Rank[q] = Rank[p] => q = p
    /\ Selections \subseteq Seq(Qvars) \ {<<>>}

-----------------------------------------------------------------------------
(* The searches visit the variables linked to q in the order of their names*)
(* and pass on, by value, the set of those visited so far: at m it holds,  *)
(* besides what the caller had, m and the neighbours of q before m.        *)
VisitedAt(q, m, visited) ==
    visited \cup {n \in LinkedTo(q) : Rank[n] <= Rank[m]}

(* has_indirect_links, called with an empty visited set: the variables     *)
(* from which the search finds a direct link to p.                         *)
HasIndirectLinks(q, p) ==
    LET reaching[visited \in SUBSET Qvars] ==
            {r \in Qvars : \/ HasLink(r, p)
                           \/ \E m \in LinkedTo(r) \ visited :
                                 m \in reaching[VisitedAt(r, m, visited)]}
    IN  q \in reaching[{}]

(* get_indirect_links: a direct link is taken alone; otherwise the union   *)
(* over the neighbours not visited yet of what their linked conditions     *)
(* lead to.                                                                *)
IndirectLinks(q, p, c) ==
    LET leads[visited \in SUBSET Qvars] == [r \in Qvars |-> [d \in Conds |->
            IF HasLink(r, p)
            THEN Partners(r, d, p)
            ELSE UNION { UNION { leads[VisitedAt(r, m, visited)][m][e] :
                                    e \in Partners(r, d, m) } :
                         m \in LinkedTo(r) \ visited }]]
    IN  leads[{}][q][c]

(* Mutant: looks indirect links up in the table of direct ones.            *)
ValidTupleDirect(q, c, rest, t) ==
    \A i \in DOMAIN rest :
        /\ q = rest[i] => c = t[i]
        /\ HasIndirectLinks(q, rest[i]) => t[i] \in Partners(q, c, rest[i])

(* Mutant: ignores indirect links.                                         *)
ValidTupleNear(q, c, rest, t) ==
    \A i \in DOMAIN rest :
        /\ q = rest[i] => c = t[i]
        /\ HasLink(q, rest[i]) => t[i] \in IndirectLinks(q, rest[i], c)

(* validate_tuple: condition c of q against the conditions t of the        *)
(* variables rest, one at a time.                                          *)
ValidTuple(q, c, rest, t) ==
    \A i \in DOMAIN rest :
        /\ q = rest[i] => c = t[i]
        /\ HasIndirectLinks(q, rest[i]) => t[i] \in IndirectLinks(q, rest[i], c)

(* make_tuples: the last variable's conditions, then one variable at a time*)
(* in front.                                                               *)
MakeTuples(qs) ==
    LET from[i \in 1..Len(qs)] ==
            IF i = Len(qs)
            THEN {<<c>> : c \in values[qs[i]]}
            ELSE { <<ct[1]>> \o ct[2] : ct \in
                     { ct \in values[qs[i]] \X from[i + 1] :
                         ValidTuple(qs[i], ct[1], SubSeq(qs, i + 1, Len(qs)), ct[2]) } }
    IN  from[1]

-----------------------------------------------------------------------------
Answerable == {qs \in Selections : \A i \in DOMAIN qs : qs[i] \in initialized}

(* The tuples the solutions of the requests form over a selection.         *)
SolutionTuples(qs) == {[i \in DOMAIN qs |-> s[qs[i]]] : s \in solutions}

(* make_tuples never loses an answer, cyclic links included: the searches  *)
(* that stop at visited variables still find the link that a solution      *)
(* provides.                                                               *)
TuplesComplete ==
    Idle => \A qs \in Answerable : SolutionTuples(qs) \subseteq MakeTuples(qs)

(* "If the variables are linked the result tuples will follow the defined  *)
(* links, otherwise it will return all possible permutations"              *)
(* (simple/linker.h): while the linked pairs form a forest, the tuples of a *)
(* selection are those of the solutions.                                   *)
TuplesFollowLinks ==
    Idle /\ valid /\ LinksFormForest /\ NoneEmpty =>
        \A qs \in Answerable : MakeTuples(qs) = SolutionTuples(qs)
=============================================================================
