------------------------- MODULE QueryProcessor_proofs -------------------------
(***************************************************************************)
(* Proofs about the two classes SimpleQueryLinker and about QueryProcessor *)
(* on top of them, for every set of variables, conditions, declarations,   *)
(* requests and selections, every program, query and either class.         *)
(*                                                                         *)
(* The first half shows that the class of impl/linker-cluster.cpp          *)
(* implements QueryStore exactly, and that a build behaves as the class it *)
(* has.  The argument is about columns.  A tuple only ever grows in front, *)
(* and a column is found by counting from the number of columns there are, *)
(* so what a linked variable reads stays what it was; each request then    *)
(* does to the tuples, seen through the columns of the linked variables,   *)
(* what the store does to the solutions.                                   *)
(*                                                                         *)
(* The second half shows that the requests solve_clause makes mean the     *)
(* clauses, that no right answer is missing from a reply, and that a reply *)
(* of the cluster build is exactly what the query means.  A call of the    *)
(* linker does to the solutions what its name says, in both classes (the   *)
(* lemmas ...Call); and a variable's candidates hold the condition every   *)
(* solution gives it, so that cutting the sets of a clause down to the     *)
(* candidates, as solve_clause does before it asks, takes no solution      *)
(* away.  With the graph a reply is exact when the clauses form a forest:  *)
(* the links are then one, because a link only comes from a clause.        *)
(***************************************************************************)
EXTENDS QueryProcessor, Linker_proofs

-----------------------------------------------------------------------------
(* Columns.                                                                *)
ConditionTuples(n) == [1 .. n -> Conds]

(* What is in front of a tuple moves no column.                            *)
LEMMA FrontKeepsColumns ==
    ASSUME NEW n \in Nat, NEW m \in Nat,
           NEW f \in ConditionTuples(n), NEW t \in ConditionTuples(m)
    PROVE  /\ f \o t \in ConditionTuples(m + n)
           /\ \A i \in 1 .. n : (f \o t)[i] = f[i]
           /\ \A i \in 1 .. m : (f \o t)[n + i] = t[i]
           /\ \A i \in Nat : i < m => (f \o t)[(m + n) - i] = t[m - i]
<1>1. /\ f \in Seq(Conds) /\ Len(f) = n
      /\ t \in Seq(Conds) /\ Len(t) = m
  BY DEF ConditionTuples
<1>2. /\ f \o t \in Seq(Conds)
      /\ Len(f \o t) = n + m
      /\ \A i \in 1 .. n + m : (f \o t)[i] = IF i <= n THEN f[i] ELSE t[i - n]
  BY <1>1, ConcatProperties
<1>3. f \o t \in [1 .. n + m -> Conds]
  BY <1>2, LenProperties
<1>4. n + m = m + n
  OBVIOUS
<1>5. f \o t \in ConditionTuples(m + n)
  BY <1>3, <1>4 DEF ConditionTuples
<1>6. \A i \in 1 .. n : (f \o t)[i] = f[i]
  BY <1>2
<1>7. \A i \in 1 .. m : (f \o t)[n + i] = t[i]
  <2>1. ASSUME NEW i \in 1 .. m PROVE (f \o t)[n + i] = t[i]
    <3>1. n + i \in 1 .. n + m /\ ~(n + i <= n) /\ (n + i) - n = i
      OBVIOUS
    <3>2. QED  BY <1>2, <3>1
  <2>2. QED  BY <2>1
<1>8. \A i \in Nat : i < m => (f \o t)[(m + n) - i] = t[m - i]
  <2>1. ASSUME NEW i \in Nat, i < m PROVE (f \o t)[(m + n) - i] = t[m - i]
    <3>1. m - i \in 1 .. m /\ (m + n) - i = n + (m - i)
      BY <2>1
    <3>2. QED  BY <1>7, <3>1
  <2>2. QED  BY <2>1
<1>9. QED  BY <1>5, <1>6, <1>7, <1>8

LEMMA OneColumn ==
    ASSUME NEW c \in Conds
    PROVE  <<c>> \in ConditionTuples(1) /\ <<c>>[1] = c
BY DEF ConditionTuples

LEMMA TwoColumns ==
    ASSUME NEW c \in Conds, NEW d \in Conds
    PROVE  <<c, d>> \in ConditionTuples(2) /\ <<c, d>>[1] = c /\ <<c, d>>[2] = d
BY DEF ConditionTuples

(* The tables of a cluster are typed, and a linked variable has a column.  *)
ClusterOK ==
    /\ qvar_type \in [Qvars -> {"none", "unlinked", "linked"}]
    /\ single_values \in [Qvars -> SUBSET Conds]
    /\ qvar_index \in [Qvars -> Nat]
    /\ qvar_counter \in Nat
    /\ tuples \in SUBSET ConditionTuples(qvar_counter)
    /\ valid_state \in BOOLEAN
    /\ \A q \in Cluster!Linked : qvar_index[q] < qvar_counter

LEMMA ColumnTyped ==
    ASSUME ClusterOK, NEW t \in tuples, NEW q \in Cluster!Linked
    PROVE  Cluster!Column(t, q) \in Conds
<1>1. /\ t \in [1 .. qvar_counter -> Conds] /\ qvar_counter \in Nat
      /\ qvar_index[q] \in Nat /\ qvar_index[q] < qvar_counter
  BY DEF ClusterOK, ConditionTuples, Cluster!Linked
<1>2. qvar_counter - qvar_index[q] \in 1 .. qvar_counter
  BY <1>1
<1>3. QED  BY <1>1, <1>2 DEF Cluster!Column, Cluster!get_condition

(* Membership in the solutions that a state stands for.                    *)
Matches(s, t) == \A q \in Cluster!Linked : s[q] = Cluster!Column(t, q)
Allowed(s) == \A q \in Cluster!Unlinked : s[q] \in single_values[q]

LEMMA SolutionsAre ==
    \A s : s \in Cluster!Solutions <=>
              /\ valid_state
              /\ s \in [Qvars -> Conds]
              /\ Allowed(s)
              /\ \E t \in tuples : Matches(s, t)
BY DEF Cluster!Solutions, Matches, Allowed

LEMMA SolutionsAfter ==
    \A s : s \in Cluster!Solutions' <=>
              /\ valid_state'
              /\ s \in [Qvars -> Conds]
              /\ Allowed(s)'
              /\ \E t \in tuples' : Matches(s, t)'
BY DEF Cluster!Solutions, Matches, Allowed

-----------------------------------------------------------------------------
(* First uses of variables.                                                *)
Fresh(qs) == qs \ {q \in Qvars : Cluster!is_initialized(q)}

LEMMA FirstUse ==
    ASSUME ClusterOK, NEW qs \in SUBSET Qvars
    PROVE  /\ Cluster!TypeFor(qs) \in [Qvars -> {"none", "unlinked", "linked"}]
           /\ Cluster!ValuesFor(qs) \in [Qvars -> SUBSET Conds]
           /\ \A r \in Qvars :
                 /\ Cluster!TypeFor(qs)[r] = IF r \in Fresh(qs) THEN "unlinked" ELSE qvar_type[r]
                 /\ Cluster!ValuesFor(qs)[r] =
                       IF r \in Fresh(qs) THEN GlobalSet ELSE single_values[r]
                 /\ r \in Fresh(qs) <=> r \in qs /\ qvar_type[r] = "none"
<1>1. GlobalSet \subseteq Conds
  BY LinkerAssumption DEF LinkerAssumption
<1>2. QED
  BY <1>1 DEF ClusterOK, Cluster!TypeFor, Cluster!ValuesFor, Fresh, Cluster!is_initialized

(* The store asks of a first use what the class gives it.                  *)
LEMMA WithinGlobalIs ==
    \A s, qs : Cluster!Store!WithinGlobal(s, qs) <=> \A r \in Fresh(qs) : s[r] \in GlobalSet
BY DEF Cluster!Store!WithinGlobal, Fresh

(* A step with no new columns, by what it does to the types of variables   *)
(* not linked, to their sets and to the tuples.                            *)
LEMMA SameColumns ==
    ASSUME UNCHANGED <<qvar_index, qvar_counter>>, Cluster!Linked' = Cluster!Linked
    PROVE  \A s, t : Matches(s, t)' <=> Matches(s, t)
BY DEF Matches, Cluster!Column, Cluster!get_condition

-----------------------------------------------------------------------------
(* update_results.                                                         *)
LEMMA ResultsTables ==
    ASSUME ClusterOK, NEW q \in Qvars, NEW new, Cluster!UpdateResults(q, new)
    PROVE  /\ Cluster!Linked' = Cluster!Linked
           /\ Cluster!Unlinked' = Cluster!Unlinked \cup Fresh({q})
           /\ q \in Cluster!Linked => Fresh({q}) = {} /\ single_values' = single_values
           /\ q \notin Cluster!Linked =>
                 /\ q \in Cluster!Unlinked'
                 /\ tuples' = tuples
                 /\ single_values' \in [Qvars -> SUBSET Conds]
                 /\ \A r \in Qvars : r # q => single_values'[r] = single_values[r]
                 /\ single_values'[q] =
                       (IF q \in Fresh({q}) THEN GlobalSet ELSE single_values[q]) \cap new
<1>1. /\ Cluster!TypeFor({q}) \in [Qvars -> {"none", "unlinked", "linked"}]
      /\ Cluster!ValuesFor({q}) \in [Qvars -> SUBSET Conds]
      /\ \A r \in Qvars :
            /\ Cluster!TypeFor({q})[r] = IF r \in Fresh({q}) THEN "unlinked" ELSE qvar_type[r]
            /\ Cluster!ValuesFor({q})[r] =
                  IF r \in Fresh({q}) THEN GlobalSet ELSE single_values[r]
            /\ r \in Fresh({q}) <=> r \in {q} /\ qvar_type[r] = "none"
  BY FirstUse
<1>2. Fresh({q}) \subseteq {q}
  BY DEF Fresh
<1>3. qvar_type' = Cluster!TypeFor({q})
  BY DEF Cluster!UpdateResults
<1>4. Cluster!Linked' = Cluster!Linked /\ Cluster!Unlinked' = Cluster!Unlinked \cup Fresh({q})
  BY <1>1, <1>2, <1>3 DEF Cluster!Linked, Cluster!Unlinked
<1>5. ASSUME q \in Cluster!Linked PROVE Fresh({q}) = {} /\ single_values' = single_values
  BY <1>1, <1>2, <1>5 DEF Cluster!Linked, Cluster!UpdateResults
<1>6. ASSUME q \notin Cluster!Linked
      PROVE  /\ q \in Cluster!Unlinked'
             /\ tuples' = tuples
             /\ single_values' \in [Qvars -> SUBSET Conds]
             /\ \A r \in Qvars : r # q => single_values'[r] = single_values[r]
             /\ single_values'[q] =
                   (IF q \in Fresh({q}) THEN GlobalSet ELSE single_values[q]) \cap new
  <2>1. /\ tuples' = tuples
        /\ single_values' = [Cluster!ValuesFor({q}) EXCEPT ![q] = @ \cap new]
    BY <1>6 DEF Cluster!UpdateResults
  <2>2. q \in Cluster!Unlinked'
    BY <1>1, <1>3, <1>6 DEF Cluster!Linked, Cluster!Unlinked, ClusterOK
  <2>3. QED  BY <1>1, <1>2, <2>1, <2>2
<1>7. QED  BY <1>4, <1>5, <1>6

LEMMA ResultsTyped ==
    ASSUME ClusterOK, NEW q \in Qvars, NEW new, Cluster!UpdateResults(q, new)
    PROVE  ClusterOK'
<1>1. /\ qvar_type' = Cluster!TypeFor({q})
      /\ UNCHANGED <<qvar_index, qvar_counter, valid_state>>
  BY DEF Cluster!UpdateResults
<1>2. qvar_type' \in [Qvars -> {"none", "unlinked", "linked"}]
  BY <1>1, FirstUse
<1>3. single_values' \in [Qvars -> SUBSET Conds] /\ tuples' \subseteq tuples
  <2>1. CASE q \in Cluster!Linked
    BY <2>1 DEF Cluster!UpdateResults, Cluster!update_qvar, ClusterOK
  <2>2. CASE q \notin Cluster!Linked
    BY <2>2, ResultsTables
  <2>3. QED  BY <2>1, <2>2
<1>4. Cluster!Linked' = Cluster!Linked
  BY ResultsTables
<1>5. QED  BY <1>1, <1>2, <1>3, <1>4 DEF ClusterOK

LEMMA ResultsSolutions ==
    ASSUME ClusterOK, NEW q \in Qvars, NEW new, Cluster!UpdateResults(q, new)
    PROVE  Cluster!Solutions' = {s \in Cluster!Solutions :
                                    s[q] \in new /\ Cluster!Store!WithinGlobal(s, {q})}
<1>1. \A s, t : Matches(s, t)' <=> Matches(s, t)
  BY ResultsTables, SameColumns DEF Cluster!UpdateResults
<1>2. \A s : Cluster!Store!WithinGlobal(s, {q}) <=> \A r \in Fresh({q}) : s[r] \in GlobalSet
  BY WithinGlobalIs
<1>3. valid_state' = valid_state
  BY DEF Cluster!UpdateResults
<1>4. CASE q \in Cluster!Linked
  <2>1. tuples' = {t \in tuples : Cluster!Column(t, q) \in new}
    BY <1>4 DEF Cluster!UpdateResults, Cluster!update_qvar
  <2>2. /\ Fresh({q}) = {} /\ Cluster!Unlinked' = Cluster!Unlinked
        /\ single_values' = single_values
    BY <1>4, ResultsTables
  <2>3. \A s : Allowed(s)' <=> Allowed(s)
    BY <2>2 DEF Allowed
  <2>4. \A s, t : Matches(s, t) => s[q] = Cluster!Column(t, q)
    BY <1>4 DEF Matches
  <2>5. \A s : (\E t \in tuples' : Matches(s, t)') <=> s[q] \in new /\ \E t \in tuples : Matches(s, t)
    BY <1>1, <2>1, <2>4
  <2>6. QED  BY <1>2, <1>3, <2>2, <2>3, <2>5, SolutionsAre, SolutionsAfter
<1>5. CASE q \notin Cluster!Linked
  <2>1. /\ Cluster!Unlinked' = Cluster!Unlinked \cup Fresh({q})
        /\ q \in Cluster!Unlinked'
        /\ tuples' = tuples
        /\ \A r \in Qvars : r # q => single_values'[r] = single_values[r]
        /\ single_values'[q] = (IF q \in Fresh({q}) THEN GlobalSet ELSE single_values[q]) \cap new
    BY <1>5, ResultsTables
  <2>2. Fresh({q}) \subseteq {q} /\ Cluster!Unlinked \cap Fresh({q}) = {} /\ Cluster!Unlinked \subseteq Qvars
    BY FirstUse DEF Fresh, Cluster!Unlinked, Cluster!is_initialized
  <2>3. \A s : Allowed(s)' <=> Allowed(s) /\ s[q] \in new /\ \A r \in Fresh({q}) : s[r] \in GlobalSet
    BY <2>1, <2>2 DEF Allowed
  <2>4. QED  BY <1>1, <1>2, <1>3, <2>1, <2>3, SolutionsAre, SolutionsAfter
<1>6. QED  BY <1>4, <1>5
-----------------------------------------------------------------------------
(* The first use of a variable that get_conditions makes.                  *)
LEMMA GetTyped ==
    ASSUME ClusterOK, NEW q \in Qvars, Cluster!GetConditions(q)
    PROVE  /\ ClusterOK'
           /\ Cluster!Linked' = Cluster!Linked
           /\ Cluster!Unlinked' = Cluster!Unlinked \cup Fresh({q})
<1>1. /\ qvar_type' = Cluster!TypeFor({q})
      /\ single_values' = Cluster!ValuesFor({q})
      /\ UNCHANGED <<qvar_index, qvar_counter, tuples, valid_state>>
  BY DEF Cluster!GetConditions
<1>2. /\ qvar_type' \in [Qvars -> {"none", "unlinked", "linked"}]
      /\ single_values' \in [Qvars -> SUBSET Conds]
  BY <1>1, FirstUse
<1>3. \A r \in Qvars : /\ qvar_type'[r] = IF r \in Fresh({q}) THEN "unlinked" ELSE qvar_type[r]
                       /\ r \in Fresh({q}) => qvar_type[r] = "none"
  BY <1>1, FirstUse
<1>4. Fresh({q}) \subseteq Qvars
  BY DEF Fresh
<1>5. Cluster!Linked' = Cluster!Linked /\ Cluster!Unlinked' = Cluster!Unlinked \cup Fresh({q})
  BY <1>3, <1>4 DEF Cluster!Linked, Cluster!Unlinked
<1>6. QED  BY <1>1, <1>2, <1>5 DEF ClusterOK

LEMMA GetSolutions ==
    ASSUME ClusterOK, NEW q \in Qvars, Cluster!GetConditions(q)
    PROVE  Cluster!Solutions' = {s \in Cluster!Solutions : Cluster!Store!WithinGlobal(s, {q})}
<1>1. \A s, t : Matches(s, t)' <=> Matches(s, t)
  BY GetTyped, SameColumns DEF Cluster!GetConditions
<1>2. valid_state' = valid_state /\ tuples' = tuples
  BY DEF Cluster!GetConditions
<1>3. \A r \in Qvars : single_values'[r] = IF r \in Fresh({q}) THEN GlobalSet ELSE single_values[r]
  BY FirstUse DEF Cluster!GetConditions
<1>4. Cluster!Unlinked' = Cluster!Unlinked \cup Fresh({q})
  BY GetTyped
<1>5. Cluster!Unlinked \cap Fresh({q}) = {} /\ Cluster!Unlinked \subseteq Qvars /\ Fresh({q}) \subseteq Qvars
  BY DEF Fresh, Cluster!Unlinked, Cluster!is_initialized
<1>6. \A s : Allowed(s)' <=> Allowed(s) /\ \A r \in Fresh({q}) : s[r] \in GlobalSet
  BY <1>3, <1>4, <1>5 DEF Allowed
<1>7. QED  BY <1>1, <1>2, <1>6, SolutionsAre, SolutionsAfter, WithinGlobalIs

-----------------------------------------------------------------------------
(* Tuples that grow in front.                                              *)
LEMMA OldColumn ==
    ASSUME ClusterOK, NEW n \in Nat, NEW f \in ConditionTuples(n), NEW t \in tuples,
           NEW r \in Cluster!Linked,
           qvar_counter' = qvar_counter + n, qvar_index'[r] = qvar_index[r]
    PROVE  Cluster!Column(f \o t, r)' = Cluster!Column(t, r)
<1>1. /\ qvar_counter \in Nat /\ t \in ConditionTuples(qvar_counter)
      /\ qvar_index[r] \in Nat /\ qvar_index[r] < qvar_counter
  BY DEF ClusterOK, Cluster!Linked
<1>2. (f \o t)[(qvar_counter + n) - qvar_index[r]] = t[qvar_counter - qvar_index[r]]
  BY <1>1, FrontKeepsColumns
<1>3. QED  BY <1>2 DEF Cluster!Column, Cluster!get_condition

LEMMA NewColumn ==
    ASSUME ClusterOK, NEW n \in Nat, NEW f \in ConditionTuples(n), NEW t \in tuples,
           NEW r \in Qvars, NEW k \in Nat, k < n,
           qvar_counter' = qvar_counter + n, qvar_index'[r] = qvar_counter + k
    PROVE  Cluster!Column(f \o t, r)' = f[n - k]
<1>1. qvar_counter \in Nat /\ t \in ConditionTuples(qvar_counter)
  BY DEF ClusterOK
<1>2. n - k \in 1 .. n /\ (qvar_counter + n) - (qvar_counter + k) = n - k
  BY <1>1
<1>3. (f \o t)[n - k] = f[n - k]
  BY <1>1, <1>2, FrontKeepsColumns
<1>4. QED  BY <1>2, <1>3 DEF Cluster!Column, Cluster!get_condition
-----------------------------------------------------------------------------
(* update_links, neither linked.                                           *)
LEMMA NewPairTables ==
    ASSUME ClusterOK, NEW q \in Qvars, NEW p \in Qvars, q # p,
           NEW rel \in SUBSET (Conds \X Conds), Cluster!LinkNewPair(q, p, rel)
    PROVE  /\ Cluster!Linked' = Cluster!Linked \cup {q, p}
           /\ Cluster!Unlinked' = Cluster!Unlinked \ {q, p}
           /\ q \notin Cluster!Linked /\ p \notin Cluster!Linked
           /\ qvar_type' \in [Qvars -> {"none", "unlinked", "linked"}]
           /\ single_values' \in [Qvars -> SUBSET Conds]
           /\ \A r \in Qvars : single_values'[r] =
                 IF r \in Fresh({q, p}) THEN GlobalSet ELSE single_values[r]
           /\ qvar_index' \in [Qvars -> Nat]
           /\ qvar_index'[q] = qvar_counter + 0 /\ qvar_index'[p] = qvar_counter + 1
           /\ \A r \in Cluster!Linked : qvar_index'[r] = qvar_index[r]
           /\ qvar_counter' = qvar_counter + 2
<1>1. /\ Cluster!TypeFor({q, p}) \in [Qvars -> {"none", "unlinked", "linked"}]
      /\ Cluster!ValuesFor({q, p}) \in [Qvars -> SUBSET Conds]
      /\ \A r \in Qvars :
            /\ Cluster!TypeFor({q, p})[r] = IF r \in Fresh({q, p}) THEN "unlinked" ELSE qvar_type[r]
            /\ Cluster!ValuesFor({q, p})[r] =
                  IF r \in Fresh({q, p}) THEN GlobalSet ELSE single_values[r]
  BY FirstUse
<1>2. Fresh({q, p}) \subseteq {q, p}
  BY DEF Fresh
<1>3. qvar_type' = [Cluster!TypeFor({q, p}) EXCEPT ![q] = "linked", ![p] = "linked"]
  BY DEF Cluster!LinkNewPair
<1>4. /\ qvar_type' \in [Qvars -> {"none", "unlinked", "linked"}]
      /\ \A r \in Qvars : qvar_type'[r] = IF r \in {q, p} THEN "linked" ELSE qvar_type[r]
  BY <1>1, <1>2, <1>3
<1>5. Cluster!Linked' = Cluster!Linked \cup {q, p} /\ Cluster!Unlinked' = Cluster!Unlinked \ {q, p}
  BY <1>4 DEF Cluster!Linked, Cluster!Unlinked
<1>6. q \notin Cluster!Linked /\ p \notin Cluster!Linked
  BY DEF Cluster!LinkNewPair
<1>7. single_values' = Cluster!ValuesFor({q, p})
  BY DEF Cluster!LinkNewPair
<1>8. /\ qvar_index' = [qvar_index EXCEPT ![q] = qvar_counter, ![p] = qvar_counter + 1]
      /\ qvar_counter' = qvar_counter + 2
  BY DEF Cluster!LinkNewPair
<1>9. /\ qvar_index' \in [Qvars -> Nat]
      /\ qvar_index'[q] = qvar_counter + 0 /\ qvar_index'[p] = qvar_counter + 1
      /\ \A r \in Cluster!Linked : qvar_index'[r] = qvar_index[r]
  BY <1>6, <1>8 DEF ClusterOK, Cluster!Linked
<1>10. QED  BY <1>1, <1>4, <1>5, <1>6, <1>7, <1>8, <1>9

(* The pairs that both sets have, in front of each tuple.                  *)
WithPair(l, t) == <<l[2], l[1]>> \o t

LEMMA NewPairTuples ==
    ASSUME ClusterOK, NEW q \in Qvars, NEW p \in Qvars,
           NEW rel \in SUBSET (Conds \X Conds), Cluster!LinkNewPair(q, p, rel)
    PROVE  \A u : u \in tuples' <=>
              \E l \in rel, t \in tuples :
                 /\ l[1] \in single_values'[q] /\ l[2] \in single_values'[p]
                 /\ u = WithPair(l, t)
<1>1. /\ single_values' = Cluster!ValuesFor({q, p})
      /\ tuples' = Cluster!add_new_pair({l \in rel : /\ l[1] \in Cluster!ValuesFor({q, p})[q]
                                                     /\ l[2] \in Cluster!ValuesFor({q, p})[p]})
  BY DEF Cluster!LinkNewPair
<1>2. tuples' = UNION {{WithPair(l, t) : l \in
                            {k \in rel : k[1] \in single_values'[q] /\ k[2] \in single_values'[p]}}
                           : t \in tuples}
  BY <1>1 DEF Cluster!add_new_pair, WithPair
<1>3. QED  BY <1>2

LEMMA NewPairTyped ==
    ASSUME ClusterOK, NEW q \in Qvars, NEW p \in Qvars, q # p,
           NEW rel \in SUBSET (Conds \X Conds), Cluster!LinkNewPair(q, p, rel), UNCHANGED valid_state
    PROVE  ClusterOK'
<1>1. /\ Cluster!Linked' = Cluster!Linked \cup {q, p}
      /\ qvar_type' \in [Qvars -> {"none", "unlinked", "linked"}]
      /\ single_values' \in [Qvars -> SUBSET Conds]
      /\ qvar_index' \in [Qvars -> Nat]
      /\ qvar_index'[q] = qvar_counter + 0 /\ qvar_index'[p] = qvar_counter + 1
      /\ \A r \in Cluster!Linked : qvar_index'[r] = qvar_index[r]
      /\ qvar_counter' = qvar_counter + 2
  BY NewPairTables
<1>2. qvar_counter \in Nat /\ qvar_counter' \in Nat
  BY <1>1 DEF ClusterOK
<1>3. ASSUME NEW u \in tuples' PROVE u \in ConditionTuples(qvar_counter')
  <2>1. PICK l \in rel, t \in tuples : u = WithPair(l, t)
    BY <1>3, NewPairTuples
  <2>2. <<l[2], l[1]>> \in ConditionTuples(2) /\ t \in ConditionTuples(qvar_counter)
    <3>1. l[1] \in Conds /\ l[2] \in Conds
      OBVIOUS
    <3>2. QED  BY <3>1, TwoColumns DEF ClusterOK
  <2>3. QED  BY <1>1, <1>2, <2>1, <2>2, FrontKeepsColumns DEF WithPair
<1>4. \A r \in Cluster!Linked' : qvar_index'[r] < qvar_counter'
  <2>1. ASSUME NEW r \in Cluster!Linked PROVE qvar_index'[r] < qvar_counter'
    <3>1. qvar_index[r] \in Nat /\ qvar_index[r] < qvar_counter
      BY DEF ClusterOK, Cluster!Linked
    <3>2. QED  BY <1>1, <1>2, <3>1
  <2>2. qvar_index'[q] < qvar_counter' /\ qvar_index'[p] < qvar_counter'
    BY <1>1, <1>2
  <2>3. QED  BY <1>1, <2>1, <2>2
<1>5. valid_state' \in BOOLEAN
  BY DEF ClusterOK
<1>6. QED  BY <1>1, <1>2, <1>3, <1>4, <1>5 DEF ClusterOK

LEMMA NewPairSolutions ==
    ASSUME ClusterOK, NEW q \in Qvars, NEW p \in Qvars, q # p,
           NEW rel \in SUBSET (Conds \X Conds), Cluster!LinkNewPair(q, p, rel), UNCHANGED valid_state
    PROVE  Cluster!Solutions' = {s \in Cluster!Solutions :
                                    /\ <<s[q], s[p]>> \in rel
                                    /\ Cluster!Store!WithinGlobal(s, {q, p})}
<1>1. /\ Cluster!Linked' = Cluster!Linked \cup {q, p}
      /\ Cluster!Unlinked' = Cluster!Unlinked \ {q, p}
      /\ q \notin Cluster!Linked /\ p \notin Cluster!Linked
      /\ \A r \in Qvars : single_values'[r] =
            IF r \in Fresh({q, p}) THEN GlobalSet ELSE single_values[r]
  BY NewPairTables
<1>2. ASSUME NEW s, NEW l \in rel, NEW t \in tuples
      PROVE  Matches(s, WithPair(l, t))' <=> Matches(s, t) /\ s[q] = l[1] /\ s[p] = l[2]
  <2>1. l[1] \in Conds /\ l[2] \in Conds
    OBVIOUS
  <2>2. /\ <<l[2], l[1]>> \in ConditionTuples(2)
        /\ <<l[2], l[1]>>[1] = l[2] /\ <<l[2], l[1]>>[2] = l[1]
    BY <2>1, TwoColumns
  <2>3. /\ qvar_index'[q] = qvar_counter + 0 /\ qvar_index'[p] = qvar_counter + 1
        /\ \A r \in Cluster!Linked : qvar_index'[r] = qvar_index[r]
        /\ qvar_counter' = qvar_counter + 2
    BY NewPairTables
  <2>4. \A r \in Cluster!Linked : Cluster!Column(<<l[2], l[1]>> \o t, r)' = Cluster!Column(t, r)
    <3>1. ASSUME NEW r \in Cluster!Linked
          PROVE  Cluster!Column(<<l[2], l[1]>> \o t, r)' = Cluster!Column(t, r)
      <4>1. qvar_index'[r] = qvar_index[r]
        BY <2>3
      <4>2. QED  BY <2>2, <2>3, <4>1, OldColumn
    <3>2. QED  BY <3>1
  <2>5. Cluster!Column(<<l[2], l[1]>> \o t, q)' = <<l[2], l[1]>>[2 - 0]
    BY <2>2, <2>3, NewColumn
  <2>6. Cluster!Column(<<l[2], l[1]>> \o t, p)' = <<l[2], l[1]>>[2 - 1]
    BY <2>2, <2>3, NewColumn
  <2>7. /\ Cluster!Column(<<l[2], l[1]>> \o t, q)' = l[1]
        /\ Cluster!Column(<<l[2], l[1]>> \o t, p)' = l[2]
    BY <2>2, <2>5, <2>6
  <2>8. QED  BY <1>1, <2>4, <2>7 DEF Matches, WithPair
<1>3. \A s : (\E u \in tuples' : Matches(s, u)') <=>
               /\ <<s[q], s[p]>> \in rel
               /\ s[q] \in single_values'[q] /\ s[p] \in single_values'[p]
               /\ \E t \in tuples : Matches(s, t)
  <2>1. ASSUME NEW s, NEW u \in tuples', Matches(s, u)'
        PROVE  /\ <<s[q], s[p]>> \in rel
               /\ s[q] \in single_values'[q] /\ s[p] \in single_values'[p]
               /\ \E t \in tuples : Matches(s, t)
    <3>1. PICK l \in rel, t \in tuples :
             /\ l[1] \in single_values'[q] /\ l[2] \in single_values'[p]
             /\ u = WithPair(l, t)
      BY NewPairTuples
    <3>2. Matches(s, WithPair(l, t))'
      BY <2>1, <3>1
    <3>3. Matches(s, t) /\ s[q] = l[1] /\ s[p] = l[2]
      BY <1>2, <3>2
    <3>4. l = <<l[1], l[2]>>
      OBVIOUS
    <3>5. QED  BY <3>1, <3>3, <3>4
  <2>2. ASSUME NEW s, <<s[q], s[p]>> \in rel,
               s[q] \in single_values'[q], s[p] \in single_values'[p],
               NEW t \in tuples, Matches(s, t)
        PROVE  \E u \in tuples' : Matches(s, u)'
    <3> DEFINE l == <<s[q], s[p]>>
    <3>1. l \in rel /\ l[1] = s[q] /\ l[2] = s[p]
      BY <2>2
    <3> HIDE DEF l
    <3>2. WithPair(l, t) \in tuples' /\ Matches(s, WithPair(l, t))'
      BY <1>2, <2>2, <3>1, NewPairTuples
    <3>3. QED  BY <3>2
  <2>3. QED  BY <2>1, <2>2
<1>4. /\ Fresh({q, p}) \subseteq {q, p}
      /\ \A r \in {q, p} : r \in Fresh({q, p}) <=> r \notin Cluster!Unlinked
  <2>1. \A r \in Qvars : r \in Fresh({q, p}) <=> r \in {q, p} /\ qvar_type[r] = "none"
    BY FirstUse
  <2>2. qvar_type[q] # "linked" /\ qvar_type[p] # "linked"
    BY <1>1 DEF Cluster!Linked
  <2>3. QED  BY <2>1, <2>2 DEF ClusterOK, Fresh, Cluster!Unlinked
<1>5. \A s : Allowed(s)' /\ s[q] \in single_values'[q] /\ s[p] \in single_values'[p]
               <=> Allowed(s) /\ \A r \in Fresh({q, p}) : s[r] \in GlobalSet
  <2>1. Cluster!Unlinked \subseteq Qvars
    BY DEF Cluster!Unlinked
  <2>2. QED  BY <1>1, <1>4, <2>1 DEF Allowed
<1>6. \A s : Cluster!Store!WithinGlobal(s, {q, p}) <=> \A r \in Fresh({q, p}) : s[r] \in GlobalSet
  BY WithinGlobalIs
<1>7. QED  BY <1>3, <1>5, <1>6, SolutionsAre, SolutionsAfter
-----------------------------------------------------------------------------
(* update_links, one linked: p gets a column.                              *)
LEMMA ToColumnTables ==
    ASSUME ClusterOK, NEW q \in Qvars, NEW p \in Qvars,
           NEW pairs \in SUBSET (Conds \X Conds), Cluster!LinkToColumn(q, p, pairs)
    PROVE  /\ Cluster!Linked' = Cluster!Linked \cup {p}
           /\ Cluster!Unlinked' = Cluster!Unlinked \ {p}
           /\ q \in Cluster!Linked /\ p \notin Cluster!Linked
           /\ qvar_type' \in [Qvars -> {"none", "unlinked", "linked"}]
           /\ single_values' \in [Qvars -> SUBSET Conds]
           /\ \A r \in Qvars : single_values'[r] =
                 IF r \in Fresh({p}) THEN GlobalSet ELSE single_values[r]
           /\ qvar_index' \in [Qvars -> Nat]
           /\ qvar_index'[p] = qvar_counter + 0
           /\ \A r \in Cluster!Linked : qvar_index'[r] = qvar_index[r]
           /\ qvar_counter' = qvar_counter + 1
<1>1. /\ Cluster!TypeFor({p}) \in [Qvars -> {"none", "unlinked", "linked"}]
      /\ Cluster!ValuesFor({p}) \in [Qvars -> SUBSET Conds]
      /\ \A r \in Qvars :
            /\ Cluster!TypeFor({p})[r] = IF r \in Fresh({p}) THEN "unlinked" ELSE qvar_type[r]
            /\ Cluster!ValuesFor({p})[r] = IF r \in Fresh({p}) THEN GlobalSet ELSE single_values[r]
  BY FirstUse
<1>2. Fresh({p}) \subseteq {p}
  BY DEF Fresh
<1>3. qvar_type' = [Cluster!TypeFor({p}) EXCEPT ![p] = "linked"]
  BY DEF Cluster!LinkToColumn
<1>4. /\ qvar_type' \in [Qvars -> {"none", "unlinked", "linked"}]
      /\ \A r \in Qvars : qvar_type'[r] = IF r = p THEN "linked" ELSE qvar_type[r]
  BY <1>1, <1>2, <1>3
<1>5. Cluster!Linked' = Cluster!Linked \cup {p} /\ Cluster!Unlinked' = Cluster!Unlinked \ {p}
  BY <1>4 DEF Cluster!Linked, Cluster!Unlinked
<1>6. q \in Cluster!Linked /\ p \notin Cluster!Linked
  BY DEF Cluster!LinkToColumn
<1>7. single_values' = Cluster!ValuesFor({p})
  BY DEF Cluster!LinkToColumn
<1>8. /\ qvar_index' = [qvar_index EXCEPT ![p] = qvar_counter]
      /\ qvar_counter' = qvar_counter + 1
  BY DEF Cluster!LinkToColumn
<1>9. /\ qvar_index' \in [Qvars -> Nat]
      /\ qvar_index'[p] = qvar_counter + 0
      /\ \A r \in Cluster!Linked : qvar_index'[r] = qvar_index[r]
  BY <1>6, <1>8 DEF ClusterOK, Cluster!Linked
<1>10. QED  BY <1>1, <1>4, <1>5, <1>6, <1>7, <1>8, <1>9

(* The partners of the condition of q, in front of each tuple.             *)
WithPartner(l, t) == <<l[2]>> \o t

LEMMA ToColumnTuples ==
    ASSUME ClusterOK, NEW q \in Qvars, NEW p \in Qvars,
           NEW pairs \in SUBSET (Conds \X Conds), Cluster!LinkToColumn(q, p, pairs)
    PROVE  \A u : u \in tuples' <=>
              \E l \in pairs, t \in tuples :
                 /\ l[1] = Cluster!Column(t, q) /\ l[2] \in single_values'[p]
                 /\ u = WithPartner(l, t)
<1>1. /\ single_values' = Cluster!ValuesFor({p})
      /\ tuples' = Cluster!add_pair_first_exist(q, {l \in pairs : l[2] \in Cluster!ValuesFor({p})[p]})
  BY DEF Cluster!LinkToColumn
<1>2. tuples' = UNION {{WithPartner(l, t) : l \in
                            {k \in {e \in pairs : e[2] \in single_values'[p]} : k[1] = Cluster!Column(t, q)}}
                           : t \in tuples}
  BY <1>1 DEF Cluster!add_pair_first_exist, WithPartner
<1>3. QED  BY <1>2

LEMMA ToColumnTyped ==
    ASSUME ClusterOK, NEW q \in Qvars, NEW p \in Qvars,
           NEW pairs \in SUBSET (Conds \X Conds), Cluster!LinkToColumn(q, p, pairs),
           UNCHANGED valid_state
    PROVE  ClusterOK'
<1>1. /\ Cluster!Linked' = Cluster!Linked \cup {p}
      /\ qvar_type' \in [Qvars -> {"none", "unlinked", "linked"}]
      /\ single_values' \in [Qvars -> SUBSET Conds]
      /\ qvar_index' \in [Qvars -> Nat]
      /\ qvar_index'[p] = qvar_counter + 0
      /\ \A r \in Cluster!Linked : qvar_index'[r] = qvar_index[r]
      /\ qvar_counter' = qvar_counter + 1
  BY ToColumnTables
<1>2. qvar_counter \in Nat /\ qvar_counter' \in Nat
  BY <1>1 DEF ClusterOK
<1>3. ASSUME NEW u \in tuples' PROVE u \in ConditionTuples(qvar_counter')
  <2>1. PICK l \in pairs, t \in tuples : u = WithPartner(l, t)
    BY <1>3, ToColumnTuples
  <2>2. <<l[2]>> \in ConditionTuples(1) /\ t \in ConditionTuples(qvar_counter)
    <3>1. l[2] \in Conds
      OBVIOUS
    <3>2. QED  BY <3>1, OneColumn DEF ClusterOK
  <2>3. QED  BY <1>1, <1>2, <2>1, <2>2, FrontKeepsColumns DEF WithPartner
<1>4. \A r \in Cluster!Linked' : qvar_index'[r] < qvar_counter'
  <2>1. ASSUME NEW r \in Cluster!Linked PROVE qvar_index'[r] < qvar_counter'
    <3>1. qvar_index[r] \in Nat /\ qvar_index[r] < qvar_counter
      BY DEF ClusterOK, Cluster!Linked
    <3>2. QED  BY <1>1, <1>2, <3>1
  <2>2. qvar_index'[p] < qvar_counter'
    BY <1>1, <1>2
  <2>3. QED  BY <1>1, <2>1, <2>2
<1>5. valid_state' \in BOOLEAN
  BY DEF ClusterOK
<1>6. QED  BY <1>1, <1>2, <1>3, <1>4, <1>5 DEF ClusterOK

LEMMA ToColumnSolutions ==
    ASSUME ClusterOK, NEW q \in Qvars, NEW p \in Qvars,
           NEW pairs \in SUBSET (Conds \X Conds), Cluster!LinkToColumn(q, p, pairs),
           UNCHANGED valid_state
    PROVE  Cluster!Solutions' = {s \in Cluster!Solutions :
                                    /\ <<s[q], s[p]>> \in pairs
                                    /\ Cluster!Store!WithinGlobal(s, {q, p})}
<1>1. /\ Cluster!Linked' = Cluster!Linked \cup {p}
      /\ Cluster!Unlinked' = Cluster!Unlinked \ {p}
      /\ q \in Cluster!Linked /\ p \notin Cluster!Linked
      /\ \A r \in Qvars : single_values'[r] = IF r \in Fresh({p}) THEN GlobalSet ELSE single_values[r]
  BY ToColumnTables
<1>2. ASSUME NEW s, NEW l \in pairs, NEW t \in tuples
      PROVE  Matches(s, WithPartner(l, t))' <=> Matches(s, t) /\ s[p] = l[2]
  <2>1. l[2] \in Conds
    OBVIOUS
  <2>2. <<l[2]>> \in ConditionTuples(1) /\ <<l[2]>>[1] = l[2]
    BY <2>1, OneColumn
  <2>3. /\ qvar_index'[p] = qvar_counter + 0
        /\ \A r \in Cluster!Linked : qvar_index'[r] = qvar_index[r]
        /\ qvar_counter' = qvar_counter + 1
    BY ToColumnTables
  <2>4. \A r \in Cluster!Linked : Cluster!Column(<<l[2]>> \o t, r)' = Cluster!Column(t, r)
    <3>1. ASSUME NEW r \in Cluster!Linked
          PROVE  Cluster!Column(<<l[2]>> \o t, r)' = Cluster!Column(t, r)
      <4>1. qvar_index'[r] = qvar_index[r]
        BY <2>3
      <4>2. QED  BY <2>2, <2>3, <4>1, OldColumn
    <3>2. QED  BY <3>1
  <2>5. Cluster!Column(<<l[2]>> \o t, p)' = <<l[2]>>[1 - 0]
    BY <2>2, <2>3, NewColumn
  <2>6. Cluster!Column(<<l[2]>> \o t, p)' = l[2]
    BY <2>2, <2>5
  <2>7. QED  BY <1>1, <2>4, <2>6 DEF Matches, WithPartner
<1>3. \A s : (\E u \in tuples' : Matches(s, u)') <=>
               /\ <<s[q], s[p]>> \in pairs
               /\ s[p] \in single_values'[p]
               /\ \E t \in tuples : Matches(s, t)
  <2>1. ASSUME NEW s, NEW u \in tuples', Matches(s, u)'
        PROVE  /\ <<s[q], s[p]>> \in pairs
               /\ s[p] \in single_values'[p]
               /\ \E t \in tuples : Matches(s, t)
    <3>1. PICK l \in pairs, t \in tuples :
             /\ l[1] = Cluster!Column(t, q) /\ l[2] \in single_values'[p]
             /\ u = WithPartner(l, t)
      BY ToColumnTuples
    <3>2. Matches(s, WithPartner(l, t))'
      BY <2>1, <3>1
    <3>3. Matches(s, t) /\ s[p] = l[2]
      BY <1>2, <3>2
    <3>4. s[q] = l[1]
      BY <1>1, <3>1, <3>3 DEF Matches
    <3>5. l = <<l[1], l[2]>>
      OBVIOUS
    <3>6. QED  BY <3>1, <3>3, <3>4, <3>5
  <2>2. ASSUME NEW s, <<s[q], s[p]>> \in pairs, s[p] \in single_values'[p],
               NEW t \in tuples, Matches(s, t)
        PROVE  \E u \in tuples' : Matches(s, u)'
    <3> DEFINE l == <<s[q], s[p]>>
    <3>1. l \in pairs /\ l[1] = s[q] /\ l[2] = s[p]
      BY <2>2
    <3> HIDE DEF l
    <3>2. l[1] = Cluster!Column(t, q)
      BY <1>1, <2>2, <3>1 DEF Matches
    <3>3. WithPartner(l, t) \in tuples' /\ Matches(s, WithPartner(l, t))'
      BY <1>2, <2>2, <3>1, <3>2, ToColumnTuples
    <3>4. QED  BY <3>3
  <2>3. QED  BY <2>1, <2>2
<1>4. /\ Fresh({q, p}) = Fresh({p}) /\ Fresh({p}) \subseteq {p}
      /\ p \in Fresh({p}) <=> p \notin Cluster!Unlinked
  <2>1. /\ \A r \in Qvars : r \in Fresh({p}) <=> r \in {p} /\ qvar_type[r] = "none"
        /\ \A r \in Qvars : r \in Fresh({q, p}) <=> r \in {q, p} /\ qvar_type[r] = "none"
    BY FirstUse
  <2>2. qvar_type[p] # "linked" /\ qvar_type[q] = "linked"
    BY <1>1 DEF Cluster!Linked
  <2>3. QED  BY <2>1, <2>2 DEF ClusterOK, Fresh, Cluster!Unlinked
<1>5. \A s : Allowed(s)' /\ s[p] \in single_values'[p]
               <=> Allowed(s) /\ \A r \in Fresh({q, p}) : s[r] \in GlobalSet
  <2>1. Cluster!Unlinked \subseteq Qvars
    BY DEF Cluster!Unlinked
  <2>2. \A r \in Cluster!Unlinked' : r # p /\ single_values'[r] = single_values[r]
    BY <1>1, <1>4, <2>1
  <2>3. \A s : Allowed(s)' <=> \A r \in Cluster!Unlinked \ {p} : s[r] \in single_values[r]
    BY <1>1, <2>2 DEF Allowed
  <2>4. CASE p \in Cluster!Unlinked
    <3>1. Fresh({q, p}) = {} /\ single_values'[p] = single_values[p]
      BY <1>1, <1>4, <2>4
    <3>2. QED  BY <2>3, <2>4, <3>1 DEF Allowed
  <2>5. CASE p \notin Cluster!Unlinked
    <3>1. Fresh({q, p}) = {p} /\ single_values'[p] = GlobalSet
      BY <1>1, <1>4, <2>5
    <3>2. QED  BY <2>3, <2>5, <3>1 DEF Allowed
  <2>6. QED  BY <2>4, <2>5
<1>6. \A s : Cluster!Store!WithinGlobal(s, {q, p}) <=> \A r \in Fresh({q, p}) : s[r] \in GlobalSet
  BY WithinGlobalIs
<1>7. QED  BY <1>3, <1>5, <1>6, SolutionsAre, SolutionsAfter

(* update_links, both linked.                                              *)
LEMMA ColumnsTyped ==
    ASSUME ClusterOK, NEW q \in Qvars, NEW p \in Qvars, NEW rel,
           Cluster!LinkColumns(q, p, rel), UNCHANGED valid_state
    PROVE  ClusterOK' /\ Cluster!Linked' = Cluster!Linked /\ tuples' \subseteq tuples
<1>1. UNCHANGED <<qvar_type, single_values, qvar_index, qvar_counter, valid_state>>
  BY DEF Cluster!LinkColumns
<1>2. Cluster!Linked' = Cluster!Linked
  BY <1>1 DEF Cluster!Linked
<1>3. tuples' \subseteq tuples
  BY DEF Cluster!LinkColumns, Cluster!update_pair
<1>4. QED  BY <1>1, <1>2, <1>3 DEF ClusterOK

LEMMA ColumnsSolutions ==
    ASSUME ClusterOK, NEW q \in Qvars, NEW p \in Qvars, NEW rel,
           Cluster!LinkColumns(q, p, rel), UNCHANGED valid_state
    PROVE  Cluster!Solutions' = {s \in Cluster!Solutions :
                                    /\ <<s[q], s[p]>> \in rel
                                    /\ Cluster!Store!WithinGlobal(s, {q, p})}
<1>1. /\ q \in Cluster!Linked /\ p \in Cluster!Linked
      /\ UNCHANGED <<qvar_type, single_values, qvar_index, qvar_counter, valid_state>>
      /\ tuples' = {t \in tuples : <<Cluster!Column(t, q), Cluster!Column(t, p)>> \in rel}
  BY DEF Cluster!LinkColumns, Cluster!update_pair
<1>2. \A s, t : Matches(s, t)' <=> Matches(s, t)
  BY <1>1, ColumnsTyped, SameColumns
<1>3. \A s : Allowed(s)' <=> Allowed(s)
  BY <1>1 DEF Allowed, Cluster!Unlinked
<1>4. \A s, t : Matches(s, t) => s[q] = Cluster!Column(t, q) /\ s[p] = Cluster!Column(t, p)
  BY <1>1 DEF Matches
<1>5. \A s : (\E t \in tuples' : Matches(s, t)')
               <=> <<s[q], s[p]>> \in rel /\ \E t \in tuples : Matches(s, t)
  BY <1>1, <1>2, <1>4
<1>6. Fresh({q, p}) = {}
  BY <1>1 DEF Fresh, Cluster!is_initialized, Cluster!Linked
<1>7. \A s : Cluster!Store!WithinGlobal(s, {q, p})
  BY <1>6, WithinGlobalIs
<1>8. valid_state' = valid_state
  BY <1>1
<1>9. \A s : s \in Cluster!Solutions' <=>
                s \in Cluster!Solutions /\ <<s[q], s[p]>> \in rel
  BY <1>3, <1>5, <1>8, SolutionsAre, SolutionsAfter
<1>10. QED  BY <1>7, <1>9
(* update_links.                                                           *)
Used == {q \in Qvars : Cluster!is_initialized(q)}

LEMMA UsedIs == ASSUME ClusterOK PROVE Used = Cluster!Linked \cup Cluster!Unlinked
BY DEF ClusterOK, Used, Cluster!is_initialized, Cluster!Linked, Cluster!Unlinked

LEMMA UsedAfter == ASSUME ClusterOK' PROVE Used' = Cluster!Linked' \cup Cluster!Unlinked'
BY DEF ClusterOK, Used, Cluster!is_initialized, Cluster!Linked, Cluster!Unlinked

LEMMA Reversed ==
    ASSUME NEW rel \in SUBSET (Conds \X Conds)
    PROVE  /\ {<<l[2], l[1]>> : l \in rel} \in SUBSET (Conds \X Conds)
           /\ \A c, d : <<c, d>> \in {<<l[2], l[1]>> : l \in rel} <=> <<d, c>> \in rel
<1>1. \A l \in rel : l = <<l[1], l[2]>> /\ l[1] \in Conds /\ l[2] \in Conds
  OBVIOUS
<1>2. QED  BY <1>1

LEMMA LinksStep ==
    ASSUME ClusterOK, NEW q \in Qvars, NEW p \in Qvars, q # p,
           NEW rel \in SUBSET (Conds \X Conds), Cluster!UpdateLinks(q, p, rel)
    PROVE  /\ ClusterOK'
           /\ Cluster!Solutions' = {s \in Cluster!Solutions :
                                       /\ <<s[q], s[p]>> \in rel
                                       /\ Cluster!Store!WithinGlobal(s, {q, p})}
           /\ Used' = Used \cup {q, p}
           /\ qvar_counter <= qvar_counter'
           /\ tuples = {} => tuples' = {}
           /\ valid_state' = valid_state
<1>1. UNCHANGED valid_state
  BY DEF Cluster!UpdateLinks
<1>2. qvar_counter \in Nat
  BY DEF ClusterOK
<1>3. CASE Cluster!LinkNewPair(q, p, rel)
  <2>1. ClusterOK'
    BY <1>1, <1>3, NewPairTyped
  <2>2. Cluster!Solutions' = {s \in Cluster!Solutions :
                                 /\ <<s[q], s[p]>> \in rel
                                 /\ Cluster!Store!WithinGlobal(s, {q, p})}
    BY <1>1, <1>3, NewPairSolutions
  <2>3. /\ Cluster!Linked' = Cluster!Linked \cup {q, p}
        /\ Cluster!Unlinked' = Cluster!Unlinked \ {q, p}
        /\ qvar_counter' = qvar_counter + 2
    BY <1>3, NewPairTables
  <2>4. Used' = Used \cup {q, p}
    BY <2>1, <2>3, UsedIs, UsedAfter
  <2>5. tuples = {} => tuples' = {}
    BY <1>3, NewPairTuples
  <2>6. QED  BY <1>1, <1>2, <2>1, <2>2, <2>3, <2>4, <2>5
<1>4. ASSUME NEW a \in Qvars, NEW b \in Qvars, NEW pairs \in SUBSET (Conds \X Conds),
             Cluster!LinkToColumn(a, b, pairs), a \in {q, p}, b \in {q, p}, a # b
      PROVE  /\ ClusterOK'
             /\ Cluster!Solutions' = {s \in Cluster!Solutions :
                                         /\ <<s[a], s[b]>> \in pairs
                                         /\ Cluster!Store!WithinGlobal(s, {q, p})}
             /\ Used' = Used \cup {q, p}
             /\ qvar_counter <= qvar_counter'
             /\ tuples = {} => tuples' = {}
  <2>1. ClusterOK'
    BY <1>1, <1>4, ToColumnTyped
  <2>2. Cluster!Solutions' = {s \in Cluster!Solutions :
                                 /\ <<s[a], s[b]>> \in pairs
                                 /\ Cluster!Store!WithinGlobal(s, {a, b})}
    BY <1>1, <1>4, ToColumnSolutions
  <2>3. /\ Cluster!Linked' = Cluster!Linked \cup {b}
        /\ Cluster!Unlinked' = Cluster!Unlinked \ {b}
        /\ a \in Cluster!Linked
        /\ qvar_counter' = qvar_counter + 1
    BY <1>4, ToColumnTables
  <2>4. Used' = Used \cup {q, p}
    BY <1>4, <2>1, <2>3, UsedIs, UsedAfter
  <2>5. tuples = {} => tuples' = {}
    BY <1>4, ToColumnTuples
  <2>6. qvar_counter <= qvar_counter'
    BY <1>2, <2>3
  <2>7. {a, b} = {q, p}
    BY <1>4
  <2>8. QED  BY <2>1, <2>2, <2>4, <2>5, <2>6, <2>7
<1>5. CASE Cluster!LinkToColumn(q, p, rel)
  BY <1>1, <1>4, <1>5
<1>6. CASE Cluster!LinkToColumn(p, q, {<<l[2], l[1]>> : l \in rel})
  <2> DEFINE back == {<<l[2], l[1]>> : l \in rel}
  <2>1. back \in SUBSET (Conds \X Conds) /\ \A c, d : <<c, d>> \in back <=> <<d, c>> \in rel
    BY Reversed
  <2>2. Cluster!LinkToColumn(p, q, back)
    BY <1>6
  <2> HIDE DEF back
  <2>3. /\ ClusterOK'
        /\ Cluster!Solutions' = {s \in Cluster!Solutions :
                                    /\ <<s[p], s[q]>> \in back
                                    /\ Cluster!Store!WithinGlobal(s, {q, p})}
        /\ Used' = Used \cup {q, p}
        /\ qvar_counter <= qvar_counter'
        /\ tuples = {} => tuples' = {}
    BY <1>4, <2>1, <2>2
  <2>4. \A s : <<s[p], s[q]>> \in back <=> <<s[q], s[p]>> \in rel
    BY <2>1
  <2>5. QED  BY <1>1, <2>3, <2>4
<1>7. CASE Cluster!LinkColumns(q, p, rel)
  <2>1. /\ ClusterOK' /\ Cluster!Linked' = Cluster!Linked /\ tuples' \subseteq tuples
    BY <1>1, <1>7, ColumnsTyped
  <2>2. Cluster!Solutions' = {s \in Cluster!Solutions :
                                 /\ <<s[q], s[p]>> \in rel
                                 /\ Cluster!Store!WithinGlobal(s, {q, p})}
    BY <1>1, <1>7, ColumnsSolutions
  <2>3. /\ q \in Cluster!Linked /\ p \in Cluster!Linked
        /\ UNCHANGED <<qvar_type, qvar_counter>>
    BY <1>7 DEF Cluster!LinkColumns
  <2>4. Used' = Used /\ q \in Used /\ p \in Used
    BY <2>3, UsedIs DEF Used, Cluster!is_initialized
  <2>5. QED  BY <1>1, <1>2, <2>1, <2>2, <2>3, <2>4
<1>8. QED  BY <1>3, <1>5, <1>6, <1>7 DEF Cluster!UpdateLinks

LEMMA LinksTyped ==
    ASSUME ClusterOK, NEW q \in Qvars, NEW p \in Qvars, q # p,
           NEW rel \in SUBSET (Conds \X Conds), Cluster!UpdateLinks(q, p, rel)
    PROVE  ClusterOK'
BY LinksStep

LEMMA LinksSolutions ==
    ASSUME ClusterOK, NEW q \in Qvars, NEW p \in Qvars, q # p,
           NEW rel \in SUBSET (Conds \X Conds), Cluster!UpdateLinks(q, p, rel)
    PROVE  Cluster!Solutions' = {s \in Cluster!Solutions :
                                    /\ <<s[q], s[p]>> \in rel
                                    /\ Cluster!Store!WithinGlobal(s, {q, p})}
BY LinksStep

-----------------------------------------------------------------------------
(* make_tuples: the positions that add a column, in their order.           *)
LEMMA SameCardinality == ASSUME NEW S PROVE Cluster!Cardinality(S) = Cardinality(S)
BY DEF Cardinality, Cluster!Cardinality

LEMMA NewPositions ==
    ASSUME NEW qs \in Seq(Qvars)
    PROVE  /\ Cluster!Added(qs) \subseteq 1 .. Len(qs)
           /\ Cardinality(Cluster!Added(qs)) \in Nat
           /\ \A i \in Cluster!Added(qs) :
                 /\ Cluster!Older(qs, i) \in Nat
                 /\ Cluster!Older(qs, i) < Cardinality(Cluster!Added(qs))
           /\ \A i, k \in Cluster!Added(qs) :
                 Cluster!Older(qs, i) = Cluster!Older(qs, k) => i = k
<1> DEFINE A == Cluster!Added(qs)
<1>1. Len(qs) \in Nat /\ A \subseteq 1 .. Len(qs)
  BY DEF Cluster!Added
<1> HIDE DEF A
<1>2. IsFiniteSet(A)
  <2>1. IsFiniteSet(1 .. Len(qs))
    BY <1>1, FS_Interval
  <2>2. QED  BY <1>1, <2>1, FS_Subset
<1>3. \A T \in SUBSET A : IsFiniteSet(T) /\ Cardinality(T) \in Nat
  BY <1>2, FS_Subset, FS_CardinalityType
<1>4. ASSUME NEW i \in A, NEW T \in SUBSET A, i \in T, \A k \in A : k < i => k \in T
      PROVE  Cardinality({k \in A : k < i}) < Cardinality(T)
  <2> DEFINE B == {k \in A : k < i}
  <2>1. B \in SUBSET A /\ B \subseteq T
    BY <1>4
  <2>2. i \notin B
    BY <1>1
  <2>3. B \cup {i} \in SUBSET T
    BY <1>4, <2>1
  <2> HIDE DEF B
  <2>4. IsFiniteSet(B) /\ Cardinality(B) \in Nat /\ IsFiniteSet(T) /\ Cardinality(T) \in Nat
    BY <1>3, <2>1
  <2>5. Cardinality(B \cup {i}) = Cardinality(B) + 1
    BY <2>2, <2>4, FS_AddElement
  <2>6. Cardinality(B \cup {i}) <= Cardinality(T)
    BY <2>3, <2>4, FS_Subset
  <2>7. Cardinality(B) < Cardinality(T)
    BY <2>4, <2>5, <2>6
  <2>8. QED  BY <2>7 DEF B
<1>5. \A i \in A : Cluster!Older(qs, i) = Cardinality({k \in A : k < i})
  <2>1. TAKE i \in A
  <2>2. QED  BY SameCardinality DEF A, Cluster!Older
<1>6. \A i \in A : Cluster!Older(qs, i) \in Nat
  BY <1>3, <1>5
<1>7. \A i \in A : Cluster!Older(qs, i) < Cardinality(A)
  BY <1>4, <1>5
<1>8. ASSUME NEW i \in A, NEW k \in A, i < k PROVE Cluster!Older(qs, i) < Cluster!Older(qs, k)
  <2>1. {m \in A : m < k} \in SUBSET A /\ i \in {m \in A : m < k}
    BY <1>8
  <2>2. \A m \in A : m < i => m \in {l \in A : l < k}
    BY <1>1, <1>8
  <2>3. Cardinality({m \in A : m < i}) < Cardinality({m \in A : m < k})
    BY <1>4, <2>1, <2>2
  <2>4. QED  BY <1>5, <2>3
<1>9. \A i, k \in A : i # k => Cluster!Older(qs, i) # Cluster!Older(qs, k)
  <2>1. ASSUME NEW i \in A, NEW k \in A, i # k PROVE Cluster!Older(qs, i) # Cluster!Older(qs, k)
    <3>1. i \in Nat /\ k \in Nat /\ (i < k \/ k < i)
      BY <1>1, <2>1
    <3>2. QED  BY <1>6, <1>8, <3>1
  <2>2. QED  BY <2>1
<1>10. QED  BY <1>1, <1>3, <1>6, <1>7, <1>9 DEF A

(* A variable's column is the latest of those added for it.                *)
LEMMA LatestIs ==
    ASSUME NEW qs \in Seq(Qvars), NEW i \in Cluster!Added(qs)
    PROVE  /\ Cluster!LatestFor(qs, qs[i]) \in Cluster!Added(qs)
           /\ qs[Cluster!LatestFor(qs, qs[i])] = qs[i]
<1> DEFINE r == qs[i]
           T == {k \in Cluster!Added(qs) : qs[k] = r}
<1>1. Len(qs) \in Nat /\ T \in SUBSET (1 .. Len(qs)) /\ T # {}
  BY NewPositions
<1>2. \E m \in T : \A k \in T : k <= m
  BY <1>1, GreatestOf
<1>3. \E m \in Cluster!Added(qs) : qs[m] = r /\ \A k \in Cluster!Added(qs) : qs[k] = r => k <= m
  BY <1>2
<1>4. QED  BY <1>3 DEF Cluster!LatestFor
Sel(qs) == {qs[i] : i \in DOMAIN qs}
Width(qs) == Cardinality(Cluster!Added(qs))

LEMMA SelectTables ==
    ASSUME ClusterOK, NEW qs \in Seq(Qvars), Cluster!MakeTuples(qs)
    PROVE  /\ Sel(qs) \subseteq Qvars
           /\ Cluster!Linked' = Cluster!Linked
           /\ Cluster!Unlinked' = Cluster!Unlinked \cup Fresh(Sel(qs))
           /\ Sel(qs) \ Cluster!Linked \subseteq Cluster!Unlinked'
           /\ qvar_type' \in [Qvars -> {"none", "unlinked", "linked"}]
           /\ single_values' \in [Qvars -> SUBSET Conds]
           /\ \A r \in Qvars : single_values'[r] =
                 IF r \in Fresh(Sel(qs)) THEN GlobalSet ELSE single_values[r]
<1>1. Sel(qs) \subseteq Qvars
  BY DEF Sel
<1>2. /\ qvar_type' = Cluster!TypeFor(Sel(qs))
      /\ single_values' = Cluster!ValuesFor(Sel(qs))
  BY DEF Cluster!MakeTuples, Sel
<1>3. /\ qvar_type' \in [Qvars -> {"none", "unlinked", "linked"}]
      /\ single_values' \in [Qvars -> SUBSET Conds]
      /\ \A r \in Qvars :
            /\ qvar_type'[r] = IF r \in Fresh(Sel(qs)) THEN "unlinked" ELSE qvar_type[r]
            /\ single_values'[r] = IF r \in Fresh(Sel(qs)) THEN GlobalSet ELSE single_values[r]
            /\ r \in Fresh(Sel(qs)) <=> r \in Sel(qs) /\ qvar_type[r] = "none"
  BY <1>1, <1>2, FirstUse
<1>4. Cluster!Linked' = Cluster!Linked /\ Cluster!Unlinked' = Cluster!Unlinked \cup Fresh(Sel(qs))
  <2>1. Fresh(Sel(qs)) \subseteq Qvars
    BY <1>1 DEF Fresh
  <2>2. QED  BY <1>3, <2>1 DEF Cluster!Linked, Cluster!Unlinked
<1>5. Sel(qs) \ Cluster!Linked \subseteq Cluster!Unlinked'
  BY <1>1, <1>3 DEF ClusterOK, Cluster!Linked, Cluster!Unlinked
<1>6. QED  BY <1>1, <1>3, <1>4, <1>5

LEMMA SelectIndex ==
    ASSUME ClusterOK, NEW qs \in Seq(Qvars), Cluster!MakeTuples(qs)
    PROVE  /\ Width(qs) \in Nat
           /\ qvar_counter' = qvar_counter + Width(qs)
           /\ qvar_index' \in [Qvars -> Nat]
           /\ \A r \in Cluster!Linked : qvar_index'[r] = qvar_index[r]
           /\ \A i \in Cluster!Added(qs) :
                 qvar_index'[qs[i]] = qvar_counter + Cluster!Older(qs, Cluster!LatestFor(qs, qs[i]))
<1>1. Width(qs) \in Nat /\ qvar_counter \in Nat
  BY NewPositions DEF Width, ClusterOK
<1>2. qvar_counter' = qvar_counter + Width(qs)
  BY SameCardinality DEF Cluster!MakeTuples, Width
<1>3. qvar_index' = [r \in Qvars |-> IF \E i \in Cluster!Added(qs) : qs[i] = r
                                     THEN qvar_counter + Cluster!Older(qs, Cluster!LatestFor(qs, r))
                                     ELSE qvar_index[r]]
  BY DEF Cluster!MakeTuples, Cluster!IndexAfter
<1>4. \A i \in Cluster!Added(qs) : qs[i] \in Qvars /\ qs[i] \notin Cluster!Linked
  BY DEF Cluster!Added
<1>5. ASSUME NEW r \in Qvars PROVE qvar_index'[r] \in Nat
  <2>1. CASE \E i \in Cluster!Added(qs) : qs[i] = r
    <3>1. PICK i \in Cluster!Added(qs) : qs[i] = r
      BY <2>1
    <3>2. Cluster!LatestFor(qs, r) \in Cluster!Added(qs)
      BY <3>1, LatestIs
    <3>3. Cluster!Older(qs, Cluster!LatestFor(qs, r)) \in Nat
      BY <3>2, NewPositions
    <3>4. QED  BY <1>1, <1>3, <2>1, <3>3
  <2>2. CASE ~ \E i \in Cluster!Added(qs) : qs[i] = r
    BY <1>3, <2>2 DEF ClusterOK
  <2>3. QED  BY <2>1, <2>2
<1>6. qvar_index' \in [Qvars -> Nat]
  BY <1>3, <1>5
<1>7. ASSUME NEW r \in Cluster!Linked PROVE qvar_index'[r] = qvar_index[r]
  <2>1. r \in Qvars /\ ~ \E i \in Cluster!Added(qs) : qs[i] = r
    BY <1>4 DEF Cluster!Linked
  <2>2. QED  BY <1>3, <2>1
<1>8. ASSUME NEW i \in Cluster!Added(qs)
      PROVE  qvar_index'[qs[i]] = qvar_counter + Cluster!Older(qs, Cluster!LatestFor(qs, qs[i]))
  BY <1>3, <1>4
<1>9. QED  BY <1>1, <1>2, <1>6, <1>7, <1>8

(* The columns of the selection, in front of each tuple.                   *)
FitsFront(f, qs, have) == \A i \in Cluster!Added(qs) : f[Width(qs) - Cluster!Older(qs, i)] \in have[qs[i]]
Joined(f, t) == f \o t

LEMMA SelectTuples ==
    ASSUME ClusterOK, NEW qs \in Seq(Qvars), Cluster!MakeTuples(qs)
    PROVE  \A u : u \in tuples' <=>
              \E f \in ConditionTuples(Width(qs)), t \in tuples :
                 FitsFront(f, qs, single_values') /\ u = Joined(f, t)
<1>1. tuples' = Cluster!Extended(qs, single_values')
  BY DEF Cluster!MakeTuples
<1>2. Cluster!Cardinality(Cluster!Added(qs)) = Width(qs)
  BY SameCardinality DEF Width
<1>3. tuples' = UNION {{Joined(f, t) : f \in {g \in ConditionTuples(Width(qs)) :
                                                  FitsFront(g, qs, single_values')}} : t \in tuples}
  BY <1>1, <1>2 DEF Cluster!Extended, FitsFront, Joined, ConditionTuples
<1>4. QED  BY <1>3

LEMMA SelectTyped ==
    ASSUME ClusterOK, NEW qs \in Seq(Qvars), Cluster!MakeTuples(qs)
    PROVE  ClusterOK'
<1>1. /\ Cluster!Linked' = Cluster!Linked
      /\ qvar_type' \in [Qvars -> {"none", "unlinked", "linked"}]
      /\ single_values' \in [Qvars -> SUBSET Conds]
  BY SelectTables
<1>2. /\ Width(qs) \in Nat /\ qvar_counter' = qvar_counter + Width(qs)
      /\ qvar_index' \in [Qvars -> Nat]
      /\ \A r \in Cluster!Linked : qvar_index'[r] = qvar_index[r]
  BY SelectIndex
<1>3. qvar_counter \in Nat /\ qvar_counter' \in Nat
  BY <1>2 DEF ClusterOK
<1>4. ASSUME NEW u \in tuples' PROVE u \in ConditionTuples(qvar_counter')
  <2>1. PICK f \in ConditionTuples(Width(qs)), t \in tuples : u = Joined(f, t)
    BY <1>4, SelectTuples
  <2>2. t \in ConditionTuples(qvar_counter)
    BY DEF ClusterOK
  <2>3. QED  BY <1>2, <1>3, <2>1, <2>2, FrontKeepsColumns DEF Joined
<1>5. ASSUME NEW r \in Cluster!Linked PROVE qvar_index'[r] < qvar_counter'
  <2>1. qvar_index[r] \in Nat /\ qvar_index[r] < qvar_counter
    BY DEF ClusterOK, Cluster!Linked
  <2>2. QED  BY <1>2, <1>3, <2>1
<1>6. valid_state' \in BOOLEAN
  BY DEF ClusterOK, Cluster!MakeTuples
<1>7. QED  BY <1>1, <1>2, <1>3, <1>4, <1>5, <1>6 DEF ClusterOK

LEMMA SelectColumns ==
    ASSUME ClusterOK, NEW qs \in Seq(Qvars), Cluster!MakeTuples(qs),
           NEW f \in ConditionTuples(Width(qs)), NEW t \in tuples
    PROVE  /\ \A r \in Cluster!Linked : Cluster!Column(Joined(f, t), r)' = Cluster!Column(t, r)
           /\ \A i \in Cluster!Added(qs) :
                 Cluster!Column(Joined(f, t), qs[i])' =
                    f[Width(qs) - Cluster!Older(qs, Cluster!LatestFor(qs, qs[i]))]
<1>1. /\ Width(qs) \in Nat
      /\ qvar_counter' = qvar_counter + Width(qs)
      /\ \A r \in Cluster!Linked : qvar_index'[r] = qvar_index[r]
      /\ \A i \in Cluster!Added(qs) :
            qvar_index'[qs[i]] = qvar_counter + Cluster!Older(qs, Cluster!LatestFor(qs, qs[i]))
  BY SelectIndex
<1>2. ASSUME NEW r \in Cluster!Linked
      PROVE  Cluster!Column(Joined(f, t), r)' = Cluster!Column(t, r)
  <2>1. qvar_index'[r] = qvar_index[r]
    BY <1>1
  <2>2. QED  BY <1>1, <2>1, OldColumn DEF Joined
<1>3. ASSUME NEW i \in Cluster!Added(qs)
      PROVE  Cluster!Column(Joined(f, t), qs[i])' =
                f[Width(qs) - Cluster!Older(qs, Cluster!LatestFor(qs, qs[i]))]
  <2> DEFINE k == Cluster!Older(qs, Cluster!LatestFor(qs, qs[i]))
  <2>1. k \in Nat /\ k < Width(qs)
    BY LatestIs, NewPositions DEF Width
  <2>2. qvar_index'[qs[i]] = qvar_counter + k /\ qs[i] \in Qvars
    BY <1>1 DEF Cluster!Added
  <2> HIDE DEF k
  <2>3. Cluster!Column(f \o t, qs[i])' = f[Width(qs) - k]
    BY <1>1, <2>1, <2>2, NewColumn
  <2>4. QED  BY <2>3 DEF k, Joined
<1>4. QED  BY <1>2, <1>3

LEMMA SelectMatches ==
    ASSUME ClusterOK, NEW qs \in Seq(Qvars), Cluster!MakeTuples(qs),
           NEW f \in ConditionTuples(Width(qs)), NEW t \in tuples, NEW s
    PROVE  Matches(s, Joined(f, t))' <=> Matches(s, t)
<1>1. Cluster!Linked' = Cluster!Linked
  BY SelectTables
<1>2. \A r \in Cluster!Linked : Cluster!Column(Joined(f, t), r)' = Cluster!Column(t, r)
  BY SelectColumns
<1>3. QED  BY <1>1, <1>2 DEF Matches

(* There is a front for every assignment.                                  *)
LEMMA FrontFor ==
    ASSUME NEW qs \in Seq(Qvars), NEW s \in [Qvars -> Conds]
    PROVE  \E f \in ConditionTuples(Width(qs)) :
              \A i \in Cluster!Added(qs) : f[Width(qs) - Cluster!Older(qs, i)] = s[qs[i]]
<1> DEFINE n == Width(qs)
           f == [x \in 1 .. n |-> CHOOSE c \in Conds :
                    \A i \in Cluster!Added(qs) : n - Cluster!Older(qs, i) = x => c = s[qs[i]]]
<1>1. /\ n \in Nat
      /\ \A i \in Cluster!Added(qs) : Cluster!Older(qs, i) \in Nat /\ Cluster!Older(qs, i) < n
      /\ \A i, k \in Cluster!Added(qs) : Cluster!Older(qs, i) = Cluster!Older(qs, k) => i = k
  BY NewPositions DEF Width
<1>2. \A i \in Cluster!Added(qs) : qs[i] \in Qvars
  BY DEF Cluster!Added
<1> HIDE DEF n
<1>3. n = 0 \/ Conds # {}
  <2>1. CASE Cluster!Added(qs) = {}
    BY <2>1, FS_EmptySet DEF n, Width
  <2>2. CASE Cluster!Added(qs) # {}
    BY <1>2, <2>2
  <2>3. QED  BY <2>1, <2>2
<1>4. \A i, k \in Cluster!Added(qs) : n - Cluster!Older(qs, i) = n - Cluster!Older(qs, k) => i = k
  BY <1>1
<1>5. ASSUME NEW x \in 1 .. n
      PROVE  \E c \in Conds : \A i \in Cluster!Added(qs) : n - Cluster!Older(qs, i) = x => c = s[qs[i]]
  <2>1. CASE \E k \in Cluster!Added(qs) : n - Cluster!Older(qs, k) = x
    <3>1. PICK k \in Cluster!Added(qs) : n - Cluster!Older(qs, k) = x
      BY <2>1
    <3>2. s[qs[k]] \in Conds
      BY <1>2
    <3>3. \A i \in Cluster!Added(qs) : n - Cluster!Older(qs, i) = x => s[qs[k]] = s[qs[i]]
      BY <1>4, <3>1
    <3>4. QED  BY <3>2, <3>3
  <2>2. CASE ~ \E k \in Cluster!Added(qs) : n - Cluster!Older(qs, k) = x
    <3>1. Conds # {}
      BY <1>1, <1>3
    <3>2. QED  BY <2>2, <3>1
  <2>3. QED  BY <2>1, <2>2
<1>6. \A x \in 1 .. n :
         /\ f[x] \in Conds
         /\ \A i \in Cluster!Added(qs) : n - Cluster!Older(qs, i) = x => f[x] = s[qs[i]]
  BY <1>5
<1>7. f \in ConditionTuples(n)
  BY <1>6 DEF ConditionTuples
<1> HIDE DEF f
<1>8. ASSUME NEW i \in Cluster!Added(qs) PROVE f[n - Cluster!Older(qs, i)] = s[qs[i]]
  <2>1. n - Cluster!Older(qs, i) \in 1 .. n
    BY <1>1
  <2>2. QED  BY <1>6, <2>1
<1>9. \E g \in ConditionTuples(n) : \A i \in Cluster!Added(qs) : g[n - Cluster!Older(qs, i)] = s[qs[i]]
  BY <1>7, <1>8
<1>10. QED  BY <1>9 DEF n

LEMMA SelectSolutions ==
    ASSUME ClusterOK, NEW qs \in Seq(Qvars), Cluster!MakeTuples(qs)
    PROVE  Cluster!Solutions' = {s \in Cluster!Solutions : Cluster!Store!WithinGlobal(s, Sel(qs))}
<1>1. /\ Sel(qs) \subseteq Qvars
      /\ Cluster!Unlinked' = Cluster!Unlinked \cup Fresh(Sel(qs))
      /\ Sel(qs) \ Cluster!Linked \subseteq Cluster!Unlinked'
      /\ \A r \in Qvars : single_values'[r] =
            IF r \in Fresh(Sel(qs)) THEN GlobalSet ELSE single_values[r]
  BY SelectTables
<1>2. valid_state' = valid_state
  BY DEF Cluster!MakeTuples
<1>3. Cluster!Unlinked \cap Fresh(Sel(qs)) = {} /\ Cluster!Unlinked \subseteq Qvars
  BY DEF Fresh, Cluster!Unlinked, Cluster!is_initialized
<1>4. \A s : Allowed(s)' <=> Allowed(s) /\ \A r \in Fresh(Sel(qs)) : s[r] \in GlobalSet
  <2>1. Fresh(Sel(qs)) \subseteq Qvars
    BY <1>1 DEF Fresh
  <2>2. QED  BY <1>1, <1>3, <2>1 DEF Allowed
<1>5. \A s : Cluster!Store!WithinGlobal(s, Sel(qs)) <=> \A r \in Fresh(Sel(qs)) : s[r] \in GlobalSet
  BY WithinGlobalIs
<1>6. ASSUME NEW s, NEW u \in tuples', Matches(s, u)'
      PROVE  \E t \in tuples : Matches(s, t)
  <2>1. PICK f \in ConditionTuples(Width(qs)), t \in tuples : u = Joined(f, t)
    BY SelectTuples
  <2>2. Matches(s, Joined(f, t))'
    BY <1>6, <2>1
  <2>3. QED  BY <2>2, SelectMatches
<1>7. ASSUME NEW s \in [Qvars -> Conds], Allowed(s)', NEW t \in tuples, Matches(s, t)
      PROVE  \E u \in tuples' : Matches(s, u)'
  <2>1. PICK f \in ConditionTuples(Width(qs)) :
           \A i \in Cluster!Added(qs) : f[Width(qs) - Cluster!Older(qs, i)] = s[qs[i]]
    BY FrontFor
  <2>2. \A i \in Cluster!Added(qs) : qs[i] \in Cluster!Unlinked'
    BY <1>1 DEF Cluster!Added, Sel
  <2>3. FitsFront(f, qs, single_values')
    BY <1>7, <2>1, <2>2 DEF FitsFront, Allowed
  <2>4. Joined(f, t) \in tuples'
    BY <2>3, SelectTuples
  <2>5. Matches(s, Joined(f, t))'
    BY <1>7, SelectMatches
  <2>6. QED  BY <2>4, <2>5
<1>8. \A s : s \in Cluster!Solutions' <=>
                s \in Cluster!Solutions /\ \A r \in Fresh(Sel(qs)) : s[r] \in GlobalSet
  BY <1>2, <1>4, <1>6, <1>7, SolutionsAre, SolutionsAfter
<1>9. QED  BY <1>5, <1>8
(* The reply lists the projections of the solutions.                       *)
LEMMA SelectReply ==
    ASSUME ClusterOK, NEW qs \in Seq(Qvars), Cluster!MakeTuples(qs), Cluster!Solutions' # {}
    PROVE  reply' = Cluster!Store!Project(Cluster!Solutions', qs)
<1> DEFINE Row(u) == [i \in DOMAIN qs |-> Cluster!Column(u, qs[i])']
           Shown(s) == [i \in DOMAIN qs |-> s[qs[i]]]
           Latest(r) == Width(qs) - Cluster!Older(qs, Cluster!LatestFor(qs, r))
<1>1. reply' = {Row(u) : u \in tuples'}
  BY DEF Cluster!MakeTuples, Cluster!Column, Cluster!get_condition
<1>2. Cluster!Store!Project(Cluster!Solutions', qs) = {Shown(s) : s \in Cluster!Solutions'}
  BY DEF Cluster!Store!Project
<1>3. /\ Sel(qs) \subseteq Qvars
      /\ \A i \in DOMAIN qs : qs[i] \in Sel(qs) /\ qs[i] \in Qvars
      /\ \A i \in DOMAIN qs : i \in Cluster!Added(qs) <=> qs[i] \notin Cluster!Linked
      /\ \A i \in Cluster!Added(qs) : i \in DOMAIN qs
  BY DEF Sel, Cluster!Added
<1>4. /\ Cluster!Linked' = Cluster!Linked
      /\ Cluster!Unlinked' = Cluster!Unlinked \cup Fresh(Sel(qs))
      /\ Sel(qs) \ Cluster!Linked \subseteq Cluster!Unlinked'
      /\ single_values' \in [Qvars -> SUBSET Conds]
  BY SelectTables
<1>5. ASSUME NEW f \in ConditionTuples(Width(qs)), NEW t \in tuples
      PROVE  /\ \A r \in Cluster!Linked : Cluster!Column(Joined(f, t), r)' = Cluster!Column(t, r)
             /\ \A i \in Cluster!Added(qs) :
                   Cluster!Column(Joined(f, t), qs[i])' = f[Latest(qs[i])]
  BY SelectColumns
<1> HIDE DEF Latest
<1>6. ASSUME NEW u \in tuples' PROVE \E s \in Cluster!Solutions' : Row(u) = Shown(s)
  <2>1. PICK f \in ConditionTuples(Width(qs)), t \in tuples :
           FitsFront(f, qs, single_values') /\ u = Joined(f, t)
    BY SelectTuples
  <2>2. PICK z \in Cluster!Solutions' : TRUE
    OBVIOUS
  <2>3. valid_state' /\ z \in [Qvars -> Conds] /\ Allowed(z)'
    BY SolutionsAfter
  <2> DEFINE m == [r \in Qvars |-> IF r \in Cluster!Linked THEN Cluster!Column(t, r)
                                   ELSE IF r \in Sel(qs) THEN f[Latest(r)] ELSE z[r]]
  <2>4. ASSUME NEW i \in Cluster!Added(qs)
        PROVE  f[Latest(qs[i])] \in single_values'[qs[i]]
    <3>1. /\ Cluster!LatestFor(qs, qs[i]) \in Cluster!Added(qs)
          /\ qs[Cluster!LatestFor(qs, qs[i])] = qs[i]
      BY LatestIs
    <3>2. QED  BY <2>1, <3>1 DEF FitsFront, Latest
  <2>5. \A r \in Sel(qs) : r \notin Cluster!Linked => f[Latest(r)] \in single_values'[r]
    BY <1>3, <2>4 DEF Sel
  <2>6. \A r \in Cluster!Linked : Cluster!Column(t, r) \in Conds
    BY ColumnTyped
  <2>7. m \in [Qvars -> Conds]
    <3>1. ASSUME NEW r \in Qvars
          PROVE  (IF r \in Cluster!Linked THEN Cluster!Column(t, r)
                  ELSE IF r \in Sel(qs) THEN f[Latest(r)] ELSE z[r]) \in Conds
      <4>1. CASE r \in Cluster!Linked
        BY <2>6, <4>1
      <4>2. CASE r \notin Cluster!Linked /\ r \in Sel(qs)
        BY <1>4, <2>5, <4>2
      <4>3. CASE r \notin Cluster!Linked /\ r \notin Sel(qs)
        BY <2>3, <4>3
      <4>4. QED  BY <4>1, <4>2, <4>3
    <3>2. QED  BY <3>1
  <2>8. PICK s \in [Qvars -> Conds] :
           /\ \A r \in Cluster!Linked : s[r] = Cluster!Column(t, r)
           /\ \A r \in Sel(qs) : r \notin Cluster!Linked => s[r] = f[Latest(r)]
           /\ \A r \in Qvars : r \notin Cluster!Linked /\ r \notin Sel(qs) => s[r] = z[r]
    <3>1. /\ \A r \in Cluster!Linked : m[r] = Cluster!Column(t, r)
          /\ \A r \in Sel(qs) : r \notin Cluster!Linked => m[r] = f[Latest(r)]
          /\ \A r \in Qvars : r \notin Cluster!Linked /\ r \notin Sel(qs) => m[r] = z[r]
      BY <1>3 DEF Cluster!Linked
    <3> HIDE DEF m
    <3>2. QED  BY <2>7, <3>1
  <2>9. Allowed(s)'
    <3>1. ASSUME NEW r \in Cluster!Unlinked' PROVE s[r] \in single_values'[r]
      <4>1. r \in Qvars /\ r \notin Cluster!Linked
        BY <1>4 DEF Cluster!Linked, Cluster!Unlinked
      <4>2. CASE r \in Sel(qs)
        BY <2>5, <2>8, <4>1, <4>2
      <4>3. CASE r \notin Sel(qs)
        BY <2>3, <2>8, <4>1, <4>3 DEF Allowed
      <4>4. QED  BY <4>2, <4>3
    <3>2. QED  BY <3>1 DEF Allowed
  <2>10. Matches(s, u)'
    <3>1. Matches(s, t)
      BY <2>8 DEF Matches
    <3>2. Matches(s, Joined(f, t))'
      BY <3>1, SelectMatches
    <3>3. QED  BY <2>1, <3>2
  <2>11. s \in Cluster!Solutions'
    BY <2>3, <2>9, <2>10, SolutionsAfter
  <2>12. ASSUME NEW i \in DOMAIN qs PROVE Cluster!Column(u, qs[i])' = s[qs[i]]
    BY <1>3, <1>5, <2>1, <2>8
  <2>13. Row(u) = Shown(s)
    BY <2>12
  <2>14. QED  BY <2>11, <2>13
<1>7. ASSUME NEW s \in Cluster!Solutions' PROVE \E u \in tuples' : Row(u) = Shown(s)
  <2>1. valid_state' /\ s \in [Qvars -> Conds] /\ Allowed(s)'
    BY SolutionsAfter
  <2>2. PICK w \in tuples' : Matches(s, w)'
    BY SolutionsAfter
  <2>3. PICK g \in ConditionTuples(Width(qs)), t \in tuples : w = Joined(g, t)
    BY SelectTuples
  <2>4. Matches(s, Joined(g, t))'
    BY <2>2, <2>3
  <2>5. Matches(s, t)
    BY <2>4, SelectMatches
  <2>6. PICK f \in ConditionTuples(Width(qs)) :
           \A i \in Cluster!Added(qs) : f[Width(qs) - Cluster!Older(qs, i)] = s[qs[i]]
    BY <2>1, FrontFor
  <2>7. \A i \in Cluster!Added(qs) : qs[i] \in Cluster!Unlinked'
    BY <1>3, <1>4
  <2>8. FitsFront(f, qs, single_values')
    BY <2>1, <2>6, <2>7 DEF FitsFront, Allowed
  <2>9. Joined(f, t) \in tuples'
    BY <2>8, SelectTuples
  <2>10. ASSUME NEW i \in Cluster!Added(qs) PROVE f[Latest(qs[i])] = s[qs[i]]
    BY <2>6, LatestIs DEF Latest
  <2>11. ASSUME NEW i \in DOMAIN qs PROVE Cluster!Column(Joined(f, t), qs[i])' = s[qs[i]]
    <3>1. CASE qs[i] \in Cluster!Linked
      BY <1>5, <2>5, <3>1 DEF Matches
    <3>2. CASE qs[i] \notin Cluster!Linked
      BY <1>3, <1>5, <2>10, <3>2
    <3>3. QED  BY <3>1, <3>2
  <2>12. Row(Joined(f, t)) = Shown(s)
    BY <2>11
  <2>13. QED  BY <2>9, <2>12
<1> HIDE DEF Row, Shown
<1>8. {Row(u) : u \in tuples'} = {Shown(s) : s \in Cluster!Solutions'}
  BY <1>6, <1>7
<1>9. QED  BY <1>1, <1>2, <1>8

LEMMA SelectStep ==
    ASSUME ClusterOK, NEW qs \in Seq(Qvars), Cluster!MakeTuples(qs)
    PROVE  /\ Used' = Used \cup Sel(qs)
           /\ qvar_counter <= qvar_counter'
           /\ tuples = {} => tuples' = {}
           /\ valid_state' = valid_state
<1>1. /\ Sel(qs) \subseteq Qvars
      /\ Cluster!Linked' = Cluster!Linked
      /\ Cluster!Unlinked' = Cluster!Unlinked \cup Fresh(Sel(qs))
      /\ Sel(qs) \ Cluster!Linked \subseteq Cluster!Unlinked'
  BY SelectTables
<1>2. Used' = Used \cup Sel(qs)
  BY <1>1, UsedIs, UsedAfter, SelectTyped DEF Fresh
<1>3. qvar_counter <= qvar_counter'
  BY SelectIndex DEF ClusterOK
<1>4. tuples = {} => tuples' = {}
  BY SelectTuples
<1>5. QED  BY <1>2, <1>3, <1>4 DEF Cluster!MakeTuples
-----------------------------------------------------------------------------
(* The store.  A request leaves a cluster without tuples without tuples, so*)
(* that a state found invalid stays invalid.                               *)
LEMMA Judged ==
    ASSUME ClusterOK, ClusterOK', valid_state' = valid_state, qvar_counter <= qvar_counter',
           tuples = {} => tuples' = {}
    PROVE  Cluster!Store!Judge
<1>1. /\ qvar_counter \in Nat /\ qvar_counter' \in Nat
      /\ valid_state \in BOOLEAN
  BY DEF ClusterOK
<1>2. CASE Cluster!is_valid_state'
  <2>1. valid_state /\ (qvar_counter = 0 \/ tuples # {})
    BY <1>1, <1>2 DEF Cluster!is_valid_state
  <2>2. QED  BY <1>2, <2>1 DEF Cluster!Store!Judge, Cluster!is_valid_state
<1>3. CASE ~ Cluster!is_valid_state'
  <2>1. ~ valid_state' \/ tuples' = {}
    BY <1>3 DEF Cluster!is_valid_state
  <2>2. Cluster!Solutions' = {}
    BY <2>1, SolutionsAfter
  <2>3. Cluster!is_valid_state' = FALSE
    BY <1>1, <1>3 DEF Cluster!is_valid_state
  <2>4. QED  BY <2>2, <2>3 DEF Cluster!Store!Judge
<1>4. QED  BY <1>2, <1>3

LEMMA ClusterStartsWith ==
    ASSUME NEW d, TableOK(d), Cluster!InitWith(d)
    PROVE  /\ ClusterOK
           /\ {q \in Qvars : Cluster!is_initialized(q)} = DOMAIN d
           /\ Cluster!Solutions = {s \in [Qvars -> Conds] : \A q \in DOMAIN d : s[q] \in d[q]}
           /\ Cluster!is_valid_state = TRUE
           /\ reply = NoReply
<1>1. /\ DOMAIN d \subseteq Qvars
      /\ \A q \in DOMAIN d : d[q] \subseteq Conds
  BY DEF TableOK
<1>2. /\ qvar_type = [q \in Qvars |-> IF q \in DOMAIN d THEN "unlinked" ELSE "none"]
      /\ single_values = [q \in Qvars |-> IF q \in DOMAIN d THEN d[q] ELSE {}]
      /\ qvar_index = [q \in Qvars |-> 0]
      /\ qvar_counter = 0
      /\ tuples = {<<>>}
      /\ valid_state = TRUE
      /\ reply = NoReply
  BY DEF Cluster!InitWith
<1>3. Cluster!Linked = {} /\ Cluster!Unlinked = DOMAIN d
  BY <1>1, <1>2 DEF Cluster!Linked, Cluster!Unlinked
<1>4. \A q \in DOMAIN d : single_values[q] = d[q]
  BY <1>1, <1>2
<1>5. ClusterOK
  <2>1. <<>> \in ConditionTuples(0)
    BY DEF ConditionTuples
  <2>2. single_values \in [Qvars -> SUBSET Conds]
    BY <1>1, <1>2
  <2>3. qvar_type \in [Qvars -> {"none", "unlinked", "linked"}] /\ qvar_index \in [Qvars -> Nat]
    BY <1>2
  <2>4. QED  BY <1>2, <1>3, <2>1, <2>2, <2>3 DEF ClusterOK
<1>6. {q \in Qvars : Cluster!is_initialized(q)} = DOMAIN d
  BY <1>3, <1>5, UsedIs DEF Used
<1>7. Cluster!Solutions = {s \in [Qvars -> Conds] : \A q \in DOMAIN d : s[q] \in d[q]}
  BY <1>2, <1>3, <1>4, SolutionsAre DEF Matches, Allowed
<1>8. Cluster!is_valid_state = TRUE
  BY <1>2 DEF Cluster!is_valid_state
<1>9. QED  BY <1>2, <1>5, <1>6, <1>7, <1>8

LEMMA ClusterStarts == Cluster!Init => ClusterOK /\ Cluster!Store!Init
<1> SUFFICES ASSUME Cluster!Init PROVE ClusterOK /\ Cluster!Store!Init
  OBVIOUS
<1>1. PICK d \in Domains : Cluster!InitWith(d)
  BY DEF Cluster!Init
<1>2. TableOK(d)
  BY LinkerAssumption DEF LinkerAssumption, TableOK
<1>3. QED
  BY <1>1, <1>2, ClusterStartsWith DEF Cluster!Store!Init, Cluster!Store!Assignments

(* Every request is the store's.                                           *)
StoreStep ==
    \/ Cluster!Store!UpdateResults \/ Cluster!Store!UpdateLinks \/ Cluster!Store!GetConditions
    \/ Cluster!Store!InvalidateState \/ Cluster!Store!MakeTuples

LEMMA ResultsStep ==
    ASSUME ClusterOK, NEW q \in Qvars, NEW new \in SUBSET Conds, Cluster!UpdateResults(q, new)
    PROVE  ClusterOK' /\ Cluster!Store!UpdateResults
<1>1. ClusterOK'
  BY ResultsTyped
<1>2. Cluster!Solutions' = {s \in Cluster!Solutions :
                               s[q] \in new /\ Cluster!Store!WithinGlobal(s, {q})}
  BY ResultsSolutions
<1>3. /\ qvar_counter' = qvar_counter /\ valid_state' = valid_state /\ reply' = NoReply
      /\ tuples' \in SUBSET tuples
  BY DEF Cluster!UpdateResults, Cluster!update_qvar
<1>4. Used' = Used \cup {q}
  <2>1. /\ Cluster!Linked' = Cluster!Linked
        /\ Cluster!Unlinked' = Cluster!Unlinked \cup Fresh({q})
        /\ q \notin Cluster!Linked => q \in Cluster!Unlinked'
    BY ResultsTables
  <2>2. Fresh({q}) \subseteq {q}
    BY DEF Fresh
  <2>3. QED  BY <1>1, <2>1, <2>2, UsedIs, UsedAfter
<1>5. qvar_counter <= qvar_counter'
  BY <1>3 DEF ClusterOK
<1>6. Cluster!Store!Judge
  BY <1>1, <1>3, <1>5, Judged
<1>7. QED  BY <1>1, <1>2, <1>3, <1>4, <1>6 DEF Cluster!Store!UpdateResults, Used

LEMMA GetStep ==
    ASSUME ClusterOK, NEW q \in Qvars, Cluster!GetConditions(q)
    PROVE  ClusterOK' /\ Cluster!Store!GetConditions
<1>1. /\ ClusterOK'
      /\ Cluster!Linked' = Cluster!Linked
      /\ Cluster!Unlinked' = Cluster!Unlinked \cup Fresh({q})
  BY GetTyped
<1>2. Cluster!Solutions' = {s \in Cluster!Solutions : Cluster!Store!WithinGlobal(s, {q})}
  BY GetSolutions
<1>3. /\ ~ Cluster!is_initialized(q)
      /\ reply' = NoReply
      /\ UNCHANGED <<qvar_counter, tuples, valid_state>>
  BY DEF Cluster!GetConditions
<1>4. Fresh({q}) = {q}
  BY <1>3 DEF Fresh
<1>5. Used' = Used \cup {q}
  BY <1>1, <1>4, UsedIs, UsedAfter
<1>6. qvar_counter <= qvar_counter'
  BY <1>3 DEF ClusterOK
<1>7. Cluster!Store!Judge
  BY <1>1, <1>3, <1>6, Judged
<1>8. QED  BY <1>1, <1>2, <1>3, <1>5, <1>7 DEF Cluster!Store!GetConditions, Used

LEMMA InvalidStep ==
    ASSUME ClusterOK, Cluster!InvalidateState
    PROVE  ClusterOK' /\ Cluster!Solutions' = {} /\ Cluster!Store!InvalidateState
<1>1. /\ valid_state' = FALSE /\ reply' = NoReply
      /\ UNCHANGED <<qvar_type, single_values, qvar_index, qvar_counter, tuples>>
  BY DEF Cluster!InvalidateState
<1>2. ClusterOK'
  BY <1>1 DEF ClusterOK, Cluster!Linked
<1>3. Cluster!Solutions' = {}
  BY <1>1, SolutionsAfter
<1>4. Used' = Used
  BY <1>1 DEF Used, Cluster!is_initialized
<1>5. Cluster!is_valid_state' = FALSE
  BY <1>1 DEF Cluster!is_valid_state
<1>6. QED  BY <1>1, <1>2, <1>3, <1>4, <1>5 DEF Cluster!Store!InvalidateState, Used

LEMMA ClusterSteps ==
    ASSUME ClusterOK, Cluster!Next
    PROVE  ClusterOK' /\ StoreStep
<1>1. CASE \E q \in Qvars : \E new \in SUBSET Conds : Cluster!UpdateResults(q, new)
  BY <1>1, ResultsStep DEF StoreStep
<1>2. CASE \E q \in Qvars : Cluster!GetConditions(q)
  BY <1>2, GetStep DEF StoreStep
<1>3. ASSUME NEW j \in Joinable, NEW rel \in Related, Cluster!UpdateLinks(j[1], j[2], rel)
      PROVE  ClusterOK' /\ Cluster!Store!UpdateLinks
  <2>1. /\ j[1] \in Qvars /\ j[2] \in Qvars /\ j[1] # j[2]
        /\ rel \in SUBSET (Conds \X Conds)
    BY LinkerAssumption, BuildsAssumption DEF LinkerAssumption, BuildsAssumption
  <2>2. /\ ClusterOK'
        /\ Cluster!Solutions' = {s \in Cluster!Solutions :
                                    /\ <<s[j[1]], s[j[2]]>> \in rel
                                    /\ Cluster!Store!WithinGlobal(s, {j[1], j[2]})}
        /\ Used' = Used \cup {j[1], j[2]}
        /\ qvar_counter <= qvar_counter'
        /\ tuples = {} => tuples' = {}
        /\ valid_state' = valid_state
    BY <1>3, <2>1, LinksStep
  <2>3. reply' = NoReply
    BY <1>3 DEF Cluster!UpdateLinks
  <2>4. Cluster!Store!Judge
    BY <2>2, Judged
  <2>5. QED  BY <2>2, <2>3, <2>4 DEF Cluster!Store!UpdateLinks, Used
<1>4. CASE Cluster!InvalidateState
  BY <1>4, InvalidStep DEF StoreStep
<1>5. ASSUME NEW qs \in Asked, Cluster!MakeTuples(qs)
      PROVE  ClusterOK' /\ Cluster!Store!MakeTuples
  <2>1. qs \in Seq(Qvars)
    BY TuplesAssumption, BuildsAssumption DEF TuplesAssumption, BuildsAssumption
  <2>2. ClusterOK'
    BY <1>5, <2>1, SelectTyped
  <2>3. Cluster!Solutions' = {s \in Cluster!Solutions : Cluster!Store!WithinGlobal(s, Sel(qs))}
    BY <1>5, <2>1, SelectSolutions
  <2>4. Cluster!Solutions' # {} => reply' = Cluster!Store!Project(Cluster!Solutions', qs)
    BY <1>5, <2>1, SelectReply
  <2>5. /\ Used' = Used \cup Sel(qs)
        /\ Cluster!Store!Judge
    BY <1>5, <2>1, <2>2, SelectStep, Judged
  <2>6. QED  BY <2>2, <2>3, <2>4, <2>5 DEF Cluster!Store!MakeTuples, Used, Sel
<1>6. QED  BY <1>1, <1>2, <1>3, <1>4, <1>5 DEF Cluster!Next, StoreStep

LEMMA ClusterStutters ==
    ASSUME ClusterOK, UNCHANGED clusterVars
    PROVE  ClusterOK' /\ UNCHANGED Cluster!Store!storeVars
<1>1. UNCHANGED <<qvar_type, single_values, qvar_index, qvar_counter, tuples, valid_state, reply>>
  BY DEF clusterVars
<1>2. Cluster!Linked' = Cluster!Linked /\ Cluster!Unlinked' = Cluster!Unlinked
  BY <1>1 DEF Cluster!Linked, Cluster!Unlinked
<1>3. ClusterOK'
  BY <1>1, <1>2 DEF ClusterOK
<1>4. Cluster!Solutions' = Cluster!Solutions
  <2>1. \A s : Allowed(s)' <=> Allowed(s)
    BY <1>1, <1>2 DEF Allowed
  <2>2. \A s, t : Matches(s, t)' <=> Matches(s, t)
    BY <1>1, <1>2, SameColumns
  <2>3. \A s : s \in Cluster!Solutions' <=> s \in Cluster!Solutions
    BY <1>1, <2>1, <2>2, SolutionsAre, SolutionsAfter
  <2>4. QED  BY <2>3
<1>5. Used' = Used
  BY <1>1 DEF Used, Cluster!is_initialized
<1>6. Cluster!is_valid_state' = Cluster!is_valid_state
  BY <1>1 DEF Cluster!is_valid_state
<1>7. QED  BY <1>1, <1>3, <1>4, <1>5, <1>6 DEF Cluster!Store!storeVars, Used

(* The class of linker-cluster.cpp keeps exactly the solutions of the      *)
(* requests it was sent, and its make_tuples lists exactly their           *)
(* projections, in whatever order the requests link the variables and      *)
(* however often a selection names a variable.                             *)
THEOREM ClusterImplementsStore == Cluster!Spec => ImplementsStore
<1>1. Cluster!Init => ClusterOK /\ Cluster!Store!Init
  BY ClusterStarts
<1>2. ClusterOK /\ [Cluster!Next]_clusterVars
         => ClusterOK' /\ [Cluster!Store!Next]_(Cluster!Store!storeVars)
  <2>1. ASSUME ClusterOK, Cluster!Next PROVE ClusterOK' /\ StoreStep
    BY <2>1, ClusterSteps
  <2>2. ASSUME ClusterOK, UNCHANGED clusterVars
        PROVE  ClusterOK' /\ UNCHANGED Cluster!Store!storeVars
    BY <2>2, ClusterStutters
  <2>3. StoreStep => [Cluster!Store!Next]_(Cluster!Store!storeVars)
    BY DEF StoreStep, Cluster!Store!Next
  <2>4. QED  BY <2>1, <2>2, <2>3
<1>3. QED  BY <1>1, <1>2, PTL DEF Cluster!Spec, Cluster!clusterVars, clusterVars, ImplementsStore, Cluster!Store!Spec
(* A build has one of the two classes and leaves the tables of the other   *)
(* alone: each behaves as it does by itself, so all that is proved of      *)
(* either holds in a build.                                                *)
THEOREM BuildsAreTheirClasses == BuildSpec => Spec /\ Cluster!Spec
<1>1. BuildInit => Init /\ Cluster!Init
  BY DEF BuildInit
<1>2. [BuildNext]_buildVars => [Next]_linkerVars
  BY DEF BuildNext, Ask, buildVars
<1>3. [BuildNext]_buildVars => [Cluster!Next]_clusterVars
  BY DEF BuildNext, Ask, buildVars
<1>4. QED
  BY <1>1, <1>2, <1>3, PTL
     DEF BuildSpec, Spec, Cluster!Spec, Cluster!clusterVars, clusterVars

(* So whichever of linker.cpp and linker-cluster.cpp is compiled in, the   *)
(* linker keeps the contract of simple/linker.h that goes with it.         *)
THEOREM BuildsKeepTheirPromises == BuildSpec => ImplementsContract /\ ImplementsStore
BY BuildsAreTheirClasses, LinkerImplementsContract, ClusterImplementsStore

-----------------------------------------------------------------------------
(* What both classes keep.                                                 *)
BuildOK ==
    /\ build \in Builds
    /\ SolutionInv /\ InvalidMeansUnsatisfiable
    /\ ClusterOK

LEMMA EitherBuild == ASSUME BuildOK PROVE build = "graph" \/ build = "cluster"
BY BuildsAssumption DEF BuildOK

LEMMA EverythingGlobal == GlobalSet = Conds
BY QueriesAssumption

LEMMA RequestedIs ==
    /\ build = "graph" => Requested = solutions
    /\ build = "cluster" => Requested = Cluster!Solutions
BY DEF Requested

LEMMA RequestedAfter ==
    /\ build' = "graph" => Requested' = solutions'
    /\ build' = "cluster" => Requested' = Cluster!Solutions'
BY DEF Requested

LEMMA RequestedAssign == ASSUME BuildOK PROVE Requested \subseteq [Qvars -> Conds]
<1>1. CASE build = "graph"
  BY <1>1, RequestedIs DEF BuildOK, SolutionInv, TypeOK, Assignments
<1>2. CASE build = "cluster"
  BY <1>2, RequestedIs, SolutionsAre
<1>3. QED  BY <1>1, <1>2, EitherBuild

(* A variable the linker knows has typed candidates, and among them the    *)
(* condition of every solution.                                            *)
LEMMA CandidatesMeet ==
    ASSUME BuildOK, NEW q \in Known
    PROVE  /\ q \in Qvars
           /\ Candidates(q) \subseteq Conds
           /\ \A s \in Requested : s[q] \in Candidates(q)
<1>1. CASE build = "graph"
  BY <1>1 DEF BuildOK, SolutionInv, TypeOK, NoSolutionLost, Known, Candidates, Requested
<1>2. CASE build = "cluster"
  <2>1. q \in Qvars /\ qvar_type[q] \in {"unlinked", "linked"}
    BY <1>2 DEF Known, Cluster!is_initialized, BuildOK, ClusterOK
  <2>2. Candidates(q) = Cluster!get_conditions(q) /\ Requested = Cluster!Solutions
    BY <1>2 DEF Candidates, Requested
  <2>3. CASE qvar_type[q] = "unlinked"
    <3>1. Candidates(q) = single_values[q] /\ q \in Cluster!Unlinked
      BY <2>1, <2>2, <2>3 DEF Cluster!get_conditions, Cluster!Unlinked
    <3>2. single_values[q] \subseteq Conds
      BY <2>1 DEF BuildOK, ClusterOK
    <3>3. \A s \in Cluster!Solutions : s[q] \in single_values[q]
      BY <3>1, SolutionsAre DEF Allowed
    <3>4. QED  BY <2>1, <2>2, <3>1, <3>2, <3>3
  <2>4. CASE qvar_type[q] = "linked"
    <3>1. Candidates(q) = {Cluster!Column(t, q) : t \in tuples} /\ q \in Cluster!Linked
      BY <2>1, <2>2, <2>4 DEF Cluster!get_conditions, Cluster!Linked
    <3>2. \A t \in tuples : Cluster!Column(t, q) \in Conds
      BY <3>1, ColumnTyped DEF BuildOK
    <3>3. \A s \in Cluster!Solutions : \E t \in tuples : s[q] = Cluster!Column(t, q)
      BY <3>1, SolutionsAre DEF Matches
    <3>4. QED  BY <2>1, <2>2, <3>1, <3>2, <3>3
  <2>5. QED  BY <2>1, <2>3, <2>4
<1>3. QED  BY <1>1, <1>2, EitherBuild

(* A state found invalid has no solution.                                  *)
LEMMA InvalidIsEmpty == ASSUME BuildOK, ~IsValid PROVE Requested = {}
<1>1. CASE build = "graph"
  BY <1>1 DEF BuildOK, InvalidMeansUnsatisfiable, IsValid, Requested
<1>2. CASE build = "cluster"
  <2>1. ~valid_state \/ tuples = {}
    BY <1>2 DEF IsValid, Cluster!is_valid_state
  <2>2. QED  BY <1>2, <2>1, SolutionsAre, RequestedIs
<1>3. QED  BY <1>1, <1>2, EitherBuild

-----------------------------------------------------------------------------
(* Steps of one class leave the other as it is.                            *)
LEMMA GraphStays == ASSUME SolutionInv, InvalidMeansUnsatisfiable, UNCHANGED linkerVars
                    PROVE  SolutionInv' /\ InvalidMeansUnsatisfiable'
BY InvSteps

LEMMA ClusterStays == ASSUME ClusterOK, UNCHANGED clusterVars PROVE ClusterOK'
BY ClusterStutters

LEMMA StaysOK == ASSUME BuildOK, UNCHANGED buildVars PROVE BuildOK' /\ Requested' = Requested
<1>1. UNCHANGED <<build, linkerVars, clusterVars>>
  BY DEF buildVars
<1>2. BuildOK'
  BY <1>1, GraphStays, ClusterStays DEF BuildOK
<1>3. Cluster!Solutions' = Cluster!Solutions
  BY <1>1, ClusterStutters DEF BuildOK, Cluster!Store!storeVars
<1>4. solutions' = solutions
  BY <1>1 DEF linkerVars
<1>5. QED  BY <1>1, <1>2, <1>3, <1>4, EitherBuild, RequestedIs, RequestedAfter

(* What a call has to show of the class it goes to.                        *)
LEMMA GraphCall ==
    ASSUME BuildOK, build = "graph", build' = build, UNCHANGED clusterVars,
           SolutionInv', InvalidMeansUnsatisfiable', NEW S, solutions' = S
    PROVE  BuildOK' /\ Requested' = S
BY ClusterStays, RequestedAfter DEF BuildOK

LEMMA ClusterCall ==
    ASSUME BuildOK, build = "cluster", build' = build, UNCHANGED linkerVars,
           ClusterOK', NEW S, Cluster!Solutions' = S
    PROVE  BuildOK' /\ Requested' = S
BY GraphStays, RequestedAfter DEF BuildOK

LEMMA WithinAll ==
    ASSUME NEW s \in [Qvars -> Conds], NEW qs \in SUBSET Qvars
    PROVE  Cluster!Store!WithinGlobal(s, qs)
BY EverythingGlobal, WithinGlobalIs DEF Fresh

LEMMA ResultsCall ==
    ASSUME BuildOK, NEW q \in Qvars, NEW new \in SUBSET Conds, CallUpdateResults(q, new)
    PROVE  BuildOK' /\ Requested' = {s \in Requested : s[q] \in new}
<1>1. build' = build
  BY DEF CallUpdateResults, Ask
<1>2. CASE build = "graph"
  <2>1. UpdateResults(q, new) /\ UNCHANGED clusterVars
    BY <1>2 DEF CallUpdateResults, Ask
  <2>2. [Next]_linkerVars
    BY <2>1 DEF Next, Request
  <2>3. SolutionInv' /\ InvalidMeansUnsatisfiable'
    BY <2>2, InvSteps DEF BuildOK
  <2>4. solutions' = {s \in solutions : s[q] \in new}
    BY <2>1 DEF UpdateResults
  <2>5. QED  BY <1>1, <1>2, <2>1, <2>3, <2>4, GraphCall, RequestedIs
<1>3. CASE build = "cluster"
  <2>1. Cluster!UpdateResults(q, new) /\ UNCHANGED linkerVars
    BY <1>3 DEF CallUpdateResults, Ask
  <2>2. ClusterOK'
    BY <2>1, ResultsTyped DEF BuildOK
  <2>3. Cluster!Solutions' = {s \in Cluster!Solutions :
                                 s[q] \in new /\ Cluster!Store!WithinGlobal(s, {q})}
    BY <2>1, ResultsSolutions DEF BuildOK
  <2>4. \A s \in Cluster!Solutions : Cluster!Store!WithinGlobal(s, {q})
    BY SolutionsAre, WithinAll
  <2>5. Cluster!Solutions' = {s \in Cluster!Solutions : s[q] \in new}
    BY <2>3, <2>4
  <2>6. QED  BY <1>1, <1>3, <2>1, <2>2, <2>5, ClusterCall, RequestedIs
<1>4. QED  BY <1>2, <1>3, EitherBuild

LEMMA GetCall ==
    ASSUME BuildOK, NEW q \in Qvars, CallGetConditions(q)
    PROVE  BuildOK' /\ Requested' = Requested
<1>1. build' = build
  BY DEF CallGetConditions, Ask
<1>2. CASE build = "graph"
  <2>1. GetConditions(q) /\ UNCHANGED clusterVars
    BY <1>2 DEF CallGetConditions, Ask
  <2>2. [Next]_linkerVars
    BY <2>1 DEF Next, Request
  <2>3. SolutionInv' /\ InvalidMeansUnsatisfiable'
    BY <2>2, InvSteps DEF BuildOK
  <2>4. solutions' = {s \in solutions : s[q] \in GlobalSet}
    BY <2>1 DEF GetConditions
  <2>5. \A s \in solutions : s[q] \in GlobalSet
    BY EverythingGlobal DEF BuildOK, SolutionInv, TypeOK, Assignments
  <2>6. solutions' = solutions
    BY <2>4, <2>5
  <2>7. QED  BY <1>1, <1>2, <2>1, <2>3, <2>6, GraphCall, RequestedIs
<1>3. CASE build = "cluster"
  <2>1. Cluster!GetConditions(q) /\ UNCHANGED linkerVars
    BY <1>3 DEF CallGetConditions, Ask
  <2>2. ClusterOK'
    BY <2>1, GetTyped DEF BuildOK
  <2>3. Cluster!Solutions' = {s \in Cluster!Solutions : Cluster!Store!WithinGlobal(s, {q})}
    BY <2>1, GetSolutions DEF BuildOK
  <2>4. \A s \in Cluster!Solutions : Cluster!Store!WithinGlobal(s, {q})
    BY SolutionsAre, WithinAll
  <2>5. Cluster!Solutions' = Cluster!Solutions
    BY <2>3, <2>4
  <2>6. QED  BY <1>1, <1>3, <2>1, <2>2, <2>5, ClusterCall, RequestedIs
<1>4. QED  BY <1>2, <1>3, EitherBuild

LEMMA InvalidateCall ==
    ASSUME BuildOK, CallInvalidateState PROVE BuildOK' /\ Requested' = {}
<1>1. build' = build
  BY DEF CallInvalidateState, Ask
<1>2. CASE build = "graph"
  <2>1. InvalidateState /\ UNCHANGED clusterVars
    BY <1>2 DEF CallInvalidateState, Ask
  <2>2. [Next]_linkerVars
    BY <2>1 DEF Next, Request
  <2>3. SolutionInv' /\ InvalidMeansUnsatisfiable'
    BY <2>2, InvSteps DEF BuildOK
  <2>4. solutions' = {}
    BY <2>1 DEF InvalidateState
  <2>5. QED  BY <1>1, <1>2, <2>1, <2>3, <2>4, GraphCall
<1>3. CASE build = "cluster"
  <2>1. Cluster!InvalidateState /\ UNCHANGED linkerVars
    BY <1>3 DEF CallInvalidateState, Ask
  <2>2. ClusterOK' /\ Cluster!Solutions' = {}
    BY <2>1, InvalidStep DEF BuildOK
  <2>3. QED  BY <1>1, <1>3, <2>1, <2>2, ClusterCall
<1>4. QED  BY <1>2, <1>3, EitherBuild

LEMMA LinksCall ==
    ASSUME BuildOK, NEW q \in Qvars, NEW p \in Qvars, q # p,
           NEW rel \in SUBSET (Conds \X Conds), CallUpdateLinks(q, p, rel)
    PROVE  BuildOK' /\ Requested' = {s \in Requested : <<s[q], s[p]>> \in rel}
<1>1. build' = build
  BY DEF CallUpdateLinks, Ask
<1>2. CASE build = "graph"
  <2>1. UpdateLinks(q, p, rel) /\ UNCHANGED clusterVars
    BY <1>2 DEF CallUpdateLinks, Ask
  <2>2. SolutionInv /\ TypeOK
    BY DEF BuildOK, SolutionInv
  <2>3. TypeOK' /\ NoSolutionLost' /\ WorkHarmless'
    BY <2>1, <2>2, UpdateOldLinksType, UpdateNewLinksType, UpdateOldLinksSolutions,
       UpdateNewLinksSolutions DEF UpdateLinks
  <2>4. solutions' = Surviving(q, p, rel) /\ valid' = valid
    BY <2>1 DEF UpdateLinks, UpdateOldLinks, UpdateNewLinks
  <2>5. \A s \in solutions : \A r \in {q, p} : s[r] \in GlobalSet
    BY <2>2, EverythingGlobal DEF TypeOK, Assignments
  <2>6. solutions' = {s \in solutions : <<s[q], s[p]>> \in rel}
    BY <2>4, <2>5 DEF Surviving
  <2>7. SolutionInv' /\ InvalidMeansUnsatisfiable'
    BY <2>3, <2>4, <2>6 DEF SolutionInv, InvalidMeansUnsatisfiable, BuildOK
  <2>8. QED  BY <1>1, <1>2, <2>1, <2>6, <2>7, GraphCall, RequestedIs
<1>3. CASE build = "cluster"
  <2>1. Cluster!UpdateLinks(q, p, rel) /\ UNCHANGED linkerVars
    BY <1>3 DEF CallUpdateLinks, Ask
  <2>2. /\ ClusterOK'
        /\ Cluster!Solutions' = {s \in Cluster!Solutions :
                                    /\ <<s[q], s[p]>> \in rel
                                    /\ Cluster!Store!WithinGlobal(s, {q, p})}
    <3>1. ClusterOK
      BY DEF BuildOK
    <3>2. QED  BY <2>1, <3>1, LinksTyped, LinksSolutions
  <2>3. \A s \in Cluster!Solutions : Cluster!Store!WithinGlobal(s, {q, p})
    BY SolutionsAre, WithinAll
  <2>4. Cluster!Solutions' = {s \in Cluster!Solutions : <<s[q], s[p]>> \in rel}
    BY <2>2, <2>3
  <2>5. QED  BY <1>1, <1>3, <2>1, <2>2, <2>4, ClusterCall, RequestedIs
<1>4. QED  BY <1>2, <1>3, EitherBuild

LEMMA CascadeCall ==
    ASSUME BuildOK, RunCascade PROVE BuildOK' /\ Requested' = Requested
<1>1. build = "graph" /\ build' = build /\ Cascade /\ UNCHANGED clusterVars
  BY DEF RunCascade
<1>2. SolutionInv' /\ InvalidMeansUnsatisfiable'
  BY <1>1, InvSteps DEF BuildOK, Next
<1>3. solutions' = solutions
  BY <1>1, CascadeKeepsSolutions
<1>4. QED  BY <1>1, <1>2, <1>3, GraphCall, RequestedIs

LEMMA SelectCall ==
    ASSUME BuildOK, build = "cluster", build' = build, UNCHANGED linkerVars,
           NEW qs \in Seq(Qvars), Cluster!MakeTuples(qs)
    PROVE  /\ BuildOK' /\ Requested' = Requested
           /\ Requested # {} =>
                 reply' = {[i \in DOMAIN qs |-> s[qs[i]]] : s \in Requested}
<1>1. ClusterOK'
  BY SelectTyped DEF BuildOK
<1>2. Cluster!Solutions' = {s \in Cluster!Solutions : Cluster!Store!WithinGlobal(s, Sel(qs))}
  BY SelectSolutions DEF BuildOK
<1>3. \A s \in Cluster!Solutions : Cluster!Store!WithinGlobal(s, Sel(qs))
  <2>1. Sel(qs) \in SUBSET Qvars
    BY DEF Sel
  <2>2. QED  BY <2>1, SolutionsAre, WithinAll
<1>4. Cluster!Solutions' = Cluster!Solutions
  BY <1>2, <1>3
<1>5. BuildOK' /\ Requested' = Requested
  BY <1>1, <1>4, ClusterCall, RequestedIs
<1>6. ASSUME Requested # {}
      PROVE  reply' = {[i \in DOMAIN qs |-> s[qs[i]]] : s \in Requested}
  <2>1. Requested = Cluster!Solutions
    BY RequestedIs
  <2>2. Cluster!Solutions' # {}
    BY <1>4, <1>6, <2>1
  <2>3. reply' = Cluster!Store!Project(Cluster!Solutions', qs)
    BY <2>2, SelectReply DEF BuildOK
  <2>4. QED  BY <1>4, <2>1, <2>3 DEF Cluster!Store!Project
<1>7. QED  BY <1>5, <1>6
-----------------------------------------------------------------------------
(* Clauses.                                                                *)
LEMMA DenotesIs ==
    ASSUME NEW t, NEW s
    PROVE  /\ IsVar(t) => Denotes(t, s) = {s[t.q]}
           /\ IsGiven(t) => Denotes(t, s) = {t.c}
           /\ IsWildcard(t) => Denotes(t, s) = Conds
BY DEF Denotes, IsVar, IsGiven, IsWildcard

TermsOK(cl) == \A t \in {cl.left, cl.right} : IsVar(t) => t.q \in Qvars

(* A variable that a clause reads.                                         *)
LEMMA ReadKnown ==
    ASSUME NEW cl, Reads(cl) \subseteq Known, ~IsGiven(cl.left), ~IsGiven(cl.right)
    PROVE  /\ IsVar(cl.left) => cl.left.q \in Known
           /\ IsVar(cl.right) => cl.right.q \in Known
<1>1. ASSUME NEW t \in {cl.left, cl.right}, IsVar(t) PROVE t.q \in Known
  <2>1. t \in {u \in {cl.left, cl.right} : IsVar(u) /\ ~IsGiven(cl.left) /\ ~IsGiven(cl.right)}
    BY <1>1
  <2>2. t.q \in Reads(cl)
    BY <2>1 DEF Reads
  <2>3. QED  BY <2>2
<1>2. QED  BY <1>1

LEMMA Kinds ==
    ASSUME NEW t
    PROVE  /\ IsVar(t) => ~IsGiven(t) /\ ~IsWildcard(t)
           /\ IsWildcard(t) => ~IsGiven(t)
BY DEF IsVar, IsGiven, IsWildcard

(* solve_clause has done with a clause what the clause means.              *)
Means(cl) == BuildOK' /\ Requested' = {s \in Requested : Holds(cl, s)}

(* A clause whose truth no query variable decides.                         *)
LEMMA RequireMeans ==
    ASSUME BuildOK, NEW cl, NEW holds \in BOOLEAN, Require(holds),
           \A s \in Requested : Holds(cl, s) <=> holds
    PROVE  Means(cl)
<1>1. CASE holds
  <2>1. UNCHANGED buildVars
    BY <1>1 DEF Require
  <2>2. BuildOK' /\ Requested' = Requested
    BY <2>1, StaysOK
  <2>3. QED  BY <1>1, <2>2 DEF Means
<1>2. CASE ~holds
  <2>1. CallInvalidateState
    BY <1>2 DEF Require
  <2>2. BuildOK' /\ Requested' = {}
    BY <2>1, InvalidateCall
  <2>3. {s \in Requested : Holds(cl, s)} = {}
    BY <1>2
  <2>4. QED  BY <2>2, <2>3 DEF Means
<1>3. QED  BY <1>1, <1>2

LEMMA GivenGivenMeans ==
    ASSUME BuildOK, NEW cl, GivenGiven(cl) PROVE Means(cl)
<1>1. \A s : Holds(cl, s) <=> <<cl.left.c, cl.right.c>> \in cl.rel
  BY DenotesIs DEF Holds, GivenGiven
<1>2. PICK holds \in BOOLEAN : holds <=> <<cl.left.c, cl.right.c>> \in cl.rel
  OBVIOUS
<1>3. Require(holds)
  BY <1>2 DEF GivenGiven, Require
<1>4. QED  BY <1>1, <1>2, <1>3, RequireMeans

LEMMA WildcardWildcardMeans ==
    ASSUME BuildOK, NEW cl, WildcardWildcard(cl) PROVE Means(cl)
<1>1. \A s : Holds(cl, s) <=> \E c \in Conds : \E d \in Conds : <<c, d>> \in cl.rel
  BY DenotesIs DEF Holds, WildcardWildcard
<1>2. (\E d \in GlobalSet : SolveLeft(cl.rel, d) # {})
         <=> \E c \in Conds : \E d \in Conds : <<c, d>> \in cl.rel
  BY EverythingGlobal DEF SolveLeft
<1>3. QED  BY <1>1, <1>2, RequireMeans DEF WildcardWildcard

LEMMA GivenWildcardMeans ==
    ASSUME BuildOK, NEW cl, GivenWildcard(cl) PROVE Means(cl)
<1>1. CASE IsGiven(cl.left) /\ IsWildcard(cl.right) /\ Require(SolveRight(cl.rel, cl.left.c) # {})
  <2>1. \A s : Holds(cl, s) <=> \E d \in Conds : <<cl.left.c, d>> \in cl.rel
    BY <1>1, DenotesIs DEF Holds
  <2>2. SolveRight(cl.rel, cl.left.c) # {} <=> \E d \in Conds : <<cl.left.c, d>> \in cl.rel
    BY DEF SolveRight
  <2>3. QED  BY <1>1, <2>1, <2>2, RequireMeans
<1>2. CASE IsWildcard(cl.left) /\ IsGiven(cl.right) /\ Require(SolveLeft(cl.rel, cl.right.c) # {})
  <2>1. \A s : Holds(cl, s) <=> \E c \in Conds : <<c, cl.right.c>> \in cl.rel
    BY <1>2, DenotesIs DEF Holds
  <2>2. SolveLeft(cl.rel, cl.right.c) # {} <=> \E c \in Conds : <<c, cl.right.c>> \in cl.rel
    BY DEF SolveLeft
  <2>3. QED  BY <1>2, <2>1, <2>2, RequireMeans
<1>3. QED  BY <1>1, <1>2 DEF GivenWildcard

(* A clause that cuts one variable down.                                   *)
LEMMA ResultsMean ==
    ASSUME BuildOK, NEW cl, NEW q \in Qvars, NEW new \in SUBSET Conds,
           CallUpdateResults(q, new), \A s \in Requested : Holds(cl, s) <=> s[q] \in new
    PROVE  Means(cl)
<1>1. BuildOK' /\ Requested' = {s \in Requested : s[q] \in new}
  BY ResultsCall
<1>2. QED  BY <1>1 DEF Means

LEMMA VariableGivenMeans ==
    ASSUME BuildOK, NEW cl, TermsOK(cl), VariableGiven(cl) PROVE Means(cl)
<1>1. \A s \in Requested : s \in [Qvars -> Conds]
  BY RequestedAssign
<1>2. CASE /\ IsVar(cl.left) /\ IsGiven(cl.right)
           /\ CallUpdateResults(cl.left.q, SolveLeft(cl.rel, cl.right.c))
  <2>1. PICK q \in Qvars : q = cl.left.q
    BY <1>2 DEF TermsOK
  <2>2. \A s : Holds(cl, s) <=> <<s[q], cl.right.c>> \in cl.rel
    BY <1>2, <2>1, DenotesIs DEF Holds
  <2>3. PICK new \in SUBSET Conds : new = SolveLeft(cl.rel, cl.right.c)
    BY DEF SolveLeft
  <2>4. \A s \in Requested : Holds(cl, s) <=> s[q] \in new
    BY <1>1, <2>2, <2>3 DEF SolveLeft
  <2>5. CallUpdateResults(q, new)
    BY <1>2, <2>1, <2>3
  <2>6. QED  BY <2>4, <2>5, ResultsMean
<1>3. CASE /\ IsGiven(cl.left) /\ IsVar(cl.right)
           /\ CallUpdateResults(cl.right.q, SolveRight(cl.rel, cl.left.c))
  <2>1. PICK q \in Qvars : q = cl.right.q
    BY <1>3 DEF TermsOK
  <2>2. \A s : Holds(cl, s) <=> <<cl.left.c, s[q]>> \in cl.rel
    <3>1. \A s : Denotes(cl.left, s) = {cl.left.c} /\ Denotes(cl.right, s) = {s[q]}
      BY <1>3, <2>1, DenotesIs
    <3>2. QED  BY <3>1 DEF Holds
  <2>3. PICK new \in SUBSET Conds : new = SolveRight(cl.rel, cl.left.c)
    BY DEF SolveRight
  <2>4. \A s \in Requested : Holds(cl, s) <=> s[q] \in new
    BY <1>1, <2>2, <2>3 DEF SolveRight
  <2>5. CallUpdateResults(q, new)
    BY <1>3, <2>1, <2>3
  <2>6. QED  BY <2>4, <2>5, ResultsMean
<1>4. QED  BY <1>2, <1>3 DEF VariableGiven

(* A clause that looks at the candidates of its variable first.            *)
LEMMA SameVariableMeans ==
    ASSUME BuildOK, NEW cl, Reads(cl) \subseteq Known, SameVariable(cl) PROVE Means(cl)
<1>1. PICK q : q = cl.left.q
  OBVIOUS
<1>2. IsVar(cl.left) /\ IsVar(cl.right) /\ cl.right.q = q
  BY <1>1 DEF SameVariable
<1>3. q \in Known
  BY <1>1, <1>2, Kinds, ReadKnown
<1>4. q \in Qvars /\ Candidates(q) \subseteq Conds /\ \A s \in Requested : s[q] \in Candidates(q)
  BY <1>3, CandidatesMeet
<1>5. PICK new \in SUBSET Conds : new = {c \in Candidates(q) : <<c, c>> \in cl.rel}
  BY <1>4
<1>6. \A s : Holds(cl, s) <=> <<s[q], s[q]>> \in cl.rel
  <2>1. \A s : Denotes(cl.left, s) = {s[q]} /\ Denotes(cl.right, s) = {s[q]}
    BY <1>1, <1>2, DenotesIs
  <2>2. QED  BY <2>1 DEF Holds
<1>7. CallUpdateResults(q, new)
  BY <1>1, <1>5 DEF SameVariable
<1>8. QED  BY <1>4, <1>5, <1>6, <1>7, ResultsMean

LEMMA VariableWildcardMeans ==
    ASSUME BuildOK, NEW cl, Reads(cl) \subseteq Known, VariableWildcard(cl) PROVE Means(cl)
<1>1. CASE /\ IsVar(cl.left) /\ IsWildcard(cl.right)
           /\ CallUpdateResults(cl.left.q,
                 {c \in Candidates(cl.left.q) : SolveRight(cl.rel, c) # {}})
  <2>1. PICK q : q = cl.left.q
    OBVIOUS
  <2>2. q \in Known
    BY <1>1, <2>1, Kinds, ReadKnown
  <2>3. q \in Qvars /\ Candidates(q) \subseteq Conds /\ \A s \in Requested : s[q] \in Candidates(q)
    BY <2>2, CandidatesMeet
  <2>4. PICK new \in SUBSET Conds : new = {c \in Candidates(q) : SolveRight(cl.rel, c) # {}}
    BY <2>3
  <2>5. \A s : Holds(cl, s) <=> SolveRight(cl.rel, s[q]) # {}
    BY <1>1, <2>1, DenotesIs DEF Holds, SolveRight
  <2>6. CallUpdateResults(q, new)
    BY <1>1, <2>1, <2>4
  <2>7. QED  BY <2>3, <2>4, <2>5, <2>6, ResultsMean
<1>2. CASE /\ IsWildcard(cl.left) /\ IsVar(cl.right)
           /\ CallUpdateResults(cl.right.q,
                 {d \in Candidates(cl.right.q) : SolveLeft(cl.rel, d) # {}})
  <2>1. PICK q : q = cl.right.q
    OBVIOUS
  <2>2. q \in Known
    BY <1>2, <2>1, Kinds, ReadKnown
  <2>3. q \in Qvars /\ Candidates(q) \subseteq Conds /\ \A s \in Requested : s[q] \in Candidates(q)
    BY <2>2, CandidatesMeet
  <2>4. PICK new \in SUBSET Conds : new = {d \in Candidates(q) : SolveLeft(cl.rel, d) # {}}
    BY <2>3
  <2>5. \A s : Holds(cl, s) <=> SolveLeft(cl.rel, s[q]) # {}
    BY <1>2, <2>1, DenotesIs DEF Holds, SolveLeft
  <2>6. CallUpdateResults(q, new)
    BY <1>2, <2>1, <2>4
  <2>7. QED  BY <2>3, <2>4, <2>5, <2>6, ResultsMean
<1>3. QED  BY <1>1, <1>2 DEF VariableWildcard

(* The pairs that solve_clause enumerates, from whichever side is smaller. *)
LEMMA PairsAre ==
    ASSUME NEW rel, NEW C \in SUBSET Conds, NEW D \in SUBSET Conds
    PROVE  /\ \A c, d : <<c, d>> \in UNION { {k} \X (SolveRight(rel, k) \cap D) : k \in C }
                           <=> c \in C /\ d \in D /\ <<c, d>> \in rel
           /\ \A c, d : <<c, d>> \in UNION { (SolveLeft(rel, k) \cap C) \X {k} : k \in D }
                           <=> c \in C /\ d \in D /\ <<c, d>> \in rel
           /\ UNION { {k} \X (SolveRight(rel, k) \cap D) : k \in C } \subseteq Conds \X Conds
           /\ UNION { (SolveLeft(rel, k) \cap C) \X {k} : k \in D } \subseteq Conds \X Conds
<1> DEFINE ByLeft  == UNION { {k} \X (SolveRight(rel, k) \cap D) : k \in C }
           ByRight == UNION { (SolveLeft(rel, k) \cap C) \X {k} : k \in D }
<1>1. \A c, d : <<c, d>> \in ByLeft <=> c \in C /\ d \in D /\ <<c, d>> \in rel
  <2>1. TAKE c, d
  <2>2. <<c, d>> \in ByLeft <=> \E k \in C : k = c /\ d \in SolveRight(rel, k) \cap D
    OBVIOUS
  <2>3. QED  BY <2>2 DEF SolveRight
<1>2. \A c, d : <<c, d>> \in ByRight <=> c \in C /\ d \in D /\ <<c, d>> \in rel
  <2>1. TAKE c, d
  <2>2. <<c, d>> \in ByRight <=> \E k \in D : k = d /\ c \in SolveLeft(rel, k) \cap C
    OBVIOUS
  <2>3. QED  BY <2>2 DEF SolveLeft
<1>3. ASSUME NEW l \in ByLeft PROVE l \in Conds \X Conds
  <2>1. PICK k \in C : l \in {k} \X (SolveRight(rel, k) \cap D)
    OBVIOUS
  <2>2. QED  BY <2>1
<1>4. ASSUME NEW l \in ByRight PROVE l \in Conds \X Conds
  <2>1. PICK k \in D : l \in (SolveLeft(rel, k) \cap C) \X {k}
    OBVIOUS
  <2>2. QED  BY <2>1
<1>5. QED  BY <1>1, <1>2, <1>3, <1>4

LEMMA TwoVariablesMeans ==
    ASSUME BuildOK, NEW cl, Reads(cl) \subseteq Known, TwoVariables(cl) PROVE Means(cl)
<1>1. PICK q, p : q = cl.left.q /\ p = cl.right.q
  OBVIOUS
<1>2. PICK C, D : C = Candidates(q) /\ D = Candidates(p)
  OBVIOUS
<1>3. PICK links :
         /\ links = IF Cardinality(C) <= Cardinality(D)
                    THEN UNION { {c} \X (SolveRight(cl.rel, c) \cap D) : c \in C }
                    ELSE UNION { (SolveLeft(cl.rel, d) \cap C) \X {d} : d \in D }
         /\ CallUpdateLinks(q, p, links)
  BY <1>1, <1>2 DEF TwoVariables
<1>4. IsVar(cl.left) /\ IsVar(cl.right) /\ q # p
  BY <1>1 DEF TwoVariables
<1>5. q \in Known /\ p \in Known
  BY <1>1, <1>4, Kinds, ReadKnown
<1>6. /\ q \in Qvars /\ p \in Qvars /\ C \subseteq Conds /\ D \subseteq Conds
      /\ \A s \in Requested : s[q] \in C /\ s[p] \in D
  BY <1>2, <1>5, CandidatesMeet
<1>7. /\ \A c, d : <<c, d>> \in links <=> c \in C /\ d \in D /\ <<c, d>> \in cl.rel
      /\ links \in SUBSET (Conds \X Conds)
  BY <1>3, <1>6, PairsAre
<1>8. BuildOK' /\ Requested' = {s \in Requested : <<s[q], s[p]>> \in links}
  BY <1>3, <1>4, <1>6, <1>7, LinksCall
<1>9. \A s : Holds(cl, s) <=> <<s[q], s[p]>> \in cl.rel
  BY <1>1, <1>4, DenotesIs DEF Holds
<1>10. \A s \in Requested : Holds(cl, s) <=> <<s[q], s[p]>> \in links
  BY <1>6, <1>7, <1>9
<1>11. QED  BY <1>8, <1>10 DEF Means

LEMMA ClauseMeans ==
    ASSUME BuildOK, NEW cl, TermsOK(cl), SolveClause(cl) PROVE Means(cl)
BY GivenGivenMeans, SameVariableMeans, TwoVariablesMeans, WildcardWildcardMeans,
   VariableGivenMeans, VariableWildcardMeans, GivenWildcardMeans DEF SolveClause
-----------------------------------------------------------------------------
(* The evaluation of a query.                                              *)
Solved == query.clauses \ pending

QueryInv ==
    /\ BuildOK
    /\ query \in Queries
    /\ pending \subseteq query.clauses
    /\ RequestsMeanClauses
    /\ answer # None => pending = {}

LEMMA QueryTyped ==
    ASSUME query \in Queries
    PROVE  /\ TableOK(query.domains)
           /\ \A cl \in query.clauses : TermsOK(cl)
           /\ query.select.kind \in {"boolean", "variable", "tuple"}
           /\ query.select.kind = "variable" => query.select.q \in Qvars
           /\ query.select.kind = "tuple" => query.select.qs \in Seq(Qvars) \ {<<>>}
BY QueriesAssumption DEF TableOK, TermsOK

LEMMA SelectedTyped == ASSUME query \in Queries PROVE Selected(query.select) \subseteq Qvars
<1>1. PICK sel : sel = query.select
  OBVIOUS
<1>2. CASE sel.kind = "boolean"
  BY <1>1, <1>2 DEF Selected
<1>3. CASE sel.kind = "variable"
  <2>1. Selected(sel) = {sel.q}
    BY <1>3 DEF Selected
  <2>2. QED  BY <1>1, <1>3, <2>1, QueryTyped
<1>4. CASE sel.kind = "tuple"
  <2>1. Selected(sel) = {sel.qs[i] : i \in DOMAIN sel.qs}
    BY <1>4 DEF Selected
  <2>2. sel.qs \in Seq(Qvars)
    BY <1>1, <1>4, QueryTyped
  <2>3. PICK qs \in Seq(Qvars) : qs = sel.qs
    BY <2>2
  <2>4. {qs[i] : i \in DOMAIN qs} \subseteq Qvars
    OBVIOUS
  <2>5. QED  BY <1>1, <2>1, <2>3, <2>4
<1>5. QED  BY <1>1, <1>2, <1>3, <1>4, QueryTyped

LEMMA QueryStarts == ASSUME QueryInit PROVE QueryInv
<1>1. /\ query \in Queries /\ pending = query.clauses /\ answer = None
      /\ build \in Builds /\ InitWith(query.domains) /\ Cluster!InitWith(query.domains)
  BY DEF QueryInit
<1>2. TableOK(query.domains)
  BY <1>1, QueryTyped
<1>3. PICK d : d = query.domains
  OBVIOUS
<1>4. /\ TableOK(d) /\ InitWith(d) /\ Cluster!InitWith(d)
  BY <1>1, <1>2, <1>3
<1>5. /\ ClusterOK
      /\ Cluster!Solutions = {s \in [Qvars -> Conds] : \A q \in DOMAIN d : s[q] \in d[q]}
  BY <1>4, ClusterStartsWith
<1>6. SolutionInv /\ InvalidMeansUnsatisfiable
  BY <1>4, StartSolutions
<1>7. BuildOK
  BY <1>1, <1>5, <1>6 DEF BuildOK
<1>8. solutions = {s \in [Qvars -> Conds] : \A q \in DOMAIN d : s[q] \in d[q]}
  <2>1. \A q \in DOMAIN d : values[q] = d[q]
    BY <1>4 DEF InitWith, TableOK
  <2>2. initialized = DOMAIN d /\
        solutions = {s \in Assignments : \A q \in initialized : s[q] \in values[q]}
    BY <1>4 DEF InitWith
  <2>3. QED  BY <2>1, <2>2 DEF Assignments
<1>9. Requested = {s \in [Qvars -> Conds] : \A q \in DOMAIN d : s[q] \in d[q]}
  BY <1>5, <1>7, <1>8, EitherBuild, RequestedIs
<1>10. Satisfying({}) = {s \in [Qvars -> Conds] : \A q \in DOMAIN d : s[q] \in d[q]}
  BY <1>3 DEF Satisfying, Assignments
<1>11. query.clauses \ pending = {}
  BY <1>1
<1>12. RequestsMeanClauses
  BY <1>9, <1>10, <1>11 DEF RequestsMeanClauses
<1>13. QED  BY <1>1, <1>7, <1>12 DEF QueryInv

(* What one more clause takes from the assignments that satisfy others.    *)
LEMMA OneMoreClause ==
    ASSUME NEW clauses, NEW cl
    PROVE  Satisfying(clauses \cup {cl}) = {s \in Satisfying(clauses) : Holds(cl, s)}
BY DEF Satisfying

LEMMA SatisfyingAfter ==
    ASSUME query' = query PROVE \A clauses : Satisfying(clauses)' = Satisfying(clauses)
BY DEF Satisfying

LEMMA SolveKeeps ==
    ASSUME QueryInv, NEW cl \in pending, SolveClause(cl) PROVE QueryInv'
<1>1. /\ pending' = pending \ {cl} /\ query' = query /\ answer' = answer
  BY DEF SolveClause
<1>2. TermsOK(cl)
  BY QueryTyped DEF QueryInv
<1>3. BuildOK' /\ Requested' = {s \in Requested : Holds(cl, s)}
  BY <1>2, ClauseMeans DEF QueryInv, Means
<1>4. (query.clauses \ pending)' = (query.clauses \ pending) \cup {cl}
  BY <1>1 DEF QueryInv
<1>5. Requested' = Satisfying((query.clauses \ pending) \cup {cl})
  BY <1>3, OneMoreClause DEF QueryInv, RequestsMeanClauses
<1>6. PICK done : done = (query.clauses \ pending) \cup {cl}
  OBVIOUS
<1>7. Satisfying(done)' = Satisfying(done)
  BY <1>1, SatisfyingAfter
<1>8. RequestsMeanClauses'
  BY <1>4, <1>5, <1>6, <1>7 DEF RequestsMeanClauses
<1>9. QED  BY <1>1, <1>3, <1>8 DEF QueryInv

(* Every other step leaves the requests as they are.                       *)
LEMMA OthersKeep ==
    ASSUME QueryInv, BuildOK', Requested' = Requested, query' = query, pending' = pending,
           answer' # None => pending = {}
    PROVE  QueryInv'
<1>1. PICK done : done = query.clauses \ pending
  OBVIOUS
<1>2. Satisfying(done)' = Satisfying(done)
  BY SatisfyingAfter
<1>3. RequestsMeanClauses'
  BY <1>1, <1>2 DEF QueryInv, RequestsMeanClauses
<1>4. QED  BY <1>3 DEF QueryInv

LEMMA FetchKeeps == ASSUME QueryInv, Fetch PROVE QueryInv'
<1>1. query' = query /\ pending' = pending /\ answer' = answer /\ answer = None
  BY DEF Fetch, queryVars
<1>2. PICK q : /\ CallGetConditions(q)
               /\ (\E cl \in pending : q \in Reads(cl)) \/ q \in Selected(query.select)
  BY DEF Fetch
<1>3. q \in Qvars
  <2>1. CASE \E cl \in pending : q \in Reads(cl)
    BY <2>1, QueryTyped DEF QueryInv, Reads, TermsOK
  <2>2. CASE q \in Selected(query.select)
    BY <2>2, SelectedTyped DEF QueryInv
  <2>3. QED  BY <1>2, <2>1, <2>2
<1>4. BuildOK' /\ Requested' = Requested
  BY <1>2, <1>3, GetCall DEF QueryInv
<1>5. QED  BY <1>1, <1>4, OthersKeep
(* What format_result does to the linker, and what it reads there.         *)
LEMMA FormatStep ==
    ASSUME QueryInv, FormatResult
    PROVE  /\ pending = {} /\ query' = query /\ pending' = pending
           /\ build' = build /\ BuildOK' /\ Requested' = Requested
           /\ Requested = Satisfying(query.clauses)
           /\ \/ UNCHANGED buildVars
              \/ /\ build = "cluster" /\ query.select.kind = "tuple"
                 /\ Cluster!MakeTuples(query.select.qs)
<1>1. /\ pending = {} /\ query' = query /\ pending' = pending
  BY DEF FormatResult
<1>2. Requested = Satisfying(query.clauses)
  <2>1. query.clauses \ pending = query.clauses
    BY <1>1
  <2>2. QED  BY <2>1 DEF QueryInv, RequestsMeanClauses
<1>3. BuildOK
  BY DEF QueryInv
<1>4. CASE build = "cluster" /\ IsValid /\ query.select.kind = "tuple"
  <2>1. Cluster!MakeTuples(query.select.qs) /\ UNCHANGED <<build, linkerVars>>
    BY <1>4 DEF FormatResult
  <2>2. PICK qs \in Seq(Qvars) : qs = query.select.qs
    BY <1>4, QueryTyped DEF QueryInv
  <2>3. Cluster!MakeTuples(qs)
    BY <2>1, <2>2
  <2>4. BuildOK' /\ Requested' = Requested
    BY <1>3, <1>4, <2>1, <2>3, SelectCall
  <2>5. QED  BY <1>1, <1>2, <1>4, <2>1, <2>4
<1>5. CASE ~(build = "cluster" /\ IsValid /\ query.select.kind = "tuple")
  <2>1. UNCHANGED buildVars
    BY <1>5 DEF FormatResult
  <2>2. QED  BY <1>1, <1>2, <1>3, <2>1, StaysOK DEF buildVars
<1>6. QED  BY <1>4, <1>5

LEMMA RunLinkerKeeps == ASSUME QueryInv, RunLinker PROVE QueryInv'
<1>1. query' = query /\ pending' = pending /\ answer' = answer /\ RunCascade
  BY DEF RunLinker, queryVars
<1>2. BuildOK' /\ Requested' = Requested
  BY <1>1, CascadeCall DEF QueryInv
<1>3. QED  BY <1>1, <1>2, OthersKeep DEF QueryInv

LEMMA QueryStutters == ASSUME QueryInv, UNCHANGED vars PROVE QueryInv'
<1>1. query' = query /\ pending' = pending /\ answer' = answer /\ UNCHANGED buildVars
  BY DEF vars, queryVars
<1>2. BuildOK' /\ Requested' = Requested
  BY <1>1, StaysOK DEF QueryInv
<1>3. QED  BY <1>1, <1>2, OthersKeep DEF QueryInv

LEMMA QuerySteps == ASSUME QueryInv, [QueryNext]_vars PROVE QueryInv'
<1>1. CASE Fetch         BY <1>1, FetchKeeps
<1>2. CASE Solve         BY <1>2, SolveKeeps DEF Solve
<1>3. CASE RunLinker     BY <1>3, RunLinkerKeeps
<1>4. CASE FormatResult  BY <1>4, FormatStep, OthersKeep
<1>5. CASE UNCHANGED vars  BY <1>5, QueryStutters
<1>6. QED  BY <1>1, <1>2, <1>3, <1>4, <1>5 DEF QueryNext

LEMMA QueryInvHolds == QuerySpec => []QueryInv
<1>1. QueryInit => QueryInv
  BY QueryStarts
<1>2. QueryInv /\ [QueryNext]_vars => QueryInv'
  BY QuerySteps
<1>3. QED  BY <1>1, <1>2, PTL DEF QuerySpec

(* Each of the nine forms of solve_clause asks the linker for what its     *)
(* clause means, although it first cuts the clause down to the sets the    *)
(* linker has at that moment: whatever was removed before, in whatever     *)
(* order the clauses come and whichever class keeps the sets, the          *)
(* assignments still compatible with the requests are those that satisfy   *)
(* the clauses solved so far.                                              *)
THEOREM RequestsAreTheClauses == QuerySpec => []RequestsMeanClauses
<1>1. QueryInv => RequestsMeanClauses
  BY DEF QueryInv
<1>2. QED  BY <1>1, QueryInvHolds, PTL

-----------------------------------------------------------------------------
(* Answers.  Before format_result there is none, and it is the only step   *)
(* that gives one.                                                         *)
LEMMA OnlyFormatAnswers ==
    ASSUME [QueryNext]_vars PROVE query' = query /\ (answer' = answer \/ FormatResult)
BY DEF QueryNext, Fetch, Solve, SolveClause, RunLinker, FormatResult, queryVars, vars

LEMMA VariableAnswers ==
    ASSUME BuildOK, NEW q \in Known
    PROVE  {s[q] : s \in Requested} \subseteq Candidates(q)
BY CandidatesMeet

LEMMA FormatComplete ==
    ASSUME QueryInv, FormatResult, Requested # {}
    PROVE  Meant(query.select, Requested) \subseteq answer'
<1>1. PICK sel : sel = query.select
  OBVIOUS
<1>2. IsValid
  BY InvalidIsEmpty DEF QueryInv
<1>3. Selected(sel) \subseteq Known
  BY <1>1 DEF FormatResult
<1>4. CASE sel.kind = "boolean"
  <2>1. answer' = {"true"}
    BY <1>1, <1>2, <1>4 DEF FormatResult, Formatted
  <2>2. Meant(sel, Requested) = {"true"}
    BY <1>4 DEF Meant
  <2>3. QED  BY <1>1, <2>1, <2>2
<1>5. CASE sel.kind = "variable"
  <2>1. PICK q : q = sel.q
    OBVIOUS
  <2>2. answer' = IF sel.fits THEN Candidates(q) ELSE {}
    BY <1>1, <1>2, <1>5, <2>1 DEF FormatResult, Formatted
  <2>3. Meant(sel, Requested) = IF sel.fits THEN {s[q] : s \in Requested} ELSE {}
    BY <1>5, <2>1 DEF Meant
  <2>4. q \in Known
    BY <1>3, <1>5, <2>1 DEF Selected
  <2>5. {s[q] : s \in Requested} \subseteq Candidates(q)
    BY <2>4, VariableAnswers DEF QueryInv
  <2>6. QED  BY <1>1, <2>2, <2>3, <2>5
<1>6. CASE sel.kind = "tuple"
  <2>1. PICK qs \in Seq(Qvars) : qs = sel.qs /\ qs # <<>>
    BY <1>1, <1>6, QueryTyped DEF QueryInv
  <2>2. \A i \in DOMAIN qs : qs[i] \in Known
    BY <1>3, <1>6, <2>1 DEF Selected
  <2>3. Meant(sel, Requested) = {[i \in DOMAIN qs |-> s[qs[i]]] : s \in Requested}
    BY <1>6, <2>1 DEF Meant
  <2>4. CASE build = "graph"
    <3>1. answer' = MakeTuples(qs)
      BY <1>1, <1>2, <1>6, <2>1, <2>4 DEF FormatResult, Formatted
    <3>2. Requested = solutions /\ \A i \in DOMAIN qs : qs[i] \in initialized
      BY <2>2, <2>4 DEF Requested, Known
    <3>3. \A s \in solutions : [i \in DOMAIN qs |-> s[qs[i]]] \in MakeTuples(qs)
      BY <2>1, <3>2, TupleHolds DEF QueryInv, BuildOK, SolutionInv
    <3>4. QED  BY <1>1, <2>3, <3>1, <3>2, <3>3
  <2>5. CASE build = "cluster"
    <3>1. /\ Cluster!MakeTuples(qs) /\ UNCHANGED <<build, linkerVars>>
          /\ answer' = reply'
      BY <1>1, <1>2, <1>6, <2>1, <2>5 DEF FormatResult, Formatted
    <3>2. reply' = {[i \in DOMAIN qs |-> s[qs[i]]] : s \in Requested}
      BY <2>5, <3>1, SelectCall DEF QueryInv
    <3>3. QED  BY <1>1, <2>3, <3>1, <3>2
  <2>6. QED  BY <2>4, <2>5, EitherBuild DEF QueryInv
<1>7. QED  BY <1>1, <1>4, <1>5, <1>6, QueryTyped DEF QueryInv

(* A reply contains every right answer of the query, and a query that has  *)
(* a solution is never answered "false": for every program and query,      *)
(* cyclic ones included, and in both builds.                               *)
THEOREM AnswersMissNothing == QuerySpec => []AnswerComplete
<1>1. QueryInit => AnswerComplete
  BY DEF QueryInit, AnswerComplete
<1>2. ASSUME QueryInv, AnswerComplete, [QueryNext]_vars PROVE AnswerComplete'
  <2>1. query' = query /\ (answer' = answer \/ FormatResult)
    BY <1>2, OnlyFormatAnswers
  <2>2. PICK clauses : clauses = query.clauses
    OBVIOUS
  <2>3. PICK sols : sols = Satisfying(clauses)
    OBVIOUS
  <2>4. Satisfying(clauses)' = sols
    BY <2>1, <2>3, SatisfyingAfter
  <2>5. (sols # {} /\ answer' # None) => Meant(query.select, sols) \subseteq answer'
    <3>1. CASE answer' = answer
      BY <1>2, <2>2, <2>3, <3>1 DEF AnswerComplete
    <3>2. CASE FormatResult
      <4>1. Requested = sols
        BY <1>2, <2>2, <2>3, <3>2, FormatStep
      <4>2. QED  BY <1>2, <3>2, <4>1, FormatComplete
    <3>3. QED  BY <2>1, <3>1, <3>2
  <2>6. QED  BY <2>1, <2>2, <2>4, <2>5 DEF AnswerComplete
<1>3. QED  BY <1>1, <1>2, QueryInvHolds, PTL DEF QuerySpec
-----------------------------------------------------------------------------
(* Exact answers of the cluster build.  A cluster without columns has its  *)
(* one empty tuple, so that a valid state whose unlinked variables have    *)
(* conditions has a solution; and each candidate belongs to one.           *)
SomeTuple == qvar_counter = 0 => tuples # {}

LEMMA NoColumns == ASSUME ClusterOK, qvar_counter = 0 PROVE Cluster!Linked = {}
<1>1. ASSUME NEW q \in Cluster!Linked PROVE FALSE
  <2>1. qvar_index[q] \in Nat /\ qvar_index[q] < 0
    BY DEF ClusterOK, Cluster!Linked
  <2>2. QED  BY <2>1
<1>2. QED  BY <1>1

LEMMA ResultsSomeTuple ==
    ASSUME ClusterOK, SomeTuple, NEW q, NEW new, Cluster!UpdateResults(q, new)
    PROVE  SomeTuple'
BY NoColumns DEF Cluster!UpdateResults, SomeTuple

LEMMA LinksSomeTuple ==
    ASSUME ClusterOK, SomeTuple, NEW q, NEW p, NEW rel, Cluster!UpdateLinks(q, p, rel)
    PROVE  SomeTuple'
<1>1. qvar_counter \in Nat
  BY DEF ClusterOK
<1>2. CASE \E a, b, r : Cluster!LinkNewPair(a, b, r)
  <2>1. qvar_counter' = qvar_counter + 2
    BY <1>2 DEF Cluster!LinkNewPair
  <2>2. QED  BY <1>1, <2>1 DEF SomeTuple
<1>3. CASE \E a, b, r : Cluster!LinkToColumn(a, b, r)
  <2>1. qvar_counter' = qvar_counter + 1
    BY <1>3 DEF Cluster!LinkToColumn
  <2>2. QED  BY <1>1, <2>1 DEF SomeTuple
<1>4. CASE Cluster!LinkColumns(q, p, rel)
  <2>1. q \in Cluster!Linked /\ qvar_counter' = qvar_counter
    BY <1>4 DEF Cluster!LinkColumns
  <2>2. QED  BY <2>1, NoColumns DEF SomeTuple
<1>5. QED  BY <1>2, <1>3, <1>4 DEF Cluster!UpdateLinks

LEMMA SelectSomeTuple ==
    ASSUME ClusterOK, SomeTuple, NEW qs \in Seq(Qvars), Cluster!MakeTuples(qs)
    PROVE  SomeTuple'
<1>1. SUFFICES ASSUME qvar_counter' = 0 PROVE tuples' # {}
  BY DEF SomeTuple
<1>2. qvar_counter = 0 /\ Width(qs) = 0
  <2>1. qvar_counter \in Nat /\ Width(qs) \in Nat /\ qvar_counter' = qvar_counter + Width(qs)
    BY SelectIndex DEF ClusterOK
  <2>2. QED  BY <1>1, <2>1
<1>3. PICK t \in tuples : TRUE
  BY <1>2 DEF SomeTuple
<1>4. \A i \in Cluster!Added(qs) : FALSE
  <2>1. \A i \in Cluster!Added(qs) :
           Cluster!Older(qs, i) \in Nat /\ Cluster!Older(qs, i) < Width(qs)
    BY NewPositions DEF Width
  <2>2. QED  BY <1>2, <2>1
<1>5. \E f : f \in ConditionTuples(Width(qs))
  <2>1. PICK c : c \in Conds
    BY QueriesAssumption
  <2>2. [i \in 1 .. Width(qs) |-> c] \in ConditionTuples(Width(qs))
    BY <2>1 DEF ConditionTuples
  <2>3. QED  BY <2>2
<1>6. PICK f \in ConditionTuples(Width(qs)) : TRUE
  BY <1>5
<1>7. FitsFront(f, qs, single_values')
  BY <1>4 DEF FitsFront
<1>8. Joined(f, t) \in tuples'
  BY <1>3, <1>6, <1>7, SelectTuples
<1>9. QED  BY <1>8

(* A clause makes at most one request.                                     *)
LEMMA ClauseCalls ==
    ASSUME NEW cl, SolveClause(cl)
    PROVE  \/ \E q, new : CallUpdateResults(q, new)
           \/ \E q, p, rel : CallUpdateLinks(q, p, rel)
           \/ CallInvalidateState
           \/ UNCHANGED buildVars
<1>1. CASE GivenGiven(cl) \/ WildcardWildcard(cl) \/ GivenWildcard(cl)
  BY <1>1 DEF GivenGiven, WildcardWildcard, GivenWildcard, Require
<1>2. CASE SameVariable(cl) \/ VariableGiven(cl) \/ VariableWildcard(cl)
  BY <1>2, Zenon DEF SameVariable, VariableGiven, VariableWildcard
<1>3. CASE TwoVariables(cl)
  BY <1>3, Zenon DEF TwoVariables
<1>4. QED  BY <1>1, <1>2, <1>3 DEF SolveClause

LEMMA SomeTupleStays == ASSUME SomeTuple, UNCHANGED clusterVars PROVE SomeTuple'
BY DEF SomeTuple, clusterVars

LEMMA SomeTupleSteps ==
    ASSUME QueryInv, SomeTuple, [QueryNext]_vars PROVE SomeTuple'
<1>1. ClusterOK
  BY DEF QueryInv, BuildOK
<1>2. CASE UNCHANGED clusterVars
  BY <1>2, SomeTupleStays
<1>3. CASE \E q, new : Cluster!UpdateResults(q, new)
  BY <1>1, <1>3, ResultsSomeTuple
<1>4. CASE \E q, p, rel : Cluster!UpdateLinks(q, p, rel)
  BY <1>1, <1>4, LinksSomeTuple
<1>5. CASE Cluster!InvalidateState \/ \E q : Cluster!GetConditions(q)
  BY <1>5 DEF Cluster!InvalidateState, Cluster!GetConditions, SomeTuple
<1>6. CASE FormatResult
  <2>1. CASE UNCHANGED buildVars
    BY <2>1, <1>2 DEF buildVars
  <2>2. CASE query.select.kind = "tuple" /\ Cluster!MakeTuples(query.select.qs)
    <3>1. query.select.qs \in Seq(Qvars)
      BY <2>2, QueryTyped DEF QueryInv
    <3>2. QED  BY <1>1, <2>2, <3>1, SelectSomeTuple
  <2>3. QED  BY <1>6, <2>1, <2>2, FormatStep
<1>7. CASE Fetch
  BY <1>2, <1>5, <1>7 DEF Fetch, CallGetConditions, Ask
<1>8. CASE Solve
  <2>1. PICK cl : SolveClause(cl)
    BY <1>8 DEF Solve
  <2>2. QED
    BY <1>2, <1>3, <1>4, <1>5, <2>1, ClauseCalls
       DEF CallUpdateResults, CallUpdateLinks, CallInvalidateState, Ask, buildVars
<1>9. CASE RunLinker
  BY <1>2, <1>9 DEF RunLinker, RunCascade
<1>10. CASE UNCHANGED vars
  BY <1>2, <1>10 DEF vars, buildVars
<1>11. QED  BY <1>6, <1>7, <1>8, <1>9, <1>10 DEF QueryNext
(* No unlinked variable is empty: Exacting, for the cluster build.         *)
Full == \A q \in Cluster!Unlinked : single_values[q] # {}

LEMMA SolutionMade ==
    ASSUME ClusterOK, valid_state, NEW t \in tuples, NEW g \in [Qvars -> Conds],
           \A r \in Cluster!Unlinked : g[r] \in single_values[r]
    PROVE  [r \in Qvars |-> IF r \in Cluster!Linked THEN Cluster!Column(t, r) ELSE g[r]]
              \in Cluster!Solutions
<1>1. PICK s : s = [r \in Qvars |-> IF r \in Cluster!Linked THEN Cluster!Column(t, r) ELSE g[r]]
  OBVIOUS
<1>2. \A r \in Cluster!Linked : Cluster!Column(t, r) \in Conds
  BY ColumnTyped
<1>3. s \in [Qvars -> Conds]
  BY <1>1, <1>2
<1>4. \A r \in Cluster!Unlinked : r \in Qvars /\ r \notin Cluster!Linked
  BY DEF Cluster!Unlinked, Cluster!Linked
<1>5. Allowed(s)
  BY <1>1, <1>4 DEF Allowed
<1>6. \A r \in Cluster!Linked : r \in Qvars
  BY DEF Cluster!Linked
<1>7. Matches(s, t)
  BY <1>1, <1>6 DEF Matches
<1>8. QED  BY <1>1, <1>3, <1>5, <1>7, SolutionsAre

(* Some condition for every variable.                                      *)
LEMMA SomeConditions ==
    ASSUME ClusterOK, Full
    PROVE  \E g \in [Qvars -> Conds] : \A r \in Cluster!Unlinked : g[r] \in single_values[r]
<1> DEFINE from(r) == IF r \in Cluster!Unlinked THEN single_values[r] ELSE Conds
           g == [r \in Qvars |-> CHOOSE c : c \in from(r)]
<1>1. ASSUME NEW r \in Qvars PROVE from(r) # {} /\ from(r) \subseteq Conds
  BY QueriesAssumption DEF ClusterOK, Full
<1>2. ASSUME NEW r \in Qvars PROVE g[r] \in from(r)
  <2>1. \E c : c \in from(r)
    BY <1>1
  <2>2. (CHOOSE c : c \in from(r)) \in from(r)
    BY <2>1
  <2>3. QED  BY <2>2
<1>3. g \in [Qvars -> Conds]
  <2>1. \A r \in Qvars : g[r] \in Conds
    BY <1>1, <1>2
  <2>2. QED  BY <2>1
<1>4. \A r \in Cluster!Unlinked : r \in Qvars
  BY DEF Cluster!Unlinked
<1> HIDE DEF g
<1>5. \A r \in Cluster!Unlinked : g[r] \in single_values[r]
  BY <1>2, <1>4
<1>6. QED  BY <1>3, <1>5

LEMMA ValidHasTuple ==
    ASSUME SomeTuple, build = "cluster", IsValid PROVE valid_state /\ \E t : t \in tuples
BY DEF SomeTuple, IsValid, Cluster!is_valid_state

LEMMA ValidHasSolution ==
    ASSUME BuildOK, SomeTuple, Full, build = "cluster", IsValid PROVE Requested # {}
<1>1. ClusterOK
  BY DEF BuildOK
<1>2. PICK t \in tuples : valid_state
  BY ValidHasTuple
<1>3. PICK g \in [Qvars -> Conds] : \A r \in Cluster!Unlinked : g[r] \in single_values[r]
  BY <1>1, SomeConditions
<1>4. \E s : s \in Cluster!Solutions
  BY <1>1, <1>2, <1>3, SolutionMade
<1>5. QED  BY <1>4, RequestedIs

LEMMA CandidatesUsed ==
    ASSUME BuildOK, SomeTuple, Full, build = "cluster", IsValid, NEW q \in Known
    PROVE  Candidates(q) = {s[q] : s \in Requested}
<1>1. ClusterOK /\ Requested = Cluster!Solutions
  BY RequestedIs DEF BuildOK
<1>2. q \in Qvars /\ {s[q] : s \in Requested} \subseteq Candidates(q)
  BY CandidatesMeet
<1>3. PICK g \in [Qvars -> Conds] : \A r \in Cluster!Unlinked : g[r] \in single_values[r]
  BY <1>1, SomeConditions
<1>4. valid_state /\ \E t : t \in tuples
  BY ValidHasTuple
<1>5. Candidates(q) = Cluster!get_conditions(q) /\ qvar_type[q] \in {"unlinked", "linked"}
  BY <1>1, <1>2 DEF Candidates, Known, Cluster!is_initialized, ClusterOK
<1>6. ASSUME NEW c \in Candidates(q) PROVE \E s \in Cluster!Solutions : s[q] = c
  <2>1. CASE qvar_type[q] = "unlinked"
    <3>1. q \in Cluster!Unlinked /\ q \notin Cluster!Linked /\ c \in single_values[q]
      BY <1>2, <1>5, <1>6, <2>1 DEF Cluster!get_conditions, Cluster!Unlinked, Cluster!Linked
    <3>2. c \in Conds
      BY <1>1, <1>2, <3>1 DEF ClusterOK
    <3>3. PICK h \in [Qvars -> Conds] : h = [g EXCEPT ![q] = c]
      BY <3>2
    <3>4. h[q] = c /\ \A r \in Cluster!Unlinked : h[r] \in single_values[r]
      <4>1. \A r \in Cluster!Unlinked : r \in Qvars
        BY DEF Cluster!Unlinked
      <4>2. QED  BY <1>2, <1>3, <3>1, <3>3, <4>1
    <3>5. PICK t \in tuples : TRUE
      BY <1>4
    <3>6. PICK s : s = [r \in Qvars |-> IF r \in Cluster!Linked THEN Cluster!Column(t, r) ELSE h[r]]
      OBVIOUS
    <3>7. s \in Cluster!Solutions
      BY <1>1, <1>4, <3>4, <3>6, SolutionMade
    <3>8. s[q] = c
      BY <1>2, <3>1, <3>4, <3>6
    <3>9. QED  BY <3>7, <3>8
  <2>2. CASE qvar_type[q] = "linked"
    <3>1. q \in Cluster!Linked /\ \E t \in tuples : c = Cluster!Column(t, q)
      BY <1>2, <1>5, <1>6, <2>2 DEF Cluster!get_conditions, Cluster!Linked
    <3>2. PICK t \in tuples : c = Cluster!Column(t, q)
      BY <3>1
    <3>3. PICK s : s = [r \in Qvars |-> IF r \in Cluster!Linked THEN Cluster!Column(t, r) ELSE g[r]]
      OBVIOUS
    <3>4. s \in Cluster!Solutions
      BY <1>1, <1>3, <1>4, <3>3, SolutionMade
    <3>5. s[q] = c
      BY <1>2, <3>1, <3>2, <3>3
    <3>6. QED  BY <3>4, <3>5
  <2>3. QED  BY <1>5, <2>1, <2>2
<1>7. QED  BY <1>1, <1>2, <1>6

(* The reply of an invalid state.                                          *)
LEMMA FormatInvalid ==
    ASSUME QueryInv, FormatResult, ~IsValid PROVE answer' = Meant(query.select, Requested)
<1>1. PICK sel : sel = query.select
  OBVIOUS
<1>2. sel.kind \in {"boolean", "variable", "tuple"} /\ Requested = {}
  BY <1>1, QueryTyped, InvalidIsEmpty DEF QueryInv
<1>3. CASE sel.kind = "boolean"
  BY <1>1, <1>2, <1>3 DEF FormatResult, Formatted, Meant
<1>4. CASE sel.kind = "variable"
  <2>1. answer' = {}
    BY <1>1, <1>4 DEF FormatResult, Formatted
  <2>2. Meant(sel, {}) = IF sel.fits THEN {s[sel.q] : s \in {}} ELSE {}
    BY <1>4 DEF Meant
  <2>3. QED  BY <1>1, <1>2, <2>1, <2>2
<1>5. CASE sel.kind = "tuple"
  <2>1. answer' = {}
    BY <1>1, <1>5 DEF FormatResult, Formatted
  <2>2. Meant(sel, {}) = {[i \in DOMAIN sel.qs |-> s[sel.qs[i]]] : s \in {}}
    BY <1>5 DEF Meant
  <2>3. QED  BY <1>1, <1>2, <2>1, <2>2
<1>6. QED  BY <1>2, <1>3, <1>4, <1>5

LEMMA FormatExact ==
    ASSUME QueryInv, SomeTuple, FormatResult, build = "cluster", Exacting'
    PROVE  answer' = Meant(query.select, Requested)
<1>1. PICK sel : sel = query.select
  OBVIOUS
<1>2. BuildOK /\ ClusterOK /\ build' = build
  BY FormatStep DEF QueryInv, BuildOK
<1>3. Selected(sel) \subseteq Known
  BY <1>1 DEF FormatResult
<1>4. Full' /\ sel.kind \in {"boolean", "variable", "tuple"}
  BY <1>1, <1>2, QueryTyped DEF Exacting, Full, QueryInv
<1>5. ASSUME IsValid PROVE Full
  <2>1. CASE UNCHANGED buildVars
    <3>1. UNCHANGED <<qvar_type, single_values>>
      BY <2>1 DEF buildVars, clusterVars
    <3>2. QED  BY <1>4, <3>1 DEF Full, Cluster!Unlinked
  <2>2. CASE sel.kind = "tuple" /\ Cluster!MakeTuples(sel.qs)
    <3>1. PICK qs \in Seq(Qvars) : qs = sel.qs
      BY <1>1, <2>2, QueryTyped DEF QueryInv
    <3>2. /\ Cluster!Unlinked' = Cluster!Unlinked \cup Fresh(Sel(qs))
          /\ Sel(qs) \subseteq Qvars
          /\ \A r \in Qvars : single_values'[r] =
                IF r \in Fresh(Sel(qs)) THEN GlobalSet ELSE single_values[r]
      BY <1>2, <2>2, <3>1, SelectTables
    <3>3. ASSUME NEW r \in Cluster!Unlinked PROVE single_values[r] # {}
      <4>1. r \in Qvars /\ qvar_type[r] = "unlinked"
        BY DEF Cluster!Unlinked
      <4>2. r \notin Fresh(Sel(qs))
        BY <1>2, <3>2, <4>1, FirstUse
      <4>3. single_values'[r] = single_values[r]
        BY <3>2, <4>1, <4>2
      <4>4. r \in Cluster!Unlinked'
        BY <3>2
      <4>5. single_values'[r] # {}
        BY <1>4, <4>4 DEF Full
      <4>6. QED  BY <4>3, <4>5
    <3>4. QED  BY <3>3 DEF Full
  <2>3. QED  BY <1>1, <2>1, <2>2, FormatStep
<1>6. CASE ~IsValid
  BY <1>1, <1>6, FormatInvalid
<1>7. CASE IsValid
  <2>1. Full /\ Requested # {}
    BY <1>2, <1>5, <1>7, ValidHasSolution
  <2>2. CASE sel.kind = "boolean"
    BY <1>1, <1>7, <2>1, <2>2 DEF FormatResult, Formatted, Meant
  <2>3. CASE sel.kind = "variable"
    <3>1. PICK q : q = sel.q
      OBVIOUS
    <3>2. answer' = IF sel.fits THEN Candidates(q) ELSE {}
      BY <1>1, <1>7, <2>3, <3>1 DEF FormatResult, Formatted
    <3>3. Meant(sel, Requested) = IF sel.fits THEN {s[q] : s \in Requested} ELSE {}
      BY <2>3, <3>1 DEF Meant
    <3>4. q \in Known
      BY <1>3, <2>3, <3>1 DEF Selected
    <3>5. Candidates(q) = {s[q] : s \in Requested}
      BY <1>2, <1>7, <2>1, <3>4, CandidatesUsed
    <3>6. QED  BY <1>1, <3>2, <3>3, <3>5
  <2>4. CASE sel.kind = "tuple"
    <3>1. PICK qs \in Seq(Qvars) : qs = sel.qs
      BY <1>1, <2>4, QueryTyped DEF QueryInv
    <3>2. Meant(sel, Requested) = {[i \in DOMAIN qs |-> s[qs[i]]] : s \in Requested}
      BY <2>4, <3>1 DEF Meant
    <3>3. /\ Cluster!MakeTuples(qs) /\ UNCHANGED <<build, linkerVars>>
          /\ answer' = reply'
      BY <1>1, <1>7, <2>4, <3>1 DEF FormatResult, Formatted
    <3>4. reply' = {[i \in DOMAIN qs |-> s[qs[i]]] : s \in Requested}
      BY <1>2, <2>1, <3>3, SelectCall
    <3>5. QED  BY <1>1, <3>2, <3>3, <3>4
  <2>5. QED  BY <1>4, <2>2, <2>3, <2>4
<1>8. QED  BY <1>6, <1>7

LEMMA ExactingStays ==
    ASSUME UNCHANGED vars, build = "cluster" PROVE Exacting' <=> Exacting
<1>1. UNCHANGED <<build, qvar_type, single_values>>
  BY DEF vars, buildVars, clusterVars
<1>2. Cluster!Unlinked' = Cluster!Unlinked
  BY <1>1 DEF Cluster!Unlinked
<1>3. QED  BY <1>1, <1>2 DEF Exacting

(* In the build of linker-cluster.cpp a reply is exactly what the query    *)
(* means, on every graph of variables, unless some predicate no clause has *)
(* linked is empty: nothing in that class makes such a state invalid.      *)
THEOREM ClusterAnswersExactly == QuerySpec => [](build = "cluster" => AnswerExact)
<1> DEFINE Exact == build = "cluster" => AnswerExact
<1>1. QueryInit => SomeTuple /\ Exact
  <2>1. ASSUME QueryInit PROVE tuples # {} /\ answer = None
    BY <2>1 DEF QueryInit, Cluster!InitWith
  <2>2. QED  BY <2>1 DEF SomeTuple, AnswerExact
<1>2. QueryInv /\ SomeTuple /\ [QueryNext]_vars => SomeTuple'
  BY SomeTupleSteps
<1>3. ASSUME QueryInv, SomeTuple, Exact, [QueryNext]_vars PROVE Exact'
  <2>1. SUFFICES ASSUME build' = "cluster", answer' # None, Exacting'
                 PROVE  (answer = Meant(query.select, Satisfying(query.clauses)))'
    BY DEF AnswerExact
  <2>2. query' = query /\ (answer' = answer \/ FormatResult)
    BY <1>3, OnlyFormatAnswers
  <2>3. PICK clauses : clauses = query.clauses
    OBVIOUS
  <2>4. PICK sols : sols = Satisfying(clauses)
    OBVIOUS
  <2>5. Satisfying(clauses)' = sols
    BY <2>2, <2>4, SatisfyingAfter
  <2>6. SUFFICES answer' = Meant(query.select, sols)
    BY <2>2, <2>3, <2>5
  <2>7. CASE FormatResult
    <3>1. build = "cluster" /\ Requested = sols
      BY <1>3, <2>1, <2>3, <2>4, <2>7, FormatStep
    <3>2. QED  BY <1>3, <2>1, <2>7, <3>1, FormatExact
  <2>8. CASE ~FormatResult
    <3>1. answer' = answer /\ answer # None /\ pending = {}
      BY <1>3, <2>1, <2>2, <2>8 DEF QueryInv
    <3>2. ~Fetch
      BY <3>1 DEF Fetch
    <3>3. ~Solve
      BY <3>1 DEF Solve
    <3>4. ~RunLinker
      <4>1. RunLinker => build = "graph" /\ build' = build
        BY DEF RunLinker, RunCascade
      <4>2. build' # "graph"
        BY <2>1
      <4>3. QED  BY <4>1, <4>2
    <3>5. UNCHANGED vars
      BY <1>3, <2>8, <3>2, <3>3, <3>4 DEF QueryNext
    <3>6. build = "cluster"
      BY <2>1, <3>5 DEF vars, buildVars
    <3>7. Exacting
      BY <2>1, <3>6, <3>5, ExactingStays
    <3>8. QED  BY <1>3, <2>3, <2>4, <3>1, <3>6, <3>7 DEF AnswerExact
  <2>9. QED  BY <2>7, <2>8
<1>4. QED  BY <1>1, <1>2, <1>3, QueryInvHolds, PTL DEF QuerySpec
-----------------------------------------------------------------------------
(* Exact answers of the graph build.  Every step of the evaluation is a    *)
(* request, a step of a cascade or nothing to the linker; so the invariants*)
(* of Linker_proofs hold of it, whatever its queries declare and relate.   *)
ClauseEdge(q, p) == {q, p} \in Edges

LEMMA TwoVariablesAsk ==
    ASSUME BuildOK, NEW cl \in query.clauses, Reads(cl) \subseteq Known, TwoVariables(cl)
    PROVE  \E q, p \in Qvars : \E rel \in SUBSET (Conds \X Conds) :
              /\ q = cl.left.q /\ p = cl.right.q
              /\ q # p /\ ClauseEdge(q, p) /\ CallUpdateLinks(q, p, rel)
<1>1. PICK q, p : q = cl.left.q /\ p = cl.right.q
  OBVIOUS
<1>2. PICK C, D : C = Candidates(q) /\ D = Candidates(p)
  OBVIOUS
<1>3. PICK links :
         /\ links = IF Cardinality(C) <= Cardinality(D)
                    THEN UNION { {c} \X (SolveRight(cl.rel, c) \cap D) : c \in C }
                    ELSE UNION { (SolveLeft(cl.rel, d) \cap C) \X {d} : d \in D }
         /\ CallUpdateLinks(q, p, links)
  BY <1>1, <1>2 DEF TwoVariables
<1>4. IsVar(cl.left) /\ IsVar(cl.right) /\ q # p
  BY <1>1 DEF TwoVariables
<1>5. q \in Known /\ p \in Known
  BY <1>1, <1>4, Kinds, ReadKnown
<1>6. q \in Qvars /\ p \in Qvars /\ C \subseteq Conds /\ D \subseteq Conds
  BY <1>2, <1>5, CandidatesMeet
<1>7. links \in SUBSET (Conds \X Conds)
  BY <1>3, <1>6, PairsAre
<1>8. ClauseEdge(q, p)
  <2>1. cl.left # cl.right
    BY <1>1, <1>4
  <2>2. cl \in {k \in query.clauses : IsVar(k.left) /\ IsVar(k.right) /\ k.left # k.right}
    BY <1>4, <2>1
  <2>3. QED  BY <1>1, <2>2 DEF ClauseEdge, Edges
<1>9. QED  BY <1>1, <1>3, <1>4, <1>6, <1>7, <1>8

LEMMA OneVariableAsks ==
    ASSUME BuildOK, NEW cl, TermsOK(cl), Reads(cl) \subseteq Known,
           SameVariable(cl) \/ VariableGiven(cl) \/ VariableWildcard(cl)
    PROVE  \E q \in Qvars : \E new \in SUBSET Conds : CallUpdateResults(q, new)
<1>1. CASE SameVariable(cl)
  <2>1. PICK q, new : /\ q = cl.left.q /\ new = {c \in Candidates(q) : <<c, c>> \in cl.rel}
                      /\ CallUpdateResults(q, new)
    BY <1>1 DEF SameVariable
  <2>2. q \in Known
    BY <1>1, <2>1, Kinds, ReadKnown DEF SameVariable
  <2>3. QED  BY <2>1, <2>2, CandidatesMeet
<1>2. CASE VariableGiven(cl)
  <2>1. SolveLeft(cl.rel, cl.right.c) \in SUBSET Conds /\ SolveRight(cl.rel, cl.left.c) \in SUBSET Conds
    BY DEF SolveLeft, SolveRight
  <2>2. QED  BY <1>2, <2>1 DEF VariableGiven, TermsOK
<1>3. CASE VariableWildcard(cl)
  <2>1. CASE /\ IsVar(cl.left) /\ IsWildcard(cl.right)
             /\ CallUpdateResults(cl.left.q,
                   {c \in Candidates(cl.left.q) : SolveRight(cl.rel, c) # {}})
    <3>1. cl.left.q \in Known
      BY <2>1, Kinds, ReadKnown
    <3>2. QED  BY <2>1, <3>1, CandidatesMeet
  <2>2. CASE /\ IsWildcard(cl.left) /\ IsVar(cl.right)
             /\ CallUpdateResults(cl.right.q,
                   {d \in Candidates(cl.right.q) : SolveLeft(cl.rel, d) # {}})
    <3>1. cl.right.q \in Known
      BY <2>2, Kinds, ReadKnown
    <3>2. QED  BY <2>2, <3>1, CandidatesMeet
  <2>3. QED  BY <1>3, <2>1, <2>2 DEF VariableWildcard
<1>4. QED  BY <1>1, <1>2, <1>3

(* What a step asks of the graph.                                          *)
Quiet ==
    \/ \E q \in Qvars : \E new \in SUBSET Conds : UpdateResults(q, new)
    \/ \E q \in Qvars : GetConditions(q)
    \/ InvalidateState
    \/ UNCHANGED linkerVars

Links ==
    \E q, p \in Qvars : \E rel \in SUBSET (Conds \X Conds) :
        q # p /\ ClauseEdge(q, p) /\ UpdateLinks(q, p, rel)

LEMMA ClauseAsks ==
    ASSUME QueryInv, NEW cl \in pending, SolveClause(cl) PROVE Quiet \/ Links
<1>1. BuildOK /\ cl \in query.clauses /\ TermsOK(cl) /\ Reads(cl) \subseteq Known
  BY QueryTyped DEF QueryInv, SolveClause
<1>2. CASE GivenGiven(cl) \/ WildcardWildcard(cl) \/ GivenWildcard(cl)
  <2>1. UNCHANGED buildVars \/ CallInvalidateState
    BY <1>2 DEF GivenGiven, WildcardWildcard, GivenWildcard, Require
  <2>2. QED  BY <2>1 DEF Quiet, buildVars, CallInvalidateState, Ask
<1>3. CASE SameVariable(cl) \/ VariableGiven(cl) \/ VariableWildcard(cl)
  <2>1. PICK q \in Qvars, new \in SUBSET Conds : CallUpdateResults(q, new)
    BY <1>1, <1>3, OneVariableAsks
  <2>2. QED  BY <2>1 DEF Quiet, CallUpdateResults, Ask
<1>4. CASE TwoVariables(cl)
  <2>1. PICK q \in Qvars, p \in Qvars, rel \in SUBSET (Conds \X Conds) :
           q # p /\ ClauseEdge(q, p) /\ CallUpdateLinks(q, p, rel)
    BY <1>1, <1>4, TwoVariablesAsk
  <2>2. QED  BY <2>1 DEF Quiet, Links, CallUpdateLinks, Ask
<1>5. QED  BY <1>2, <1>3, <1>4 DEF SolveClause

LEMMA StepAsks ==
    ASSUME QueryInv, [QueryNext]_vars PROVE Quiet \/ Links \/ Cascade
<1>1. CASE Fetch
  <2>1. PICK q : /\ CallGetConditions(q)
                 /\ (\E cl \in pending : q \in Reads(cl)) \/ q \in Selected(query.select)
    BY <1>1 DEF Fetch
  <2>2. q \in Qvars
    BY <2>1, SelectedTyped, QueryTyped DEF QueryInv, Reads, TermsOK
  <2>3. QED  BY <2>1, <2>2 DEF Quiet, CallGetConditions, Ask
<1>2. CASE Solve
  BY <1>2, ClauseAsks DEF Solve
<1>3. CASE RunLinker
  BY <1>3 DEF RunLinker, RunCascade
<1>4. CASE FormatResult
  BY <1>4 DEF FormatResult, Quiet, buildVars
<1>5. CASE UNCHANGED vars
  BY <1>5 DEF Quiet, vars, buildVars
<1>6. QED  BY <1>1, <1>2, <1>3, <1>4, <1>5 DEF QueryNext

LEMMA AsksAre ==
    /\ Quiet => AnyRequest \/ UNCHANGED linkerVars
    /\ Links => AnyRequest
BY DEF Quiet, Links, AnyRequest

(* The invariant: that of the linker; only pairs that some clause relates  *)
(* are linked; and when every variable was declared with some condition,   *)
(* a variable that is empty has made the state invalid.                    *)
Declared == \A q \in Qvars : q \in DOMAIN query.domains /\ query.domains[q] # {}
LinkerInv == RemovalsOwed /\ GraphInv /\ OnlySolutionsFit /\ ForestInv
ClausesLink == \A l \in Pairs : ClauseEdge(l[1], l[2])
DeclaredFull == Declared => initialized = Qvars /\ (valid => NoneEmpty)

LEMMA LinkerInvStarts == ASSUME NEW d, InitWith(d) PROVE LinkerInv
BY StartOwed, StartGraph, StartFit, StartForest DEF LinkerInv

LEMMA LinkerInvSteps ==
    ASSUME TypeOK, LinkerInv, AnyRequest \/ Cascade \/ UNCHANGED linkerVars
    PROVE  LinkerInv'
<1>1. LinksSymmetric
  BY OwedMeans DEF LinkerInv
<1>2. RemovalsOwed'
  BY OwedSteps DEF LinkerInv
<1>3. GraphInv'
  BY RequestGraph, CascadeGraph, SameGraph DEF LinkerInv
<1>4. OnlySolutionsFit'
  BY RequestFit, CascadeFit, SameFit DEF LinkerInv
<1>5. ForestInv'
  BY <1>1, RequestForest, CascadeForest, SameForest DEF LinkerInv
<1>6. QED  BY <1>2, <1>3, <1>4, <1>5 DEF LinkerInv

GraphBuildInv == LinkerInv /\ ClausesLink /\ DeclaredFull

LEMMA GraphBuildStarts == ASSUME QueryInit PROVE GraphBuildInv
<1>1. PICK d : d = query.domains
  OBVIOUS
<1>2. InitWith(d) /\ TableOK(d)
  BY <1>1, QueryTyped DEF QueryInit
<1>3. LinkerInv
  BY <1>2, LinkerInvStarts
<1>4. ClausesLink
  <2>1. linked = {} /\ Frames(stack) = {}
    BY <1>2, FramesEmpty DEF InitWith
  <2>2. QED  BY <2>1 DEF ClausesLink, Pairs, Registering, Registers
<1>5. ASSUME Declared PROVE initialized = Qvars /\ NoneEmpty
  BY <1>1, <1>2, <1>5 DEF Declared, InitWith, TableOK, NoneEmpty
<1>6. QED  BY <1>3, <1>4, <1>5 DEF GraphBuildInv, DeclaredFull

LEMMA GraphBuildSteps ==
    ASSUME QueryInv, GraphBuildInv, [QueryNext]_vars PROVE GraphBuildInv'
<1>1. TypeOK /\ GraphInv
  BY DEF QueryInv, BuildOK, SolutionInv, GraphBuildInv, LinkerInv
<1>2. query' = query /\ (Quiet \/ Links \/ Cascade)
  BY OnlyFormatAnswers, StepAsks
<1>3. AnyRequest \/ Cascade \/ UNCHANGED linkerVars
  BY <1>2, AsksAre
<1>4. LinkerInv'
  BY <1>1, <1>3, LinkerInvSteps DEF GraphBuildInv
<1>5. ClausesLink'
  <2>1. \A q, p : ClauseEdge(q, p)' <=> ClauseEdge(q, p)
    BY <1>2 DEF ClauseEdge, Edges
  <2>2. ASSUME Pairs' \subseteq Pairs PROVE ClausesLink'
    BY <2>1, <2>2 DEF ClausesLink, GraphBuildInv
  <2>3. CASE Quiet
    BY <1>1, <2>2, <2>3, OthersPairs DEF Quiet
  <2>4. CASE Cascade
    BY <1>1, <2>2, <2>4, CascadePairs
  <2>5. CASE Links
    <3>1. PICK q \in Qvars, p \in Qvars, rel \in SUBSET (Conds \X Conds) :
             q # p /\ ClauseEdge(q, p) /\ UpdateLinks(q, p, rel)
      BY <2>5 DEF Links
    <3>2. Pairs' \subseteq Pairs \cup {<<q, p>>, <<p, q>>}
      BY <1>1, <3>1, LinksPairs
    <3>3. ClauseEdge(p, q)
      BY <3>1 DEF ClauseEdge
    <3>4. ASSUME NEW l \in Pairs' PROVE ClauseEdge(l[1], l[2])
      BY <3>1, <3>2, <3>3 DEF ClausesLink, GraphBuildInv
    <3>5. QED  BY <2>1, <3>4 DEF ClausesLink
  <2>6. QED  BY <1>2, <2>3, <2>4, <2>5
<1>6. DeclaredFull'
  <2>1. SUFFICES ASSUME Declared PROVE initialized' = Qvars /\ (valid' => NoneEmpty')
    BY <1>2 DEF DeclaredFull, Declared
  <2>2. initialized = Qvars /\ (valid => NoneEmpty)
    BY <2>1 DEF GraphBuildInv, DeclaredFull
  <2>3. CASE AnyRequest
    BY <1>1, <2>2, <2>3, RequestFull
  <2>4. CASE Cascade
    BY <1>1, <2>2, <2>4, CascadeFull, CascadeKeepsSolutions
  <2>5. CASE UNCHANGED linkerVars
    BY <2>2, <2>5 DEF linkerVars, NoneEmpty
  <2>6. QED  BY <1>3, <2>3, <2>4, <2>5
<1>7. QED  BY <1>4, <1>5, <1>6 DEF GraphBuildInv

LEMMA GraphBuildHolds == QuerySpec => []GraphBuildInv
<1>1. QueryInit => GraphBuildInv
  BY GraphBuildStarts
<1>2. QueryInv /\ GraphBuildInv /\ [QueryNext]_vars => GraphBuildInv'
  BY GraphBuildSteps
<1>3. QED  BY <1>1, <1>2, QueryInvHolds, PTL DEF QuerySpec

(* Where the clauses form a forest the linked pairs do.                    *)
LEMMA ClausesFormForest ==
    ASSUME QueryInv, GraphBuildInv, IsForest PROVE LinksFormForest
<1>1. Forest(linked)
  <2>1. SUFFICES ASSUME NEW S \in (SUBSET Qvars) \ {{}}
                 PROVE  Cardinality(Within(linked, S)) < Cardinality(S)
    BY DEF Forest
  <2>2. PICK E : E = {e \in Edges : e \subseteq S}
    OBVIOUS
  <2>3. Within(linked, S) \subseteq E
    <3>1. \A l \in linked : {l[1], l[2]} \in Edges
      BY DEF GraphBuildInv, ClausesLink, ClauseEdge, Pairs
    <3>2. QED  BY <2>2, <3>1 DEF Within, EdgesOf
  <2>4. IsFiniteSet(S) /\ IsFiniteSet(E)
    <3>1. IsFiniteSet(S)
      BY TuplesAssumption, FS_Subset
    <3>2. IsFiniteSet(SUBSET S)
      BY <3>1, FS_SUBSET
    <3>3. E \subseteq SUBSET S
      BY <2>2
    <3>4. QED  BY <3>1, <3>2, <3>3, FS_Subset
  <2>5. Cardinality(Within(linked, S)) <= Cardinality(E)
    BY <2>3, <2>4, FS_Subset
  <2>6. Cardinality(E) < Cardinality(S)
    BY <2>2 DEF IsForest
  <2>7. /\ Cardinality(Within(linked, S)) \in Nat
        /\ Cardinality(E) \in Nat /\ Cardinality(S) \in Nat
    BY <2>3, <2>4, FS_Subset, FS_CardinalityType
  <2>8. QED  BY <2>5, <2>6, <2>7
<1>2. QED  BY <1>1, ForestMeans

(* When all clauses are solved the linked pairs are those of the clauses.  *)
TwoSided(cl) == IsVar(cl.left) /\ IsVar(cl.right) /\ cl.left # cl.right
ClausesLinked ==
    build = "graph" =>
        \A cl \in query.clauses \ pending : TwoSided(cl) => <<cl.left.q, cl.right.q>> \in Pairs
EdgePairs == {l \in Qvars \X Qvars : ClauseEdge(l[1], l[2])}

LEMMA BuildStays == ASSUME [QueryNext]_vars PROVE build' = build
<1>1. CASE Fetch
  BY <1>1 DEF Fetch, CallGetConditions, Ask
<1>2. CASE Solve
  <2>1. \A cl : (GivenGiven(cl) \/ WildcardWildcard(cl) \/ GivenWildcard(cl)) => build' = build
    BY DEF GivenGiven, WildcardWildcard, GivenWildcard, Require, CallInvalidateState, Ask, buildVars
  <2>2. \A cl : (SameVariable(cl) \/ VariableGiven(cl) \/ VariableWildcard(cl)) => build' = build
    BY DEF SameVariable, VariableGiven, VariableWildcard, CallUpdateResults, Ask
  <2>3. \A cl : TwoVariables(cl) => build' = build
    BY DEF TwoVariables, CallUpdateLinks, Ask
  <2>4. QED  BY <1>2, <2>1, <2>2, <2>3 DEF Solve, SolveClause
<1>3. CASE RunLinker
  BY <1>3 DEF RunLinker, RunCascade
<1>4. CASE FormatResult
  BY <1>4 DEF FormatResult, buildVars
<1>5. CASE UNCHANGED vars
  BY <1>5 DEF vars, buildVars
<1>6. QED  BY <1>1, <1>2, <1>3, <1>4, <1>5 DEF QueryNext

LEMMA SolvedLinked ==
    ASSUME QueryInv, build = "graph", NEW cl \in pending, SolveClause(cl), TwoSided(cl)
    PROVE  <<cl.left.q, cl.right.q>> \in Pairs'
<1>1. BuildOK /\ cl \in query.clauses /\ Reads(cl) \subseteq Known
  BY DEF QueryInv, SolveClause
<1>2. TwoVariables(cl)
  BY Kinds DEF SolveClause, TwoSided, GivenGiven, SameVariable, WildcardWildcard,
               VariableGiven, VariableWildcard, GivenWildcard
<1>3. PICK q \in Qvars, p \in Qvars, rel \in SUBSET (Conds \X Conds) :
         q = cl.left.q /\ p = cl.right.q /\ q # p /\ CallUpdateLinks(q, p, rel)
  BY <1>1, <1>2, TwoVariablesAsk
<1>4. UpdateLinks(q, p, rel)
  BY <1>3 DEF CallUpdateLinks, Ask
<1>5. TypeOK
  BY <1>1 DEF BuildOK, SolutionInv
<1>6. QED  BY <1>3, <1>4, <1>5, LinksEnter

LEMMA ClausesLinkedStarts == ASSUME QueryInit PROVE ClausesLinked
BY DEF QueryInit, ClausesLinked

LEMMA ClausesLinkedSteps ==
    ASSUME QueryInv, GraphBuildInv, ClausesLinked, [QueryNext]_vars PROVE ClausesLinked'
<1>1. query' = query /\ build' = build
  BY OnlyFormatAnswers, BuildStays
<1>2. TypeOK /\ GraphInv
  BY DEF QueryInv, BuildOK, SolutionInv, GraphBuildInv, LinkerInv
<1>3. Pairs \subseteq Pairs'
  <2>1. CASE AnyRequest
    BY <2>1, RequestKeepsPairs
  <2>2. CASE Cascade
    BY <1>2, <2>2, CascadeKeepsPairs
  <2>3. CASE UNCHANGED linkerVars
    BY <2>3 DEF linkerVars, Pairs, Registering
  <2>4. QED  BY <2>1, <2>2, <2>3, StepAsks, AsksAre
<1>4. SUFFICES ASSUME build = "graph", NEW cl \in query.clauses, cl \notin pending', TwoSided(cl)
               PROVE  <<cl.left.q, cl.right.q>> \in Pairs'
  BY <1>1 DEF ClausesLinked
<1>5. CASE cl \notin pending
  BY <1>3, <1>4, <1>5 DEF ClausesLinked
<1>6. CASE cl \in pending
  <2>1. PICK k \in pending : SolveClause(k)
    BY <1>4, <1>6 DEF QueryNext, Fetch, Solve, RunLinker, FormatResult, queryVars, vars
  <2>2. cl = k
    BY <1>4, <1>6, <2>1 DEF SolveClause
  <2>3. QED  BY <1>4, <2>1, <2>2, SolvedLinked
<1>7. QED  BY <1>5, <1>6

LEMMA LinkedAsClauses ==
    ASSUME QueryInv, GraphBuildInv, ClausesLinked, build = "graph", pending = {}, Idle
    PROVE  linked = EdgePairs
<1>1. /\ Pairs = linked /\ linked \in SUBSET (Qvars \X Qvars)
      /\ \A l \in linked : <<l[2], l[1]>> \in linked
  BY IdlePairs DEF QueryInv, BuildOK, SolutionInv, TypeOK
<1>2. linked \subseteq EdgePairs
  BY <1>1 DEF GraphBuildInv, ClausesLink, EdgePairs
<1>3. ASSUME NEW l \in EdgePairs PROVE l \in linked
  <2>1. l = <<l[1], l[2]>> /\ {l[1], l[2]} \in Edges
    BY DEF EdgePairs, ClauseEdge
  <2>2. PICK cl \in query.clauses : TwoSided(cl) /\ {cl.left.q, cl.right.q} = {l[1], l[2]}
    BY <2>1 DEF Edges, TwoSided
  <2>3. PICK m \in linked : m = <<cl.left.q, cl.right.q>>
    BY <1>1, <2>2 DEF ClausesLinked
  <2>4. (m[1] = l[1] /\ m[2] = l[2]) \/ (m[1] = l[2] /\ m[2] = l[1])
    BY <2>2, <2>3
  <2>5. m = <<m[1], m[2]>> /\ <<m[2], m[1]>> \in linked
    BY <1>1
  <2>6. QED  BY <2>1, <2>4, <2>5
<1>4. QED  BY <1>2, <1>3

(* The selections make_tuples is exact on, as the query's clauses put them.*)
PlainSelection ==
    query.select.kind = "tuple" => NoDetour(EdgePairs, Selected(query.select))

LEMMA ForestAnswer ==
    ASSUME QueryInv, GraphBuildInv, build = "graph", Idle, valid, IsForest, Declared
    PROVE  /\ LinksFormForest /\ NoneEmpty /\ Requested = solutions /\ solutions # {}
           /\ \A q \in Known : Candidates(q) = {s[q] : s \in Requested}
<1>1. /\ TypeOK /\ NoSolutionLost /\ LinksSymmetric
      /\ GraphInv /\ ForestInv /\ OnlySolutionsFit
  BY OwedMeans DEF QueryInv, BuildOK, SolutionInv, GraphBuildInv, LinkerInv
<1>2. LinksFormForest /\ NoneEmpty /\ initialized = Qvars
  BY ClausesFormForest DEF GraphBuildInv, DeclaredFull
<1>3. \A q \in Qvars : values[q] = {s[q] : s \in solutions}
  BY <1>1, <1>2, ForestsExact DEF ExactOnForests
<1>4. Requested = solutions /\ Known = Qvars /\ \A q \in Qvars : Candidates(q) = values[q]
  BY <1>2 DEF Requested, Known, Candidates
<1>5. solutions # {}
  <2>1. CASE Qvars = {}
    <3>1. PICK c : c \in Conds
      BY QueriesAssumption
    <3>2. PICK s \in Assignments : s = [q \in Qvars |-> c]
      BY <3>1 DEF Assignments
    <3>3. linked = {} /\ Frames(stack) = {}
      BY <1>1, <1>2, <2>1, FramesEmpty DEF TypeOK, Idle
    <3>4. Fits(s)
      BY <1>2, <2>1, <3>3 DEF Fits, FitsValues, FitsLinks, FitsWork
    <3>5. QED  BY <1>1, <3>4 DEF OnlySolutionsFit
  <2>2. CASE Qvars # {}
    <3>1. PICK q \in Qvars : values[q] # {}
      BY <1>2, <2>2 DEF NoneEmpty
    <3>2. QED  BY <1>3, <3>1
  <2>3. QED  BY <2>1, <2>2
<1>6. QED  BY <1>2, <1>3, <1>4, <1>5

LEMMA FormatGraphExact ==
    ASSUME QueryInv, GraphBuildInv, ClausesLinked, FormatResult,
           build = "graph", IsForest, Declared, PlainSelection
    PROVE  answer' = Meant(query.select, Requested)
<1>1. PICK sel : sel = query.select
  OBVIOUS
<1>2. /\ Idle /\ pending = {} /\ Selected(sel) \subseteq Known
      /\ sel.kind \in {"boolean", "variable", "tuple"}
  BY <1>1, QueryTyped DEF FormatResult, QueryInv
<1>3. CASE ~IsValid
  BY <1>3, FormatInvalid
<1>4. CASE IsValid
  <2>1. valid
    BY <1>4 DEF IsValid
  <2>2. /\ LinksFormForest /\ NoneEmpty /\ Requested = solutions /\ solutions # {}
        /\ \A q \in Known : Candidates(q) = {s[q] : s \in Requested}
    BY <1>2, <2>1, ForestAnswer
  <2>3. CASE sel.kind = "boolean"
    BY <1>1, <1>4, <2>2, <2>3 DEF FormatResult, Formatted, Meant
  <2>4. CASE sel.kind = "variable"
    <3>1. PICK q : q = sel.q
      OBVIOUS
    <3>2. answer' = IF sel.fits THEN Candidates(q) ELSE {}
      BY <1>1, <1>4, <2>4, <3>1 DEF FormatResult, Formatted
    <3>3. Meant(sel, Requested) = IF sel.fits THEN {s[q] : s \in Requested} ELSE {}
      BY <2>4, <3>1 DEF Meant
    <3>4. q \in Known
      BY <1>2, <2>4, <3>1 DEF Selected
    <3>5. QED  BY <1>1, <2>2, <3>2, <3>3, <3>4
  <2>5. CASE sel.kind = "tuple"
    <3>1. PICK qs \in Seq(Qvars) : qs = sel.qs /\ qs # <<>>
      BY <1>1, <2>5, QueryTyped DEF QueryInv
    <3>2. Meant(sel, Requested) = {[i \in DOMAIN qs |-> s[qs[i]]] : s \in Requested}
      BY <2>5, <3>1 DEF Meant
    <3>3. answer' = MakeTuples(qs)
      BY <1>1, <1>4, <2>5, <3>1 DEF FormatResult, Formatted
    <3>4. Selected(sel) = SelectedIn(qs)
      BY <2>5, <3>1 DEF Selected, SelectedIn
    <3>5. NoDetour(linked, SelectedIn(qs))
      BY <1>1, <1>2, <2>5, <3>4, LinkedAsClauses DEF PlainSelection
    <3>6. \A i \in DOMAIN qs : qs[i] \in initialized
      BY <1>2, <3>4 DEF SelectedIn, Known
    <3>7. /\ TypeOK /\ NoSolutionLost /\ LinksSymmetric
          /\ GraphInv /\ ForestInv /\ OnlySolutionsFit
      BY OwedMeans DEF QueryInv, BuildOK, SolutionInv, GraphBuildInv, LinkerInv
    <3>8. MakeTuples(qs) = SolutionTuples(qs)
      BY <1>2, <2>1, <2>2, <3>1, <3>5, <3>6, <3>7, TuplesExact
    <3>9. QED  BY <1>1, <2>2, <3>2, <3>3, <3>8 DEF SolutionTuples
  <2>6. QED  BY <1>2, <2>3, <2>4, <2>5
<1>5. QED  BY <1>3, <1>4

(* In either build a reply is exactly what the query means, wherever the   *)
(* linker promises it: in the graph build for clauses that relate declared *)
(* variables in a forest, in the cluster build on cyclic graphs, too.  A   *)
(* tuple is left out only in the graph build, and only when some of its    *)
(* variables are related through others alone.                             *)
THEOREM AnswersAreExact ==
    QuerySpec => []((build = "graph" => PlainSelection) => AnswerExact)
<1> DEFINE Exact == (build = "graph" /\ PlainSelection) => AnswerExact
<1>1. QueryInit => ClausesLinked /\ Exact
  BY ClausesLinkedStarts DEF QueryInit, AnswerExact
<1>2. QueryInv /\ GraphBuildInv /\ ClausesLinked /\ [QueryNext]_vars => ClausesLinked'
  BY ClausesLinkedSteps
<1>3. ASSUME QueryInv, GraphBuildInv, ClausesLinked, Exact, [QueryNext]_vars PROVE Exact'
  <2>1. SUFFICES ASSUME build' = "graph", PlainSelection', answer' # None, Exacting'
                 PROVE  (answer = Meant(query.select, Satisfying(query.clauses)))'
    BY DEF AnswerExact
  <2>2. query' = query /\ build' = build /\ (answer' = answer \/ FormatResult)
    BY <1>3, OnlyFormatAnswers, BuildStays
  <2>3. IsForest /\ Declared /\ PlainSelection /\ Exacting /\ build = "graph"
    BY <2>1, <2>2
       DEF Exacting, IsForest, Declared, PlainSelection, EdgePairs, ClauseEdge, Edges
  <2>4. PICK clauses : clauses = query.clauses
    OBVIOUS
  <2>5. PICK sols : sols = Satisfying(clauses)
    OBVIOUS
  <2>6. Satisfying(clauses)' = sols
    BY <2>2, <2>5, SatisfyingAfter
  <2>7. SUFFICES answer' = Meant(query.select, sols)
    BY <2>2, <2>4, <2>6
  <2>8. CASE FormatResult
    <3>1. Requested = sols
      BY <1>3, <2>4, <2>5, <2>8, FormatStep
    <3>2. QED  BY <1>3, <2>3, <2>8, <3>1, FormatGraphExact
  <2>9. CASE answer' = answer
    BY <1>3, <2>1, <2>3, <2>4, <2>5, <2>9 DEF AnswerExact
  <2>10. QED  BY <2>2, <2>8, <2>9
<1>4. QuerySpec => []Exact
  <2> HIDE DEF Exact
  <2>1. QED  BY <1>1, <1>2, <1>3, QueryInvHolds, GraphBuildHolds, PTL DEF QuerySpec
<1>5. QueryInv /\ Exact /\ (build = "cluster" => AnswerExact)
         => ((build = "graph" => PlainSelection) => AnswerExact)
  BY EitherBuild DEF QueryInv
<1>6. QED  BY <1>4, <1>5, ClusterAnswersExactly, QueryInvHolds, PTL
=============================================================================
