---------------------------- MODULE ClusterLinker ----------------------------
(***************************************************************************)
(* The other SimpleQueryLinker (impl/linker-cluster.cpp), which takes the  *)
(* place of impl/linker.cpp in a build.  A variable is unlinked and has a  *)
(* set of conditions, or it is a column of the one QvarCluster, a list of  *)
(* tuples that every clause of two variables joins to.                     *)
(*                                                                         *)
(* A ConditionTuple is a linked list with the newest column in front;      *)
(* columns are numbered from the oldest, so a column is found by counting  *)
(* from the number of columns there are.  make_tuples adds a column for    *)
(* each unlinked variable it selects and leaves the variable unlinked, so  *)
(* that a variable may have columns that nothing reads any more.           *)
(***************************************************************************)
EXTENDS Naturals, Sequences, FiniteSets

CONSTANTS
    Qvars,       \* names of query variables
    Conds,       \* conditions
    GlobalSet,   \* _global_set
    Domains,     \* predicate tables a query may declare
    Joinable,    \* ordered pairs of query variables the clauses may relate
    Relations,   \* sets of condition pairs a clause may hand to update_links
    Selections,  \* lists of query variables a query may select
    NoReply,
    MaxColumns   \* bound: columns of the cluster

VARIABLES
    qvar_type,      \* _qvar_type_table; "none" where it has no entry
    single_values,  \* _single_qvar_values
    qvar_index,     \* _qvar_index of the cluster; any number where no entry
    qvar_counter,   \* _qvar_counter
    tuples,         \* _tuples
    valid_state,    \* _valid_state
    reply           \* what the last call of make_tuples returned

clusterVars ==
    <<qvar_type, single_values, qvar_index, qvar_counter, tuples, valid_state, reply>>

-----------------------------------------------------------------------------
is_initialized(q) == qvar_type[q] # "none"
Linked   == {q \in Qvars : qvar_type[q] = "linked"}
Unlinked == {q \in Qvars : qvar_type[q] = "unlinked"}

(* Mutant: counts from the newest column.                                  *)
get_condition_from_front(t, index, counter) == t[index + 1]

(* get_condition_from_tuple_index, where the cluster has counter columns.  *)
get_condition(t, index, counter) == t[counter - index]

Column(t, q) == get_condition(t, qvar_index[q], qvar_counter)

(* The operations of QvarCluster, as the list of tuples they leave.        *)
update_qvar(q, new) == {t \in tuples : Column(t, q) \in new}
update_pair(q, p, rel) == {t \in tuples : <<Column(t, q), Column(t, p)>> \in rel}
add_new_pair(rel) == UNION {{<<l[2], l[1]>> \o t : l \in rel} : t \in tuples}
add_pair_first_exist(q, rel) ==
    UNION {{<<l[2]>> \o t : l \in {k \in rel : k[1] = Column(t, q)}} : t \in tuples}

get_conditions(q) ==
    IF qvar_type[q] = "unlinked" THEN single_values[q] ELSE {Column(t, q) : t \in tuples}

is_valid_state == valid_state /\ (qvar_counter = 0 \/ tuples # {})

-----------------------------------------------------------------------------
(* The constructor: init_qvar for each entry of the predicate table.       *)
InitWith(d) ==
    /\ qvar_type = [q \in Qvars |-> IF q \in DOMAIN d THEN "unlinked" ELSE "none"]
    /\ single_values = [q \in Qvars |-> IF q \in DOMAIN d THEN d[q] ELSE {}]
    /\ qvar_index = [q \in Qvars |-> 0]
    /\ qvar_counter = 0
    /\ tuples = {<<>>}
    /\ valid_state = TRUE
    /\ reply = NoReply

Init == \E d \in Domains : InitWith(d)

(* ensure_initialized: the types and the values after the calls for qs.    *)
(* (The constructor has entered every declared variable, so that the look  *)
(* into _pred_table finds none.)                                           *)
TypeFor(qs) ==
    [r \in Qvars |-> IF r \in qs /\ ~is_initialized(r) THEN "unlinked" ELSE qvar_type[r]]
ValuesFor(qs) ==
    [r \in Qvars |-> IF r \in qs /\ ~is_initialized(r) THEN GlobalSet ELSE single_values[r]]

UpdateResults(q, new) ==
    /\ qvar_type' = TypeFor({q})
    /\ single_values' = IF q \in Linked THEN single_values
                        ELSE [ValuesFor({q}) EXCEPT ![q] = @ \cap new]
    /\ tuples' = IF q \in Linked THEN update_qvar(q, new) ELSE tuples
    /\ reply' = NoReply
    /\ UNCHANGED <<qvar_index, qvar_counter, valid_state>>

(* What get_conditions and the other calls do to a variable on first use.  *)
GetConditions(q) ==
    /\ ~is_initialized(q)
    /\ qvar_type' = TypeFor({q})
    /\ single_values' = ValuesFor({q})
    /\ reply' = NoReply
    /\ UNCHANGED <<qvar_index, qvar_counter, tuples, valid_state>>

InvalidateState ==
    /\ valid_state' = FALSE
    /\ reply' = NoReply
    /\ UNCHANGED <<qvar_type, single_values, qvar_index, qvar_counter, tuples>>

-----------------------------------------------------------------------------
(* The four branches of update_links, by which of the two are linked.      *)

(* Neither: add_new_pair crosses the tuples with the pairs that both sets  *)
(* have.                                                                   *)
LinkNewPair(q, p, rel) ==
    LET have     == ValuesFor({q, p})
        filtered == {l \in rel : l[1] \in have[q] /\ l[2] \in have[p]}
    IN  /\ q \notin Linked /\ p \notin Linked
        /\ qvar_counter + 2 <= MaxColumns
        /\ qvar_index' = [qvar_index EXCEPT ![q] = qvar_counter, ![p] = qvar_counter + 1]
        /\ qvar_counter' = qvar_counter + 2
        /\ tuples' = add_new_pair(filtered)
        /\ qvar_type' = [TypeFor({q, p}) EXCEPT ![q] = "linked", ![p] = "linked"]
        /\ single_values' = have

(* q only: add_pair_first_exist extends each tuple by the partners of its  *)
(* condition of q among the conditions of p.                               *)
LinkToColumn(q, p, pairs) ==
    LET have     == ValuesFor({p})
        filtered == {l \in pairs : l[2] \in have[p]}
    IN  /\ q \in Linked /\ p \notin Linked
        /\ qvar_counter + 1 <= MaxColumns
        /\ tuples' = add_pair_first_exist(q, filtered)
        /\ qvar_index' = [qvar_index EXCEPT ![p] = qvar_counter]
        /\ qvar_counter' = qvar_counter + 1
        /\ qvar_type' = [TypeFor({p}) EXCEPT ![p] = "linked"]
        /\ single_values' = have

(* Both: update_pair filters.                                              *)
LinkColumns(q, p, rel) ==
    /\ q \in Linked /\ p \in Linked
    /\ tuples' = update_pair(q, p, rel)
    /\ UNCHANGED <<qvar_type, single_values, qvar_index, qvar_counter>>

UpdateLinks(q, p, rel) ==
    /\ \/ LinkNewPair(q, p, rel)
       \/ LinkToColumn(q, p, rel)
       \/ LinkToColumn(p, q, {<<l[2], l[1]>> : l \in rel})
       \/ LinkColumns(q, p, rel)
    /\ reply' = NoReply
    /\ UNCHANGED valid_state

-----------------------------------------------------------------------------
(* The loop of make_tuples: add_qvar for each position of the selection    *)
(* whose variable is not linked, in their order.  A variable selected twice*)
(* has two new columns, and its index is the later one.                    *)
Added(qs) == {i \in DOMAIN qs : qs[i] \notin Linked}

(* The new columns older than that of position i.                          *)
Older(qs, i) == Cardinality({k \in Added(qs) : k < i})

(* The tuples with a condition of each added variable in front, the last   *)
(* variable's first.                                                       *)
Extended(qs, have) ==
    LET n == Cardinality(Added(qs))
        fronts == {f \in [1..n -> Conds] :
                      \A i \in Added(qs) : f[n - Older(qs, i)] \in have[qs[i]]}
    IN  UNION {{f \o t : f \in fronts} : t \in tuples}

LatestFor(qs, r) ==
    CHOOSE i \in Added(qs) : qs[i] = r /\ \A k \in Added(qs) : qs[k] = r => k <= i

IndexAfter(qs) ==
    [r \in Qvars |-> IF \E i \in Added(qs) : qs[i] = r
                     THEN qvar_counter + Older(qs, LatestFor(qs, r))
                     ELSE qvar_index[r]]

MakeTuples(qs) ==
    LET sel     == {qs[i] : i \in DOMAIN qs}
        have    == ValuesFor(sel)
        counter == qvar_counter + Cardinality(Added(qs))
    IN  /\ counter <= MaxColumns
        /\ qvar_type' = TypeFor(sel)
        /\ single_values' = have
        /\ tuples' = Extended(qs, have)
        /\ qvar_index' = IndexAfter(qs)
        /\ qvar_counter' = counter
        /\ reply' = {[i \in DOMAIN qs |->
                          get_condition(t, qvar_index'[qs[i]], qvar_counter')] : t \in tuples'}
        /\ UNCHANGED valid_state

Next ==
    \/ \E q \in Qvars : \E new \in SUBSET Conds : UpdateResults(q, new)
    \/ \E q \in Qvars : GetConditions(q)
    \/ \E j \in Joinable : \E rel \in Relations : UpdateLinks(j[1], j[2], rel)
    \/ InvalidateState
    \/ \E qs \in Selections : MakeTuples(qs)

Spec == Init /\ [][Next]_clusterVars

-----------------------------------------------------------------------------
(* The assignments a state stands for.                                     *)
Solutions ==
    IF valid_state
    THEN {s \in [Qvars -> Conds] :
             /\ \A q \in Unlinked : s[q] \in single_values[q]
             /\ \E t \in tuples : \A q \in Linked : s[q] = Column(t, q)}
    ELSE {}

(* The store these tables stand for.                                       *)
Store == INSTANCE QueryStore WITH
    initialized <- {q \in Qvars : is_initialized(q)},
    solutions   <- Solutions,
    valid       <- is_valid_state,
    reply       <- reply
=============================================================================
