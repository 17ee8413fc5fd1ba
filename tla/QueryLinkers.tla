---------------------------- MODULE QueryLinkers ----------------------------
(***************************************************************************)
(* The two classes SimpleQueryLinker side by side: impl/linker.cpp, which  *)
(* keeps a graph of linked conditions (Linker, LinkerTuples), and          *)
(* impl/linker-cluster.cpp, which keeps joined tuples (ClusterLinker).     *)
(* Both define simple::impl::SimpleQueryLinker, so that a program has one  *)
(* of them; build says which, and the tables of the other never change.    *)
(***************************************************************************)
EXTENDS LinkerTuples

CONSTANTS
    Builds,     \* "graph", "cluster": the builds considered
    Asked,      \* the selections the cluster build is asked for
    Related,    \* the relations the cluster build is asked to link by
    NoReply,
    MaxColumns  \* bound: columns of the cluster

ASSUME BuildsAssumption ==
    /\ Builds \subseteq {"graph", "cluster"}
    /\ Asked \subseteq Selections
    /\ Related \subseteq Relations
    /\ MaxColumns \in Nat

VARIABLES
    build,
    qvar_type, single_values, qvar_index, qvar_counter, tuples, valid_state, reply

Cluster == INSTANCE ClusterLinker WITH Selections <- Asked, Relations <- Related

clusterVars ==
    <<qvar_type, single_values, qvar_index, qvar_counter, tuples, valid_state, reply>>
buildVars == <<build, linkerVars, clusterVars>>

-----------------------------------------------------------------------------
(* The calls of QueryLinker (simple/linker.h), answered by the build's     *)
(* class.                                                                  *)
Known == IF build = "graph" THEN initialized ELSE {q \in Qvars : Cluster!is_initialized(q)}
Candidates(q) == IF build = "graph" THEN values[q] ELSE Cluster!get_conditions(q)
IsValid       == IF build = "graph" THEN valid ELSE Cluster!is_valid_state

Ask(ofGraph, ofCluster) ==
    /\ \/ build = "graph" /\ ofGraph /\ UNCHANGED clusterVars
       \/ build = "cluster" /\ ofCluster /\ UNCHANGED linkerVars
    /\ UNCHANGED build

CallUpdateResults(q, new)   == Ask(UpdateResults(q, new), Cluster!UpdateResults(q, new))
CallUpdateLinks(q, p, rel)  == Ask(UpdateLinks(q, p, rel), Cluster!UpdateLinks(q, p, rel))
CallGetConditions(q)        == Ask(GetConditions(q), Cluster!GetConditions(q))
CallInvalidateState         == Ask(InvalidateState, Cluster!InvalidateState)

-----------------------------------------------------------------------------
(* Both constructors, given the same predicate table.                      *)
BuildInit ==
    /\ build \in Builds
    /\ Init
    /\ Cluster!Init
    /\ single_values = values
    /\ initialized = {q \in Qvars : Cluster!is_initialized(q)}

BuildNext == Ask(Next, Cluster!Next)

(* A call of the linker that recurses runs to its end.                     *)
RunCascade == build = "graph" /\ Cascade /\ UNCHANGED <<build, clusterVars>>

BuildSpec == BuildInit /\ [][BuildNext]_buildVars /\ WF_buildVars(RunCascade)

(* Every request on the sets and joined tuples of linker-cluster.cpp is the*)
(* request on the set of solutions, and its make_tuples lists their        *)
(* projections, whatever the order and the graph of the linked variables,  *)
(* cyclic ones included; is_valid_state is false only when there is no     *)
(* solution.                                                               *)
ImplementsStore == Cluster!Store!Spec
=============================================================================
