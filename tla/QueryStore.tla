------------------------------ MODULE QueryStore ------------------------------
(***************************************************************************)
(* What simple/linker.h promises of a QueryLinker, exactly: the store is   *)
(* the set of assignments that satisfy the requests made so far, and       *)
(* make_tuples lists their projections.  Nothing is said of tables; a      *)
(* linker that keeps fewer or more than the solutions does not implement   *)
(* this module.  LinkerContract is the weaker promise that Linker keeps on *)
(* cyclic links, too.                                                      *)
(***************************************************************************)
EXTENDS Naturals, Sequences

CONSTANTS
    Qvars,       \* names of query variables
    Conds,       \* conditions
    GlobalSet,   \* what an undeclared variable starts with
    Domains,     \* predicate tables: [subset of Qvars -> SUBSET Conds]
    Joinable,    \* ordered pairs of query variables a clause may relate
    Relations,   \* sets of condition pairs a clause may relate them by
    Selections,  \* lists of query variables to select
    NoReply

VARIABLES initialized, solutions, valid, reply

storeVars == <<initialized, solutions, valid, reply>>

Assignments == [Qvars -> Conds]

(* The first use of a variable gives it the global set.                    *)
WithinGlobal(s, qs) == \A q \in qs \ initialized : s[q] \in GlobalSet

(* The state may be found invalid only when there is no solution.          *)
Judge == valid' = valid \/ (valid' = FALSE /\ solutions' = {})

Project(sols, qs) == {[i \in DOMAIN qs |-> s[qs[i]]] : s \in sols}

Init ==
    /\ \E d \in Domains :
          /\ initialized = DOMAIN d
          /\ solutions = {s \in Assignments : \A q \in DOMAIN d : s[q] \in d[q]}
    /\ valid = TRUE
    /\ reply = NoReply

UpdateResults ==
    \E q \in Qvars : \E new \in SUBSET Conds :
        /\ solutions' = {s \in solutions : s[q] \in new /\ WithinGlobal(s, {q})}
        /\ initialized' = initialized \cup {q}
        /\ reply' = NoReply
        /\ Judge

UpdateLinks ==
    \E j \in Joinable : \E rel \in Relations :
        LET q == j[1]
            p == j[2]
        IN  /\ solutions' = {s \in solutions : /\ <<s[q], s[p]>> \in rel
                                               /\ WithinGlobal(s, {q, p})}
            /\ initialized' = initialized \cup {q, p}
            /\ reply' = NoReply
            /\ Judge

GetConditions ==
    \E q \in Qvars :
        /\ solutions' = {s \in solutions : WithinGlobal(s, {q})}
        /\ initialized' = initialized \cup {q}
        /\ reply' = NoReply
        /\ Judge

InvalidateState ==
    /\ solutions' = {}
    /\ valid' = FALSE
    /\ reply' = NoReply
    /\ UNCHANGED initialized

(* Without a solution there is nothing to select; the caller looks at the  *)
(* validity of the state before it uses the reply.                         *)
MakeTuples ==
    \E qs \in Selections :
        LET sel == {qs[i] : i \in DOMAIN qs}
        IN  /\ solutions' = {s \in solutions : WithinGlobal(s, sel)}
            /\ initialized' = initialized \cup sel
            /\ solutions' # {} => reply' = Project(solutions', qs)
            /\ Judge

(* A request that changes nothing is a stuttering step.                    *)
Next ==
    /\ storeVars' # storeVars
    /\ UpdateResults \/ UpdateLinks \/ GetConditions \/ InvalidateState \/ MakeTuples

Spec == Init /\ [][Next]_storeVars
=============================================================================
