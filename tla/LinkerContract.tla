--------------------------- MODULE LinkerContract ---------------------------
(***************************************************************************)
(* What the query processor may rely on in a QueryLinker (simple/linker.h):*)
(* a store of candidate conditions that a request can only narrow, that    *)
(* drops a candidate only when no solution of the requests uses it, and    *)
(* that turns invalid only when there is no solution left at all.  It says *)
(* nothing of links or cascades, and nothing of when a candidate is        *)
(* dropped.                                                                *)
(***************************************************************************)
CONSTANTS Qvars, Conds

VARIABLES initialized, values, valid, solutions

contractVars == <<initialized, values, valid, solutions>>

(* The conditions that some solution in sols gives to q.                   *)
Used(q, sols) == {s[q] : s \in sols}

Init ==
    /\ initialized \in SUBSET Qvars
    /\ values \in [Qvars -> SUBSET Conds]
    /\ valid = TRUE
    /\ solutions = {s \in [Qvars -> Conds] : \A q \in initialized : s[q] \in values[q]}

(* A request narrows the solutions; it may initialise variables, with      *)
(* every condition a solution uses among their values, and invalidate the  *)
(* state if no solution is left.                                           *)
Narrow ==
    /\ initialized \subseteq initialized'
    /\ initialized' \in SUBSET Qvars
    /\ solutions' \in SUBSET solutions
    /\ values' \in [Qvars -> SUBSET Conds]
    /\ \A q \in initialized : values'[q] = values[q]
    /\ \A q \in initialized' \ initialized : Used(q, solutions') \subseteq values'[q]
    /\ \/ valid' = valid
       \/ valid' = FALSE /\ solutions' = {}

(* A candidate no solution uses is dropped; the state turns invalid        *)
(* exactly when the variable is left without candidates.                   *)
Drop ==
    /\ \E q \in initialized : \E c \in values[q] \ Used(q, solutions) :
          /\ values' = [values EXCEPT ![q] = @ \ {c}]
          /\ valid' = (valid /\ values[q] # {c})
    /\ UNCHANGED <<initialized, solutions>>

Next == Narrow \/ Drop

Spec == Init /\ [][Next]_contractVars
=============================================================================
