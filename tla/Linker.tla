------------------------------- MODULE Linker -------------------------------
(***************************************************************************)
(* SimpleQueryLinker (impl/linker.cpp): the store that holds, while a PQL  *)
(* query is evaluated, the conditions each query variable may still take   *)
(* and the pairs of conditions that the two-variable clauses link.         *)
(*                                                                         *)
(* The class is recursive: removing a condition breaks its links, and a    *)
(* condition that loses its last link to a linked variable is removed in   *)
(* turn.  The module keeps that recursion as an explicit stack of frames,  *)
(* one per call or loop in progress, so that every intermediate state of   *)
(* the cascade is a state of the specification.  The iteration order of    *)
(* the std::sets (by name, by address) is left open: each loop picks any   *)
(* element it has not visited.                                             *)
(*                                                                         *)
(* A definition marked "Mutant" is the one after it with a plausible bug;  *)
(* it is part of no specification and shows what a property can detect.    *)
(***************************************************************************)
EXTENDS Naturals, Sequences, FiniteSets

CONSTANTS
    Qvars,      \* names of query variables
    Conds,      \* conditions (statements, procedures, variables, constants ...)
    GlobalSet,  \* _global_set: the wildcard predicate's conditions
    Domains,    \* predicate tables a query may declare: [subset of Qvars -> SUBSET Conds]
    Joinable,   \* ordered pairs of query variables the query's clauses may relate
    Relations   \* sets of condition pairs a clause may hand to update_links

ASSUME LinkerAssumption ==
    /\ GlobalSet \subseteq Conds
    /\ \A d \in Domains : /\ DOMAIN d \subseteq Qvars
                          /\ \A q \in DOMAIN d : d[q] \subseteq Conds
    /\ Joinable \subseteq Qvars \X Qvars
    /\ \A j \in Joinable : j[1] # j[2]
    /\ Relations \subseteq SUBSET (Conds \X Conds)

VARIABLES
    initialized,  \* the keys of _qvar_table
    values,       \* _qvar_table: the conditions a query variable still has
    arcs,         \* _condition_link_table: <<q, c, p, d>> when d is in [(q, p)][c]
    linked,       \* _qvar_link_table, as the set of its ordered pairs
    valid,        \* _valid_state
    stack,        \* calls and loops in progress, innermost first
    solutions     \* history variable: the assignments that satisfy every
                  \* request made so far

linkerVars == <<initialized, values, arcs, linked, valid, stack, solutions>>

-----------------------------------------------------------------------------
Assignments == [Qvars -> Conds]

Arc(q, c, p, d) == <<q, c, p, d>>
Arcs == Qvars \X Conds \X Qvars \X Conds
Rev(a) == <<a[3], a[4], a[1], a[2]>>

(* get_linked_conditions: the conditions of p linked to condition c of q.  *)
Partners(q, c, p) == {d \in Conds : Arc(q, c, p, d) \in arcs}

(* get_links_as_tuples, keeping the names of the two variables.            *)
LinksBetween(q, p) == {a \in arcs : a[1] = q /\ a[3] = p}

(* The entry of condition c in the links of q to p.                        *)
LinksOf(q, c, p) == {a \in LinksBetween(q, p) : a[2] = c}

HasLink(q, p) == <<q, p>> \in linked
LinkedTo(q) == {p \in Qvars : HasLink(q, p)}

-----------------------------------------------------------------------------
(* Frames of the stack, named after the function whose loop they stand for. *)
UpdateFrame(q, keep)    == [op |-> "update_results", q |-> q, keep |-> keep]
UnlinkFrame(q, c, todo) == [op |-> "remove_condition", q |-> q, c |-> c, todo |-> todo]
BreakFrame(todo)        == [op |-> "break_link", todo |-> todo]
BothFrame(todo)         == [op |-> "break_both_links", todo |-> todo]
RegisterFrame(q, p)     == [op |-> "update_links", q |-> q, p |-> p]

UpdateFrames   == [op : {"update_results"}, q : Qvars, keep : SUBSET Conds]
UnlinkFrames   == [op : {"remove_condition"}, q : Qvars, c : Conds, todo : SUBSET Qvars]
BreakFrames    == [op : {"break_link"}, todo : SUBSET Arcs]
BothFrames     == [op : {"break_both_links"}, todo : SUBSET Arcs]
RegisterFrames == [op : {"update_links"}, q : Qvars, p : Qvars]

AllFrames ==
    UpdateFrames \cup UnlinkFrames \cup BreakFrames \cup BothFrames \cup RegisterFrames

Frames(s) == {s[i] : i \in DOMAIN s}
Idle == stack = <<>>
Top(op) == stack # <<>> /\ Head(stack).op = op
Call(f) == <<f>> \o stack

-----------------------------------------------------------------------------
(* The constructor: one update_results per entry of the predicate table.   *)
InitWith(d) ==
    /\ initialized = DOMAIN d
    /\ values = [q \in Qvars |-> IF q \in DOMAIN d THEN d[q] ELSE {}]
    /\ arcs = {}
    /\ linked = {}
    /\ valid = TRUE
    /\ stack = <<>>
    /\ solutions = {s \in Assignments : \A q \in initialized : s[q] \in values[q]}

Init == \E d \in Domains : InitWith(d)

(* update_results.  A variable seen for the first time takes the new set;  *)
(* otherwise every condition outside the new set is removed.               *)
UpdateResults(q, new) ==
    /\ Idle
    /\ solutions' = {s \in solutions : s[q] \in new}
    /\ IF q \in initialized
       THEN /\ stack' = Call(UpdateFrame(q, new))
            /\ UNCHANGED <<initialized, values>>
       ELSE /\ initialized' = initialized \cup {q}
            /\ values' = [values EXCEPT ![q] = new]
            /\ UNCHANGED stack
    /\ UNCHANGED <<arcs, linked, valid>>

(* Mutant: forgets to ask whether q is initialised.                        *)
GetConditionsAgain(q) ==
    /\ Idle
    /\ initialized' = initialized \cup {q}
    /\ values' = [values EXCEPT ![q] = GlobalSet]
    /\ solutions' = {s \in solutions : s[q] \in GlobalSet}
    /\ UNCHANGED <<arcs, linked, valid, stack>>

(* get_conditions: its one effect is to initialise a variable from the     *)
(* global set.                                                             *)
GetConditions(q) ==
    /\ Idle
    /\ q \notin initialized
    /\ initialized' = initialized \cup {q}
    /\ values' = [values EXCEPT ![q] = GlobalSet]
    /\ solutions' = {s \in solutions : s[q] \in GlobalSet}
    /\ UNCHANGED <<arcs, linked, valid, stack>>

(* invalidate_state, which the processor calls when a clause without query *)
(* variables is false.                                                     *)
InvalidateState ==
    /\ Idle
    /\ valid' = FALSE
    /\ solutions' = {}
    /\ UNCHANGED <<initialized, values, arcs, linked, stack>>

(* The two is_initialized tests that open update_links.                    *)
ValuesFor(q, p) ==
    [r \in Qvars |-> IF r \in {q, p} \ initialized THEN GlobalSet ELSE values[r]]

(* The assignments that survive a request to link q and p by rel.          *)
Surviving(q, p, rel) ==
    {s \in solutions : /\ <<s[q], s[p]>> \in rel
                       /\ \A r \in {q, p} \ initialized : s[r] \in GlobalSet}

(* Mutant: reads the pairs of rel the wrong way round.                     *)
UpdateOldLinksReversed(q, p, rel) ==
    /\ Idle
    /\ HasLink(q, p)
    /\ initialized' = initialized \cup {q, p}
    /\ values' = ValuesFor(q, p)
    /\ solutions' = Surviving(q, p, rel)
    /\ stack' = Call(BothFrame({a \in LinksBetween(q, p) : <<a[4], a[2]>> \notin rel}))
    /\ UNCHANGED <<arcs, linked, valid>>

(* update_links on a pair already linked: the links that are not in rel    *)
(* are broken, both ways.                                                  *)
UpdateOldLinks(q, p, rel) ==
    /\ Idle
    /\ HasLink(q, p)
    /\ initialized' = initialized \cup {q, p}
    /\ values' = ValuesFor(q, p)
    /\ solutions' = Surviving(q, p, rel)
    /\ stack' = Call(BothFrame({a \in LinksBetween(q, p) : <<a[2], a[4]>> \notin rel}))
    /\ UNCHANGED <<arcs, linked, valid>>

(* update_links on a pair not linked yet: add_link for each pair whose     *)
(* ends both variables still have, then both variables are cut down to the *)
(* linked conditions, and only then is the pair entered in                 *)
(* _qvar_link_table.                                                       *)
UpdateNewLinks(q, p, rel) ==
    LET have     == ValuesFor(q, p)
        accepted == {l \in rel : l[1] \in have[q] /\ l[2] \in have[p]}
    IN  /\ Idle
        /\ ~HasLink(q, p)
        /\ initialized' = initialized \cup {q, p}
        /\ values' = have
        /\ solutions' = Surviving(q, p, rel)
        /\ arcs' = arcs \cup {Arc(q, l[1], p, l[2]) : l \in accepted}
                        \cup {Arc(p, l[2], q, l[1]) : l \in accepted}
        /\ stack' = << UpdateFrame(q, {l[1] : l \in accepted}),
                       UpdateFrame(p, {l[2] : l \in accepted}),
                       RegisterFrame(q, p) >> \o stack
        /\ UNCHANGED <<linked, valid>>

UpdateLinks(q, p, rel) == UpdateOldLinks(q, p, rel) \/ UpdateNewLinks(q, p, rel)

-----------------------------------------------------------------------------
(* Mutant: invalidates the state one condition too early.                  *)
RemoveConditionEarly(q, c, rest) ==
    IF c \in values[q]
    THEN /\ values' = [values EXCEPT ![q] = @ \ {c}]
         /\ valid' = (valid /\ Cardinality(values[q]) > 2)
         /\ stack' = <<UnlinkFrame(q, c, LinkedTo(q))>> \o rest
    ELSE /\ stack' = rest
         /\ UNCHANGED <<values, valid>>

(* remove_condition up to its loop: nothing for an absent condition;       *)
(* otherwise the condition goes, an emptied variable invalidates the       *)
(* state, and the loop over the linked variables begins above rest.        *)
RemoveCondition(q, c, rest) ==
    IF c \in values[q]
    THEN /\ values' = [values EXCEPT ![q] = @ \ {c}]
         /\ valid' = (valid /\ values[q] # {c})
         /\ stack' = <<UnlinkFrame(q, c, LinkedTo(q))>> \o rest
    ELSE /\ stack' = rest
         /\ UNCHANGED <<values, valid>>

(* The loop of update_results.                                             *)
UpdateStep ==
    /\ Top("update_results")
    /\ \E c \in values[Head(stack).q] \ Head(stack).keep :
          RemoveCondition(Head(stack).q, c, stack)
    /\ UNCHANGED <<initialized, arcs, linked, solutions>>

(* Mutant: leaves the links of the other end in place.                     *)
UnlinkOneEnd ==
    /\ Top("remove_condition")
    /\ \E p \in Head(stack).todo :
          LET f == Head(stack)
          IN  /\ arcs' = arcs \ LinksOf(f.q, f.c, p)
              /\ stack' = <<UnlinkFrame(f.q, f.c, f.todo \ {p})>> \o Tail(stack)
    /\ UNCHANGED <<initialized, values, linked, valid, solutions>>

(* The outer loop of remove_condition: move the condition's links to one   *)
(* linked variable out of the table, then break them from the other end.   *)
UnlinkStep ==
    /\ Top("remove_condition")
    /\ \E p \in Head(stack).todo :
          LET f == Head(stack)
          IN  /\ arcs' = arcs \ LinksOf(f.q, f.c, p)
              /\ stack' = << BreakFrame({Rev(a) : a \in LinksOf(f.q, f.c, p)}),
                             UnlinkFrame(f.q, f.c, f.todo \ {p}) >> \o Tail(stack)
    /\ UNCHANGED <<initialized, values, linked, valid, solutions>>

(* Mutant: removes the condition whatever links it has left.               *)
BreakAndRemove ==
    /\ Top("break_link")
    /\ \E a \in Head(stack).todo :
          /\ arcs' = arcs \ {a}
          /\ RemoveCondition(a[1], a[2],
                 <<BreakFrame(Head(stack).todo \ {a})>> \o Tail(stack))
    /\ UNCHANGED <<initialized, linked, solutions>>

(* Mutant: never removes the condition.                                    *)
BreakAndKeep ==
    /\ Top("break_link")
    /\ \E a \in Head(stack).todo :
          /\ arcs' = arcs \ {a}
          /\ stack' = <<BreakFrame(Head(stack).todo \ {a})>> \o Tail(stack)
    /\ UNCHANGED <<initialized, values, valid, linked, solutions>>

(* break_link: a condition that loses its last link to the other variable  *)
(* is removed.                                                             *)
BreakStep ==
    /\ Top("break_link")
    /\ \E a \in Head(stack).todo :
          LET rest == <<BreakFrame(Head(stack).todo \ {a})>> \o Tail(stack)
          IN  /\ arcs' = arcs \ {a}
              /\ IF Partners(a[1], a[2], a[3]) \subseteq {a[4]}
                 THEN RemoveCondition(a[1], a[2], rest)
                 ELSE /\ stack' = rest
                      /\ UNCHANGED <<values, valid>>
    /\ UNCHANGED <<initialized, linked, solutions>>

(* Mutant: the loop does not advance.                                      *)
BreakBothForever ==
    /\ Top("break_both_links")
    /\ \E a \in Head(stack).todo :
          stack' = <<BreakFrame({a}), BreakFrame({Rev(a)})>> \o stack
    /\ UNCHANGED <<initialized, values, arcs, linked, valid, solutions>>

(* break_both_links for one of the links that update_links drops.          *)
BreakBothStep ==
    /\ Top("break_both_links")
    /\ \E a \in Head(stack).todo :
          stack' = << BreakFrame({a}), BreakFrame({Rev(a)}),
                      BothFrame(Head(stack).todo \ {a}) >> \o Tail(stack)
    /\ UNCHANGED <<initialized, values, arcs, linked, valid, solutions>>

(* Mutant: enters the pair in one direction only.                          *)
RegisterOneWay ==
    /\ Top("update_links")
    /\ linked' = linked \cup {<<Head(stack).q, Head(stack).p>>}
    /\ stack' = Tail(stack)
    /\ UNCHANGED <<initialized, values, arcs, valid, solutions>>

(* The last two statements of update_links.                                *)
RegisterStep ==
    /\ Top("update_links")
    /\ linked' = linked \cup { <<Head(stack).q, Head(stack).p>>,
                               <<Head(stack).p, Head(stack).q>> }
    /\ stack' = Tail(stack)
    /\ UNCHANGED <<initialized, values, arcs, valid, solutions>>

(* A loop has nothing left to visit.                                       *)
Finished(f) ==
    \/ f.op = "update_results" /\ values[f.q] \subseteq f.keep
    \/ f.op \in {"remove_condition", "break_link", "break_both_links"} /\ f.todo = {}

Return ==
    /\ stack # <<>>
    /\ Finished(Head(stack))
    /\ stack' = Tail(stack)
    /\ UNCHANGED <<initialized, values, arcs, linked, valid, solutions>>

Cascade ==
    UpdateStep \/ UnlinkStep \/ BreakStep \/ BreakBothStep \/ RegisterStep \/ Return

Request ==
    \/ \E q \in Qvars : \E new \in SUBSET Conds : UpdateResults(q, new)
    \/ \E q \in Qvars : GetConditions(q)
    \/ \E j \in Joinable : \E rel \in Relations : UpdateLinks(j[1], j[2], rel)
    \/ InvalidateState

Next == Request \/ Cascade

Spec == Init /\ [][Next]_linkerVars

(* A call runs to its end: the evaluator has a single thread.              *)
FairSpec == Spec /\ WF_linkerVars(Cascade)
-----------------------------------------------------------------------------
(* Type invariant: the tables hold known names, links only between         *)
(* initialised variables, and every frame in progress works on initialised *)
(* variables and on links of pairs already registered.                     *)
FrameOK(f) ==
    /\ f.op = "update_results"   => f.q \in initialized
    /\ f.op = "remove_condition" => f.q \in initialized /\ f.todo \subseteq LinkedTo(f.q)
    /\ f.op \in {"break_link", "break_both_links"} =>
          \A a \in f.todo : HasLink(a[1], a[3])
    /\ f.op = "update_links"     => f.q \in initialized /\ f.p \in initialized

TypeOK ==
    /\ initialized \in SUBSET Qvars
    /\ values \in [Qvars -> SUBSET Conds]
    /\ arcs \in SUBSET Arcs
    /\ linked \in SUBSET (initialized \X initialized)
    /\ \A l \in linked : <<l[2], l[1]>> \in linked
    /\ valid \in BOOLEAN
    /\ stack \in Seq(AllFrames)
    /\ solutions \in SUBSET Assignments
    /\ \A f \in Frames(stack) : FrameOK(f)

(* No answer is ever lost: an assignment that satisfies every request made *)
(* so far keeps all its conditions in _qvar_table and all its links in     *)
(* _condition_link_table, in the middle of a cascade as well as between    *)
(* calls (remove_condition, break_link, update_links, update_results).     *)
NoSolutionLost ==
    \A s \in solutions :
        /\ \A q \in initialized : s[q] \in values[q]
        /\ \A l \in linked : Arc(l[1], s[l[1]], l[2], s[l[2]]) \in arcs

(* Nothing still to be done works against a solution: no frame is about to *)
(* remove a condition or to break a link that some solution uses, and the  *)
(* pair update_links is about to register has a link for every solution.   *)
(* It is what NoSolutionLost rests on: break_link removes a condition when *)
(* it sees no link left, at a moment when several loops are half done.     *)
Uses(s, a) == s[a[1]] = a[2] /\ s[a[3]] = a[4]
Harmless(f, s) ==
    /\ f.op = "update_results"   => s[f.q] \in f.keep
    /\ f.op = "remove_condition" => s[f.q] # f.c
    /\ f.op \in {"break_link", "break_both_links"} => \A a \in f.todo : ~Uses(s, a)
    /\ f.op = "update_links"     => /\ Arc(f.q, s[f.q], f.p, s[f.p]) \in arcs
                                   /\ Arc(f.p, s[f.p], f.q, s[f.q]) \in arcs
WorkHarmless == \A s \in solutions : \A f \in Frames(stack) : Harmless(f, s)

(* is_valid_state never lies in the negative: when the linker has declared *)
(* the state invalid (remove_condition emptied a variable, or the          *)
(* processor asked for it) the requests have no common solution, so        *)
(* "Select BOOLEAN" answering false is right.                              *)
InvalidMeansUnsatisfiable == ~valid => solutions = {}

(* Between calls every link is in the table under both of its ends,        *)
(* although remove_condition and break_link each take it out of one end at *)
(* a time and recurse in between.                                          *)
LinksSymmetric == Idle => \A a \in arcs : Rev(a) \in arcs

(* Between calls a condition still in a variable has, in every variable    *)
(* linked to that one, a linked condition that is still there ("remove     *)
(* conditions that do not have a link, or links with one side of           *)
(* conditions not in the query variable", simple/linker.h).                *)
ConditionsSupported ==
    Idle => \A l \in linked : \A c \in values[l[1]] :
                \E d \in values[l[2]] : Arc(l[1], c, l[2], d) \in arcs

(* The pairs of variables linked so far form a forest: every set of        *)
(* variables holds fewer pairs than variables.                             *)
LinksFormForest ==
    LET edges == {{l[1], l[2]} : l \in linked}
    IN  \A S \in (SUBSET Qvars) \ {{}} :
            Cardinality({e \in edges : e \subseteq S}) < Cardinality(S)

(* No variable is empty.  A removal that empties one makes the state       *)
(* invalid; an empty set a variable starts with does not.                  *)
NoneEmpty == \A q \in initialized : values[q] # {}

(* While the linked pairs form a forest neither table holds anything stale *)
(* between calls: a link of a registered pair joins two conditions their   *)
(* variables still have; and when the state is valid and no variable is    *)
(* empty, every condition left in a variable belongs to an assignment      *)
(* satisfying all requests, and none is missing.  Whatever the order of    *)
(* requests, set iterations and recursive calls, the outcome is therefore  *)
(* the same.                                                               *)
ExactOnForests ==
    Idle /\ LinksFormForest =>
        /\ \A a \in arcs : HasLink(a[1], a[3]) =>
              a[2] \in values[a[1]] /\ a[4] \in values[a[3]]
        /\ valid /\ NoneEmpty =>
              \A q \in initialized : values[q] = {s[q] : s \in solutions}

(* Every call of the linker returns: the cascade of remove_condition and   *)
(* break_link ends on every graph of linked variables, cyclic ones too     *)
(* ("especially careful to not cause infinite loops", simple/linker.h).    *)
CallsReturn == ~Idle ~> Idle

(* The linker implements the contract of simple/linker.h: seen through its *)
(* candidates and its valid flag, every step of every cascade is a request *)
(* that narrows the solutions, the drop of one useless candidate, or       *)
(* invisible.                                                              *)
Contract == INSTANCE LinkerContract
ImplementsContract == Contract!Spec
=============================================================================
