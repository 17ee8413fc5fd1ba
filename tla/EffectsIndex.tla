----------------------------- MODULE EffectsIndex ----------------------------
(***************************************************************************)
(* impl/solvers/assign.cpp: the constructors of ModifiesSolver and         *)
(* UsesSolver, one after the other, fill their tables by walking every     *)
(* procedure.  A statement is entered when everything in it was walked;    *)
(* at a call that is the called procedure, which is walked again at every  *)
(* call of it, and without a test for recursion.                           *)
(*                                                                         *)
(* A node is a procedure or a statement.  A frame of `frames' is a call of *)
(* index_variables in progress, innermost first: its node, how many        *)
(* children of it returned, and the union of what they returned.  Both     *)
(* solvers' tables are one variable, their keys carry the effect.          *)
(***************************************************************************)
EXTENDS AssignmentSolver

CONSTANTS
  Programs,         \* the programs
  MaxDepth          \* bound: calls of index_variables in progress

VARIABLES
  program,          \* _ast
  pending,          \* what the constructors' loops have still to walk
  left,             \* _left_statement_index and _left_proc_index: by node
  right,            \* _right_condition_index: <<effect, variable, node>>
  frames            \* the calls in progress

ivars == <<program, pending, left, right, frames>>

StmtNode(s) == <<"stmt", s>>
ProcNode(n) == <<"proc", n>>

Nodes(p) == {StmtNode(s) : s \in Statements(p)} \cup {ProcNode(n) : n \in Procs(p)}

\* Mutant: the else branch is not walked.
ChildrenThen(p, node) ==
  LET list[s \in Statements(p)] ==
        <<StmtNode(s)>> \o (IF next(p, s) = NoStmt THEN <<>> ELSE list[next(p, s)])
      From(s) == IF s = NoStmt THEN <<>> ELSE list[s]
  IN  CASE node[1] = "proc" -> From(get_statement(p, node[2]))
        [] node[1] = "stmt" /\ kind(p, node[2]) = "call" ->
             <<ProcNode(get_proc_called(p, node[2]))>>
        [] OTHER -> From(get_then_branch(p, node[2]))

\* What index_variables calls itself on: the lists of a procedure, a loop or
\* the two branches, and the called procedure.
Children(p, node) ==
  LET list[s \in Statements(p)] ==
        <<StmtNode(s)>> \o (IF next(p, s) = NoStmt THEN <<>> ELSE list[next(p, s)])
      From(s) == IF s = NoStmt THEN <<>> ELSE list[s]
  IN  CASE node[1] = "proc" -> From(get_statement(p, node[2]))
        [] node[1] = "stmt" /\ kind(p, node[2]) = "call" ->
             <<ProcNode(get_proc_called(p, node[2]))>>
        [] OTHER -> From(get_then_branch(p, node[2]))
                    \o From(get_else_branch(p, node[2]))

Own(p, effect, node) ==
  IF node[1] = "stmt" THEN extract(p, effect, node[2]) ELSE {}

\* The lists of a program lead to nodes of it.
ASSUME ChildrenAssumption ==
  \A p \in Programs :
    /\ p.procs \in Seq(Nat)
    /\ \A node \in Nodes(p) : Children(p, node) \in Seq(Nodes(p))

Frame(effect, of) == [effect |-> effect, of |-> of, at |-> 0, result |-> {}]

RootsFor(p, effect) == [n \in Procs(p) |-> <<effect, n>>]

IndexInit ==
  /\ program \in Programs
  /\ pending = RootsFor(program, "modifies") \o RootsFor(program, "uses")
  /\ left = [key \in {} |-> {}]
  /\ right = {}
  /\ frames = <<>>

\* The loop of a constructor.
IndexRoot ==
  /\ frames = <<>>
  /\ pending # <<>>
  /\ frames' = <<Frame(Head(pending)[1], ProcNode(Head(pending)[2]))>>
  /\ pending' = Tail(pending)
  /\ UNCHANGED <<program, left, right>>

\* index_statement_list calls index_variables on the next statement,
\* index_variables<CallAst> on the called procedure.
EnterNode ==
  /\ frames # <<>>
  /\ LET call     == Head(frames)
         children == Children(program, call.of)
     IN  /\ call.at < Len(children)
         /\ Len(frames) < MaxDepth
         /\ frames' = <<Frame(call.effect, children[call.at + 1])>> \o frames
  /\ UNCHANGED <<program, pending, left, right>>

\* What a call returns joins the result of its caller.
Returning(vars, callers) ==
  IF callers = <<>> THEN <<>>
  ELSE <<[Head(callers) EXCEPT !.at = @ + 1, !.result = @ \cup vars]>>
       \o Tail(callers)

\* Mutant: what the node itself contributes is not entered by variable.
LeaveNodeInherited ==
  /\ frames # <<>>
  /\ LET call == Head(frames)
         vars == call.result \cup Own(program, call.effect, call.of)
         key  == <<call.effect, call.of>>
     IN  /\ call.at = Len(Children(program, call.of))
         /\ left' = [k \in DOMAIN left \cup {key} |->
                       IF k = key THEN vars ELSE left[k]]
         /\ right' = right \cup {<<call.effect, v, call.of>> : v \in call.result}
         /\ frames' = Returning(vars, Tail(frames))
  /\ UNCHANGED <<program, pending>>

\* The children returned: the node's entry is set, in both directions.
LeaveNode ==
  /\ frames # <<>>
  /\ LET call == Head(frames)
         vars == call.result \cup Own(program, call.effect, call.of)
         key  == <<call.effect, call.of>>
     IN  /\ call.at = Len(Children(program, call.of))
         /\ left' = [k \in DOMAIN left \cup {key} |->
                       IF k = key THEN vars ELSE left[k]]
         /\ right' = right \cup {<<call.effect, v, call.of>> : v \in vars}
         /\ frames' = Returning(vars, Tail(frames))
  /\ UNCHANGED <<program, pending>>

Indexed == frames = <<>> /\ pending = <<>>

IndexNext == IndexRoot \/ EnterNode \/ LeaveNode

IndexSpec == IndexInit /\ [][IndexNext]_ivars

\* After construction: operator[] gives an empty set for a missing key.
get_right_vars(effect, node) ==
  IF <<effect, node>> \in DOMAIN left THEN left[<<effect, node>>] ELSE {}

solve_effect_left(effect, v) ==
  {entry[3] : entry \in {e \in right : e[1] = effect /\ e[2] = v}}

------------------------------------------------------------------------------
(***************************************************************************)
(* Properties                                                              *)
(***************************************************************************)
Keys == Effects \X Nodes(program)

\* Every variable some statement contributes.
Extracted == UNION {Own(program, effect, node) :
                      effect \in Effects, node \in Nodes(program)}

Calls == [effect : Effects, of : Nodes(program), at : Nat,
          result : SUBSET Extracted]

IndexTypeOK ==
  /\ program \in Programs
  /\ pending \in Seq(Effects \X Procs(program))
  /\ DOMAIN left \subseteq Keys
  /\ left \in [DOMAIN left -> SUBSET Extracted]
  /\ frames \in Seq(Calls)

(***************************************************************************)
(* The two tables of Modifies and of Uses are one relation, read in its    *)
(* two directions, at every step and however often a procedure is indexed  *)
(* again: the entry by node is overwritten, the entries by variable only   *)
(* grow (assign.cpp:103-111, 129-134).                                     *)
(***************************************************************************)
IndexesMirror ==
  \A effect \in Effects : \A node \in Nodes(program) :
    \A v \in Variables(program) :
      <<effect, v, node>> \in right <=> v \in get_right_vars(effect, node)

\* Why: an entry is what its node extracts and the entries of its children,
\* which are there before it.
ChildKeys(p, effect, node) ==
  {<<effect, Children(p, node)[i]>> : i \in DOMAIN Children(p, node)}

EntryOf(p, index, effect, node) ==
  Own(p, effect, node)
  \cup UNION {index[key] : key \in ChildKeys(p, effect, node)}

EntriesClosed ==
  \A key \in DOMAIN left :
    /\ ChildKeys(program, key[1], key[2]) \subseteq DOMAIN left
    /\ left[key] = EntryOf(program, left, key[1], key[2])

\* A call in progress has the entries of the children that returned.
Returned(p, call) ==
  {<<call.effect, Children(p, call.of)[j]>> : j \in 1 .. call.at}

Gathered(p, index, call) ==
  /\ call.at <= Len(Children(p, call.of))
  /\ Returned(p, call) \subseteq DOMAIN index
  /\ call.result = UNION {index[key] : key \in Returned(p, call)}

ResultsGathered == \A i \in DOMAIN frames : Gathered(program, left, frames[i])

\* It waits for the call inside it.
CallsChained ==
  \A i \in DOMAIN frames \ {1} :
    /\ frames[i].at < Len(Children(program, frames[i].of))
    /\ frames[i - 1].of = Children(program, frames[i].of)[frames[i].at + 1]
    /\ frames[i - 1].effect = frames[i].effect
==============================================================================
