------------------------------- MODULE MCSearch ------------------------------
(***************************************************************************)
(* Instances of FlowSolvers for TLC: every program whose main procedure    *)
(* has up to three statements of six forms, with one procedure it may      *)
(* call, four statements of four forms, or five of three forms.            *)
(***************************************************************************)
EXTENDS FlowSolvers, MCPrograms

\* Two variables give a kill, a use, a copy and a self-assignment.
MainSays == {Assign("x", {"x"}), Assign("x", {"y"}), Assign("y", {"x"}),
             Call(2), While("x"), If("x")}

\* Without calls, and with every assignment changing the other variable.
LargeSays == {Assign("x", {"y"}), Assign("y", {"x"}), While("x"), If("x")}

MainOf(n) == WithProc(NoProgram, MainSays, n)

WithCallee(mains, says, n) == UNION {WithProc(m, says, n) : m \in mains}

\* The main procedure calls one that assigns x.
Small  == WithCallee(MainOf(1) \cup MainOf(2), {Assign("x", {"x"})}, 1)
Medium == WithCallee(MainOf(3), {Assign("x", {"x"})}, 1)
Large  == WithProc(NoProgram, LargeSays, 4)

\* Large enough for a branch of two statements with another one behind the
\* if, and with a variable that only a loop or a branch tests; nothing is
\* searched in these.
Shapes == WithProc(NoProgram, {Assign("x", {"x"}), While("y"), If("y")}, 5)

MCPrograms_search == Small \cup Medium \cup Large \cup Shapes

\* A call of a procedure of three statements, and a statement behind it.
Nested == WithCallee({m \in WithProc(NoProgram, {Call(2), Assign("x", {"x"})}, 2) :
                        kind(m, 1) = "call"},
                     {Assign("x", {"x"}), While("x")}, 3)

\* Two queries about small programs, so that one follows another; one about
\* larger ones.
MCMaxAsked(p) ==
  IF p \in Small THEN 2 ELSE IF p \in Medium \cup Large THEN 1 ELSE 0

\* The inter-procedural relations, whose points carry stacks, on small
\* programs.
MCQueries(p) ==
  {q \in FlowQueries(p) : q.rel.bip => p \in Small}

==============================================================================
