---------------------------- MODULE MCSolverTable ----------------------------
(***************************************************************************)
(* Instances of SolverTable for TLC: programs of three procedures that     *)
(* call each other in any way, and programs with loops and branches, calls *)
(* within them included.                                                   *)
(***************************************************************************)
EXTENDS SolverTable

P == INSTANCE MCPrograms

MCProc  == 1 .. 3
MCOrder == <<1, 2, 3>>

\* The first procedure has the name of a variable.
MCProcNames == <<"x", "p", "q">>

Extend(programs, says, n) == UNION {P!WithProc(p, says, n) : p \in programs}

\* Bodies of an assignment, or of one call, or of two.
AnyCalls == {P!Call(1), P!Call(2), P!Call(3)}
AtMostOne(programs) == Extend(programs, AnyCalls \cup {P!Assign("z", {"y"})}, 1)
AtMostTwo(programs) == AtMostOne(programs) \cup Extend(programs, AnyCalls, 2)

CallPrograms == AtMostOne(AtMostTwo(AtMostTwo({P!NoProgram})))

\* Zero, a constant that is a statement line, and a self-assignment.
Numbered == [P!Assign("x", {"x"}) EXCEPT !.consts = {0, 2}]

Rest(programs) ==
  Extend(Extend(programs, {P!Assign("z", {"y"})}, 1), {P!Assign("x", {})}, 1)

Shapes ==
  Rest(Extend({P!NoProgram}, {Numbered, P!While("y"), P!If("z")}, 4)
       \cup Extend({P!NoProgram}, {P!Assign("x", {"y"}), P!While("y"), P!If("y")}, 5)
       \cup Extend({P!NoProgram},
                   {P!Assign("x", {"y"}), P!Call(2), P!While("x"), P!If("x")}, 3))

MCPrograms == CallPrograms \cup Shapes

MCBodies == {CallsOfProgram(p) : p \in MCPrograms}

\* Deeper than the walk of a program without recursion can be.
MCMaxDepth == 10
==============================================================================
