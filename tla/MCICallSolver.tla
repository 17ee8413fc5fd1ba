---------------------------- MODULE MCICallSolver ----------------------------
(***************************************************************************)
(* Instances of ICallSolver for TLC: all programs of three procedures with *)
(* at most two calls each.                                                 *)
(***************************************************************************)
EXTENDS ICallSolver, FiniteSets

MCProc == 1 .. 3

MCOrder == <<1, 2, 3>>

\* Bound: calls of one procedure.
MaxCalls == 2

MCBodies == [MCProc -> UNION {[1 .. n -> MCProc] : n \in 0 .. MaxCalls}]
==============================================================================
