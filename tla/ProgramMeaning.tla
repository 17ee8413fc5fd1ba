---------------------------- MODULE ProgramMeaning ---------------------------
(***************************************************************************)
(* What a program means for the relations, defined from its text downwards *)
(* and without the solvers' walks: the flow of control, the calls, and     *)
(* what runs when a statement does.                                        *)
(***************************************************************************)
EXTENDS SimpleAst

\* The edges of the flow graph of a list that starts with s, when control
\* goes to one of k behind the list.
FlowOfList(p, s, k) ==
  LET flow[t \in Statements(p)] == [after \in SUBSET Statements(p) |->
        LET behind == IF next(p, t) = NoStmt THEN after ELSE {next(p, t)}
            leave  == {t} \X behind
            enter  == {t} \X Branches(p, t)
            own    == CASE kind(p, t) = "while" ->
                             leave \cup enter \cup flow[get_body(p, t)][{t}]
                        [] kind(p, t) = "if" ->
                             enter \cup UNION {flow[b][behind] : b \in Branches(p, t)}
                        [] OTHER -> leave
        IN  own \cup (IF next(p, t) = NoStmt THEN {} ELSE flow[next(p, t)][after])]
  IN  flow[s][k]

Flow(p) == UNION {FlowOfList(p, get_statement(p, proc), {}) : proc \in Procs(p)}

\* The transitive closure of a relation: the paths through more and more of
\* its points.
Closure(R) ==
  LET Through(k, S) == S \cup ({e[1] : e \in {f \in S : f[2] = k}}
                               \X {e[2] : e \in {f \in S : f[1] = k}})
      middle == {e[1] : e \in R} \cap {e[2] : e \in R}
      via[K \in SUBSET middle] ==
        IF K = {} THEN R
        ELSE LET k == CHOOSE x \in K : TRUE IN Through(k, via[K \ {k}])
  IN  via[middle]

CallGraph(p) == {<<get_proc(p, c), get_proc_called(p, c)>> :
                   c \in OfKind(p, "call")}

Acyclic(p) == \A e \in Closure(CallGraph(p)) : e[1] # e[2]

\* The procedures that run when proc is called.
Running(p, proc) ==
  {r \in Procs(p) : r = proc \/ <<proc, r>> \in Closure(CallGraph(p))}

\* The statements that run when s does: s, those it contains and those of the
\* procedures that are called.
Inside(p, s) ==
  {s} \cup {t \in Statements(p) : <<s, t>> \in
              Closure({<<get_parent(p, u), u>> : u \in Statements(p)})}

RunBy(p, s) ==
  Inside(p, s) \cup
  UNION {{t \in Statements(p) :
            get_proc(p, t) \in Running(p, get_proc_called(p, c))} :
         c \in {w \in Inside(p, s) : kind(p, w) = "call"}}
==============================================================================
