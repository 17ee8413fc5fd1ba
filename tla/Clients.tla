-------------------------------- MODULE Clients -------------------------------
(***************************************************************************)
(* The two programs around SimpleProgramAnalyzer: the command line         *)
(* (impl/command_line.cpp), which collects the lines of a query until it   *)
(* can be evaluated, and the batch (impl/batch.cpp), which evaluates the   *)
(* queries of a file.  What it counts is left out.                         *)
(*                                                                         *)
(* Each text goes to a SimplePqlParser of its own (impl/frontend.h).  A    *)
(* collected text is read from its beginning again, and the declarations   *)
(* in the lines before have the effect they had the first time; `line' has *)
(* this effect in place of the text.  While it is evaluated the parser has *)
(* it.                                                                     *)
(***************************************************************************)
EXTENDS PqlParser

CONSTANT MaxTexts       \* bound: texts evaluated in a session

VARIABLES
  client,         \* "command line" or "batch"
  at,             \* "start", "prompt", "evaluating" or "ended"
  line,           \* line, as the predicate table it declares
  evaluated,      \* the texts evaluated, i of the batch
  typed           \* the names declared since the last query was finished

sessionVars == <<client, at, line, evaluated, typed>>

SessionInit ==
  /\ Init
  /\ client \in {"command line", "batch"}
  /\ at = "start"
  /\ line = <<>>
  /\ evaluated = 0
  /\ typed = {}

\* The command line prints its prompt; the batch reads the number of queries,
\* with stoi, whose exceptions no handler takes.
Start ==
  /\ at = "start"
  /\ at' \in {"prompt"} \cup (IF client = "batch" THEN {"ended"} ELSE {})
  /\ UNCHANGED <<vars, client, line, evaluated, typed>>

\* A further line of input, or the next query of the file, is evaluated.
\* When the input of the command line has ended, it is an empty line.
Evaluate ==
  /\ at = "prompt"
  /\ evaluated < MaxTexts
  /\ at' = "evaluating"
  /\ predicates' = line
  /\ line' = <<>>
  /\ UNCHANGED <<selector, clauses, mode, declaring, asked>>
  /\ UNCHANGED <<client, evaluated, typed>>

Parse ==
  /\ at = "evaluating"
  /\ Next
  /\ typed' = typed \cup (DOMAIN predicates' \ DOMAIN predicates)
  /\ UNCHANGED <<client, at, line, evaluated>>

\* evaluate returns or throws, and its parser is gone.
Finish ==
  /\ at = "evaluating"
  /\ at' = "prompt"
  /\ evaluated' = evaluated + 1
  /\ predicates' = <<>>
  /\ selector' = NoSelector
  /\ clauses' = {}
  /\ mode' = "query"
  /\ declaring' = Nothing
  /\ asked' = {}
  /\ UNCHANGED client

NextQuery == line' = <<>> /\ typed' = {}

\* The query was answered.
Answer ==
  /\ mode = "parsed"
  /\ Finish
  /\ NextQuery

\* Mutant: the command line keeps a line with an error in it.
ReportKeeping ==
  /\ mode = "rejected" \/ (mode = "incomplete" /\ client = "batch")
  /\ Finish
  /\ line' = IF client = "batch" THEN <<>> ELSE predicates
  /\ typed' = {}

\* A runtime_error is printed; to the batch a text that is not complete is
\* one, too.
Report ==
  /\ mode = "rejected" \/ (mode = "incomplete" /\ client = "batch")
  /\ Finish
  /\ NextQuery

\* The command line asks for more.
AskForMore ==
  /\ mode = "incomplete"
  /\ client = "command line"
  /\ Finish
  /\ line' = predicates
  /\ UNCHANGED typed

\* The pointer to an exception is caught nowhere.
Terminate ==
  /\ at = "evaluating"
  /\ mode = "escaped"
  /\ at' = "ended"
  /\ UNCHANGED <<vars, client, line, evaluated, typed>>

\* The batch has evaluated as many queries as its file announces.
EndOfBatch ==
  /\ client = "batch"
  /\ at = "prompt"
  /\ at' = "ended"
  /\ UNCHANGED <<vars, client, line, evaluated, typed>>

SessionNext ==
  \/ Start \/ Evaluate \/ Parse
  \/ Answer \/ Report \/ AskForMore
  \/ Terminate \/ EndOfBatch

SessionSpec == SessionInit /\ [][SessionNext]_<<vars, sessionVars>>

------------------------------------------------------------------------------
(***************************************************************************)
(* Queries do not reach into each other: a text is parsed with just the    *)
(* declarations made since the last query was answered or failed, and no   *)
(* clause of another one (command_line.cpp:60-91).  And no query ends the  *)
(* command line, except by an exception thrown as a pointer                *)
(* (pql_parser.cpp:233, 489, 561).                                         *)
(***************************************************************************)
QueriesApart ==
  /\ at = "evaluating" =>
       /\ DOMAIN predicates = typed
       /\ clauses = UNION {ClausesOf(ph) : ph \in asked}
  /\ at = "prompt" => DOMAIN line = typed
  /\ at = "ended" /\ mode # "escaped" => client = "batch"
==============================================================================
