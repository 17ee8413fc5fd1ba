--------------------------- MODULE SimpleParser_proofs -------------------------
(***************************************************************************)
(* Proofs about SimpleParser, for texts of any length over any names: a    *)
(* program that is accepted is the tree that the solvers assume, what the  *)
(* assumptions of SolverTable and of FlowSolvers ask of programs.          *)
(*                                                                         *)
(* While the parser reads, the tree is not one: the containers being read  *)
(* have no neighbours yet, and nothing points to them.  TreeOK says what   *)
(* holds of the statements that are complete, of the lists being read and  *)
(* of the statement `top' that is about to be read or completed.  A        *)
(* statement is appended, becomes a container with a list of its own or is *)
(* completed; a container is completed when its list is popped.  There is  *)
(* one lemma for each of these.                                            *)
(***************************************************************************)
EXTENDS SimpleParser, ProgramLemmas

Branch == {"first", "second"}

StmtFields ==
  [kind : Kinds, var : Vars \cup {NoVar}, uses : SUBSET Vars, consts : {{}},
   callee : Names \cup {NoProc}, proc : Names \cup {NoProc}, parent : Nat,
   prev : Nat, next : Nat, first : Nat, second : Nat]

\* What is assigned or tested has a name.
StmtRecord == {r \in StmtFields : r.kind # "call" => r.var \in Vars}

ListRecord == [proc : Names, container : Nat, branch : Branch, last : Nat]

\* The containers being read and the statement at hand; the others.
Pending(lists, top) == {lists[i].container : i \in DOMAIN lists} \cup {top}
Done(lines, lists, top) == DOMAIN lines \ Pending(lists, top)

\* The line behind what a list holds so far.
Bound(lists, top, i) == IF i = 1 THEN top ELSE lists[i - 1].container

\* What lies between s and t is inside s.
Between(lines, s, t) == \A u \in (s + 1) .. (t - 1) : lines[u].parent \in s .. (t - 1)

IsHead(lines, starts, s) ==
  \/ \E n \in Names : starts[n] = s
  \/ \E c \in DOMAIN lines : lines[c].first = s \/ lines[c].second = s

TreeTyped(lines, lists, starts, top) ==
  /\ lines \in Seq(StmtRecord)
  /\ lists \in Seq(ListRecord)
  /\ starts \in [Names -> Nat]
  /\ top \in 1 .. Len(lines) + 1

\* Inner containers come later.
ListsNested(lines, lists, top) ==
  /\ \A i, j \in DOMAIN lists : i < j => lists[j].container < lists[i].container
  /\ \A i, j \in DOMAIN lists : lists[i].proc = lists[j].proc
  /\ \A i \in DOMAIN lists :
       /\ lists[i].container < top
       /\ lists[i].container \in 0 .. Len(lines)
       /\ lists[i].last < Bound(lists, top, i)
       /\ lists[i].container = NoStmt <=> i = Len(lists)

ListRead(lines, lists, top, i) ==
  LET list  == lists[i]
      bound == Bound(lists, top, i)
  IN  /\ list.last # NoStmt =>
           /\ list.last \in Done(lines, lists, top)
           /\ lines[list.last].next = NoStmt
           /\ lines[list.last].parent = list.container
           /\ lines[list.last].proc = list.proc
           /\ Between(lines, list.last, bound)
      /\ \A u \in Done(lines, lists, top) :
           u > list.container => lines[u].parent >= list.container

ContainerRead(lines, lists, top, i) ==
  LET list  == lists[i]
      bound == Bound(lists, top, i)
      c     == lines[list.container]
  IN  list.container # NoStmt =>
        /\ c.kind \in {"while", "if"}
        /\ list.branch = "first" =>
             /\ c.second = NoStmt
             /\ c.first = NoStmt <=> list.last = NoStmt
             /\ list.last = NoStmt => bound = list.container + 1
        /\ list.branch = "second" =>
             /\ c.kind = "if"
             /\ c.first # NoStmt
             /\ c.first < bound
             /\ c.second = NoStmt <=> list.last = NoStmt

ListsRead(lines, lists, top) ==
  \A i \in DOMAIN lists : /\ ListRead(lines, lists, top, i)
                          /\ ContainerRead(lines, lists, top, i)

PendingFresh(lines, lists, top) ==
  \A s \in DOMAIN lines \cap Pending(lists, top) :
    lines[s].next = NoStmt /\ lines[s].parent = NoStmt

\* A container has its branches.
Filled(lines, s) ==
  /\ lines[s].kind \in {"while", "if"} <=> lines[s].first # NoStmt
  /\ lines[s].kind = "if" <=> lines[s].second # NoStmt

DoneLinked(lines, lists, starts, top) ==
  \A s \in Done(lines, lists, top) :
    /\ lines[s].parent < s
    /\ lines[s].next # NoStmt =>
         LET t == lines[s].next
         IN  /\ t \in Done(lines, lists, top)
             /\ lines[t].prev = s
             /\ lines[t].parent = lines[s].parent
             /\ lines[t].proc = lines[s].proc
             /\ s < t
             /\ Between(lines, s, t)
    /\ lines[s].prev # NoStmt =>
         /\ lines[s].prev \in Done(lines, lists, top)
         /\ lines[lines[s].prev].next = s
    /\ lines[s].prev = NoStmt <=> IsHead(lines, starts, s)
    /\ Filled(lines, s)

BranchesLinked(lines, lists, top) ==
  \A c \in DOMAIN lines :
    /\ \A b \in {lines[c].first, lines[c].second} \ {NoStmt} :
         /\ b \in Done(lines, lists, top)
         /\ lines[b].parent = c
         /\ c \in Done(lines, lists, top) => lines[b].proc = lines[c].proc
         /\ c \in Pending(lists, top) =>
              \A i \in DOMAIN lists : lines[b].proc = lists[i].proc
    /\ lines[c].first # NoStmt => lines[c].first = c + 1
    /\ lines[c].second # NoStmt => lines[c].first < lines[c].second

StartsLinked(lines, lists, starts, top) ==
  \A n \in Names : starts[n] # NoStmt =>
    /\ starts[n] \in Done(lines, lists, top)
    /\ lines[starts[n]].proc = n
    /\ lines[starts[n]].parent = NoStmt

TreeOK(lines, lists, starts, top) ==
  /\ TreeTyped(lines, lists, starts, top)
  /\ ListsNested(lines, lists, top)
  /\ ListsRead(lines, lists, top)
  /\ PendingFresh(lines, lists, top)
  /\ DoneLinked(lines, lists, starts, top)
  /\ BranchesLinked(lines, lists, top)
  /\ StartsLinked(lines, lists, starts, top)

\* The names: what is parsed (`read') is in the table (`names'), once, and has
\* a statement; so has the procedure being read, once it has a statement.
NamesOK(lines, lists, starts, top, names, read) ==
  /\ names \subseteq Names /\ IsFiniteSet(names)
  /\ read \in Seq(names)
  /\ \A i, j \in DOMAIN read : read[i] = read[j] => i = j
  /\ \A i \in DOMAIN read : starts[read[i]] # NoStmt
  /\ \A i \in DOMAIN lists :
       /\ lists[i].proc \in names
       /\ lists[i].container = NoStmt /\ lists[i].last # NoStmt =>
            /\ starts[lists[i].proc] # NoStmt
            /\ \A k \in DOMAIN read : read[k] # lists[i].proc
  /\ \A s \in Done(lines, lists, top) : lines[s].proc \in names
  /\ \A s \in DOMAIN lines : lines[s].kind = "call" => lines[s].callee \in names

\* An accepted program is complete.
AcceptedWhole ==
  status = "accepted" => open = <<>> /\ Len(parsed) = Cardinality(table)

ParserInv ==
  /\ status \in {"reading", "rejected", "accepted"}
  /\ status # "rejected" =>
       /\ TreeOK(stmts, open, firsts, Len(stmts) + 1)
       /\ NamesOK(stmts, open, firsts, Len(stmts) + 1, table, parsed)
       /\ AcceptedWhole

------------------------------------------------------------------------------
\* What the end of parse_statement writes, field by field.
LEMMA LinkedFields ==
    ASSUME NEW lines \in Seq(StmtRecord), NEW s \in DOMAIN lines, NEW list \in ListRecord,
           list.container \in 0 .. Len(lines), list.container # s,
           list.last \in 0 .. Len(lines), list.last # s
    PROVE  LET new == Linked(lines, s, list)
           IN  /\ new \in Seq(StmtRecord) /\ Len(new) = Len(lines) /\ DOMAIN new = DOMAIN lines
               /\ \A u \in DOMAIN lines :
                    /\ new[u].kind = lines[u].kind
                    /\ new[u].callee = lines[u].callee
                    /\ u # s => /\ new[u].proc = lines[u].proc
                                /\ new[u].parent = lines[u].parent
                                /\ new[u].prev = lines[u].prev
                    /\ new[u].next = IF list.last # NoStmt /\ u = list.last
                                     THEN s ELSE lines[u].next
                    /\ new[u].first = IF /\ list.last = NoStmt /\ u = list.container
                                         /\ list.branch = "first"
                                      THEN s ELSE lines[u].first
                    /\ new[u].second = IF /\ list.last = NoStmt /\ u = list.container
                                          /\ list.branch = "second"
                                       THEN s ELSE lines[u].second
               /\ new[s].proc = list.proc
               /\ new[s].parent = list.container
               /\ new[s].prev = list.last
<1> DEFINE own == [lines EXCEPT ![s].proc = list.proc, ![s].parent = list.container,
                                ![s].prev = list.last]
<1>1. /\ DOMAIN lines = 1 .. Len(lines) /\ Len(lines) \in Nat
      /\ lines \in [1 .. Len(lines) -> StmtRecord]
  BY LenProperties
<1>2. /\ list.proc \in Names /\ list.container \in Nat /\ list.last \in Nat
      /\ list.branch \in {"first", "second"}
  BY DEF ListRecord, Branch
<1>3. PICK mine : mine = [lines[s] EXCEPT !.proc = list.proc, !.parent = list.container,
                                           !.prev = list.last]
  OBVIOUS
<1>4. /\ mine \in StmtRecord
      /\ mine.kind = lines[s].kind /\ mine.callee = lines[s].callee
      /\ mine.next = lines[s].next
      /\ mine.first = lines[s].first /\ mine.second = lines[s].second
      /\ mine.proc = list.proc /\ mine.parent = list.container /\ mine.prev = list.last
  BY <1>1, <1>2, <1>3 DEF StmtRecord, StmtFields
<1>5. PICK placed : placed = own
  OBVIOUS
<1>6. placed = [lines EXCEPT ![s] = mine]
  BY <1>1, <1>3, <1>5
<1>7. /\ placed \in [1 .. Len(lines) -> StmtRecord]
      /\ placed[s] = mine
      /\ \A u \in DOMAIN lines : u # s => placed[u] = lines[u]
  BY <1>1, <1>4, <1>6
<1>8. s \in Nat
  BY <1>1
<1>9. CASE list.last # NoStmt
  <2>1. Linked(lines, s, list) = [placed EXCEPT ![list.last].next = s]
    BY <1>5, <1>9 DEF Linked
  <2>2. PICK new : new = [placed EXCEPT ![list.last].next = s]
    OBVIOUS
  <2>3. list.last \in 1 .. Len(lines)
    BY <1>1, <1>9 DEF NoStmt
  <2>4. /\ new \in [1 .. Len(lines) -> StmtRecord]
        /\ \A u \in DOMAIN lines : u # list.last => new[u] = placed[u]
        /\ new[list.last] = [placed[list.last] EXCEPT !.next = s]
    <3>1. PICK r : r = [placed[list.last] EXCEPT !.next = s]
      OBVIOUS
    <3>2. r \in StmtRecord
      <4>1. PICK x \in StmtRecord : x = placed[list.last]
        BY <1>7, <2>3
      <4>2. r = [x EXCEPT !.next = s]
        BY <3>1, <4>1
      <4>3. QED  BY <1>8, <4>2 DEF StmtRecord, StmtFields
    <3>3. new = [placed EXCEPT ![list.last] = r]
      BY <1>7, <2>2, <2>3, <3>1
    <3>4. QED  BY <1>1, <1>7, <2>3, <3>1, <3>2, <3>3
  <2>5. /\ new[list.last].next = s
        /\ new[list.last].kind = placed[list.last].kind
        /\ new[list.last].callee = placed[list.last].callee
        /\ new[list.last].proc = placed[list.last].proc
        /\ new[list.last].parent = placed[list.last].parent
        /\ new[list.last].prev = placed[list.last].prev
        /\ new[list.last].first = placed[list.last].first
        /\ new[list.last].second = placed[list.last].second
    BY <1>7, <2>3, <2>4 DEF StmtRecord, StmtFields
  <2>6. new \in Seq(StmtRecord) /\ Len(new) = Len(lines) /\ DOMAIN new = DOMAIN lines
    BY <1>1, <2>4
  <2>7. QED  BY <1>1, <1>4, <1>7, <1>9, <2>1, <2>2, <2>3, <2>4, <2>5, <2>6
<1>10. CASE list.last = NoStmt /\ list.container # NoStmt
  <2>1. Linked(lines, s, list) = [placed EXCEPT ![list.container][list.branch] = s]
    BY <1>5, <1>10 DEF Linked
  <2>2. PICK new : new = [placed EXCEPT ![list.container][list.branch] = s]
    OBVIOUS
  <2>3. list.container \in 1 .. Len(lines)
    BY <1>1, <1>10 DEF NoStmt
  <2>4. PICK c : c = list.container
    OBVIOUS
  <2>5. CASE list.branch = "first"
    <3>1. /\ new \in [1 .. Len(lines) -> StmtRecord]
          /\ \A u \in DOMAIN lines : u # c => new[u] = placed[u]
          /\ new[c] = [placed[c] EXCEPT !.first = s]
      <4>1. PICK r : r = [placed[c] EXCEPT !.first = s]
        OBVIOUS
      <4>2. r \in StmtRecord
        <5>1. PICK x \in StmtRecord : x = placed[c]
          BY <1>7, <2>3, <2>4
        <5>2. r = [x EXCEPT !.first = s]
          BY <4>1, <5>1
        <5>3. QED  BY <1>8, <5>2 DEF StmtRecord, StmtFields
      <4>3. new = [placed EXCEPT ![c] = r]
        BY <1>7, <2>2, <2>3, <2>4, <2>5, <4>1
      <4>4. QED  BY <1>1, <1>7, <2>3, <2>4, <4>1, <4>2, <4>3
    <3>2. /\ new[c].first = s /\ new[c].second = placed[c].second
          /\ new[c].kind = placed[c].kind /\ new[c].callee = placed[c].callee
          /\ new[c].proc = placed[c].proc /\ new[c].parent = placed[c].parent
          /\ new[c].prev = placed[c].prev /\ new[c].next = placed[c].next
      BY <1>7, <2>3, <2>4, <3>1 DEF StmtRecord, StmtFields
    <3>3. new \in Seq(StmtRecord) /\ Len(new) = Len(lines) /\ DOMAIN new = DOMAIN lines
      BY <1>1, <3>1
    <3>4. QED  BY <1>1, <1>4, <1>7, <1>10, <2>1, <2>2, <2>3, <2>4, <2>5, <3>1, <3>2, <3>3
  <2>6. CASE list.branch = "second"
    <3>1. /\ new \in [1 .. Len(lines) -> StmtRecord]
          /\ \A u \in DOMAIN lines : u # c => new[u] = placed[u]
          /\ new[c] = [placed[c] EXCEPT !.second = s]
      <4>1. PICK r : r = [placed[c] EXCEPT !.second = s]
        OBVIOUS
      <4>2. r \in StmtRecord
        <5>1. PICK x \in StmtRecord : x = placed[c]
          BY <1>7, <2>3, <2>4
        <5>2. r = [x EXCEPT !.second = s]
          BY <4>1, <5>1
        <5>3. QED  BY <1>8, <5>2 DEF StmtRecord, StmtFields
      <4>3. new = [placed EXCEPT ![c] = r]
        BY <1>7, <2>2, <2>3, <2>4, <2>6, <4>1
      <4>4. QED  BY <1>1, <1>7, <2>3, <2>4, <4>1, <4>2, <4>3
    <3>2. /\ new[c].second = s /\ new[c].first = placed[c].first
          /\ new[c].kind = placed[c].kind /\ new[c].callee = placed[c].callee
          /\ new[c].proc = placed[c].proc /\ new[c].parent = placed[c].parent
          /\ new[c].prev = placed[c].prev /\ new[c].next = placed[c].next
      BY <1>7, <2>3, <2>4, <3>1 DEF StmtRecord, StmtFields
    <3>3. new \in Seq(StmtRecord) /\ Len(new) = Len(lines) /\ DOMAIN new = DOMAIN lines
      BY <1>1, <3>1
    <3>4. QED  BY <1>1, <1>4, <1>7, <1>10, <2>1, <2>2, <2>3, <2>4, <2>6, <3>1, <3>2, <3>3
  <2>7. QED  BY <1>2, <2>5, <2>6
<1>11. CASE list.last = NoStmt /\ list.container = NoStmt
  <2>1. Linked(lines, s, list) = placed
    BY <1>5, <1>11 DEF Linked
  <2>2. placed \in Seq(StmtRecord) /\ Len(placed) = Len(lines) /\ DOMAIN placed = DOMAIN lines
    BY <1>1, <1>7
  <2>3. 0 \notin DOMAIN lines
    BY <1>1
  <2>4. QED  BY <1>1, <1>4, <1>7, <1>11, <2>1, <2>2, <2>3 DEF NoStmt
<1>12. QED  BY <1>9, <1>10, <1>11

\* What heads a list is complete.
LEMMA HeadsDone ==
    ASSUME NEW lines, NEW lists, NEW starts, NEW top,
           BranchesLinked(lines, lists, top), StartsLinked(lines, lists, starts, top),
           NEW s, s # NoStmt, IsHead(lines, starts, s)
    PROVE  s \in Done(lines, lists, top)
<1>1. CASE \E n \in Names : starts[n] = s
  BY <1>1 DEF StartsLinked
<1>2. CASE \E c \in DOMAIN lines : lines[c].first = s \/ lines[c].second = s
  BY <1>2 DEF BranchesLinked
<1>3. QED  BY <1>1, <1>2 DEF IsHead

\* The lists when the statement s joins the innermost one.
Joined(lists, s) == <<[Head(lists) EXCEPT !.last = s]>> \o Tail(lists)

LEMMA JoinedLists ==
    ASSUME NEW lists \in Seq(ListRecord), lists # <<>>, NEW s \in Nat
    PROVE  /\ Joined(lists, s) \in Seq(ListRecord)
           /\ DOMAIN Joined(lists, s) = DOMAIN lists /\ Len(Joined(lists, s)) = Len(lists)
           /\ 1 \in DOMAIN lists /\ Head(lists) = lists[1]
           /\ DOMAIN lists = 1 .. Len(lists) /\ Len(lists) \in Nat
           /\ \A i \in DOMAIN lists :
                /\ Joined(lists, s)[i].container = lists[i].container
                /\ Joined(lists, s)[i].proc = lists[i].proc
                /\ Joined(lists, s)[i].branch = lists[i].branch
                /\ Joined(lists, s)[i].last = IF i = 1 THEN s ELSE lists[i].last
<1>1. PICK l \in ListRecord : l = Head(lists)
  BY PopElement
<1>2. PICK m : m = [l EXCEPT !.last = s]
  OBVIOUS
<1>3. m \in ListRecord
  BY <1>2 DEF ListRecord
<1>4. /\ m.container = l.container /\ m.proc = l.proc /\ m.branch = l.branch /\ m.last = s
  BY <1>2 DEF ListRecord
<1>5. Joined(lists, s) = <<m>> \o Tail(lists)
  BY <1>1, <1>2 DEF Joined
<1>6. /\ Joined(lists, s) \in Seq(ListRecord) /\ DOMAIN Joined(lists, s) = DOMAIN lists
      /\ Joined(lists, s)[1] = m
      /\ \A i \in DOMAIN lists : i # 1 => Joined(lists, s)[i] = lists[i]
  <2>1. /\ <<m>> \o Tail(lists) \in Seq(ListRecord)
        /\ DOMAIN (<<m>> \o Tail(lists)) = DOMAIN lists
        /\ (<<m>> \o Tail(lists))[1] = m
        /\ \A i \in DOMAIN lists : i # 1 => (<<m>> \o Tail(lists))[i] = lists[i]
    BY <1>3, ReplaceElement
  <2>2. QED  BY <1>5, <2>1
<1>7. 1 \in DOMAIN lists /\ lists[1] = l /\ DOMAIN lists = 1 .. Len(lists) /\ Len(lists) \in Nat
  BY <1>1, PopElement
<1>8. ASSUME NEW i \in DOMAIN lists
      PROVE  /\ Joined(lists, s)[i].container = lists[i].container
             /\ Joined(lists, s)[i].proc = lists[i].proc
             /\ Joined(lists, s)[i].branch = lists[i].branch
             /\ Joined(lists, s)[i].last = IF i = 1 THEN s ELSE lists[i].last
  BY <1>4, <1>6, <1>7
<1>9. Len(Joined(lists, s)) = Len(lists)
  BY <1>6, <1>7, LenProperties
<1>10. QED  BY <1>1, <1>6, <1>7, <1>8, <1>9

LEMMA JoinedBounds ==
    ASSUME NEW lists \in Seq(ListRecord), lists # <<>>, NEW s \in Nat, NEW top, NEW i \in DOMAIN lists
    PROVE  Bound(Joined(lists, s), top, i) = IF i = 1 THEN top ELSE Bound(lists, s, i)
<1>1. /\ DOMAIN lists = 1 .. Len(lists) /\ Len(lists) \in Nat
      /\ \A k \in DOMAIN lists : Joined(lists, s)[k].container = lists[k].container
  BY JoinedLists
<1>2. i # 1 => i - 1 \in DOMAIN lists
  BY <1>1
<1>3. QED  BY <1>1, <1>2 DEF Bound

\* The containers being read precede the statement at hand, which becomes
\* complete.
LEMMA JoinedDone ==
    ASSUME NEW lines, NEW lists, NEW starts, NEW s \in DOMAIN lines,
           TreeTyped(lines, lists, starts, s), ListsNested(lines, lists, s), lists # <<>>,
           NEW new, DOMAIN new = DOMAIN lines
    PROVE  /\ Done(new, Joined(lists, s), Len(lines) + 1) = Done(lines, lists, s) \cup {s}
           /\ s \notin Done(lines, lists, s)
           /\ \A i \in DOMAIN lists : lists[i].container \notin Done(lines, lists, s) \cup {s}
           /\ DOMAIN new \cap Pending(Joined(lists, s), Len(lines) + 1)
                = (DOMAIN lines \cap Pending(lists, s)) \ {s}
           /\ Done(lines, lists, s) \subseteq DOMAIN lines
<1>1. /\ DOMAIN lines = 1 .. Len(lines) /\ Len(lines) \in Nat /\ s \in Nat
      /\ lists \in Seq(ListRecord)
  BY LenProperties DEF TreeTyped
<1>2. /\ DOMAIN Joined(lists, s) = DOMAIN lists
      /\ \A i \in DOMAIN lists : Joined(lists, s)[i].container = lists[i].container
  BY <1>1, JoinedLists
<1>3. \A i \in DOMAIN lists : lists[i].container < s /\ lists[i].container \in Nat
  BY DEF ListsNested
<1>4. {Joined(lists, s)[i].container : i \in DOMAIN Joined(lists, s)} = {lists[i].container : i \in DOMAIN lists}
  BY <1>2
<1>5. \A i \in DOMAIN lists : lists[i].container # s
  BY <1>1, <1>3
<1>6. Len(lines) + 1 \notin DOMAIN lines
  BY <1>1
<1>7. QED  BY <1>4, <1>5, <1>6 DEF Done, Pending

\* The statement s is ready to join the innermost list.
Completing(lines, lists, starts, s) ==
  /\ TreeOK(lines, lists, starts, s)
  /\ lists # <<>>
  /\ s \in DOMAIN lines
  /\ Filled(lines, s)
  /\ \A u \in Done(lines, lists, s) : u > s => lines[u].parent >= s

StartsAfter(starts, s, list) ==
  IF list.container = NoStmt /\ list.last = NoStmt
  THEN [starts EXCEPT ![list.proc] = s] ELSE starts

\* What a completed statement changes, in the terms of TreeOK: the pointers
\* of s, of the last statement before it or of its container.
Changes(lines, new, list, s, done) ==
  /\ DOMAIN new = DOMAIN lines
  /\ done \subseteq DOMAIN lines \ {s, list.container}
  /\ list.last # NoStmt => list.last \in done
  /\ \A u \in DOMAIN lines :
       /\ new[u].kind = lines[u].kind /\ new[u].callee = lines[u].callee
       /\ u # s => /\ new[u].proc = lines[u].proc
                   /\ new[u].parent = lines[u].parent
                   /\ new[u].prev = lines[u].prev
       /\ u # list.last => new[u].next = lines[u].next
       /\ u # list.container => new[u].first = lines[u].first
       /\ u # list.container => new[u].second = lines[u].second
  /\ list.last # NoStmt => new[list.last].next = s
  /\ \A u \in DOMAIN lines : list.last # NoStmt =>
       new[u].first = lines[u].first /\ new[u].second = lines[u].second
  /\ list.container # NoStmt => list.container \in DOMAIN lines
  /\ list.container # NoStmt /\ list.last = NoStmt =>
       /\ new[list.container].first
            = IF list.branch = "first" THEN s ELSE lines[list.container].first
       /\ new[list.container].second
            = IF list.branch = "second" THEN s ELSE lines[list.container].second
  /\ new[s].proc = list.proc
  /\ new[s].parent = list.container
  /\ new[s].prev = list.last

LEMMA CompletingChanges ==
    ASSUME NEW lines, NEW lists, NEW starts, NEW s, Completing(lines, lists, starts, s)
    PROVE  /\ Changes(lines, Linked(lines, s, Head(lists)), lists[1], s, Done(lines, lists, s))
           /\ Linked(lines, s, Head(lists)) \in Seq(StmtRecord)
           /\ Len(Linked(lines, s, Head(lists))) = Len(lines)
<1>1. /\ lines \in Seq(StmtRecord) /\ lists \in Seq(ListRecord) /\ lists # <<>>
      /\ s \in DOMAIN lines
      /\ ListsNested(lines, lists, s) /\ ListsRead(lines, lists, s)
      /\ TreeTyped(lines, lists, starts, s)
  BY DEF Completing, TreeOK, TreeTyped
<1>2. /\ DOMAIN lines = 1 .. Len(lines) /\ Len(lines) \in Nat
  BY <1>1, LenProperties
<1>3. 1 \in DOMAIN lists /\ Head(lists) = lists[1] /\ lists[1] \in ListRecord
  BY <1>1, <1>2, PopElement
<1>4. PICK l \in ListRecord : l = lists[1]
  BY <1>3
<1>5. /\ l.container < s /\ l.container \in 0 .. Len(lines)
      /\ l.last < s
  BY <1>1, <1>3, <1>4 DEF ListsNested, Bound
<1>6. l.last \in Nat /\ l.container \in Nat /\ l.branch \in {"first", "second"}
  BY <1>4 DEF ListRecord, Branch
<1>7. l.last \in 0 .. Len(lines) /\ l.last # s /\ l.container # s
  BY <1>1, <1>2, <1>5, <1>6
<1>8. l.last # NoStmt => l.last \in Done(lines, lists, s)
  BY <1>1, <1>3, <1>4 DEF ListsRead, ListRead
<1>9. Done(lines, lists, s) \subseteq DOMAIN lines \ {s, l.container}
  BY <1>3, <1>4 DEF Done, Pending
<1>10. l.container # NoStmt => l.container \in DOMAIN lines
  BY <1>2, <1>5 DEF NoStmt
<1>11. PICK new : new = Linked(lines, s, l)
  OBVIOUS
<1>12. /\ new \in Seq(StmtRecord) /\ Len(new) = Len(lines) /\ DOMAIN new = DOMAIN lines
       /\ \A u \in DOMAIN lines :
            /\ new[u].kind = lines[u].kind
            /\ new[u].callee = lines[u].callee
            /\ u # s => /\ new[u].proc = lines[u].proc
                        /\ new[u].parent = lines[u].parent
                        /\ new[u].prev = lines[u].prev
            /\ new[u].next = IF l.last # NoStmt /\ u = l.last
                             THEN s ELSE lines[u].next
            /\ new[u].first = IF /\ l.last = NoStmt /\ u = l.container
                                 /\ l.branch = "first"
                              THEN s ELSE lines[u].first
            /\ new[u].second = IF /\ l.last = NoStmt /\ u = l.container
                                  /\ l.branch = "second"
                               THEN s ELSE lines[u].second
       /\ new[s].proc = l.proc
       /\ new[s].parent = l.container
       /\ new[s].prev = l.last
  BY <1>1, <1>5, <1>7, <1>11, LinkedFields
<1>13. Changes(lines, new, l, s, Done(lines, lists, s))
  BY <1>1, <1>7, <1>8, <1>9, <1>10, <1>12 DEF Changes
<1>14. QED  BY <1>3, <1>4, <1>11, <1>12, <1>13

\* The numbers and sets at hand when s is completed.
LEMMA CompletingSets ==
    ASSUME NEW lines, NEW lists, NEW starts, NEW s, Completing(lines, lists, starts, s),
           NEW new, new = Linked(lines, s, Head(lists))
    PROVE  /\ DOMAIN lines = 1 .. Len(lines) /\ Len(lines) \in Nat
           /\ s \in 1 .. Len(lines) /\ Len(new) = Len(lines)
           /\ lists \in Seq(ListRecord) /\ lists # <<>> /\ 1 \in DOMAIN lists
           /\ Head(lists) = lists[1]
           /\ DOMAIN lists = 1 .. Len(lists) /\ Len(lists) \in Nat
           /\ \A i \in DOMAIN lists :
                /\ lists[i].container \in Nat /\ lists[i].container < s
                /\ lists[i].last \in Nat /\ lists[i].proc \in Names
                /\ lists[i].proc = lists[1].proc
                /\ lists[i].branch \in {"first", "second"}
                /\ i # 1 => lists[i].container < lists[1].container
           /\ Done(new, Joined(lists, s), Len(lines) + 1) = Done(lines, lists, s) \cup {s}
           /\ s \notin Done(lines, lists, s)
           /\ \A i \in DOMAIN lists : lists[i].container \notin Done(lines, lists, s) \cup {s}
           /\ DOMAIN new \cap Pending(Joined(lists, s), Len(lines) + 1)
                = (DOMAIN lines \cap Pending(lists, s)) \ {s}
<1>1. /\ lines \in Seq(StmtRecord) /\ lists \in Seq(ListRecord) /\ lists # <<>>
      /\ s \in DOMAIN lines
      /\ ListsNested(lines, lists, s)
      /\ TreeTyped(lines, lists, starts, s)
  BY DEF Completing, TreeOK, TreeTyped
<1>2. /\ DOMAIN lines = 1 .. Len(lines) /\ Len(lines) \in Nat
  BY <1>1, LenProperties
<1>3. /\ 1 \in DOMAIN lists /\ Head(lists) = lists[1]
      /\ DOMAIN lists = 1 .. Len(lists) /\ Len(lists) \in Nat
  BY <1>1, PopElement
<1>4. Len(new) = Len(lines) /\ DOMAIN new = DOMAIN lines
  BY CompletingChanges DEF Changes
<1>5. \A i \in DOMAIN lists : lists[i] \in ListRecord
  BY <1>1
<1>6. ASSUME NEW i \in DOMAIN lists
      PROVE  /\ lists[i].container \in Nat /\ lists[i].container < s
             /\ lists[i].last \in Nat /\ lists[i].proc \in Names
             /\ lists[i].proc = lists[1].proc
             /\ lists[i].branch \in {"first", "second"}
             /\ i # 1 => lists[i].container < lists[1].container
  <2>1. lists[i].last \in Nat /\ lists[i].proc \in Names /\ lists[i].branch \in {"first", "second"}
    BY <1>5 DEF ListRecord, Branch
  <2>2. lists[i].container \in Nat /\ lists[i].container < s
    BY <1>1, <1>5 DEF ListsNested, ListRecord
  <2>3. lists[i].proc = lists[1].proc
    BY <1>1, <1>3 DEF ListsNested
  <2>4. i # 1 => 1 < i
    BY <1>3
  <2>5. i # 1 => lists[i].container < lists[1].container
    BY <1>1, <1>3, <2>4 DEF ListsNested
  <2>6. QED  BY <2>1, <2>2, <2>3, <2>5
<1>7. /\ Done(new, Joined(lists, s), Len(lines) + 1) = Done(lines, lists, s) \cup {s}
      /\ s \notin Done(lines, lists, s)
      /\ \A i \in DOMAIN lists : lists[i].container \notin Done(lines, lists, s) \cup {s}
      /\ DOMAIN new \cap Pending(Joined(lists, s), Len(lines) + 1)
           = (DOMAIN lines \cap Pending(lists, s)) \ {s}
  BY <1>1, <1>4, JoinedDone
<1>8. QED  BY <1>1, <1>2, <1>3, <1>4, <1>6, <1>7

LEMMA CompletedTyped ==
    ASSUME NEW lines, NEW lists, NEW starts, NEW s, Completing(lines, lists, starts, s)
    PROVE  TreeTyped(Linked(lines, s, Head(lists)), Joined(lists, s),
                     StartsAfter(starts, s, Head(lists)), Len(lines) + 1)
<1>1. PICK new : new = Linked(lines, s, Head(lists))
  OBVIOUS
<1>2. new \in Seq(StmtRecord) /\ Len(new) = Len(lines)
  BY <1>1, CompletingChanges
<1>3. /\ s \in Nat /\ Len(lines) \in Nat
      /\ lists \in Seq(ListRecord) /\ lists # <<>>
      /\ lists[1].proc \in Names /\ Head(lists) = lists[1]
  BY <1>1, CompletingSets
<1>4. Joined(lists, s) \in Seq(ListRecord)
  BY <1>3, JoinedLists
<1>5. StartsAfter(starts, s, Head(lists)) \in [Names -> Nat]
  BY <1>3 DEF StartsAfter, Completing, TreeOK, TreeTyped
<1>6. QED  BY <1>1, <1>2, <1>3, <1>4, <1>5 DEF TreeTyped

LEMMA CompletedNested ==
    ASSUME NEW lines, NEW lists, NEW starts, NEW s, Completing(lines, lists, starts, s)
    PROVE  ListsNested(Linked(lines, s, Head(lists)), Joined(lists, s), Len(lines) + 1)
<1>1. PICK new : new = Linked(lines, s, Head(lists))
  OBVIOUS
<1>2. /\ s \in 1 .. Len(lines) /\ Len(lines) \in Nat /\ Len(new) = Len(lines)
      /\ lists \in Seq(ListRecord) /\ lists # <<>>
      /\ \A i \in DOMAIN lists : lists[i].container \in Nat /\ lists[i].container < s
  BY <1>1, CompletingSets
<1>3. PICK joined : joined = Joined(lists, s)
  OBVIOUS
<1>4. /\ DOMAIN joined = DOMAIN lists /\ Len(joined) = Len(lists)
      /\ \A i \in DOMAIN lists :
           /\ joined[i].container = lists[i].container
           /\ joined[i].proc = lists[i].proc
           /\ joined[i].last = IF i = 1 THEN s ELSE lists[i].last
  BY <1>2, <1>3, JoinedLists
<1>5. \A i \in DOMAIN lists :
        Bound(joined, Len(lines) + 1, i) = IF i = 1 THEN Len(lines) + 1 ELSE Bound(lists, s, i)
  BY <1>2, <1>3, JoinedBounds
<1>6. ListsNested(lines, lists, s)
  BY DEF Completing, TreeOK
<1>7. ASSUME NEW i \in DOMAIN lists
      PROVE  /\ joined[i].container < Len(lines) + 1
             /\ joined[i].container \in 0 .. Len(new)
             /\ joined[i].last < Bound(joined, Len(lines) + 1, i)
             /\ joined[i].container = NoStmt <=> i = Len(joined)
  BY <1>2, <1>4, <1>5, <1>6 DEF ListsNested
<1>8. QED  BY <1>1, <1>3, <1>4, <1>6, <1>7 DEF ListsNested

LEMMA CompletedFresh ==
    ASSUME NEW lines, NEW lists, NEW starts, NEW s, Completing(lines, lists, starts, s)
    PROVE  PendingFresh(Linked(lines, s, Head(lists)), Joined(lists, s), Len(lines) + 1)
<1>1. PICK new : new = Linked(lines, s, Head(lists))
  OBVIOUS
<1>2. PICK l : l = lists[1]
  OBVIOUS
<1>3. DOMAIN new \cap Pending(Joined(lists, s), Len(lines) + 1)
        = (DOMAIN lines \cap Pending(lists, s)) \ {s}
  BY <1>1, CompletingSets
<1>4. Changes(lines, new, l, s, Done(lines, lists, s))
  BY <1>1, <1>2, CompletingChanges
<1>5. ASSUME NEW u \in (DOMAIN lines \cap Pending(lists, s)) \ {s}
      PROVE  new[u].next = NoStmt /\ new[u].parent = NoStmt
  <2>1. lines[u].next = NoStmt /\ lines[u].parent = NoStmt
    BY DEF Completing, TreeOK, PendingFresh
  <2>2. u \notin Done(lines, lists, s)
    BY DEF Done
  <2>3. u # l.last
    BY <1>1, <1>4, <2>2, CompletingSets DEF Changes, NoStmt
  <2>4. QED  BY <1>4, <2>1, <2>3 DEF Changes
<1>6. QED  BY <1>1, <1>3, <1>5 DEF PendingFresh

LEMMA CompletedLists ==
    ASSUME NEW lines, NEW lists, NEW starts, NEW s, Completing(lines, lists, starts, s)
    PROVE  ListsRead(Linked(lines, s, Head(lists)), Joined(lists, s), Len(lines) + 1)
<1>1. PICK new : new = Linked(lines, s, Head(lists))
  OBVIOUS
<1>2. PICK joined : joined = Joined(lists, s)
  OBVIOUS
<1>3. PICK done : done = Done(lines, lists, s)
  OBVIOUS
<1>4. PICK n : n = Len(lines)
  OBVIOUS
<1>5. /\ DOMAIN lines = 1 .. n /\ n \in Nat /\ s \in 1 .. n
      /\ lists \in Seq(ListRecord) /\ lists # <<>> /\ 1 \in DOMAIN lists
      /\ DOMAIN lists = 1 .. Len(lists) /\ Len(lists) \in Nat
      /\ \A i \in DOMAIN lists :
           /\ lists[i].container \in Nat /\ lists[i].container < s
           /\ lists[i].last \in Nat
           /\ i # 1 => lists[i].container < lists[1].container
      /\ Done(new, joined, n + 1) = done \cup {s}
      /\ s \notin done
      /\ \A i \in DOMAIN lists : lists[i].container \notin done \cup {s}
  BY <1>1, <1>2, <1>3, <1>4, CompletingSets
<1>6. Changes(lines, new, lists[1], s, done)
  BY <1>1, <1>3, CompletingChanges
<1>7. /\ DOMAIN joined = DOMAIN lists
      /\ \A i \in DOMAIN lists :
           /\ joined[i].container = lists[i].container
           /\ joined[i].proc = lists[i].proc
           /\ joined[i].branch = lists[i].branch
           /\ joined[i].last = IF i = 1 THEN s ELSE lists[i].last
  BY <1>2, <1>5, JoinedLists
<1>8. \A i \in DOMAIN lists :
        Bound(joined, n + 1, i) = IF i = 1 THEN n + 1 ELSE Bound(lists, s, i)
  BY <1>2, <1>5, JoinedBounds
<1>9. /\ ListsRead(lines, lists, s) /\ ListsNested(lines, lists, s)
      /\ PendingFresh(lines, lists, s)
      /\ \A u \in done : u > s => lines[u].parent >= s
      /\ DoneLinked(lines, lists, starts, s)
  BY <1>3 DEF Completing, TreeOK
<1>10. done \subseteq 1 .. n
  BY <1>5, <1>6 DEF Changes
<1>11. \A u \in done : lines[u].parent < u /\ new[u].parent = lines[u].parent
  BY <1>3, <1>5, <1>6, <1>9 DEF DoneLinked, Changes
<1>12. lines[s].next = NoStmt
  BY <1>5, <1>9 DEF PendingFresh, Pending
<1>13. \A i \in DOMAIN lists : i # 1 => /\ Bound(lists, s, i) <= lists[1].container
                                        /\ Bound(lists, s, i) \in Nat
  <2>1. ASSUME NEW i \in DOMAIN lists, i # 1
        PROVE  /\ Bound(lists, s, i) <= lists[1].container
               /\ Bound(lists, s, i) \in Nat
    <3>1. i - 1 \in DOMAIN lists /\ Bound(lists, s, i) = lists[i - 1].container
      BY <1>5, <2>1 DEF Bound
    <3>2. QED  BY <1>5, <3>1
  <2>2. QED  BY <2>1
<1>14. \A u \in done : \A i \in DOMAIN lists :
         u > lists[i].container => lines[u].parent >= lists[i].container
  BY <1>3, <1>9 DEF ListsRead, ListRead
<1>15. \A u \in 1 .. n : lines[u] \in StmtRecord
  BY <1>5 DEF Completing, TreeOK, TreeTyped
\* The list that s joins.
<1>16. ListRead(new, joined, n + 1, 1)
  <2>1. new[s].next = NoStmt
    <3>1. s # lists[1].last
      BY <1>5, <1>6 DEF Changes, NoStmt
    <3>2. QED  BY <1>5, <1>6, <1>12, <3>1 DEF Changes
  <2>2. new[s].parent = lists[1].container /\ new[s].proc = lists[1].proc
    BY <1>6 DEF Changes
  <2>3. ASSUME NEW u \in (s + 1) .. n PROVE new[u].parent \in s .. n
    <3>1. u \in DOMAIN lines /\ u > s
      BY <1>5
    <3>2. u \notin Pending(lists, s)
      BY <1>5, <3>1 DEF Pending
    <3>3. u \in done
      BY <1>3, <3>1, <3>2 DEF Done
    <3>4. lines[u].parent >= s /\ lines[u].parent < u /\ new[u].parent = lines[u].parent
      BY <1>9, <1>11, <3>1, <3>3
    <3>5. lines[u].parent \in Nat
      BY <1>5, <1>15, <3>1 DEF StmtRecord, StmtFields
    <3>6. QED  BY <1>5, <3>4, <3>5
  <2>4. Between(new, s, n + 1)
    BY <1>5, <2>3 DEF Between
  <2>5. ASSUME NEW u \in done \cup {s}, u > lists[1].container
        PROVE  new[u].parent >= lists[1].container
    <3>1. CASE u = s
      BY <1>5, <2>2, <3>1
    <3>2. CASE u \in done
      BY <1>5, <1>11, <1>14, <2>5, <3>2
    <3>3. QED  BY <3>1, <3>2
  <2>6. QED  BY <1>5, <1>7, <1>8, <2>1, <2>2, <2>4, <2>5 DEF ListRead
<1>17. ContainerRead(new, joined, n + 1, 1)
  <2>1. ContainerRead(lines, lists, s, 1)
    BY <1>5, <1>9 DEF ListsRead
  <2>2. ASSUME lists[1].container # NoStmt
        PROVE  LET c == lists[1].container
               IN  /\ new[c].kind = lines[c].kind
                   /\ new[c].first = IF lists[1].last = NoStmt /\ lists[1].branch = "first"
                                     THEN s ELSE lines[c].first
                   /\ new[c].second = IF lists[1].last = NoStmt /\ lists[1].branch = "second"
                                      THEN s ELSE lines[c].second
    BY <1>6, <2>2 DEF Changes
  <2>3. Bound(lists, s, 1) = s /\ s # NoStmt
    BY <1>5 DEF Bound, NoStmt
  <2>4. lists[1].container # NoStmt => lines[lists[1].container].first \in Nat
    <3>1. lists[1].container # NoStmt => lists[1].container \in 1 .. n
      BY <1>5 DEF NoStmt
    <3>2. \A u \in 1 .. n : lines[u].first \in Nat
      BY <1>15 DEF StmtRecord, StmtFields
    <3>3. QED  BY <3>1, <3>2
  <2>5. QED  BY <1>5, <1>7, <1>8, <2>1, <2>2, <2>3, <2>4 DEF ContainerRead
\* The lists around it.
<1>18. ASSUME NEW i \in DOMAIN lists, i # 1 PROVE ListRead(new, joined, n + 1, i)
  <2>1. ListRead(lines, lists, s, i) /\ ListRead(lines, lists, s, 1)
    BY <1>5, <1>9 DEF ListsRead
  <2>2. PICK l : l = lists[i].last
    OBVIOUS
  <2>3. ASSUME l # NoStmt
        PROVE  /\ l \in done /\ new[l].next = NoStmt
               /\ new[l].parent = lists[i].container
               /\ new[l].proc = lists[i].proc
    <3>1. /\ l \in done /\ lines[l].next = NoStmt
          /\ lines[l].parent = lists[i].container /\ lines[l].proc = lists[i].proc
      BY <1>3, <2>1, <2>2, <2>3 DEF ListRead
    <3>2. lists[1].last # NoStmt => lines[lists[1].last].parent = lists[1].container
      BY <2>1 DEF ListRead
    <3>3. l # lists[1].last
      BY <1>5, <1>18, <2>3, <3>1, <3>2
    <3>4. QED  BY <1>5, <1>6, <3>1, <3>3 DEF Changes
  <2>4. ASSUME l # NoStmt PROVE Between(new, l, Bound(lists, s, i))
    <3>1. Between(lines, l, Bound(lists, s, i))
      BY <2>1, <2>2, <2>4 DEF ListRead
    <3>2. l \in Nat /\ l > 0
      BY <1>5, <2>2, <2>4 DEF NoStmt
    <3>3. ASSUME NEW u \in (l + 1) .. (Bound(lists, s, i) - 1)
          PROVE  new[u].parent = lines[u].parent
      <4>1. u < s /\ u \in 1 .. n
        BY <1>5, <1>13, <1>18, <3>2
      <4>2. QED  BY <1>5, <1>6, <4>1 DEF Changes
    <3>4. QED  BY <3>1, <3>3 DEF Between
  <2>5. ASSUME NEW u \in done \cup {s}, u > lists[i].container
        PROVE  new[u].parent >= lists[i].container
    <3>1. CASE u = s
      BY <1>5, <1>6, <1>18, <3>1 DEF Changes
    <3>2. CASE u \in done
      BY <1>5, <1>11, <1>14, <2>5, <3>2
    <3>3. QED  BY <3>1, <3>2
  <2>6. QED  BY <1>5, <1>7, <1>8, <1>18, <2>2, <2>3, <2>4, <2>5 DEF ListRead
<1>19. ASSUME NEW i \in DOMAIN lists, i # 1 PROVE ContainerRead(new, joined, n + 1, i)
  <2>1. ContainerRead(lines, lists, s, i)
    BY <1>9 DEF ListsRead
  <2>2. PICK c : c = lists[i].container
    OBVIOUS
  <2>3. c # NoStmt => c \in DOMAIN lines
    BY <1>5, <2>2 DEF NoStmt
  <2>4. c # NoStmt => /\ new[c].kind = lines[c].kind
                      /\ new[c].first = lines[c].first
                      /\ new[c].second = lines[c].second
    BY <1>5, <1>6, <1>19, <2>2, <2>3 DEF Changes
  <2>5. QED  BY <1>7, <1>8, <1>19, <2>1, <2>2, <2>4 DEF ContainerRead
<1>20. \A i \in DOMAIN joined : /\ ListRead(new, joined, n + 1, i)
                                /\ ContainerRead(new, joined, n + 1, i)
  BY <1>7, <1>16, <1>17, <1>18, <1>19
<1>21. QED  BY <1>1, <1>2, <1>4, <1>20 DEF ListsRead

\* When a procedure gets its first statement it had none.
FirstOnce(lists, starts) ==
  lists[1].container = NoStmt /\ lists[1].last = NoStmt => starts[lists[1].proc] = NoStmt

\* A completed statement heads a list if nothing precedes it there.
LEMMA CompletedHeads ==
    ASSUME NEW lines, NEW lists, NEW starts, NEW s, Completing(lines, lists, starts, s),
           FirstOnce(lists, starts), NEW x \in Done(lines, lists, s) \cup {s}
    PROVE  IsHead(Linked(lines, s, Head(lists)), StartsAfter(starts, s, Head(lists)), x)
             <=> Linked(lines, s, Head(lists))[x].prev = NoStmt
<1>1. PICK new : new = Linked(lines, s, Head(lists))
  OBVIOUS
<1>2. PICK done : done = Done(lines, lists, s)
  OBVIOUS
<1>3. PICK l : l = lists[1]
  OBVIOUS
<1>4. PICK begin : begin = StartsAfter(starts, s, Head(lists))
  OBVIOUS
<1>5. /\ DOMAIN lines = 1 .. Len(lines) /\ Len(lines) \in Nat /\ s \in 1 .. Len(lines)
      /\ 1 \in DOMAIN lists /\ Head(lists) = l
      /\ l.container \in Nat /\ l.container < s /\ l.last \in Nat /\ l.proc \in Names
      /\ l.branch \in {"first", "second"}
      /\ s \notin done
  BY <1>1, <1>2, <1>3, CompletingSets
<1>6. Changes(lines, new, l, s, done)
  BY <1>1, <1>2, <1>3, CompletingChanges
<1>7. starts \in [Names -> Nat]
  BY DEF Completing, TreeOK, TreeTyped
<1>8. /\ begin \in [Names -> Nat]
      /\ \A m \in Names : begin[m] = IF m = l.proc /\ l.container = NoStmt /\ l.last = NoStmt
                                     THEN s ELSE starts[m]
  BY <1>4, <1>5, <1>7 DEF StartsAfter
<1>9. l.container = NoStmt /\ l.last = NoStmt => starts[l.proc] = NoStmt
  BY <1>3 DEF FirstOnce
<1>10. l.container # NoStmt /\ l.last = NoStmt =>
         /\ l.container \in DOMAIN lines
         /\ l.branch = "first" => lines[l.container].first = NoStmt
         /\ l.branch = "second" => lines[l.container].second = NoStmt
  BY <1>3, <1>5, <1>6 DEF Completing, TreeOK, ListsRead, ContainerRead, Changes
<1>11. CASE x = s
  <2>1. new[s].prev = l.last
    BY <1>6 DEF Changes
  <2>2. CASE l.last = NoStmt /\ l.container = NoStmt
    BY <1>1, <1>4, <1>5, <1>8, <1>11, <2>1, <2>2 DEF IsHead
  <2>3. CASE l.last = NoStmt /\ l.container # NoStmt
    <3>1. /\ l.container \in DOMAIN new
          /\ new[l.container].first = s \/ new[l.container].second = s
      BY <1>5, <1>6, <2>3 DEF Changes
    <3>2. QED  BY <1>1, <1>4, <1>11, <2>1, <2>3, <3>1 DEF IsHead
  <2>4. CASE l.last # NoStmt
    <3>1. ~ IsHead(lines, starts, s)
      <4>1. BranchesLinked(lines, lists, s) /\ StartsLinked(lines, lists, starts, s)
        BY DEF Completing, TreeOK
      <4>2. s # NoStmt
        BY <1>5 DEF NoStmt
      <4>3. QED  BY <1>2, <1>5, <4>1, <4>2, HeadsDone
    <3>2. begin = starts
      BY <1>4, <1>5, <2>4 DEF StartsAfter
    <3>3. DOMAIN new = DOMAIN lines
          /\ \A c \in DOMAIN lines : new[c].first = lines[c].first /\ new[c].second = lines[c].second
      BY <1>6, <2>4 DEF Changes
    <3>4. ~ IsHead(new, begin, s)
      BY <3>1, <3>2, <3>3 DEF IsHead
    <3>5. QED  BY <1>1, <1>4, <1>11, <2>1, <2>4, <3>4
  <2>5. QED  BY <2>2, <2>3, <2>4
<1>12. CASE x \in done
  <2>1. x \in DOMAIN lines /\ x # s /\ x # NoStmt
    BY <1>5, <1>6, <1>12 DEF Changes, NoStmt
  <2>2. new[x].prev = lines[x].prev
    BY <1>6, <2>1 DEF Changes
  <2>3. lines[x].prev = NoStmt <=> IsHead(lines, starts, x)
    BY <1>2, <1>12 DEF Completing, TreeOK, DoneLinked
  <2>4. (\E m \in Names : begin[m] = x) <=> (\E m \in Names : starts[m] = x)
    BY <1>8, <1>9, <2>1
  <2>5. ASSUME NEW c \in DOMAIN lines
        PROVE  /\ new[c].first = x <=> lines[c].first = x
               /\ new[c].second = x <=> lines[c].second = x
    <3>1. CASE c = l.container /\ l.last = NoStmt
      <4>1. l.container # NoStmt
        BY <1>5, <3>1 DEF NoStmt
      <4>2. QED  BY <1>5, <1>6, <1>10, <2>1, <3>1, <4>1 DEF Changes
    <3>2. CASE c # l.container \/ l.last # NoStmt
      BY <1>6, <3>2 DEF Changes
    <3>3. QED  BY <3>1, <3>2
  <2>6. DOMAIN new = DOMAIN lines
    BY <1>6 DEF Changes
  <2>7. IsHead(new, begin, x) <=> IsHead(lines, starts, x)
    BY <2>4, <2>5, <2>6 DEF IsHead
  <2>8. QED  BY <1>1, <1>4, <2>2, <2>3, <2>7
<1>13. QED  BY <1>2, <1>11, <1>12

\* The pointers between complete statements.
LEMMA CompletedLinks ==
    ASSUME NEW lines, NEW lists, NEW starts, NEW s, Completing(lines, lists, starts, s),
           FirstOnce(lists, starts)
    PROVE  DoneLinked(Linked(lines, s, Head(lists)), Joined(lists, s),
                      StartsAfter(starts, s, Head(lists)), Len(lines) + 1)
<1>1. PICK new : new = Linked(lines, s, Head(lists))
  OBVIOUS
<1>2. PICK done : done = Done(lines, lists, s)
  OBVIOUS
<1>3. PICK l : l = lists[1]
  OBVIOUS
<1>4. PICK begin : begin = StartsAfter(starts, s, Head(lists))
  OBVIOUS
<1>5. /\ DOMAIN lines = 1 .. Len(lines) /\ Len(lines) \in Nat /\ s \in 1 .. Len(lines)
      /\ 1 \in DOMAIN lists /\ Head(lists) = l
      /\ l.container \in Nat /\ l.container < s /\ l.last \in Nat
      /\ Done(new, Joined(lists, s), Len(lines) + 1) = done \cup {s}
      /\ s \notin done
  BY <1>1, <1>2, <1>3, CompletingSets
<1>6. Changes(lines, new, l, s, done)
  BY <1>1, <1>2, <1>3, CompletingChanges
<1>7. \A x \in done \cup {s} : IsHead(new, begin, x) <=> new[x].prev = NoStmt
  BY <1>1, <1>2, <1>4, CompletedHeads
<1>8. DoneLinked(lines, lists, starts, s)
  BY DEF Completing, TreeOK
<1>9. s # NoStmt /\ NoStmt \notin done
  BY <1>5, <1>6 DEF Changes, NoStmt
<1>10. lines[s].next = NoStmt /\ lines[s].parent = NoStmt
  BY <1>5 DEF Completing, TreeOK, PendingFresh, Pending
\* The last statement of the list gets a successor.
<1>11. l.last # NoStmt =>
         /\ l.last \in done /\ lines[l.last].next = NoStmt
         /\ lines[l.last].parent = l.container /\ lines[l.last].proc = l.proc
         /\ Between(lines, l.last, s) /\ l.last < s
  <2>1. ListRead(lines, lists, s, 1)
    BY <1>5 DEF Completing, TreeOK, ListsRead
  <2>2. l.last < Bound(lists, s, 1)
    BY <1>3, <1>5 DEF Completing, TreeOK, ListsNested
  <2>3. Bound(lists, s, 1) = s
    BY DEF Bound
  <2>4. QED  BY <1>2, <1>3, <2>1, <2>2, <2>3 DEF ListRead
<1>12. new[s].next = NoStmt
  <2>1. s # l.last
    BY <1>5, <1>9, <1>11
  <2>2. QED  BY <1>5, <1>6, <1>10, <2>1 DEF Changes
<1>13. \A x \in done : /\ x \in DOMAIN lines /\ x # s
                       /\ new[x].proc = lines[x].proc
                       /\ new[x].parent = lines[x].parent
                       /\ new[x].prev = lines[x].prev
                       /\ x # l.last => new[x].next = lines[x].next
                       /\ x = l.last => new[x].next = s
  BY <1>5, <1>6, <1>9 DEF Changes
<1>14. \A u \in DOMAIN lines : u # s => new[u].parent = lines[u].parent
  BY <1>6 DEF Changes
<1>15. ASSUME NEW x \in done \cup {s} PROVE new[x].parent < x
  <2>1. CASE x = s
    BY <1>5, <1>6, <2>1 DEF Changes
  <2>2. CASE x \in done
    BY <1>2, <1>8, <1>13, <2>2 DEF DoneLinked
  <2>3. QED  BY <2>1, <2>2
<1>16. ASSUME NEW x \in done \cup {s}, new[x].next # NoStmt, NEW t, t = new[x].next
       PROVE  /\ t \in done \cup {s} /\ new[t].prev = x
              /\ new[t].parent = new[x].parent /\ new[t].proc = new[x].proc
              /\ x < t /\ Between(new, x, t)
  <2>1. x \in done
    BY <1>12, <1>16
  <2>2. CASE x = l.last
    <3>1. t = s /\ l.last # NoStmt
      BY <1>9, <1>13, <1>16, <2>1, <2>2
    <3>2. /\ new[s].prev = x /\ new[s].parent = l.container /\ new[s].proc = l.proc
      BY <1>6, <2>2 DEF Changes
    <3>3. new[x].parent = l.container /\ new[x].proc = l.proc
      BY <1>11, <1>13, <2>1, <2>2, <3>1
    <3>4. Between(new, x, s)
      <4>1. ASSUME NEW u \in (x + 1) .. (s - 1) PROVE u \in DOMAIN lines /\ u # s
        BY <1>5, <2>2
      <4>2. QED  BY <1>11, <1>14, <2>2, <3>1, <4>1 DEF Between
    <3>5. QED  BY <1>11, <2>2, <3>1, <3>2, <3>3, <3>4
  <2>3. CASE x # l.last
    <3>1. t = lines[x].next
      BY <1>13, <1>16, <2>1, <2>3
    <3>2. /\ t \in done /\ lines[t].prev = x /\ lines[t].parent = lines[x].parent
          /\ lines[t].proc = lines[x].proc /\ x < t /\ Between(lines, x, t)
      BY <1>2, <1>8, <1>16, <2>1, <3>1 DEF DoneLinked
    <3>3. Between(new, x, t)
      <4>1. x \in 1 .. Len(lines) /\ t \in 1 .. Len(lines)
        BY <1>5, <1>13, <2>1, <3>2
      <4>2. ASSUME NEW u \in (x + 1) .. (t - 1) PROVE u \in DOMAIN lines /\ u # s
        <5>1. lines[u].parent \in x .. (t - 1)
          BY <3>2 DEF Between
        <5>2. lines[u].parent # 0
          BY <4>1, <5>1
        <5>3. QED  BY <1>5, <1>10, <4>1, <5>2 DEF NoStmt
      <4>3. QED  BY <1>14, <3>2, <4>2 DEF Between
    <3>4. QED  BY <1>13, <2>1, <3>2, <3>3
  <2>4. QED  BY <2>2, <2>3
<1>17. ASSUME NEW x \in done \cup {s}, new[x].prev # NoStmt
       PROVE  new[x].prev \in done \cup {s} /\ new[new[x].prev].next = x
  <2>1. CASE x = s
    BY <1>6, <1>11, <1>17, <2>1 DEF Changes
  <2>2. CASE x \in done
    <3>1. PICK p : p = lines[x].prev
      OBVIOUS
    <3>2. new[x].prev = p /\ p \in done /\ lines[p].next = x
      BY <1>2, <1>8, <1>13, <1>17, <2>2, <3>1 DEF DoneLinked
    <3>3. p # l.last
      BY <1>9, <1>11, <2>2, <3>2
    <3>4. QED  BY <1>13, <3>2, <3>3
  <2>3. QED  BY <2>1, <2>2
<1>18. ASSUME NEW x \in done \cup {s} PROVE Filled(new, x)
  <2>1. x # l.container /\ x \in DOMAIN lines
    BY <1>5, <1>6 DEF Changes
  <2>2. Filled(lines, x)
    BY <1>2, <1>8 DEF Completing, DoneLinked
  <2>3. new[x].kind = lines[x].kind /\ new[x].first = lines[x].first
        /\ new[x].second = lines[x].second
    BY <1>6, <2>1 DEF Changes
  <2>4. QED  BY <2>2, <2>3 DEF Filled
<1>19. \A x \in done \cup {s} :
         /\ new[x].parent < x
         /\ new[x].next # NoStmt =>
              LET t == new[x].next
              IN  /\ t \in done \cup {s} /\ new[t].prev = x
                  /\ new[t].parent = new[x].parent /\ new[t].proc = new[x].proc
                  /\ x < t /\ Between(new, x, t)
         /\ new[x].prev # NoStmt =>
              new[x].prev \in done \cup {s} /\ new[new[x].prev].next = x
         /\ new[x].prev = NoStmt <=> IsHead(new, begin, x)
         /\ Filled(new, x)
  BY <1>7, <1>15, <1>16, <1>17, <1>18
<1>20. QED  BY <1>1, <1>4, <1>5, <1>19 DEF DoneLinked

\* The branches of containers, among them the one that s may begin.
LEMMA CompletedBranches ==
    ASSUME NEW lines, NEW lists, NEW starts, NEW s, Completing(lines, lists, starts, s)
    PROVE  BranchesLinked(Linked(lines, s, Head(lists)), Joined(lists, s), Len(lines) + 1)
<1>1. PICK new : new = Linked(lines, s, Head(lists))
  OBVIOUS
<1>2. PICK joined : joined = Joined(lists, s)
  OBVIOUS
<1>3. PICK done : done = Done(lines, lists, s)
  OBVIOUS
<1>4. PICK l : l = lists[1]
  OBVIOUS
<1>5. /\ DOMAIN lines = 1 .. Len(lines) /\ Len(lines) \in Nat /\ s \in 1 .. Len(lines)
      /\ lists \in Seq(ListRecord) /\ lists # <<>> /\ 1 \in DOMAIN lists
      /\ \A i \in DOMAIN lists : lists[i].proc = l.proc
      /\ l.container \in Nat /\ l.last \in Nat /\ l.branch \in {"first", "second"}
      /\ Done(new, joined, Len(lines) + 1) = done \cup {s}
      /\ s \notin done
      /\ l.container \notin done \cup {s}
      /\ DOMAIN new \cap Pending(joined, Len(lines) + 1)
           = (DOMAIN lines \cap Pending(lists, s)) \ {s}
  BY <1>1, <1>2, <1>3, <1>4, CompletingSets
<1>6. Changes(lines, new, l, s, done)
  BY <1>1, <1>3, <1>4, CompletingChanges
<1>7. DOMAIN joined = DOMAIN lists /\ \A i \in DOMAIN joined : joined[i].proc = l.proc
  BY <1>2, <1>5, JoinedLists
<1>8. BranchesLinked(lines, lists, s)
  BY DEF Completing, TreeOK
<1>9. \A c \in DOMAIN lines : lines[c].first \in Nat /\ lines[c].second \in Nat
  <2>1. lines \in Seq(StmtRecord)
    BY DEF Completing, TreeOK, TreeTyped
  <2>2. \A c \in DOMAIN lines : lines[c] \in StmtRecord
    BY <2>1
  <2>3. QED  BY <2>2 DEF StmtRecord, StmtFields
\* The container that gets a branch.
<1>10. ASSUME l.container # NoStmt, l.last = NoStmt
       PROVE  /\ l.container \in DOMAIN lines
              /\ l.branch = "first" => /\ lines[l.container].first = NoStmt
                                       /\ lines[l.container].second = NoStmt
                                       /\ s = l.container + 1
              /\ l.branch = "second" => /\ lines[l.container].second = NoStmt
                                        /\ lines[l.container].first < s
  <2>1. ContainerRead(lines, lists, s, 1)
    BY <1>5 DEF Completing, TreeOK, ListsRead
  <2>2. Bound(lists, s, 1) = s
    BY DEF Bound
  <2>3. l.container \in DOMAIN lines
    BY <1>6, <1>10 DEF Changes
  <2>4. QED  BY <1>4, <1>10, <2>1, <2>2, <2>3 DEF ContainerRead
<1>11. ASSUME NEW c \in DOMAIN lines, NEW b \in {new[c].first, new[c].second} \ {NoStmt}
       PROVE  \/ b = s /\ c = l.container
              \/ b \in {lines[c].first, lines[c].second} \ {NoStmt}
  <2>1. CASE c = l.container /\ l.last = NoStmt
    <3>1. l.container # NoStmt
      BY <1>5, <2>1 DEF NoStmt
    <3>2. QED  BY <1>5, <1>6, <2>1, <3>1 DEF Changes
  <2>2. CASE c # l.container \/ l.last # NoStmt
    BY <1>6, <2>2 DEF Changes
  <2>3. QED  BY <2>1, <2>2
<1>12. ASSUME NEW c \in DOMAIN lines, NEW b \in {new[c].first, new[c].second} \ {NoStmt}
       PROVE  /\ b \in done \cup {s} /\ new[b].parent = c
              /\ c \in done \cup {s} => new[b].proc = new[c].proc
              /\ c \in (DOMAIN lines \cap Pending(lists, s)) \ {s} => new[b].proc = l.proc
  <2>1. new[s].parent = l.container /\ new[s].proc = l.proc
    BY <1>6 DEF Changes
  <2>2. CASE b = s /\ c = l.container
    BY <1>5, <2>1, <2>2
  <2>3. CASE b \in {lines[c].first, lines[c].second} \ {NoStmt}
    <3>1. /\ b \in done /\ lines[b].parent = c
          /\ c \in done => lines[b].proc = lines[c].proc
          /\ c \in Pending(lists, s) => lines[b].proc = l.proc
      BY <1>3, <1>4, <1>5, <1>8, <2>3 DEF BranchesLinked
    <3>2. new[b].parent = lines[b].parent /\ new[b].proc = lines[b].proc
      BY <1>5, <1>6, <3>1 DEF Changes
    <3>3. c # s => new[c].proc = lines[c].proc
      BY <1>6 DEF Changes
    <3>4. s \in Pending(lists, s)
      BY DEF Pending
    <3>5. QED  BY <1>5, <2>1, <3>1, <3>2, <3>3, <3>4
  <2>4. QED  BY <1>11, <2>2, <2>3
<1>13. ASSUME NEW c \in DOMAIN lines
       PROVE  /\ new[c].first # NoStmt => new[c].first = c + 1
              /\ new[c].second # NoStmt => new[c].first < new[c].second
  <2>1. /\ lines[c].first # NoStmt => lines[c].first = c + 1
        /\ lines[c].second # NoStmt => lines[c].first < lines[c].second
    BY <1>8 DEF BranchesLinked
  <2>2. CASE c = l.container /\ l.last = NoStmt
    <3>1. l.container # NoStmt
      BY <1>5, <2>2 DEF NoStmt
    <3>2. /\ new[c].first = IF l.branch = "first" THEN s ELSE lines[c].first
          /\ new[c].second = IF l.branch = "second" THEN s ELSE lines[c].second
      BY <1>6, <2>2, <3>1 DEF Changes
    <3>3. QED  BY <1>5, <1>10, <2>1, <2>2, <3>1, <3>2
  <2>3. CASE c # l.container \/ l.last # NoStmt
    BY <1>6, <2>1, <2>3 DEF Changes
  <2>4. QED  BY <2>2, <2>3
<1>14. DOMAIN new = DOMAIN lines
  BY <1>6 DEF Changes
<1>15. ASSUME NEW c \in DOMAIN new, NEW b \in {new[c].first, new[c].second} \ {NoStmt}
       PROVE  /\ b \in Done(new, joined, Len(lines) + 1) /\ new[b].parent = c
              /\ c \in Done(new, joined, Len(lines) + 1) => new[b].proc = new[c].proc
              /\ c \in Pending(joined, Len(lines) + 1) =>
                   \A i \in DOMAIN joined : new[b].proc = joined[i].proc
  BY <1>5, <1>7, <1>12, <1>14
<1>16. BranchesLinked(new, joined, Len(lines) + 1)
  BY <1>13, <1>14, <1>15 DEF BranchesLinked
<1>17. QED  BY <1>1, <1>2, <1>16

\* The first statements of procedures, among them s where it is one.
LEMMA CompletedStarts ==
    ASSUME NEW lines, NEW lists, NEW starts, NEW s, Completing(lines, lists, starts, s)
    PROVE  StartsLinked(Linked(lines, s, Head(lists)), Joined(lists, s),
                        StartsAfter(starts, s, Head(lists)), Len(lines) + 1)
<1>1. PICK new : new = Linked(lines, s, Head(lists))
  OBVIOUS
<1>2. PICK done : done = Done(lines, lists, s)
  OBVIOUS
<1>3. PICK l : l = lists[1]
  OBVIOUS
<1>4. PICK begin : begin = StartsAfter(starts, s, Head(lists))
  OBVIOUS
<1>5. /\ Head(lists) = l /\ l.proc \in Names
      /\ Done(new, Joined(lists, s), Len(lines) + 1) = done \cup {s}
      /\ s \notin done
      /\ 1 \in DOMAIN lists
  BY <1>1, <1>2, <1>3, CompletingSets
<1>6. Changes(lines, new, l, s, done)
  BY <1>1, <1>2, <1>3, CompletingChanges
<1>7. starts \in [Names -> Nat] /\ StartsLinked(lines, lists, starts, s)
  BY DEF Completing, TreeOK, TreeTyped
<1>8. \A m \in Names : begin[m] = IF m = l.proc /\ l.container = NoStmt /\ l.last = NoStmt
                                  THEN s ELSE starts[m]
  BY <1>4, <1>5, <1>7 DEF StartsAfter
<1>9. ASSUME NEW m \in Names, begin[m] # NoStmt
      PROVE  /\ begin[m] \in done \cup {s}
             /\ new[begin[m]].proc = m
             /\ new[begin[m]].parent = NoStmt
  <2>1. CASE m = l.proc /\ l.container = NoStmt /\ l.last = NoStmt
    BY <1>6, <1>8, <2>1 DEF Changes
  <2>2. CASE ~ (m = l.proc /\ l.container = NoStmt /\ l.last = NoStmt)
    <3>1. PICK b : b = starts[m]
      OBVIOUS
    <3>2. begin[m] = b /\ b \in done /\ lines[b].proc = m /\ lines[b].parent = NoStmt
      BY <1>2, <1>7, <1>8, <1>9, <2>2, <3>1 DEF StartsLinked
    <3>3. b \in DOMAIN lines /\ b # s
      BY <1>5, <1>6, <3>2 DEF Changes
    <3>4. QED  BY <1>6, <3>2, <3>3 DEF Changes
  <2>3. QED  BY <2>1, <2>2
<1>10. QED  BY <1>1, <1>4, <1>5, <1>9 DEF StartsLinked

\* A completed statement joins the innermost list.
LEMMA CompletesTree ==
    ASSUME NEW lines, NEW lists, NEW starts, NEW s, Completing(lines, lists, starts, s),
           FirstOnce(lists, starts)
    PROVE  TreeOK(Linked(lines, s, Head(lists)), Joined(lists, s),
                  StartsAfter(starts, s, Head(lists)), Len(lines) + 1)
BY CompletedTyped, CompletedNested, CompletedLists, CompletedFresh, CompletedLinks,
   CompletedBranches, CompletedStarts DEF TreeOK
------------------------------------------------------------------------------
\* A statement that nothing points to is appended, and is the one at hand.
LEMMA AppendTree ==
    ASSUME NEW lines, NEW lists, NEW starts, TreeOK(lines, lists, starts, Len(lines) + 1),
           NEW x \in StmtRecord, x.next = NoStmt, x.parent = NoStmt,
           x.first = NoStmt, x.second = NoStmt,
           NEW longer, longer = Append(lines, x)
    PROVE  /\ TreeOK(longer, lists, starts, Len(lines) + 1)
           /\ Len(longer) = Len(lines) + 1 /\ Len(lines) + 1 \in DOMAIN longer
           /\ longer[Len(lines) + 1] = x
           /\ \A u \in DOMAIN lines : u \in DOMAIN longer /\ longer[u] = lines[u]
           /\ Done(longer, lists, Len(lines) + 1) = Done(lines, lists, Len(lines) + 1)
           /\ Done(longer, lists, Len(lines) + 1) \subseteq 1 .. Len(lines)
<1>1. /\ lines \in Seq(StmtRecord) /\ lists \in Seq(ListRecord) /\ starts \in [Names -> Nat]
  BY DEF TreeOK, TreeTyped
<1>2. PICK n \in Nat : n = Len(lines)
  BY <1>1, LenProperties
<1>3. /\ longer \in Seq(StmtRecord) /\ Len(longer) = n + 1
      /\ longer[n + 1] = x
      /\ \A u \in 1 .. n : longer[u] = lines[u]
  BY <1>1, <1>2, AppendProperties
<1>4. DOMAIN lines = 1 .. n /\ DOMAIN longer = 1 .. (n + 1)
  BY <1>1, <1>2, <1>3, LenProperties
<1>5. PICK done : done = Done(lines, lists, n + 1)
  OBVIOUS
<1>6. /\ Done(longer, lists, n + 1) = done
      /\ done \subseteq 1 .. n
  BY <1>4, <1>5 DEF Done, Pending
<1>7. TreeTyped(longer, lists, starts, n + 1)
  BY <1>1, <1>2, <1>3 DEF TreeTyped
<1>8. /\ ListsNested(lines, lists, n + 1) /\ ListsRead(lines, lists, n + 1)
      /\ PendingFresh(lines, lists, n + 1) /\ DoneLinked(lines, lists, starts, n + 1)
      /\ BranchesLinked(lines, lists, n + 1) /\ StartsLinked(lines, lists, starts, n + 1)
  BY <1>2 DEF TreeOK
<1>9. ListsNested(longer, lists, n + 1)
  BY <1>2, <1>3, <1>8 DEF ListsNested
\* What lies between two lines of the text before is as before.
<1>10. \A s \in 1 .. n, t \in 1 .. (n + 1) : Between(lines, s, t) <=> Between(longer, s, t)
  BY <1>2, <1>3 DEF Between
<1>11. \A i \in DOMAIN lists :
         /\ lists[i].container \in 0 .. n /\ lists[i].last \in Nat
         /\ Bound(lists, n + 1, i) \in 0 .. (n + 1)
  <2>1. DOMAIN lists = 1 .. Len(lists) /\ Len(lists) \in Nat
    BY <1>1, LenProperties
  <2>2. \A i \in DOMAIN lists : lists[i].container \in 0 .. n /\ lists[i].last \in Nat
    <3>1. \A i \in DOMAIN lists : lists[i] \in ListRecord
      BY <1>1
    <3>2. \A i \in DOMAIN lists : lists[i].container \in 0 .. n
      BY <1>2, <1>8 DEF ListsNested
    <3>3. QED  BY <3>1, <3>2 DEF ListRecord
  <2>3. \A i \in DOMAIN lists : i # 1 => i - 1 \in DOMAIN lists
    BY <2>1
  <2>4. QED  BY <1>2, <2>2, <2>3 DEF Bound
<1>12. ASSUME NEW i \in DOMAIN lists PROVE ListRead(longer, lists, n + 1, i)
  <2>1. ListRead(lines, lists, n + 1, i)
    BY <1>8 DEF ListsRead
  <2>2. ASSUME lists[i].last # NoStmt
        PROVE  /\ lists[i].last \in done
               /\ longer[lists[i].last].next = NoStmt
               /\ longer[lists[i].last].parent = lists[i].container
               /\ longer[lists[i].last].proc = lists[i].proc
               /\ Between(longer, lists[i].last, Bound(lists, n + 1, i))
    <3>1. /\ lists[i].last \in done /\ lines[lists[i].last].next = NoStmt
          /\ lines[lists[i].last].parent = lists[i].container
          /\ lines[lists[i].last].proc = lists[i].proc
          /\ Between(lines, lists[i].last, Bound(lists, n + 1, i))
      BY <1>5, <2>1, <2>2 DEF ListRead
    <3>2. lists[i].last \in 1 .. n
      BY <1>6, <3>1
    <3>3. Bound(lists, n + 1, i) \in 1 .. (n + 1)
      BY <1>8, <1>11, <3>2 DEF ListsNested
    <3>4. QED  BY <1>3, <1>10, <3>1, <3>2, <3>3
  <2>3. \A u \in done : u > lists[i].container => longer[u].parent >= lists[i].container
    BY <1>3, <1>5, <1>6, <2>1 DEF ListRead
  <2>4. QED  BY <1>6, <2>2, <2>3 DEF ListRead
<1>13. ASSUME NEW i \in DOMAIN lists PROVE ContainerRead(longer, lists, n + 1, i)
  <2>1. ContainerRead(lines, lists, n + 1, i)
    BY <1>8 DEF ListsRead
  <2>2. lists[i].container # NoStmt => longer[lists[i].container] = lines[lists[i].container]
    BY <1>3, <1>11 DEF NoStmt
  <2>3. QED  BY <2>1, <2>2 DEF ContainerRead
<1>14. ListsRead(longer, lists, n + 1)
  BY <1>12, <1>13 DEF ListsRead
<1>15. PendingFresh(longer, lists, n + 1)
  <2>1. \A s \in 1 .. n : s \in Pending(lists, n + 1) => lines[s].next = NoStmt /\ lines[s].parent = NoStmt
    BY <1>4, <1>8 DEF PendingFresh
  <2>2. QED  BY <1>3, <1>4, <2>1 DEF PendingFresh
<1>16. ASSUME NEW s \in done PROVE IsHead(longer, starts, s) <=> IsHead(lines, starts, s)
  <2>1. s # 0
    BY <1>6
  <2>2. QED  BY <1>3, <1>4, <2>1 DEF IsHead, NoStmt
<1>17. DoneLinked(longer, lists, starts, n + 1)
  <2>1. ASSUME NEW s \in done
        PROVE  /\ longer[s].parent < s
               /\ longer[s].next # NoStmt =>
                    LET t == longer[s].next
                    IN  /\ t \in done /\ longer[t].prev = s
                        /\ longer[t].parent = longer[s].parent
                        /\ longer[t].proc = longer[s].proc
                        /\ s < t /\ Between(longer, s, t)
               /\ longer[s].prev # NoStmt =>
                    longer[s].prev \in done /\ longer[longer[s].prev].next = s
               /\ longer[s].prev = NoStmt <=> IsHead(longer, starts, s)
               /\ Filled(longer, s)
    <3>1. longer[s] = lines[s] /\ s \in 1 .. n
      BY <1>3, <1>6
    <3>2. /\ lines[s].parent < s
          /\ lines[s].next # NoStmt =>
               /\ lines[s].next \in done /\ lines[lines[s].next].prev = s
               /\ lines[lines[s].next].parent = lines[s].parent
               /\ lines[lines[s].next].proc = lines[s].proc
               /\ s < lines[s].next /\ Between(lines, s, lines[s].next)
          /\ lines[s].prev # NoStmt =>
               lines[s].prev \in done /\ lines[lines[s].prev].next = s
          /\ lines[s].prev = NoStmt <=> IsHead(lines, starts, s)
          /\ Filled(lines, s)
      BY <1>5, <1>8 DEF DoneLinked
    <3>3. ASSUME lines[s].next # NoStmt
          PROVE  /\ longer[lines[s].next] = lines[lines[s].next]
                 /\ Between(longer, s, lines[s].next)
      <4>1. lines[s].next \in 1 .. n
        BY <1>6, <3>2, <3>3
      <4>2. lines[s].next \in 1 .. (n + 1)
        BY <4>1
      <4>3. QED  BY <1>3, <1>10, <3>1, <3>2, <3>3, <4>1, <4>2
    <3>4. lines[s].prev # NoStmt => longer[lines[s].prev] = lines[lines[s].prev]
      BY <1>3, <1>6, <3>2
    <3>5. Filled(longer, s)
      BY <3>1, <3>2 DEF Filled
    <3>6. QED  BY <1>16, <3>1, <3>2, <3>3, <3>4, <3>5
  <2>2. QED  BY <1>6, <2>1 DEF DoneLinked
<1>18. BranchesLinked(longer, lists, n + 1)
  <2>1. ASSUME NEW c \in 1 .. n, NEW b \in {lines[c].first, lines[c].second} \ {NoStmt}
        PROVE  /\ b \in done /\ longer[b].parent = c
               /\ c \in done => longer[b].proc = longer[c].proc
               /\ c \in Pending(lists, n + 1) => \A i \in DOMAIN lists : longer[b].proc = lists[i].proc
    <3>1. /\ b \in done /\ lines[b].parent = c
          /\ c \in done => lines[b].proc = lines[c].proc
          /\ c \in Pending(lists, n + 1) => \A i \in DOMAIN lists : lines[b].proc = lists[i].proc
      BY <1>4, <1>5, <1>8 DEF BranchesLinked
    <3>2. longer[b] = lines[b] /\ longer[c] = lines[c]
      BY <1>3, <1>6, <3>1
    <3>3. QED  BY <3>1, <3>2
  <2>2. \A c \in 1 .. n : /\ lines[c].first # NoStmt => lines[c].first = c + 1
                          /\ lines[c].second # NoStmt => lines[c].first < lines[c].second
    BY <1>4, <1>8 DEF BranchesLinked
  <2>3. \A c \in DOMAIN longer : c \in 1 .. n \/ (longer[c].first = NoStmt /\ longer[c].second = NoStmt)
    BY <1>3, <1>4
  <2>4. \A c \in 1 .. n : longer[c].first = lines[c].first /\ longer[c].second = lines[c].second
    BY <1>3
  <2>5. ASSUME NEW c \in DOMAIN longer
        PROVE  /\ \A b \in {longer[c].first, longer[c].second} \ {NoStmt} :
                    /\ b \in Done(longer, lists, n + 1)
                    /\ longer[b].parent = c
                    /\ c \in Done(longer, lists, n + 1) => longer[b].proc = longer[c].proc
                    /\ c \in Pending(lists, n + 1) =>
                         \A i \in DOMAIN lists : longer[b].proc = lists[i].proc
               /\ longer[c].first # NoStmt => longer[c].first = c + 1
               /\ longer[c].second # NoStmt => longer[c].first < longer[c].second
    <3>1. CASE c \in 1 .. n
      <4>1. longer[c].first = lines[c].first /\ longer[c].second = lines[c].second
        BY <2>4, <3>1
      <4>2. ASSUME NEW b \in {longer[c].first, longer[c].second} \ {NoStmt}
            PROVE  /\ b \in done /\ longer[b].parent = c
                   /\ c \in done => longer[b].proc = longer[c].proc
                   /\ c \in Pending(lists, n + 1) =>
                        \A i \in DOMAIN lists : longer[b].proc = lists[i].proc
        <5>1. b \in {lines[c].first, lines[c].second} \ {NoStmt}
          BY <4>1
        <5>2. QED  BY <2>1, <3>1, <5>1
      <4>3. QED  BY <1>6, <2>2, <3>1, <4>1, <4>2
    <3>2. CASE longer[c].first = NoStmt /\ longer[c].second = NoStmt
      BY <3>2
    <3>3. QED  BY <2>3, <3>1, <3>2
  <2>6. QED  BY <2>5 DEF BranchesLinked
<1>19. StartsLinked(longer, lists, starts, n + 1)
  <2>1. \A m \in Names : starts[m] # NoStmt =>
          starts[m] \in done /\ lines[starts[m]].proc = m /\ lines[starts[m]].parent = NoStmt
    BY <1>5, <1>8 DEF StartsLinked
  <2>2. QED  BY <1>3, <1>6, <2>1 DEF StartsLinked
<1>20. TreeOK(longer, lists, starts, n + 1)
  BY <1>7, <1>9, <1>14, <1>15, <1>17, <1>18, <1>19 DEF TreeOK
<1>21. QED  BY <1>2, <1>3, <1>4, <1>5, <1>6, <1>20

\* Other lists are being read, of the same containers and procedure.
Restacked(lines, lists, top, stack, above) ==
  /\ DOMAIN lines \cap Pending(stack, above) = DOMAIN lines \cap Pending(lists, top)
  /\ \A c \in DOMAIN lines \cap Pending(lists, top) : \A i \in DOMAIN stack :
       \E j \in DOMAIN lists : stack[i].proc = lists[j].proc

\* The lists change, what is complete does not.
LEMMA RestackedTree ==
    ASSUME NEW lines, NEW lists, NEW starts, NEW top, TreeOK(lines, lists, starts, top),
           NEW stack, NEW above,
           TreeTyped(lines, stack, starts, above), ListsNested(lines, stack, above),
           ListsRead(lines, stack, above), Restacked(lines, lists, top, stack, above)
    PROVE  TreeOK(lines, stack, starts, above)
<1>1. Done(lines, stack, above) = Done(lines, lists, top)
  BY DEF Restacked, Done
<1>2. PendingFresh(lines, stack, above)
  BY DEF Restacked, PendingFresh, TreeOK
<1>3. DoneLinked(lines, stack, starts, above)
  BY <1>1 DEF DoneLinked, TreeOK
<1>4. BranchesLinked(lines, stack, above)
  <2>1. ASSUME NEW c \in DOMAIN lines, NEW b \in {lines[c].first, lines[c].second} \ {NoStmt},
               c \in Pending(stack, above), NEW i \in DOMAIN stack
        PROVE  lines[b].proc = stack[i].proc
    <3>1. c \in DOMAIN lines \cap Pending(lists, top)
      BY <2>1 DEF Restacked
    <3>2. \A j \in DOMAIN lists : lines[b].proc = lists[j].proc
      BY <3>1 DEF TreeOK, BranchesLinked
    <3>3. QED  BY <3>1, <3>2 DEF Restacked
  <2>2. ASSUME NEW c \in DOMAIN lines
        PROVE  /\ \A b \in {lines[c].first, lines[c].second} \ {NoStmt} :
                    /\ b \in Done(lines, lists, top)
                    /\ lines[b].parent = c
                    /\ c \in Done(lines, lists, top) => lines[b].proc = lines[c].proc
               /\ lines[c].first # NoStmt => lines[c].first = c + 1
               /\ lines[c].second # NoStmt => lines[c].first < lines[c].second
    BY DEF TreeOK, BranchesLinked
  <2>3. QED  BY <1>1, <2>1, <2>2 DEF BranchesLinked
<1>5. StartsLinked(lines, stack, starts, above)
  BY <1>1 DEF StartsLinked, TreeOK
<1>6. QED  BY <1>2, <1>3, <1>4, <1>5 DEF TreeOK

\* What TreeOK says of one list.
LEMMA ListFacts ==
    ASSUME NEW lines, NEW lists, NEW starts, NEW top, TreeOK(lines, lists, starts, top)
    PROVE  /\ lines \in Seq(StmtRecord) /\ lists \in Seq(ListRecord) /\ starts \in [Names -> Nat]
           /\ Len(lines) \in Nat /\ DOMAIN lines = 1 .. Len(lines)
           /\ Len(lists) \in Nat /\ DOMAIN lists = 1 .. Len(lists)
           /\ top \in 1 .. Len(lines) + 1
           /\ \A u \in DOMAIN lines : lines[u] \in StmtRecord /\ lines[u].parent \in Nat
           /\ \A i \in DOMAIN lists :
                /\ lists[i] \in ListRecord
                /\ lists[i].container \in 0 .. Len(lines) /\ lists[i].container < top
                /\ lists[i].last \in Nat /\ lists[i].last < Bound(lists, top, i)
                /\ lists[i].proc \in Names /\ lists[i].branch \in {"first", "second"}
                /\ lists[i].container = NoStmt <=> i = Len(lists)
                /\ ListRead(lines, lists, top, i)
                /\ ContainerRead(lines, lists, top, i)
           /\ \A i, j \in DOMAIN lists : /\ i < j => lists[j].container < lists[i].container
                                         /\ lists[i].proc = lists[j].proc
<1>1. TreeTyped(lines, lists, starts, top)
  BY DEF TreeOK
<1>2. /\ lines \in Seq(StmtRecord) /\ lists \in Seq(ListRecord) /\ starts \in [Names -> Nat]
      /\ top \in 1 .. Len(lines) + 1
  BY <1>1 DEF TreeTyped
<1>3. /\ Len(lines) \in Nat /\ DOMAIN lines = 1 .. Len(lines)
      /\ Len(lists) \in Nat /\ DOMAIN lists = 1 .. Len(lists)
  BY <1>2, LenProperties
<1>4. \A u \in DOMAIN lines : lines[u] \in StmtRecord
  BY <1>2
<1>5. \A i \in DOMAIN lists : lists[i] \in ListRecord
  BY <1>2
<1>6. \A u \in DOMAIN lines : lines[u].parent \in Nat
  BY <1>4 DEF StmtRecord, StmtFields
<1>7. \A i \in DOMAIN lists : /\ lists[i].last \in Nat /\ lists[i].proc \in Names
                              /\ lists[i].branch \in {"first", "second"}
  BY <1>5 DEF ListRecord, Branch
<1>8. ListsNested(lines, lists, top) /\ ListsRead(lines, lists, top)
  BY DEF TreeOK
<1>9. \A i \in DOMAIN lists : ListRead(lines, lists, top, i) /\ ContainerRead(lines, lists, top, i)
  BY <1>8 DEF ListsRead
<1>10. /\ \A i \in DOMAIN lists :
            /\ lists[i].container \in 0 .. Len(lines) /\ lists[i].container < top
            /\ lists[i].last < Bound(lists, top, i)
            /\ lists[i].container = NoStmt <=> i = Len(lists)
       /\ \A i, j \in DOMAIN lists : /\ i < j => lists[j].container < lists[i].container
                                     /\ lists[i].proc = lists[j].proc
  BY <1>8 DEF ListsNested
<1>11. QED  BY <1>2, <1>3, <1>4, <1>5, <1>6, <1>7, <1>9, <1>10

\* The head of a container: a list of its own.
LEMMA PushedTree ==
    ASSUME NEW lines, NEW lists, NEW starts, NEW s, TreeOK(lines, lists, starts, s),
           lists # <<>>, s = Len(lines), s \in DOMAIN lines,
           lines[s].kind \in {"while", "if"},
           lines[s].first = NoStmt, lines[s].second = NoStmt,
           NEW list \in ListRecord, list.proc = Head(lists).proc, list.container = s,
           list.branch = "first", list.last = NoStmt,
           NEW stack, stack = <<list>> \o lists
    PROVE  TreeOK(lines, stack, starts, s + 1)
<1>1. /\ lines \in Seq(StmtRecord) /\ lists \in Seq(ListRecord) /\ starts \in [Names -> Nat]
      /\ DOMAIN lines = 1 .. s /\ s \in Nat
      /\ Len(lists) \in Nat /\ DOMAIN lists = 1 .. Len(lists)
      /\ \A i \in DOMAIN lists :
           /\ lists[i].container \in 0 .. s /\ lists[i].container < s
           /\ lists[i].last \in Nat /\ lists[i].last < Bound(lists, s, i)
           /\ lists[i].container = NoStmt <=> i = Len(lists)
           /\ ListRead(lines, lists, s, i)
           /\ ContainerRead(lines, lists, s, i)
      /\ \A i, j \in DOMAIN lists : /\ i < j => lists[j].container < lists[i].container
                                    /\ lists[i].proc = lists[j].proc
  BY ListFacts
<1>2. 1 \in DOMAIN lists /\ Head(lists) = lists[1] /\ Len(lists) > 0
  BY <1>1, PopElement
<1>3. /\ stack \in Seq(ListRecord) /\ Len(stack) = Len(lists) + 1
      /\ DOMAIN stack = 1 .. Len(lists) + 1
      /\ stack[1] = list
      /\ \A i \in DOMAIN lists : stack[i + 1] = lists[i]
  BY <1>1, PushElement
<1>4. \A i \in DOMAIN stack : i # 1 => /\ i - 1 \in DOMAIN lists
                                       /\ stack[i] = lists[i - 1]
  <2>1. ASSUME NEW i \in DOMAIN stack, i # 1
        PROVE  i - 1 \in DOMAIN lists /\ stack[i] = lists[i - 1]
    <3>1. i - 1 \in DOMAIN lists /\ (i - 1) + 1 = i
      BY <1>1, <1>3, <2>1
    <3>2. stack[(i - 1) + 1] = lists[i - 1]
      BY <1>3, <3>1
    <3>3. QED  BY <3>1, <3>2
  <2>2. QED  BY <2>1
<1>5. \A i \in DOMAIN stack : Bound(stack, s + 1, i) = IF i = 1 THEN s + 1 ELSE Bound(lists, s, i - 1)
  <2>1. ASSUME NEW i \in DOMAIN stack, i # 1 PROVE Bound(stack, s + 1, i) = Bound(lists, s, i - 1)
    <3>1. Bound(stack, s + 1, i) = stack[i - 1].container
      BY <2>1 DEF Bound
    <3>2. i - 1 \in DOMAIN stack
      BY <1>1, <1>3, <2>1
    <3>3. CASE i - 1 = 1
      BY <1>3, <3>1, <3>3 DEF Bound
    <3>4. CASE i - 1 # 1
      BY <1>4, <3>1, <3>2, <3>4 DEF Bound
    <3>5. QED  BY <3>3, <3>4
  <2>2. QED  BY <2>1 DEF Bound
<1>6. {stack[i].container : i \in DOMAIN stack} = {lists[i].container : i \in DOMAIN lists} \cup {s}
  <2>1. \A i \in DOMAIN lists : i + 1 \in DOMAIN stack /\ stack[i + 1].container = lists[i].container
    BY <1>1, <1>3
  <2>2. 1 \in DOMAIN stack /\ stack[1].container = s
    BY <1>1, <1>3
  <2>3. \A i \in DOMAIN stack : \/ stack[i].container = s
                                \/ \E j \in DOMAIN lists : stack[i].container = lists[j].container
    BY <1>3, <1>4
  <2>4. ASSUME NEW i \in DOMAIN stack
        PROVE  stack[i].container \in {lists[j].container : j \in DOMAIN lists} \cup {s}
    BY <2>3
  <2>5. ASSUME NEW i \in DOMAIN lists
        PROVE  lists[i].container \in {stack[j].container : j \in DOMAIN stack}
    BY <2>1
  <2>6. s \in {stack[j].container : j \in DOMAIN stack}
    BY <2>2
  <2>7. QED  BY <2>4, <2>5, <2>6
<1>7. DOMAIN lines \cap Pending(stack, s + 1) = DOMAIN lines \cap Pending(lists, s)
  BY <1>1, <1>6 DEF Pending
<1>8. Done(lines, stack, s + 1) = Done(lines, lists, s)
  BY <1>7 DEF Done
<1>9. \A i \in DOMAIN stack : stack[i].proc = lists[1].proc
  BY <1>1, <1>2, <1>3, <1>4
<1>10. TreeTyped(lines, stack, starts, s + 1)
  BY <1>1, <1>3 DEF TreeTyped
<1>11. ListsNested(lines, stack, s + 1)
  <2>1. ASSUME NEW i \in DOMAIN stack, NEW j \in DOMAIN stack, i < j
        PROVE  stack[j].container < stack[i].container
    <3>1. i \in Nat /\ j \in Nat /\ j # 1
      BY <1>3, <2>1
    <3>2. CASE i = 1
      BY <1>1, <1>3, <1>4, <3>1, <3>2
    <3>3. CASE i # 1
      BY <1>1, <1>4, <2>1, <3>1, <3>3
    <3>4. QED  BY <3>2, <3>3
  <2>2. ASSUME NEW i \in DOMAIN stack
        PROVE  /\ stack[i].container < s + 1 /\ stack[i].container \in 0 .. Len(lines)
               /\ stack[i].last < Bound(stack, s + 1, i)
               /\ stack[i].container = NoStmt <=> i = Len(stack)
    <3>1. CASE i = 1
      <4>1. stack[i].container = s /\ stack[i].last = 0 /\ s \in 1 .. s
        BY <1>1, <1>3, <3>1 DEF NoStmt
      <4>2. Bound(stack, s + 1, i) = s + 1
        BY <3>1 DEF Bound
      <4>3. s # 0 /\ Len(stack) # 1
        BY <1>1, <1>2, <1>3, <4>1
      <4>4. QED  BY <1>1, <3>1, <4>1, <4>2, <4>3 DEF NoStmt
    <3>2. CASE i # 1
      <4>1. i - 1 \in DOMAIN lists /\ stack[i] = lists[i - 1]
            /\ Bound(stack, s + 1, i) = Bound(lists, s, i - 1)
        BY <1>4, <1>5, <3>2
      <4>2. /\ lists[i - 1].container \in 0 .. s /\ lists[i - 1].container < s
            /\ lists[i - 1].last < Bound(lists, s, i - 1)
            /\ lists[i - 1].container = NoStmt <=> i - 1 = Len(lists)
        BY <1>1, <4>1
      <4>3. i \in Nat /\ Len(stack) = Len(lists) + 1
        BY <1>3
      <4>4. QED  BY <1>1, <4>1, <4>2, <4>3
    <3>3. QED  BY <3>1, <3>2
  <2>3. QED  BY <1>9, <2>1, <2>2 DEF ListsNested
<1>12. ListsRead(lines, stack, s + 1)
  <2>1. ListRead(lines, stack, s + 1, 1)
    <3>1. \A u \in Done(lines, lists, s) : ~ (u > s)
      BY <1>1 DEF Done
    <3>2. QED  BY <1>3, <1>8, <3>1 DEF ListRead
  <2>2. ContainerRead(lines, stack, s + 1, 1)
    <3>1. Bound(stack, s + 1, 1) = s + 1
      BY DEF Bound
    <3>2. QED  BY <1>3, <3>1 DEF ContainerRead
  <2>3. ASSUME NEW i \in DOMAIN stack, i # 1
        PROVE  ListRead(lines, stack, s + 1, i) /\ ContainerRead(lines, stack, s + 1, i)
    <3>1. i - 1 \in DOMAIN lists /\ stack[i] = lists[i - 1]
          /\ Bound(stack, s + 1, i) = Bound(lists, s, i - 1)
      BY <1>4, <1>5, <2>3
    <3>2. ListRead(lines, lists, s, i - 1) /\ ContainerRead(lines, lists, s, i - 1)
      BY <1>1, <3>1
    <3>3. ListRead(lines, stack, s + 1, i)
      BY <1>8, <3>1, <3>2 DEF ListRead
    <3>4. ContainerRead(lines, stack, s + 1, i)
      BY <3>1, <3>2 DEF ContainerRead
    <3>5. QED  BY <3>3, <3>4
  <2>4. QED  BY <2>1, <2>2, <2>3 DEF ListsRead
<1>13. Restacked(lines, lists, s, stack, s + 1)
  BY <1>2, <1>7, <1>9 DEF Restacked
<1>14. QED  BY <1>10, <1>11, <1>12, <1>13, RestackedTree

\* The else branch of a conditional: the list of the then branch makes room
\* for another one.
LEMMA ElseTree ==
    ASSUME NEW lines, NEW lists, NEW starts, NEW top, TreeOK(lines, lists, starts, top),
           lists # <<>>, top = Len(lines) + 1,
           Head(lists).last # NoStmt, Head(lists).container # NoStmt,
           lines[Head(lists).container].kind = "if", Head(lists).branch = "first",
           NEW list \in ListRecord, list.proc = Head(lists).proc,
           list.container = Head(lists).container,
           list.branch = "second", list.last = NoStmt,
           NEW stack, stack = <<list>> \o Tail(lists)
    PROVE  TreeOK(lines, stack, starts, top)
<1>1. /\ lines \in Seq(StmtRecord) /\ lists \in Seq(ListRecord) /\ starts \in [Names -> Nat]
      /\ Len(lines) \in Nat /\ DOMAIN lines = 1 .. Len(lines)
      /\ Len(lists) \in Nat /\ DOMAIN lists = 1 .. Len(lists)
      /\ top \in 1 .. Len(lines) + 1
      /\ \A i \in DOMAIN lists :
           /\ lists[i].container \in 0 .. Len(lines) /\ lists[i].container < top
           /\ lists[i].last \in Nat /\ lists[i].last < Bound(lists, top, i)
           /\ lists[i].container = NoStmt <=> i = Len(lists)
           /\ ListRead(lines, lists, top, i)
           /\ ContainerRead(lines, lists, top, i)
      /\ \A i, j \in DOMAIN lists : /\ i < j => lists[j].container < lists[i].container
                                    /\ lists[i].proc = lists[j].proc
  BY ListFacts
<1>2. 1 \in DOMAIN lists /\ Head(lists) = lists[1]
  BY <1>1, PopElement
<1>3. /\ stack \in Seq(ListRecord) /\ DOMAIN stack = DOMAIN lists
      /\ stack[1] = list
      /\ \A i \in DOMAIN lists : i # 1 => stack[i] = lists[i]
  BY <1>1, ReplaceElement
<1>4. Len(stack) = Len(lists)
  BY <1>1, <1>3, LenProperties
<1>5. \A i \in DOMAIN lists : stack[i].container = lists[i].container /\ stack[i].proc = lists[i].proc
  BY <1>2, <1>3
<1>6. \A i \in DOMAIN lists : Bound(stack, top, i) = Bound(lists, top, i)
  <2>1. \A i \in DOMAIN lists : i # 1 => i - 1 \in DOMAIN lists
    BY <1>1
  <2>2. QED  BY <1>5, <2>1 DEF Bound
<1>7. Pending(stack, top) = Pending(lists, top)
  <2>1. ASSUME NEW i \in DOMAIN lists
        PROVE  lists[i].container \in {stack[j].container : j \in DOMAIN stack}
    BY <1>3, <1>5
  <2>2. ASSUME NEW i \in DOMAIN stack
        PROVE  stack[i].container \in {lists[j].container : j \in DOMAIN lists}
    BY <1>3, <1>5
  <2>3. {lists[j].container : j \in DOMAIN lists} = {stack[j].container : j \in DOMAIN stack}
    BY <2>1, <2>2
  <2>4. QED  BY <2>3 DEF Pending
<1>8. Done(lines, stack, top) = Done(lines, lists, top)
  BY <1>7 DEF Done
<1>9. Restacked(lines, lists, top, stack, top)
  BY <1>3, <1>5, <1>7 DEF Restacked
<1>10. TreeTyped(lines, stack, starts, top)
  BY <1>1, <1>3 DEF TreeTyped
<1>11. Bound(lists, top, 1) = top /\ Bound(stack, top, 1) = top
  BY DEF Bound
<1>12. ListsNested(lines, stack, top)
  <2>1. \A i \in DOMAIN stack : stack[i].last < Bound(stack, top, i)
    BY <1>1, <1>3, <1>6, <1>11 DEF NoStmt
  <2>2. \A i, j \in DOMAIN stack : i < j => stack[j].container < stack[i].container
    BY <1>1, <1>3, <1>5
  <2>3. \A i, j \in DOMAIN stack : stack[i].proc = stack[j].proc
    BY <1>1, <1>3, <1>5
  <2>4. \A i \in DOMAIN stack : /\ stack[i].container < top
                                /\ stack[i].container \in 0 .. Len(lines)
                                /\ stack[i].container = NoStmt <=> i = Len(stack)
    BY <1>1, <1>3, <1>4, <1>5
  <2>5. QED  BY <2>1, <2>2, <2>3, <2>4 DEF ListsNested
<1>13. ListRead(lines, stack, top, 1)
  <2>1. \A u \in Done(lines, lists, top) :
          u > lists[1].container => lines[u].parent >= lists[1].container
    BY <1>1, <1>2 DEF ListRead
  <2>2. QED  BY <1>2, <1>3, <1>8, <2>1 DEF ListRead
<1>14. ContainerRead(lines, stack, top, 1)
  <2>1. PICK c : c = lists[1].container
    OBVIOUS
  <2>2. c # NoStmt /\ c \in DOMAIN lines /\ list.container = c /\ lines[c].kind = "if"
    BY <1>1, <1>2, <2>1 DEF NoStmt
  <2>3. lines[c].second = NoStmt /\ lines[c].first # NoStmt
    BY <1>1, <1>2, <2>1, <2>2 DEF ContainerRead
  <2>4. lines[c].first \in DOMAIN lines
    BY <2>2, <2>3 DEF TreeOK, BranchesLinked, Done
  <2>5. lines[c].first < top
    BY <1>1, <2>4
  <2>6. QED  BY <1>3, <1>11, <2>2, <2>3, <2>5 DEF ContainerRead
<1>15. ASSUME NEW i \in DOMAIN stack, i # 1
       PROVE  ListRead(lines, stack, top, i) /\ ContainerRead(lines, stack, top, i)
  <2>1. /\ stack[i] = lists[i] /\ Bound(stack, top, i) = Bound(lists, top, i)
        /\ ListRead(lines, lists, top, i) /\ ContainerRead(lines, lists, top, i)
    BY <1>1, <1>3, <1>6, <1>15
  <2>2. ListRead(lines, stack, top, i)
    BY <1>8, <2>1 DEF ListRead
  <2>3. ContainerRead(lines, stack, top, i)
    BY <2>1 DEF ContainerRead
  <2>4. QED  BY <2>2, <2>3
<1>16. ListsRead(lines, stack, top)
  BY <1>13, <1>14, <1>15 DEF ListsRead
<1>17. QED  BY <1>9, <1>10, <1>12, <1>16, RestackedTree

\* The end of a container: its list is popped and it is the statement at hand.
LEMMA PoppedTree ==
    ASSUME NEW lines, NEW lists, NEW starts, NEW top, TreeOK(lines, lists, starts, top),
           lists # <<>>, top = Len(lines) + 1,
           NEW c, c = Head(lists).container, c # NoStmt, Head(lists).last # NoStmt,
           lines[c].kind = "if" => Head(lists).branch = "second",
           NEW stack, stack = Tail(lists)
    PROVE  Completing(lines, stack, starts, c)
<1>1. /\ lines \in Seq(StmtRecord) /\ lists \in Seq(ListRecord) /\ starts \in [Names -> Nat]
      /\ Len(lines) \in Nat /\ DOMAIN lines = 1 .. Len(lines)
      /\ Len(lists) \in Nat /\ DOMAIN lists = 1 .. Len(lists)
      /\ \A i \in DOMAIN lists :
           /\ lists[i].container \in 0 .. Len(lines) /\ lists[i].container < top
           /\ lists[i].last \in Nat /\ lists[i].last < Bound(lists, top, i)
           /\ lists[i].branch \in {"first", "second"}
           /\ lists[i].container = NoStmt <=> i = Len(lists)
           /\ ListRead(lines, lists, top, i)
           /\ ContainerRead(lines, lists, top, i)
      /\ \A i, j \in DOMAIN lists : /\ i < j => lists[j].container < lists[i].container
                                    /\ lists[i].proc = lists[j].proc
  BY ListFacts
<1>2. /\ stack \in Seq(ListRecord)
      /\ 1 \in DOMAIN lists /\ lists[1] = Head(lists)
      /\ Len(stack) = Len(lists) - 1
      /\ \A i \in DOMAIN stack : /\ i \in Nat \ {0} /\ i + 1 \in DOMAIN lists
                                 /\ stack[i] = lists[i + 1]
      /\ \A i \in DOMAIN lists : i # 1 => i - 1 \in DOMAIN stack /\ stack[i - 1] = lists[i]
  BY <1>1, PopElement
<1>3. DOMAIN stack = 1 .. Len(stack) /\ Len(stack) \in Nat
  BY <1>2, LenProperties
<1>4. c \in DOMAIN lines /\ lists[1].container = c
  BY <1>1, <1>2 DEF NoStmt
<1>5. \A i \in DOMAIN stack : Bound(stack, c, i) = Bound(lists, top, i + 1)
  <2>1. ASSUME NEW i \in DOMAIN stack PROVE Bound(stack, c, i) = Bound(lists, top, i + 1)
    <3>1. i \in Nat \ {0} /\ (i + 1) - 1 = i /\ i + 1 # 1
      BY <1>2
    <3>2. Bound(lists, top, i + 1) = lists[i].container
      BY <3>1 DEF Bound
    <3>3. CASE i = 1
      BY <1>4, <3>2, <3>3 DEF Bound
    <3>4. CASE i # 1
      <4>1. i - 1 \in DOMAIN stack
        BY <1>3, <3>1, <3>4
      <4>2. stack[i - 1] = lists[(i - 1) + 1]
        BY <1>2, <4>1
      <4>3. (i - 1) + 1 = i
        BY <3>1
      <4>4. Bound(stack, c, i) = stack[i - 1].container
        BY <3>4 DEF Bound
      <4>5. QED  BY <3>2, <4>2, <4>3, <4>4
    <3>5. QED  BY <3>3, <3>4
  <2>2. QED  BY <2>1
<1>6. DOMAIN lines \cap Pending(stack, c) = DOMAIN lines \cap Pending(lists, top)
  <2>1. ASSUME NEW i \in DOMAIN stack
        PROVE  stack[i].container \in {lists[j].container : j \in DOMAIN lists}
    BY <1>2
  <2>2. ASSUME NEW i \in DOMAIN lists
        PROVE  lists[i].container \in {stack[j].container : j \in DOMAIN stack} \cup {c}
    BY <1>2, <1>4
  <2>3. c \in {lists[j].container : j \in DOMAIN lists}
    BY <1>2, <1>4
  <2>4. {stack[j].container : j \in DOMAIN stack} \cup {c} = {lists[j].container : j \in DOMAIN lists}
    BY <2>1, <2>2, <2>3
  <2>5. top \notin DOMAIN lines
    BY <1>1
  <2>6. QED  BY <2>4, <2>5 DEF Pending
<1>7. Done(lines, stack, c) = Done(lines, lists, top)
  BY <1>6 DEF Done
<1>8. Restacked(lines, lists, top, stack, c)
  BY <1>2, <1>6 DEF Restacked
<1>9. TreeTyped(lines, stack, starts, c)
  BY <1>1, <1>2, <1>4 DEF TreeTyped
<1>10. ListsNested(lines, stack, c)
  <2>1. ASSUME NEW i \in DOMAIN stack, NEW j \in DOMAIN stack
        PROVE  /\ i < j => stack[j].container < stack[i].container
               /\ stack[i].proc = stack[j].proc
    <3>1. /\ i \in Nat /\ j \in Nat /\ i + 1 \in DOMAIN lists /\ j + 1 \in DOMAIN lists
          /\ stack[i] = lists[i + 1] /\ stack[j] = lists[j + 1]
      BY <1>2
    <3>2. i < j => i + 1 < j + 1
      BY <3>1
    <3>3. QED  BY <1>1, <3>1, <3>2
  <2>2. ASSUME NEW i \in DOMAIN stack
        PROVE  /\ stack[i].container < c /\ stack[i].container \in 0 .. Len(lines)
               /\ stack[i].last < Bound(stack, c, i)
               /\ stack[i].container = NoStmt <=> i = Len(stack)
    <3>1. /\ i \in Nat \ {0} /\ i + 1 \in DOMAIN lists /\ stack[i] = lists[i + 1]
          /\ Bound(stack, c, i) = Bound(lists, top, i + 1)
      BY <1>2, <1>5
    <3>2. 1 < i + 1
      BY <3>1
    <3>3. lists[i + 1].container < c
      BY <1>1, <1>2, <1>4, <3>1, <3>2
    <3>4. i + 1 = Len(lists) <=> i = Len(stack)
      BY <1>1, <1>2, <3>1
    <3>5. QED  BY <1>1, <3>1, <3>3, <3>4
  <2>3. QED  BY <2>1, <2>2 DEF ListsNested
<1>11. ListsRead(lines, stack, c)
  <2>1. ASSUME NEW i \in DOMAIN stack
        PROVE  ListRead(lines, stack, c, i) /\ ContainerRead(lines, stack, c, i)
    <3>1. i + 1 \in DOMAIN lists /\ stack[i] = lists[i + 1]
          /\ Bound(stack, c, i) = Bound(lists, top, i + 1)
      BY <1>2, <1>5
    <3>2. ListRead(lines, lists, top, i + 1) /\ ContainerRead(lines, lists, top, i + 1)
      BY <1>1, <3>1
    <3>3. ListRead(lines, stack, c, i)
      BY <1>7, <3>1, <3>2 DEF ListRead
    <3>4. ContainerRead(lines, stack, c, i)
      BY <3>1, <3>2 DEF ContainerRead
    <3>5. QED  BY <3>3, <3>4
  <2>2. QED  BY <2>1 DEF ListsRead
<1>12. TreeOK(lines, stack, starts, c)
  BY <1>8, <1>9, <1>10, <1>11, RestackedTree
<1>13. stack # <<>>
  <2>1. 1 # Len(lists)
    BY <1>1, <1>2, <1>4
  <2>2. Len(stack) # 0
    BY <1>1, <1>2, <2>1
  <2>3. QED  BY <2>2
<1>14. Filled(lines, c)
  BY <1>1, <1>2, <1>4 DEF ContainerRead, Filled
<1>15. \A u \in Done(lines, stack, c) : u > c => lines[u].parent >= c
  BY <1>1, <1>2, <1>4, <1>7 DEF ListRead
<1>16. QED  BY <1>4, <1>12, <1>13, <1>14, <1>15 DEF Completing

\* The head of a procedure: its list is the outermost one.
LEMMA OpenedTree ==
    ASSUME NEW lines, NEW starts, NEW top, TreeOK(lines, <<>>, starts, top), top = Len(lines) + 1,
           NEW list \in ListRecord, list.container = NoStmt, list.last = NoStmt
    PROVE  TreeOK(lines, <<list>>, starts, top)
<1>1. /\ lines \in Seq(StmtRecord) /\ starts \in [Names -> Nat]
      /\ Len(lines) \in Nat /\ DOMAIN lines = 1 .. Len(lines) /\ top \in 1 .. Len(lines) + 1
      /\ \A u \in DOMAIN lines : lines[u].parent \in Nat
  BY ListFacts
<1>2. PICK stack : stack = <<list>>
  OBVIOUS
<1>3. /\ stack \in Seq(ListRecord) /\ stack[1] = list /\ DOMAIN stack = {1} /\ Len(stack) = 1
  BY <1>2
<1>4. TreeTyped(lines, stack, starts, top)
  BY <1>1, <1>3 DEF TreeTyped
<1>5. Bound(stack, top, 1) = top
  BY DEF Bound
<1>6. ListsNested(lines, stack, top)
  BY <1>1, <1>3, <1>5 DEF ListsNested, NoStmt
<1>7. ListsRead(lines, stack, top)
  <2>1. \A u \in Done(lines, stack, top) : lines[u].parent >= 0
    BY <1>1 DEF Done
  <2>2. QED  BY <1>3, <2>1 DEF ListsRead, ListRead, ContainerRead, NoStmt
<1>8. /\ DOMAIN lines \cap Pending(stack, top) = {}
      /\ DOMAIN lines \cap Pending(<<>>, top) = {}
  BY <1>1, <1>3 DEF Pending, NoStmt
<1>9. Restacked(lines, <<>>, top, stack, top)
  BY <1>8 DEF Restacked
<1>10. PICK none : none = <<>>
  OBVIOUS
<1>11. TreeOK(lines, stack, starts, top)
  BY <1>4, <1>6, <1>7, <1>9, <1>10, RestackedTree
<1>12. QED  BY <1>2, <1>11

\* The end of a procedure: only the outermost list was being read.
LEMMA ClosedTree ==
    ASSUME NEW lines, NEW lists, NEW starts, NEW top, TreeOK(lines, lists, starts, top),
           lists # <<>>, top = Len(lines) + 1, Head(lists).container = NoStmt
    PROVE  /\ TreeOK(lines, <<>>, starts, top)
           /\ Done(lines, <<>>, top) = Done(lines, lists, top)
<1>1. /\ lines \in Seq(StmtRecord) /\ lists \in Seq(ListRecord) /\ starts \in [Names -> Nat]
      /\ Len(lines) \in Nat /\ DOMAIN lines = 1 .. Len(lines) /\ top \in 1 .. Len(lines) + 1
      /\ DOMAIN lists = 1 .. Len(lists) /\ Len(lists) \in Nat
      /\ \A i \in DOMAIN lists : lists[i].container = NoStmt <=> i = Len(lists)
  BY ListFacts
<1>2. 1 \in DOMAIN lists /\ Head(lists) = lists[1]
  BY <1>1, PopElement
<1>3. DOMAIN lists = {1} /\ lists[1].container = NoStmt
  BY <1>1, <1>2
<1>4. PICK none : none = <<>>
  OBVIOUS
<1>5. none \in Seq(ListRecord) /\ DOMAIN none = {} /\ Len(none) = 0
  BY <1>4
<1>6. TreeTyped(lines, none, starts, top)
  BY <1>1, <1>5 DEF TreeTyped
<1>7. ListsNested(lines, none, top) /\ ListsRead(lines, none, top)
  BY <1>5 DEF ListsNested, ListsRead
<1>8. /\ DOMAIN lines \cap Pending(lists, top) = {}
      /\ DOMAIN lines \cap Pending(none, top) = {}
  BY <1>1, <1>3, <1>5 DEF Pending, NoStmt
<1>9. Restacked(lines, lists, top, none, top)
  BY <1>8 DEF Restacked
<1>10. TreeOK(lines, none, starts, top)
  BY <1>6, <1>7, <1>9, RestackedTree
<1>11. Done(lines, none, top) = Done(lines, lists, top)
  BY <1>8 DEF Done
<1>12. QED  BY <1>4, <1>10, <1>11
------------------------------------------------------------------------------
\* The table gets a name.
LEMMA MoreNames ==
    ASSUME NEW lines, NEW lists, NEW starts, NEW top, NEW names, NEW read,
           NamesOK(lines, lists, starts, top, names, read),
           NEW name \in Names, NEW more, more = names \cup {name}
    PROVE  NamesOK(lines, lists, starts, top, more, read) /\ name \in more
<1>1. more \subseteq Names /\ IsFiniteSet(more)
  BY FS_AddElement DEF NamesOK
<1>2. read \in Seq(more)
  <2>1. read \in Seq(names) /\ names \subseteq more
    BY DEF NamesOK
  <2>2. /\ Len(read) \in Nat /\ DOMAIN read = 1 .. Len(read)
        /\ \A i \in 1 .. Len(read) : read[i] \in names
        /\ read = [i \in 1 .. Len(read) |-> read[i]]
    BY <2>1, LenProperties
  <2>3. \A i \in 1 .. Len(read) : read[i] \in more
    BY <2>1, <2>2
  <2>4. QED  BY <2>2, <2>3, IsASeq
<1>3. QED  BY <1>1, <1>2 DEF NamesOK

\* A statement is appended.
LEMMA AppendNames ==
    ASSUME NEW lines, NEW lists, NEW starts, NEW names, NEW read,
           TreeOK(lines, lists, starts, Len(lines) + 1),
           NamesOK(lines, lists, starts, Len(lines) + 1, names, read),
           NEW x \in StmtRecord, x.next = NoStmt, x.parent = NoStmt,
           x.first = NoStmt, x.second = NoStmt,
           x.kind = "call" => x.callee \in names,
           NEW longer, longer = Append(lines, x)
    PROVE  NamesOK(longer, lists, starts, Len(lines) + 1, names, read)
<1>1. /\ Len(longer) = Len(lines) + 1
      /\ longer[Len(lines) + 1] = x
      /\ \A u \in DOMAIN lines : longer[u] = lines[u]
      /\ Done(longer, lists, Len(lines) + 1) = Done(lines, lists, Len(lines) + 1)
      /\ Done(longer, lists, Len(lines) + 1) \subseteq 1 .. Len(lines)
      /\ TreeOK(longer, lists, starts, Len(lines) + 1)
  <2>1. TreeOK(longer, lists, starts, Len(lines) + 1)
    BY AppendTree
  <2>2. Len(longer) = Len(lines) + 1 /\ longer[Len(lines) + 1] = x
    BY AppendTree
  <2>3. \A u \in DOMAIN lines : longer[u] = lines[u]
    BY AppendTree
  <2>4. /\ Done(longer, lists, Len(lines) + 1) = Done(lines, lists, Len(lines) + 1)
        /\ Done(longer, lists, Len(lines) + 1) \subseteq 1 .. Len(lines)
    BY AppendTree
  <2>5. QED  BY <2>1, <2>2, <2>3, <2>4
<1>2. /\ DOMAIN lines = 1 .. Len(lines) /\ Len(lines) \in Nat
      /\ DOMAIN longer = 1 .. (Len(lines) + 1)
  <2>1. /\ DOMAIN lines = 1 .. Len(lines) /\ Len(lines) \in Nat
    BY ListFacts
  <2>2. DOMAIN longer = 1 .. Len(longer)
    BY <1>1, ListFacts
  <2>3. QED  BY <1>1, <2>1, <2>2
<1>3. \A s \in Done(longer, lists, Len(lines) + 1) : longer[s].proc \in names
  BY <1>1, <1>2 DEF NamesOK
<1>4. ASSUME NEW s \in DOMAIN longer, longer[s].kind = "call" PROVE longer[s].callee \in names
  <2>1. CASE s \in DOMAIN lines
    BY <1>1, <1>4, <2>1 DEF NamesOK
  <2>2. CASE s = Len(lines) + 1
    BY <1>1, <1>4, <2>2
  <2>3. QED  BY <1>2, <2>1, <2>2
<1>5. QED  BY <1>3, <1>4 DEF NamesOK

\* A statement is completed.
LEMMA CompletedNames ==
    ASSUME NEW lines, NEW lists, NEW starts, NEW s, NEW names, NEW read,
           Completing(lines, lists, starts, s), FirstOnce(lists, starts),
           NamesOK(lines, lists, starts, s, names, read)
    PROVE  NamesOK(Linked(lines, s, Head(lists)), Joined(lists, s),
                   StartsAfter(starts, s, Head(lists)), Len(lines) + 1, names, read)
<1>1. PICK new : new = Linked(lines, s, Head(lists))
  OBVIOUS
<1>2. PICK joined : joined = Joined(lists, s)
  OBVIOUS
<1>3. PICK done : done = Done(lines, lists, s)
  OBVIOUS
<1>4. PICK l : l = lists[1]
  OBVIOUS
<1>5. PICK begin : begin = StartsAfter(starts, s, Head(lists))
  OBVIOUS
<1>6. /\ DOMAIN lines = 1 .. Len(lines) /\ s \in 1 .. Len(lines) /\ Len(lines) \in Nat
      /\ lists \in Seq(ListRecord) /\ lists # <<>> /\ 1 \in DOMAIN lists
      /\ Head(lists) = l /\ l.proc \in Names
      /\ \A i \in DOMAIN lists : lists[i].proc \in Names /\ lists[i].proc = l.proc
      /\ Done(new, joined, Len(lines) + 1) = done \cup {s}
      /\ s \notin done
  BY <1>1, <1>2, <1>3, <1>4, CompletingSets
<1>7. Changes(lines, new, l, s, done)
  BY <1>1, <1>3, <1>4, CompletingChanges
<1>8. starts \in [Names -> Nat]
  BY DEF Completing, TreeOK, TreeTyped
<1>9. \A m \in Names : begin[m] = IF m = l.proc /\ l.container = NoStmt /\ l.last = NoStmt
                                  THEN s ELSE starts[m]
  BY <1>5, <1>6, <1>8 DEF StartsAfter
<1>10. s # NoStmt
  BY <1>6 DEF NoStmt
<1>11. \A m \in Names : starts[m] # NoStmt => begin[m] # NoStmt
  BY <1>9, <1>10
<1>12. /\ DOMAIN joined = DOMAIN lists
       /\ \A i \in DOMAIN lists :
            /\ joined[i].container = lists[i].container
            /\ joined[i].proc = lists[i].proc
            /\ joined[i].last = IF i = 1 THEN s ELSE lists[i].last
  BY <1>2, <1>6, JoinedLists
<1>13. names \subseteq Names /\ read \in Seq(names)
  BY DEF NamesOK
<1>14. \A k \in DOMAIN read : read[k] \in Names /\ starts[read[k]] # NoStmt
  <2>1. \A k \in DOMAIN read : read[k] \in names
    BY <1>13
  <2>2. QED  BY <1>13, <2>1 DEF NamesOK
<1>15. ASSUME NEW i \in DOMAIN lists
       PROVE  /\ joined[i].proc \in names
              /\ joined[i].container = NoStmt /\ joined[i].last # NoStmt =>
                   /\ begin[joined[i].proc] # NoStmt
                   /\ \A k \in DOMAIN read : read[k] # joined[i].proc
  <2>1. lists[i].proc \in names
    BY DEF NamesOK
  <2>2. CASE lists[i].last # NoStmt
    BY <1>6, <1>11, <1>12, <2>1, <2>2 DEF NamesOK
  <2>3. CASE lists[i].last = NoStmt /\ i # 1
    BY <1>12, <2>1, <2>3
  <2>4. CASE lists[i].last = NoStmt /\ i = 1 /\ lists[i].container = NoStmt
    <3>1. starts[l.proc] = NoStmt /\ begin[l.proc] = s
      BY <1>4, <1>6, <1>9, <2>4 DEF FirstOnce
    <3>2. \A k \in DOMAIN read : read[k] # l.proc
      BY <1>14, <3>1
    <3>3. QED  BY <1>4, <1>10, <1>12, <2>1, <2>4, <3>1, <3>2
  <2>5. CASE lists[i].container # NoStmt
    BY <1>12, <2>1, <2>5
  <2>6. QED  BY <2>2, <2>3, <2>4, <2>5
<1>16. ASSUME NEW u \in done \cup {s} PROVE new[u].proc \in names
  <2>1. CASE u = s
    BY <1>4, <1>6, <1>7, <2>1 DEF Changes, NamesOK
  <2>2. CASE u \in done
    <3>1. u \in DOMAIN lines /\ u # s
      BY <1>6, <1>7, <2>2 DEF Changes
    <3>2. lines[u].proc \in names
      BY <1>3, <2>2 DEF NamesOK
    <3>3. QED  BY <1>7, <3>1, <3>2 DEF Changes
  <2>3. QED  BY <2>1, <2>2
<1>17. \A u \in DOMAIN new : new[u].kind = "call" => new[u].callee \in names
  BY <1>7 DEF Changes, NamesOK
<1>18. NamesOK(new, joined, begin, Len(lines) + 1, names, read)
  <2>1. \A k \in DOMAIN read : begin[read[k]] # NoStmt
    BY <1>11, <1>14
  <2>2. QED  BY <1>6, <1>12, <1>15, <1>16, <1>17, <2>1 DEF NamesOK
<1>19. QED  BY <1>1, <1>2, <1>5, <1>18

\* The lists change: those that are new hold no statement.
LEMMA RestackedNames ==
    ASSUME NEW lines, NEW lists, NEW starts, NEW top, NEW names, NEW read,
           NamesOK(lines, lists, starts, top, names, read),
           NEW stack, NEW above, Done(lines, stack, above) = Done(lines, lists, top),
           \A i \in DOMAIN stack :
             \/ \E j \in DOMAIN lists : stack[i] = lists[j]
             \/ stack[i].proc \in names /\ stack[i].last = NoStmt
    PROVE  NamesOK(lines, stack, starts, above, names, read)
<1>1. ASSUME NEW i \in DOMAIN stack
      PROVE  /\ stack[i].proc \in names
             /\ stack[i].container = NoStmt /\ stack[i].last # NoStmt =>
                  /\ starts[stack[i].proc] # NoStmt
                  /\ \A k \in DOMAIN read : read[k] # stack[i].proc
  <2>1. CASE stack[i].proc \in names /\ stack[i].last = NoStmt
    BY <2>1
  <2>2. ASSUME NEW j \in DOMAIN lists, stack[i] = lists[j]
        PROVE  /\ stack[i].proc \in names
               /\ stack[i].container = NoStmt /\ stack[i].last # NoStmt =>
                    /\ starts[stack[i].proc] # NoStmt
                    /\ \A k \in DOMAIN read : read[k] # stack[i].proc
    BY <2>2 DEF NamesOK
  <2>3. QED  BY <2>1, <2>2
<1>2. QED  BY <1>1 DEF NamesOK
------------------------------------------------------------------------------
\* A statement is read whole, or a container's end: its completion.
LEMMA CompleteStep ==
    ASSUME status = "reading", NEW lines, NEW s, NEW lists, NEW names,
           Completing(lines, lists, firsts, s),
           NamesOK(lines, lists, firsts, s, names, parsed),
           Complete(lines, s, lists), table' = names, parsed' = parsed
    PROVE  ParserInv'
<1>1. PICK new : new = Linked(lines, s, Head(lists))
  OBVIOUS
<1>2. PICK joined : joined = Joined(lists, s)
  OBVIOUS
<1>3. PICK begin : begin = StartsAfter(firsts, s, Head(lists))
  OBVIOUS
<1>4. 1 \in DOMAIN lists /\ Head(lists) = lists[1]
  BY <1>1, CompletingSets
<1>5. stmts' = new /\ open' = joined
  BY <1>1, <1>2 DEF Complete, Joined
<1>6. CASE FirstOnce(lists, firsts)
  <2>1. /\ TreeOK(new, joined, begin, Len(lines) + 1)
        /\ NamesOK(new, joined, begin, Len(lines) + 1, names, parsed)
    <3>1. TreeOK(new, joined, begin, Len(lines) + 1)
      BY <1>1, <1>2, <1>3, <1>6, CompletesTree
    <3>2. NamesOK(new, joined, begin, Len(lines) + 1, names, parsed)
      BY <1>1, <1>2, <1>3, <1>6, CompletedNames
    <3>3. QED  BY <3>1, <3>2
  <2>2. Len(new) = Len(lines)
    BY <1>1, CompletingChanges
  <2>3. firsts' = begin /\ status' = "reading"
    BY <1>3, <1>4, <1>6 DEF Complete, SetFirstStatement, StartsAfter, FirstOnce
  <2>4. QED  BY <1>5, <2>1, <2>2, <2>3 DEF ParserInv, AcceptedWhole
<1>7. CASE ~ FirstOnce(lists, firsts)
  <2>1. status' = "rejected"
    BY <1>4, <1>7 DEF Complete, SetFirstStatement, FirstOnce
  <2>2. QED  BY <2>1 DEF ParserInv
<1>8. QED  BY <1>6, <1>7

\* The statement at hand is complete: nothing comes behind it.
LEMMA ReadyToComplete ==
    ASSUME NEW lines, NEW lists, NEW starts, TreeOK(lines, lists, starts, Len(lines) + 1),
           lists # <<>>,
           NEW x \in StmtRecord, x.next = NoStmt, x.parent = NoStmt,
           x.first = NoStmt, x.second = NoStmt, x.kind \notin {"while", "if"},
           NEW longer, longer = Append(lines, x)
    PROVE  Completing(longer, lists, starts, Len(lines) + 1)
<1>1. TreeOK(longer, lists, starts, Len(lines) + 1)
  BY AppendTree
<1>2. longer[Len(lines) + 1] = x /\ Len(lines) + 1 \in DOMAIN longer
  BY AppendTree
<1>3. Done(longer, lists, Len(lines) + 1) \subseteq 1 .. Len(lines)
  BY AppendTree
<1>4. Len(lines) \in Nat
  BY ListFacts
<1>5. \A u \in Done(longer, lists, Len(lines) + 1) : ~ (u > Len(lines) + 1)
  BY <1>3, <1>4
<1>6. Filled(longer, Len(lines) + 1)
  BY <1>2 DEF Filled
<1>7. QED  BY <1>1, <1>2, <1>5, <1>6 DEF Completing

LEMMA NewStatementFields ==
    ASSUME NEW k \in Kinds, NEW var \in Vars \cup {NoVar}, NEW uses \in SUBSET Vars,
           NEW callee \in Names \cup {NoProc}, NEW x, x = NewStatement(k, var, uses, callee),
           k # "call" => var \in Vars
    PROVE  /\ x \in StmtRecord /\ x.kind = k /\ x.callee = callee
           /\ x.next = NoStmt /\ x.parent = NoStmt
           /\ x.first = NoStmt /\ x.second = NoStmt
BY DEF NewStatement, StmtRecord, StmtFields, NoStmt, NoProc

LEMMA InitIsTree == Init => ParserInv
<1>1. ASSUME Init PROVE TreeOK(<<>>, <<>>, firsts, 1)
  <2>1. PICK lines : lines = <<>>
    OBVIOUS
  <2>2. PICK lists : lists = <<>>
    OBVIOUS
  <2>3. /\ lines \in Seq(StmtRecord) /\ DOMAIN lines = {} /\ Len(lines) = 0
        /\ lists \in Seq(ListRecord) /\ DOMAIN lists = {} /\ Len(lists) = 0
    BY <2>1, <2>2
  <2>4. firsts \in [Names -> Nat] /\ \A n \in Names : firsts[n] = NoStmt
    BY <1>1 DEF Init, NoStmt
  <2>5. Done(lines, lists, 1) = {}
    BY <2>3 DEF Done
  <2>6. TreeTyped(lines, lists, firsts, 1)
    BY <2>3, <2>4 DEF TreeTyped
  <2>7. /\ ListsNested(lines, lists, 1) /\ ListsRead(lines, lists, 1)
        /\ PendingFresh(lines, lists, 1) /\ BranchesLinked(lines, lists, 1)
    BY <2>3 DEF ListsNested, ListsRead, PendingFresh, BranchesLinked
  <2>8. DoneLinked(lines, lists, firsts, 1) /\ StartsLinked(lines, lists, firsts, 1)
    BY <2>4, <2>5 DEF DoneLinked, StartsLinked
  <2>9. QED  BY <2>1, <2>2, <2>6, <2>7, <2>8 DEF TreeOK
<1>2. ASSUME Init PROVE NamesOK(<<>>, <<>>, firsts, 1, {}, <<>>)
  <2>1. PICK none : none = <<>>
    OBVIOUS
  <2>2. DOMAIN none = {} /\ none \in Seq({})
    BY <2>1
  <2>3. Done(none, none, 1) = {}
    BY <2>2 DEF Done
  <2>4. NamesOK(none, none, firsts, 1, {}, none)
    BY <2>2, <2>3, FS_EmptySet DEF NamesOK
  <2>5. QED  BY <2>1, <2>4
<1>3. ASSUME Init PROVE Len(stmts) + 1 = 1
  BY <1>3 DEF Init
<1>4. QED  BY <1>1, <1>2, <1>3 DEF Init, ParserInv, AcceptedWhole
------------------------------------------------------------------------------
\* What holds while the parser reads.
Reading == /\ status = "reading"
           /\ TreeOK(stmts, open, firsts, Len(stmts) + 1)
           /\ NamesOK(stmts, open, firsts, Len(stmts) + 1, table, parsed)

LEMMA AssignmentStep ==
    ASSUME Reading, NEW var \in Vars, NEW uses \in SUBSET Vars, parse_assignment(var, uses)
    PROVE  ParserInv'
<1>1. PICK x : x = NewStatement("assign", var, uses, NoProc)
  OBVIOUS
<1>2. /\ x \in StmtRecord /\ x.kind = "assign" /\ x.next = NoStmt /\ x.parent = NoStmt
      /\ x.first = NoStmt /\ x.second = NoStmt
  BY <1>1, NewStatementFields DEF Kinds
<1>3. PICK longer : longer = Append(stmts, x)
  OBVIOUS
<1>4. TreeOK(stmts, open, firsts, Len(stmts) + 1) /\ open # <<>> /\ status = "reading"
  BY DEF Reading, parse_assignment, InList
<1>5. Completing(longer, open, firsts, Len(stmts) + 1)
  BY <1>2, <1>3, <1>4, ReadyToComplete
<1>6. NamesOK(longer, open, firsts, Len(stmts) + 1, table, parsed)
  <2>1. NamesOK(stmts, open, firsts, Len(stmts) + 1, table, parsed)
    BY DEF Reading
  <2>2. QED  BY <1>2, <1>3, <1>4, <2>1, AppendNames
<1>7. Complete(longer, Len(stmts) + 1, open) /\ table' = table /\ parsed' = parsed
  BY <1>1, <1>3 DEF parse_assignment, ThisLine
<1>8. QED  BY <1>4, <1>5, <1>6, <1>7, CompleteStep

LEMMA CallStep ==
    ASSUME Reading, NEW name \in Names, parse_call(name)
    PROVE  ParserInv'
<1>1. PICK x : x = NewStatement("call", NoVar, {}, name)
  OBVIOUS
<1>2. /\ x \in StmtRecord /\ x.kind = "call" /\ x.next = NoStmt /\ x.parent = NoStmt
      /\ x.first = NoStmt /\ x.second = NoStmt /\ x.callee = name
  BY <1>1, NewStatementFields DEF Kinds
<1>3. PICK longer : longer = Append(stmts, x)
  OBVIOUS
<1>4. TreeOK(stmts, open, firsts, Len(stmts) + 1) /\ open # <<>> /\ status = "reading"
  BY DEF Reading, parse_call, InList
<1>5. Completing(longer, open, firsts, Len(stmts) + 1)
  BY <1>2, <1>3, <1>4, ReadyToComplete
<1>6. PICK names : names = table \cup {name}
  OBVIOUS
<1>7. NamesOK(longer, open, firsts, Len(stmts) + 1, names, parsed)
  <2>1. NamesOK(stmts, open, firsts, Len(stmts) + 1, table, parsed)
    BY DEF Reading
  <2>2. NamesOK(stmts, open, firsts, Len(stmts) + 1, names, parsed)
    BY <1>6, <2>1, MoreNames
  <2>3. name \in names
    BY <1>6
  <2>4. QED  BY <1>2, <1>3, <1>4, <2>2, <2>3, AppendNames
<1>8. Complete(longer, Len(stmts) + 1, open) /\ table' = names /\ parsed' = parsed
  BY <1>1, <1>3, <1>6 DEF parse_call, ThisLine
<1>9. QED  BY <1>4, <1>5, <1>7, <1>8, CompleteStep

LEMMA ContainerStep ==
    ASSUME Reading, NEW k \in {"while", "if"}, NEW var \in Vars, parse_container(k, var)
    PROVE  ParserInv'
<1>1. PICK x : x = NewStatement(k, var, {}, NoProc)
  OBVIOUS
<1>2. /\ x \in StmtRecord /\ x.kind = k /\ x.next = NoStmt /\ x.parent = NoStmt
      /\ x.first = NoStmt /\ x.second = NoStmt
  BY <1>1, NewStatementFields DEF Kinds
<1>3. PICK longer : longer = Append(stmts, x)
  OBVIOUS
<1>4. PICK s : s = Len(stmts) + 1
  OBVIOUS
<1>5. TreeOK(stmts, open, firsts, s) /\ open # <<>> /\ status = "reading"
  BY <1>4 DEF Reading, parse_container, InList
<1>6. PICK list : list = List(Head(open).proc, s, "first")
  OBVIOUS
<1>7. PICK stack : stack = <<list>> \o open
  OBVIOUS
<1>8. /\ open \in Seq(ListRecord) /\ 1 \in DOMAIN open /\ Head(open) = open[1]
      /\ open[1].proc \in Names /\ Len(stmts) \in Nat
  <2>1. open \in Seq(ListRecord) /\ Len(stmts) \in Nat
    BY <1>5, ListFacts
  <2>2. 1 \in DOMAIN open /\ Head(open) = open[1]
    BY <1>5, <2>1, PopElement
  <2>3. open[1].proc \in Names
    BY <1>5, <2>2, ListFacts
  <2>4. QED  BY <2>1, <2>2, <2>3
<1>9. /\ list \in ListRecord /\ list.proc = Head(open).proc /\ list.container = s
      /\ list.branch = "first" /\ list.last = NoStmt
  BY <1>4, <1>6, <1>8 DEF List, ListRecord, Branch, NoStmt
<1>10. /\ longer[s] = x /\ s \in DOMAIN longer /\ s = Len(longer)
       /\ TreeOK(longer, open, firsts, s)
  <2>1. longer[s] = x /\ s \in DOMAIN longer /\ s = Len(longer)
    BY <1>2, <1>3, <1>4, <1>5, AppendTree
  <2>2. TreeOK(longer, open, firsts, s)
    BY <1>2, <1>3, <1>4, <1>5, AppendTree
  <2>3. QED  BY <2>1, <2>2
<1>11. TreeOK(longer, stack, firsts, s + 1)
  BY <1>2, <1>5, <1>7, <1>9, <1>10, PushedTree
<1>12. NamesOK(longer, open, firsts, s, table, parsed)
  <2>1. NamesOK(stmts, open, firsts, Len(stmts) + 1, table, parsed)
    BY DEF Reading
  <2>2. x.kind = "call" => x.callee \in table
    BY <1>2
  <2>3. QED  BY <1>2, <1>3, <1>4, <1>5, <2>1, <2>2, AppendNames
<1>13. NamesOK(longer, stack, firsts, s + 1, table, parsed)
  <2>1. /\ DOMAIN stack = 1 .. Len(open) + 1 /\ stack[1] = list
        /\ \A i \in DOMAIN open : stack[i + 1] = open[i]
    BY <1>7, <1>8, <1>9, PushElement
  <2>2. DOMAIN open = 1 .. Len(open) /\ Len(open) \in Nat
    BY <1>8, LenProperties
  <2>3. ASSUME NEW i \in DOMAIN stack, i # 1 PROVE \E j \in DOMAIN open : stack[i] = open[j]
    <3>1. i - 1 \in DOMAIN open /\ (i - 1) + 1 = i
      BY <2>1, <2>2, <2>3
    <3>2. stack[(i - 1) + 1] = open[i - 1]
      BY <2>1, <3>1
    <3>3. QED  BY <3>1, <3>2
  <2>4. \A i \in DOMAIN stack : \/ \E j \in DOMAIN open : stack[i] = open[j]
                                \/ stack[i].proc \in table /\ stack[i].last = NoStmt
    BY <1>8, <1>9, <1>12, <2>1, <2>3 DEF NamesOK
  <2>5. Done(longer, stack, s + 1) = Done(longer, open, s)
    <3>1. DOMAIN longer = 1 .. s /\ s \in Nat
      BY <1>4, <1>8, <1>10, ListFacts
    <3>2. {stack[i].container : i \in DOMAIN stack} = {open[i].container : i \in DOMAIN open} \cup {s}
      <4>1. ASSUME NEW i \in DOMAIN open
            PROVE  open[i].container \in {stack[j].container : j \in DOMAIN stack}
        <5>1. i + 1 \in DOMAIN stack /\ stack[i + 1] = open[i]
          BY <2>1, <2>2
        <5>2. QED  BY <5>1
      <4>2. ASSUME NEW i \in DOMAIN stack
            PROVE  stack[i].container \in {open[j].container : j \in DOMAIN open} \cup {s}
        BY <1>9, <2>1, <2>3
      <4>3. s \in {stack[j].container : j \in DOMAIN stack}
        <5>1. 1 \in DOMAIN stack
          BY <2>1, <2>2
        <5>2. QED  BY <1>9, <2>1, <5>1
      <4>4. QED  BY <4>1, <4>2, <4>3
    <3>3. Pending(stack, s + 1) = Pending(open, s) \cup {s + 1}
      BY <3>2 DEF Pending
    <3>4. s + 1 \notin DOMAIN longer
      BY <3>1
    <3>5. QED  BY <3>3, <3>4 DEF Done
  <2>6. QED  BY <1>12, <2>4, <2>5, RestackedNames
<1>14. stmts' = longer /\ open' = stack /\ UNCHANGED <<table, firsts, parsed, status>>
  BY <1>1, <1>3, <1>4, <1>6, <1>7 DEF parse_container, ThisLine
<1>15. QED  BY <1>5, <1>10, <1>11, <1>13, <1>14 DEF ParserInv, AcceptedWhole
LEMMA ProcStep ==
    ASSUME Reading, NEW name \in Names, parse_proc(name)
    PROVE  ParserInv'
<1>1. PICK list : list = List(name, NoStmt, "first")
  OBVIOUS
<1>2. /\ list \in ListRecord /\ list.proc = name /\ list.container = NoStmt
      /\ list.last = NoStmt
  BY <1>1 DEF List, ListRecord, Branch, NoStmt
<1>3. PICK none : none = <<>>
  OBVIOUS
<1>4. PICK stack : stack = <<list>>
  OBVIOUS
<1>5. PICK top : top = Len(stmts) + 1
  OBVIOUS
<1>6. open = none /\ TreeOK(stmts, none, firsts, top)
  BY <1>3, <1>5 DEF Reading, parse_proc
<1>7. TreeOK(stmts, stack, firsts, top)
  BY <1>2, <1>3, <1>4, <1>5, <1>6, OpenedTree
<1>8. PICK names : names = table \cup {name}
  OBVIOUS
<1>9. NamesOK(stmts, none, firsts, top, names, parsed) /\ name \in names
  <2>1. NamesOK(stmts, none, firsts, top, table, parsed)
    BY <1>5, <1>6 DEF Reading
  <2>2. QED  BY <1>8, <2>1, MoreNames
<1>10. NamesOK(stmts, stack, firsts, top, names, parsed)
  <2>1. DOMAIN stack = {1} /\ stack[1] = list
    BY <1>4
  <2>2. \A i \in DOMAIN stack : \/ \E j \in DOMAIN none : stack[i] = none[j]
                                \/ stack[i].proc \in names /\ stack[i].last = NoStmt
    BY <1>2, <1>9, <2>1
  <2>3. Done(stmts, stack, top) = Done(stmts, none, top)
    <3>1. DOMAIN stmts = 1 .. Len(stmts) /\ Len(stmts) \in Nat
      BY <1>6, ListFacts
    <3>2. DOMAIN none = {}
      BY <1>3
    <3>3. {stack[i].container : i \in DOMAIN stack} = {0}
      BY <1>2, <2>1 DEF NoStmt
    <3>4. 0 \notin DOMAIN stmts
      BY <3>1
    <3>5. QED  BY <3>2, <3>3, <3>4 DEF Done, Pending
  <2>4. QED  BY <1>9, <2>2, <2>3, RestackedNames
<1>11. /\ stmts' = stmts /\ open' = stack /\ firsts' = firsts /\ table' = names
       /\ parsed' = parsed /\ status' = "reading"
  BY <1>1, <1>4, <1>8 DEF Reading, parse_proc
<1>12. QED  BY <1>5, <1>7, <1>10, <1>11 DEF ParserInv, AcceptedWhole

LEMMA ElseStep ==
    ASSUME Reading, ElseBranch
    PROVE  ParserInv'
<1>1. PICK top : top = Len(stmts) + 1
  OBVIOUS
<1>2. /\ TreeOK(stmts, open, firsts, top) /\ open # <<>>
      /\ NamesOK(stmts, open, firsts, top, table, parsed)
  BY <1>1 DEF Reading, ElseBranch
<1>3. open \in Seq(ListRecord)
  BY <1>2, ListFacts
<1>4. 1 \in DOMAIN open /\ Head(open) = open[1]
  BY <1>2, <1>3, PopElement
<1>5. PICK l : l = Head(open)
  OBVIOUS
<1>6. l \in ListRecord
  BY <1>3, <1>4, <1>5
<1>7. PICK list : list = List(l.proc, l.container, "second")
  OBVIOUS
<1>8. /\ list \in ListRecord /\ list.proc = l.proc /\ list.container = l.container
      /\ list.branch = "second" /\ list.last = NoStmt
  BY <1>6, <1>7 DEF List, ListRecord, Branch, NoStmt
<1>9. PICK stack : stack = <<list>> \o Tail(open)
  OBVIOUS
<1>10. /\ l.last # NoStmt /\ l.container # NoStmt
       /\ stmts[l.container].kind = "if" /\ l.branch = "first"
  BY <1>5 DEF ElseBranch, kind
<1>11. TreeOK(stmts, stack, firsts, top)
  BY <1>1, <1>2, <1>5, <1>8, <1>9, <1>10, ElseTree
<1>12. NamesOK(stmts, stack, firsts, top, table, parsed)
  <2>1. /\ DOMAIN stack = DOMAIN open /\ stack[1] = list
        /\ \A i \in DOMAIN open : i # 1 => stack[i] = open[i]
    BY <1>2, <1>3, <1>8, <1>9, ReplaceElement
  <2>2. l.proc \in table
    BY <1>2, <1>4, <1>5 DEF NamesOK
  <2>3. \A i \in DOMAIN stack : \/ \E j \in DOMAIN open : stack[i] = open[j]
                                \/ stack[i].proc \in table /\ stack[i].last = NoStmt
    BY <1>8, <2>1, <2>2
  <2>4. {stack[i].container : i \in DOMAIN stack} = {open[i].container : i \in DOMAIN open}
    <3>1. \A i \in DOMAIN open : stack[i].container = open[i].container
      BY <1>4, <1>5, <1>8, <2>1
    <3>2. ASSUME NEW i \in DOMAIN open
          PROVE  open[i].container \in {stack[j].container : j \in DOMAIN stack}
      BY <2>1, <3>1
    <3>3. ASSUME NEW i \in DOMAIN stack
          PROVE  stack[i].container \in {open[j].container : j \in DOMAIN open}
      BY <2>1, <3>1
    <3>4. QED  BY <3>2, <3>3
  <2>5. Done(stmts, stack, top) = Done(stmts, open, top)
    BY <2>4 DEF Done, Pending
  <2>6. QED  BY <1>2, <2>3, <2>5, RestackedNames
<1>13. open' = stack /\ UNCHANGED <<stmts, table, firsts, parsed, status>>
  BY <1>5, <1>7, <1>9 DEF ElseBranch
<1>14. QED  BY <1>1, <1>11, <1>12, <1>13 DEF Reading, ParserInv, AcceptedWhole

LEMMA CloseContainerStep ==
    ASSUME Reading, CloseContainer
    PROVE  ParserInv'
<1>1. PICK top : top = Len(stmts) + 1
  OBVIOUS
<1>2. /\ TreeOK(stmts, open, firsts, top) /\ status = "reading"
      /\ NamesOK(stmts, open, firsts, top, table, parsed)
  BY <1>1 DEF Reading
<1>3. open # <<>>
  BY DEF CloseContainer
<1>4. PICK c : c = Head(open).container
  OBVIOUS
<1>5. PICK stack : stack = Tail(open)
  OBVIOUS
<1>6. /\ c # NoStmt /\ Head(open).last # NoStmt
      /\ stmts[c].kind = "if" => Head(open).branch = "second"
  BY <1>4 DEF CloseContainer, kind
<1>7. Completing(stmts, stack, firsts, c)
  BY <1>1, <1>2, <1>3, <1>4, <1>5, <1>6, PoppedTree
<1>8. NamesOK(stmts, stack, firsts, c, table, parsed)
  <2>1. open \in Seq(ListRecord)
    BY <1>2, ListFacts
  <2>2. /\ 1 \in DOMAIN open /\ open[1] = Head(open)
        /\ \A i \in DOMAIN stack : i + 1 \in DOMAIN open /\ stack[i] = open[i + 1]
        /\ \A i \in DOMAIN open : i # 1 => i - 1 \in DOMAIN stack /\ stack[i - 1] = open[i]
    BY <1>3, <1>5, <2>1, PopElement
  <2>3. \A i \in DOMAIN stack : \/ \E j \in DOMAIN open : stack[i] = open[j]
                                \/ stack[i].proc \in table /\ stack[i].last = NoStmt
    BY <2>2
  <2>4. {stack[j].container : j \in DOMAIN stack} \cup {c} = {open[j].container : j \in DOMAIN open}
    <3>1. ASSUME NEW i \in DOMAIN stack
          PROVE  stack[i].container \in {open[j].container : j \in DOMAIN open}
      BY <2>2
    <3>2. ASSUME NEW i \in DOMAIN open
          PROVE  open[i].container \in {stack[j].container : j \in DOMAIN stack} \cup {c}
      BY <1>4, <2>2
    <3>3. c \in {open[j].container : j \in DOMAIN open}
      BY <1>4, <2>2
    <3>4. QED  BY <3>1, <3>2, <3>3
  <2>5. top \notin DOMAIN stmts
    <3>1. DOMAIN stmts = 1 .. Len(stmts) /\ Len(stmts) \in Nat
      BY <1>2, ListFacts
    <3>2. QED  BY <1>1, <3>1
  <2>6. Done(stmts, stack, c) = Done(stmts, open, top)
    BY <2>4, <2>5 DEF Done, Pending
  <2>7. QED  BY <1>2, <2>3, <2>6, RestackedNames
<1>9. Complete(stmts, c, stack) /\ table' = table /\ parsed' = parsed
  BY <1>4, <1>5 DEF CloseContainer
<1>10. QED  BY <1>2, <1>7, <1>8, <1>9, CompleteStep
LEMMA CloseProcStep ==
    ASSUME Reading, CloseProc
    PROVE  ParserInv'
<1>1. PICK top : top = Len(stmts) + 1
  OBVIOUS
<1>2. /\ TreeOK(stmts, open, firsts, top)
      /\ NamesOK(stmts, open, firsts, top, table, parsed)
  BY <1>1 DEF Reading
<1>3. open # <<>> /\ Head(open).container = NoStmt /\ Head(open).last # NoStmt
  BY DEF CloseProc
<1>4. open \in Seq(ListRecord)
  BY <1>2, ListFacts
<1>5. 1 \in DOMAIN open /\ Head(open) = open[1]
  BY <1>3, <1>4, PopElement
<1>6. PICK p : p = Head(open).proc
  OBVIOUS
<1>7. /\ p \in table /\ firsts[p] # NoStmt
      /\ \A k \in DOMAIN parsed : parsed[k] # p
  BY <1>2, <1>3, <1>5, <1>6 DEF NamesOK
<1>8. PICK none : none = <<>>
  OBVIOUS
<1>9. TreeOK(stmts, none, firsts, top) /\ Done(stmts, none, top) = Done(stmts, open, top)
  BY <1>1, <1>2, <1>3, <1>8, ClosedTree
<1>10. PICK read : read = Append(parsed, p)
  OBVIOUS
<1>11. parsed \in Seq(table)
  BY <1>2 DEF NamesOK
<1>12. /\ read \in Seq(table) /\ Len(read) = Len(parsed) + 1
       /\ read[Len(parsed) + 1] = p
       /\ \A i \in 1 .. Len(parsed) : read[i] = parsed[i]
       /\ DOMAIN parsed = 1 .. Len(parsed) /\ Len(parsed) \in Nat
  BY <1>7, <1>10, <1>11, AppendProperties, LenProperties
<1>13. DOMAIN read = 1 .. (Len(parsed) + 1)
  BY <1>12, LenProperties
<1>14. \A i \in DOMAIN read : firsts[read[i]] # NoStmt
  BY <1>2, <1>7, <1>12, <1>13 DEF NamesOK
<1>15. ASSUME NEW i \in DOMAIN read, NEW j \in DOMAIN read, read[i] = read[j] PROVE i = j
  <2>1. CASE i = Len(parsed) + 1 \/ j = Len(parsed) + 1
    BY <1>7, <1>12, <1>13, <1>15, <2>1
  <2>2. CASE i \in DOMAIN parsed /\ j \in DOMAIN parsed
    BY <1>2, <1>12, <1>15, <2>2 DEF NamesOK
  <2>3. QED  BY <1>12, <1>13, <2>1, <2>2
<1>16. NamesOK(stmts, none, firsts, top, table, read)
  <2>1. DOMAIN none = {}
    BY <1>8
  <2>2. QED  BY <1>2, <1>9, <1>12, <1>14, <1>15, <2>1 DEF NamesOK
<1>17. /\ parsed' = read /\ open' = none /\ status' = "reading"
       /\ UNCHANGED <<stmts, table, firsts>>
  BY <1>6, <1>8, <1>10 DEF CloseProc
<1>18. QED  BY <1>1, <1>9, <1>16, <1>17 DEF ParserInv, AcceptedWhole

LEMMA NextKeepsTree == ParserInv /\ [Next]_vars => ParserInv'
<1> SUFFICES ASSUME ParserInv, [Next]_vars PROVE ParserInv'
  OBVIOUS
<1>1. CASE UNCHANGED vars
  BY <1>1 DEF vars, ParserInv, AcceptedWhole
<1>2. CASE Next
  <2>1. status = "reading"
    BY <1>2 DEF Next, parse_statement, parse_assignment, parse_call, parse_container,
                parse_proc, ElseBranch, CloseContainer, CloseProc, EndOfText, WrongToken, InList
  <2>2. Reading
    BY <2>1 DEF Reading, ParserInv
  <2>3. ASSUME NEW name \in Names, parse_proc(name) PROVE ParserInv'
    BY <2>2, <2>3, ProcStep
  <2>4. ASSUME NEW var \in Vars, NEW uses \in SUBSET Vars, parse_assignment(var, uses)
        PROVE  ParserInv'
    BY <2>2, <2>4, AssignmentStep
  <2>5. ASSUME NEW name \in Names, parse_call(name) PROVE ParserInv'
    BY <2>2, <2>5, CallStep
  <2>6. ASSUME NEW k \in {"while", "if"}, NEW var \in Vars, parse_container(k, var)
        PROVE  ParserInv'
    BY <2>2, <2>6, ContainerStep
  <2>7. CASE ElseBranch
    BY <2>2, <2>7, ElseStep
  <2>8. CASE CloseContainer
    BY <2>2, <2>8, CloseContainerStep
  <2>9. CASE CloseProc
    BY <2>2, <2>9, CloseProcStep
  <2>10. CASE EndOfText
    BY <2>2, <2>10 DEF EndOfText, Reading, ParserInv, AcceptedWhole
  <2>11. CASE WrongToken
    BY <2>11 DEF WrongToken, ParserInv
  <2>12. QED  BY <1>2, <2>3, <2>4, <2>5, <2>6, <2>7, <2>8, <2>9, <2>10, <2>11
              DEF Next, parse_statement
<1>3. QED  BY <1>1, <1>2

------------------------------------------------------------------------------
\* As many procedures are parsed as are named, and none twice: all of them.
LEMMA AllParsed ==
    ASSUME NEW names, NEW read \in Seq(names), IsFiniteSet(names),
           \A i, j \in DOMAIN read : read[i] = read[j] => i = j,
           Len(read) = Cardinality(names)
    PROVE  {read[i] : i \in DOMAIN read} = names
<1>1. /\ Len(read) \in Nat /\ DOMAIN read = 1 .. Len(read)
      /\ read \in [1 .. Len(read) -> names]
  BY LenProperties
<1>2. PICK n \in Nat : n = Len(read)
  BY <1>1
<1>3. read \in Injection(1 .. n, names)
  BY <1>1, <1>2 DEF Injection, IsInjective
<1>4. Cardinality(1 .. n) = n
  <2>1. Cardinality(1 .. n) = IF 1 > n THEN 0 ELSE n - 1 + 1
    BY FS_Interval
  <2>2. QED  BY <2>1
<1>5. Cardinality(1 .. n) = Cardinality(names)
  BY <1>2, <1>4
<1>6. read \in Surjection(1 .. n, names)
  BY <1>3, <1>5, FS_Injection
<1>7. \A m \in names : \E i \in 1 .. n : read[i] = m
  BY <1>6 DEF Surjection
<1>8. ASSUME NEW i \in DOMAIN read PROVE read[i] \in names
  BY <1>1
<1>9. ASSUME NEW m \in names PROVE m \in {read[i] : i \in DOMAIN read}
  BY <1>1, <1>2, <1>7
<1>10. QED  BY <1>8, <1>9

\* The tree, when nothing is left to read.
LEMMA ParsedIsTree ==
    ASSUME TreeOK(stmts, <<>>, firsts, Len(stmts) + 1),
           NamesOK(stmts, <<>>, firsts, Len(stmts) + 1, table, parsed),
           {parsed[i] : i \in DOMAIN parsed} = table
    PROVE  WellFormed(Root) /\ LinesInTextOrder
<1>1. PICK none : none = <<>>
  OBVIOUS
<1>2. PICK top : top = Len(stmts) + 1
  OBVIOUS
<1>3. /\ TreeOK(stmts, none, firsts, top)
      /\ NamesOK(stmts, none, firsts, top, table, parsed)
  BY <1>1, <1>2
<1>4. DOMAIN stmts = 1 .. Len(stmts) /\ Len(stmts) \in Nat
  BY <1>3, ListFacts
<1>5. Done(stmts, none, top) = DOMAIN stmts
  <2>1. Pending(none, top) = {top}
    BY <1>1 DEF Pending
  <2>2. QED  BY <1>2, <1>4, <2>1 DEF Done
<1>6. /\ Root.stmts = stmts /\ DOMAIN Root.procs = table
      /\ \A n \in table : Root.procs[n] = firsts[n]
  BY DEF Root
<1>7. /\ Statements(Root) = DOMAIN stmts /\ Procs(Root) = table
      /\ \A s : /\ next(Root, s) = stmts[s].next /\ prev(Root, s) = stmts[s].prev
                /\ get_parent(Root, s) = stmts[s].parent /\ get_proc(Root, s) = stmts[s].proc
                /\ kind(Root, s) = stmts[s].kind /\ get_proc_called(Root, s) = stmts[s].callee
      /\ \A n \in table : get_statement(Root, n) = firsts[n]
      /\ \A s : Branches(Root, s) = {b \in {stmts[s].first, stmts[s].second} : b # NoStmt}
  BY <1>6 DEF Statements, Procs, next, prev, get_parent, get_proc, kind, get_proc_called,
              get_statement, Branches
<1>8. \A n \in table : firsts[n] # NoStmt /\ n \in Names
  BY <1>3 DEF NamesOK
<1>9. \A n \in Names : firsts[n] # NoStmt =>
        /\ firsts[n] \in DOMAIN stmts /\ stmts[firsts[n]].proc = n
        /\ stmts[firsts[n]].parent = NoStmt
  BY <1>3, <1>5 DEF TreeOK, StartsLinked
<1>10. \A s \in DOMAIN stmts : stmts[s].proc \in table
  BY <1>3, <1>5 DEF NamesOK
\* A procedure without a definition has no first statement.
<1>11. ASSUME NEW s \in DOMAIN stmts PROVE s \in Heads(Root) <=> IsHead(stmts, firsts, s)
  <2>1. s # NoStmt
    BY <1>4 DEF NoStmt
  <2>2. (\E n \in Names : firsts[n] = s) <=> (\E n \in table : firsts[n] = s)
    BY <1>8, <1>9, <1>10, <2>1
  <2>3. (\E n \in table : firsts[n] = s) <=> s \in {get_statement(Root, proc) : proc \in Procs(Root)}
    BY <1>7
  <2>4. (\E c \in DOMAIN stmts : stmts[c].first = s \/ stmts[c].second = s)
          <=> s \in UNION {Branches(Root, c) : c \in Statements(Root)}
    BY <1>7, <2>1
  <2>5. QED  BY <2>2, <2>3, <2>4 DEF Heads, IsHead
<1>12. ASSUME NEW s \in DOMAIN stmts
       PROVE  /\ stmts[s].next # NoStmt =>
                   /\ stmts[stmts[s].next].prev = s
                   /\ stmts[stmts[s].next].parent = stmts[s].parent
                   /\ stmts[stmts[s].next].proc = stmts[s].proc
                   /\ s < stmts[s].next /\ Between(stmts, s, stmts[s].next)
              /\ stmts[s].prev # NoStmt => stmts[stmts[s].prev].next = s
              /\ stmts[s].prev = NoStmt <=> IsHead(stmts, firsts, s)
              /\ Filled(stmts, s)
  BY <1>3, <1>5 DEF TreeOK, DoneLinked
<1>13. ASSUME NEW c \in DOMAIN stmts
       PROVE  /\ \A b \in {stmts[c].first, stmts[c].second} \ {NoStmt} :
                   stmts[b].parent = c /\ stmts[b].proc = stmts[c].proc
              /\ stmts[c].first # NoStmt => stmts[c].first = c + 1
              /\ stmts[c].second # NoStmt => stmts[c].first < stmts[c].second
  BY <1>3, <1>5 DEF TreeOK, BranchesLinked
<1>14. \A proc \in Procs(Root) :
         /\ get_statement(Root, proc) \in Statements(Root)
         /\ get_proc(Root, get_statement(Root, proc)) = proc
         /\ get_parent(Root, get_statement(Root, proc)) = NoStmt
  BY <1>7, <1>8, <1>9
<1>15. ASSUME NEW s \in Statements(Root)
       PROVE  /\ get_proc(Root, s) \in Procs(Root)
              /\ (prev(Root, s) = NoStmt) <=> (s \in Heads(Root))
              /\ next(Root, s) # NoStmt =>
                   /\ prev(Root, next(Root, s)) = s
                   /\ get_parent(Root, next(Root, s)) = get_parent(Root, s)
                   /\ get_proc(Root, next(Root, s)) = get_proc(Root, s)
              /\ prev(Root, s) # NoStmt => next(Root, prev(Root, s)) = s
              /\ \A b \in Branches(Root, s) : /\ get_parent(Root, b) = s
                                              /\ get_proc(Root, b) = get_proc(Root, s)
              /\ (kind(Root, s) \in {"while", "if"}) <=> (Root.stmts[s].first # NoStmt)
              /\ (kind(Root, s) = "if") <=> (Root.stmts[s].second # NoStmt)
              /\ kind(Root, s) = "call" => get_proc_called(Root, s) \in Procs(Root)
  <2>1. s \in DOMAIN stmts
    BY <1>7
  <2>2. get_proc(Root, s) \in Procs(Root)
    BY <1>7, <1>10, <2>1
  <2>3. (prev(Root, s) = NoStmt) <=> (s \in Heads(Root))
    BY <1>7, <1>11, <1>12, <2>1
  <2>4. /\ next(Root, s) # NoStmt =>
             /\ prev(Root, next(Root, s)) = s
             /\ get_parent(Root, next(Root, s)) = get_parent(Root, s)
             /\ get_proc(Root, next(Root, s)) = get_proc(Root, s)
        /\ prev(Root, s) # NoStmt => next(Root, prev(Root, s)) = s
    BY <1>7, <1>12, <2>1
  <2>5. \A b \in Branches(Root, s) : /\ get_parent(Root, b) = s
                                     /\ get_proc(Root, b) = get_proc(Root, s)
    BY <1>7, <1>13, <2>1
  <2>6. /\ (kind(Root, s) \in {"while", "if"}) <=> (Root.stmts[s].first # NoStmt)
        /\ (kind(Root, s) = "if") <=> (Root.stmts[s].second # NoStmt)
    BY <1>6, <1>7, <1>12, <2>1 DEF Filled
  <2>7. kind(Root, s) = "call" => get_proc_called(Root, s) \in Procs(Root)
    BY <1>3, <1>7, <2>1 DEF NamesOK
  <2>8. QED  BY <2>2, <2>3, <2>4, <2>5, <2>6, <2>7
<1>16. WellFormed(Root)
  BY <1>14, <1>15 DEF WellFormed
<1>17. LinesInTextOrder
  <2>1. ASSUME NEW s \in Statements(Root)
        PROVE  /\ next(Root, s) # NoStmt =>
                    /\ s < next(Root, s)
                    /\ \A u \in (s + 1) .. (next(Root, s) - 1) :
                         get_parent(Root, u) \in s .. (next(Root, s) - 1)
               /\ stmts[s].first # NoStmt => stmts[s].first = s + 1
               /\ stmts[s].second # NoStmt => stmts[s].first < stmts[s].second
    BY <1>7, <1>12, <1>13 DEF Between
  <2>2. QED  BY <2>1 DEF LinesInTextOrder
<1>18. QED  BY <1>16, <1>17

LEMMA InvAccepts == ParserInv => AcceptedWellFormed
<1> SUFFICES ASSUME ParserInv, status = "accepted"
             PROVE  WellFormed(Root) /\ CalleesDefined /\ LinesInTextOrder
  BY DEF AcceptedWellFormed
<1>1. /\ open = <<>> /\ Len(parsed) = Cardinality(table)
      /\ TreeOK(stmts, open, firsts, Len(stmts) + 1)
      /\ NamesOK(stmts, open, firsts, Len(stmts) + 1, table, parsed)
  BY DEF ParserInv, AcceptedWhole
<1>2. /\ parsed \in Seq(table) /\ IsFiniteSet(table)
      /\ \A i, j \in DOMAIN parsed : parsed[i] = parsed[j] => i = j
      /\ \A s \in DOMAIN stmts : stmts[s].kind = "call" => stmts[s].callee \in table
  BY <1>1 DEF NamesOK
<1>3. {parsed[i] : i \in DOMAIN parsed} = table
  BY <1>1, <1>2, AllParsed
<1>4. WellFormed(Root) /\ LinesInTextOrder
  BY <1>1, <1>3, ParsedIsTree
<1>5. CalleesDefined
  <2>1. ASSUME NEW c \in OfKind(Root, "call")
        PROVE  \E i \in DOMAIN parsed : parsed[i] = get_proc_called(Root, c)
    <3>1. Root.stmts = stmts
      BY DEF Root
    <3>2. get_proc_called(Root, c) \in table
      BY <1>2, <3>1 DEF OfKind, Statements, kind, get_proc_called
    <3>3. QED  BY <1>3, <3>2
  <2>2. QED  BY <1>3, <2>1 DEF CalleesDefined
<1>6. QED  BY <1>4, <1>5

(***************************************************************************)
(* Whatever the text, a program that SimpleParser accepts is the tree the  *)
(* solvers assume: doubly linked lists, containers with their branches,    *)
(* one tree for each procedure, lines in the order of the text, and no     *)
(* call of a procedure without a definition.                               *)
(***************************************************************************)
THEOREM AcceptedIsTree == Spec => []AcceptedWellFormed
<1>1. QED  BY InitIsTree, NextKeepsTree, InvAccepts, PTL DEF Spec

------------------------------------------------------------------------------
\* The pointers of a complete tree lead to statements, and forwards.
LEMMA ParsedInOrder ==
    ASSUME TreeOK(stmts, <<>>, firsts, Len(stmts) + 1)
    PROVE  Len(stmts) \in Nat /\ Statements(Root) = 1 .. Len(stmts) /\ InTextOrder(Root)
<1>1. PICK none, top : none = <<>> /\ top = Len(stmts) + 1
  OBVIOUS
<1>2. TreeOK(stmts, none, firsts, top)
  BY <1>1
<1>3. /\ DOMAIN stmts = 1 .. Len(stmts) /\ Len(stmts) \in Nat
      /\ \A u \in DOMAIN stmts : stmts[u] \in StmtRecord /\ stmts[u].parent \in Nat
  BY <1>2, ListFacts
<1>4. Done(stmts, none, top) = DOMAIN stmts
  <2>1. Pending(none, top) = {top}
    BY <1>1 DEF Pending
  <2>2. QED  BY <1>1, <1>3, <2>1 DEF Done
<1>5. Root.stmts = stmts
  BY DEF Root
<1>6. ASSUME NEW s \in DOMAIN stmts
      PROVE  /\ stmts[s].parent \in DOMAIN stmts \cup {NoStmt}
             /\ stmts[s].next # NoStmt => stmts[s].next \in DOMAIN stmts /\ s < stmts[s].next
             /\ stmts[s].prev # NoStmt => stmts[s].prev \in DOMAIN stmts
             /\ \A b \in {stmts[s].first, stmts[s].second} \ {NoStmt} : b \in DOMAIN stmts /\ s < b
             /\ stmts[s].kind = "if" => stmts[s].first < stmts[s].second
  <2>1. /\ stmts[s].parent < s
        /\ stmts[s].next # NoStmt => stmts[s].next \in DOMAIN stmts /\ s < stmts[s].next
        /\ stmts[s].prev # NoStmt => stmts[s].prev \in DOMAIN stmts
        /\ Filled(stmts, s)
    BY <1>2, <1>4 DEF TreeOK, DoneLinked
  <2>2. /\ \A b \in {stmts[s].first, stmts[s].second} \ {NoStmt} : b \in DOMAIN stmts
        /\ stmts[s].first # NoStmt => stmts[s].first = s + 1
        /\ stmts[s].second # NoStmt => stmts[s].first < stmts[s].second
    BY <1>2, <1>4 DEF TreeOK, BranchesLinked
  <2>3. /\ stmts[s].kind \in {"while", "if"} <=> stmts[s].first # NoStmt
        /\ stmts[s].kind = "if" <=> stmts[s].second # NoStmt
    BY <2>1 DEF Filled
  <2>4. s \in Nat /\ stmts[s].parent \in Nat /\ stmts[s].parent \in DOMAIN stmts \cup {NoStmt}
    BY <1>3, <2>1 DEF NoStmt
  <2>5. ASSUME stmts[s].second # NoStmt PROVE s < stmts[s].second
    <3>1. stmts[s].first = s + 1 /\ stmts[s].first < stmts[s].second
      BY <2>2, <2>3, <2>5
    <3>2. PICK b, n : b = stmts[s].second /\ n = Len(stmts)
      OBVIOUS
    <3>3. b \in 1 .. n /\ n \in Nat
      BY <1>3, <2>2, <2>5, <3>2
    <3>4. stmts[s].second \in Nat
      BY <3>2, <3>3
    <3>5. QED  BY <2>4, <3>1, <3>4
  <2>6. QED  BY <2>1, <2>2, <2>3, <2>4, <2>5
<1>7. Statements(Root) = DOMAIN stmts
  BY <1>5 DEF Statements
<1>8. InTextOrder(Root)
  BY <1>5, <1>6, <1>7
     DEF InTextOrder, next, prev, get_parent, kind, get_then_branch, get_else_branch, Branches
<1>9. QED  BY <1>3, <1>7, <1>8

(***************************************************************************)
(* Whatever the text, an accepted program is one of those that the         *)
(* assumptions about programs are about (ProgramsAssumption in SolverTable *)
(* and SolversAssumption in FlowSolvers): numbered lines, well-formed,     *)
(* with pointers forwards, and a name for what is assigned or tested.      *)
(***************************************************************************)
SolversMayRead ==
  status = "accepted" => IsProgram(Root)

\* parse_program returns nothing else (parser.cpp:56-104, 362-377).
THEOREM AcceptedSuitsSolvers == Spec => []SolversMayRead
<1>1. ParserInv => SolversMayRead
  <2>1. SUFFICES ASSUME ParserInv, status = "accepted"
                 PROVE  /\ Len(Root.stmts) \in Nat /\ Statements(Root) = 1 .. Len(Root.stmts)
                        /\ WellFormed(Root) /\ InTextOrder(Root)
                        /\ \A s \in Statements(Root) :
                             /\ kind(Root, s) \in Kinds
                             /\ kind(Root, s) # "call" => get_variable(Root, s) # NoVar
    BY DEF SolversMayRead, IsProgram
  <2>2. open = <<>> /\ TreeOK(stmts, open, firsts, Len(stmts) + 1)
    BY <2>1 DEF ParserInv, AcceptedWhole
  <2>3. WellFormed(Root)
    BY <2>1, InvAccepts DEF AcceptedWellFormed
  <2>4. Root.stmts = stmts
    BY DEF Root
  <2>5. stmts \in Seq(StmtRecord)
    BY <2>2 DEF TreeOK, TreeTyped
  <2>6. ASSUME NEW s \in Statements(Root)
        PROVE  /\ kind(Root, s) \in Kinds
               /\ kind(Root, s) # "call" => get_variable(Root, s) # NoVar
    <3>1. stmts[s] \in StmtRecord /\ kind(Root, s) = stmts[s].kind
      BY <2>4, <2>5, <2>6 DEF Statements, kind
    <3>2. stmts[s].kind \in Kinds /\ (stmts[s].kind # "call" => stmts[s].var \in Vars)
      BY <3>1 DEF StmtRecord, StmtFields
    <3>3. QED  BY <2>4, <3>1, <3>2, NamesAssumption DEF get_variable
  <2>7. QED  BY <2>2, <2>3, <2>4, <2>6, ParsedInOrder
<1>2. QED  BY <1>1, InitIsTree, NextKeepsTree, PTL DEF Spec
==============================================================================
