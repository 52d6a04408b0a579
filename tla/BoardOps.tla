------------------------------ MODULE BoardOps ------------------------------
(***************************************************************************)
(* The operations on a board's tree (internal/board: board.go, ops.go,     *)
(* scope.go, ids.go): every edit of the CLI, the web and the cloud server  *)
(* parses the file, applies one operation and writes the file again.       *)
(*                                                                         *)
(* A board is what the file holds: sections of lines, each with its        *)
(* indentation.  The tree is what buildTree makes of that, so what an      *)
(* operation does to the tree counts as the next reader sees it.  An item  *)
(* line loses none of its parts on the way to the file and back, but the   *)
(* pin of an urgent item.                                                  *)
(***************************************************************************)
EXTENDS Naturals, SequencesExt, FiniteSetsExt

CONSTANTS
  Text,      \* what a line may say
  Status,    \* the marks of an item that are told apart
  Title,     \* what a section may be called
  Log, Archive, Ideas,
  Docs,      \* the boards it may start from
  MaxOps     \* bound: operations

ASSUME BoardOpsAssumption ==
  /\ {Log, Archive, Ideas} \subseteq Title
  /\ {"none", "open", "done"} \subseteq Status
  /\ MaxOps \in Nat

VARIABLES
  board,     \* [title, id, lines] in order; a line has kind, depth, text, status,
             \* urgent, pinned, id
  ids,       \* how many ids were given out
  last,      \* the last operation: its name, its root, the place it was pointed
             \* at, the place a reply goes under, its text
  ops        \* how many so far

vars == <<board, ids, last, ops>>

\* No id and no root; no place.
NoId == 0
Nowhere == <<0, 0>>

Line(kind, depth, text, status) ==
  [kind |-> kind, depth |-> depth, text |-> text, status |-> status,
   urgent |-> FALSE, pinned |-> FALSE, id |-> NoId]
Blank == Line("blank", 0, "", "none")

NoOp == [name |-> "none", root |-> NoId, at |-> Nowhere, under |-> Nowhere, text |-> ""]

-----------------------------------------------------------------------------
(* The tree in the lines (buildTree).                                      *)

\* A line hangs under the nearest line before it that is less indented.
Parent(ls, i) == Max({0} \cup {j \in 1 .. i - 1 : ls[j].depth < ls[i].depth})
IsRoot(ls, i) == Parent(ls, i) = 0

\* The last line of what hangs under a line.
End(ls, i) == Min({j \in i .. Len(ls) : j = Len(ls) \/ ls[j + 1].depth <= ls[i].depth})
SubtreeBare(ls, i) == <<ls[i]>>
Subtree(ls, i) == SubSeq(ls, i, End(ls, i))

Cut(ls, from, to) == SubSeq(ls, 1, from - 1) \o SubSeq(ls, to + 1, Len(ls))
Spliced(ls, after, new) == SubSeq(ls, 1, after) \o new \o SubSeq(ls, after + 1, Len(ls))

\* Where a line is: section and line.
Places(b) == UNION {{<<s, i>> : i \in DOMAIN b[s].lines} : s \in DOMAIN b}
At(b, p) == b[p[1]].lines[p[2]]
Before(p, q) == p[1] < q[1] \/ (p[1] = q[1] /\ p[2] < q[2])
Earliest(ps) == {p \in ps : \A q \in ps : p = q \/ Before(p, q)}

Titled(b, t) == {s \in DOMAIN b : b[s].title = t}

-----------------------------------------------------------------------------
(* Ids and roots.                                                          *)

\* EnsureIDs and what is written: headings and items get the ids they lack.
Lacking(b) ==
  {<<s, 0>> : s \in {t \in DOMAIN b : b[t].id = NoId}}
    \cup {p \in Places(b) : At(b, p).kind = "item" /\ At(b, p).id = NoId}
Given(b, p) == ids + 1 + Cardinality({q \in Lacking(b) : Before(q, p)})

Written(b) ==
  [s \in DOMAIN b |->
     [title |-> b[s].title,
      id |-> IF b[s].id = NoId THEN Given(b, <<s, 0>>) ELSE b[s].id,
      lines |-> [i \in DOMAIN b[s].lines |->
                   LET l == b[s].lines[i] IN
                   [l EXCEPT !.id = IF <<s, i>> \in Lacking(b) THEN Given(b, <<s, i>>) ELSE @,
                             !.pinned = @ /\ ~l.urgent]]]]

\* FindByID, SectionByID
WithId(b, n) == Earliest({p \in Places(b) : n # NoId /\ At(b, p).kind = "item" /\ At(b, p).id = n})
SectionWithId(b, n) ==
  {s \in DOMAIN b : n # NoId /\ b[s].id = n /\ \A r \in DOMAIN b : b[r].id = n => s <= r}

\* The ids a session or a link may be rooted at.
Roots(b) == {b[s].id : s \in DOMAIN b} \cup {At(b, p).id : p \in Places(b)} \cup {NoId}

\* InScope
InScope(b, root, p) ==
  \/ root = NoId
  \/ p[1] \in SectionWithId(b, root)
  \/ \E r \in WithId(b, root) :
       p[1] = r[1] /\ p[2] \in r[2] .. End(b[p[1]].lines, r[2])

-----------------------------------------------------------------------------
(* Addressing.                                                             *)

Says(l, m) == l.kind = m.kind /\ l.text = m.text
Same(l, m) ==
  Says(l, m) /\ l.depth = m.depth /\ l.status = m.status
    /\ l.urgent = m.urgent /\ l.pinned = m.pinned

\* FindByRawInSection: the first that reads the same, else the only item that
\* says the same.
ByRaw(b, t, m) ==
  LET here == {p \in Places(b) : b[p[1]].title = t /\ p[1] = Min(Titled(b, t))}
      same == {p \in here : Same(At(b, p), m)}
      alike == {p \in here : At(b, p).kind = "item" /\ At(b, p).text = m.text}
  IN IF same # {} THEN Earliest(same)
     ELSE IF Cardinality(alike) = 1 THEN alike ELSE {}

\* FindByQueryScoped: the first in scope.
ByQuery(b, root, text) ==
  Earliest({p \in Places(b) : At(b, p).kind = "item" /\ At(b, p).text = text /\ InScope(b, root, p)})

\* What locate comes to, by an id, a line as a client has seen it, perhaps before
\* its mark was changed, or a text; and the roots that let it through.
Seen(p) == {[At(board, p) EXCEPT !.status = status] : status \in Status}
Located ==
  UNION ({WithId(board, n) : n \in 1 .. ids}
           \cup {UNION {ByRaw(board, board[p[1]].title, line) : line \in Seen(p)} :
                   p \in {q \in Places(board) : At(board, q).kind # "blank"}})
LocatedAnywhere(root) == Located
LocatedUnder(root) ==
  {p \in Located \cup UNION {ByQuery(board, root, t) : t \in Text} : InScope(board, root, p)}

-----------------------------------------------------------------------------
(* The operations on the tree.                                             *)

\* insert: before the blank lines a section ends with.
InsertPoint(ls) ==
  LET blanks == {i \in DOMAIN ls : \A j \in i .. Len(ls) : IsRoot(ls, j) => ls[j].kind = "blank"}
  IN IF \E i \in blanks : IsRoot(ls, i) THEN Min({i \in blanks : IsRoot(ls, i)}) - 1 ELSE Len(ls)
Inserted(ls, new) == Spliced(ls, InsertPoint(ls), new)

EndsBlank(ls) == \E i \in DOMAIN ls : IsRoot(ls, i) /\ ls[i].kind = "blank"
                                       /\ \A j \in i + 1 .. Len(ls) : ~IsRoot(ls, j)

\* AddSection: before Log, a blank line on either side.
AddSection(b, t) ==
  LET at == IF t # Log /\ Titled(b, Log) # {} THEN Min(Titled(b, Log)) ELSE Len(b) + 1
      apart == [s \in DOMAIN b |->
                  IF s + 1 = at /\ ~EndsBlank(b[s].lines)
                  THEN [b[s] EXCEPT !.lines = Append(@, Blank)] ELSE b[s]]
  IN IF Titled(b, t) # {} THEN b
     ELSE InsertAt(apart, at, [title |-> t, id |-> NoId,
                               lines |-> IF at <= Len(b) THEN <<Blank>> ELSE <<>>])

\* AddItem: the first item of a section is kept a blank line off its heading.
AddItem(b, s, text, status) ==
  LET ls == b[s].lines
      new == Inserted(ls, <<Line("item", 0, text, status)>>)
      bare == /\ \A i \in DOMAIN ls : IsRoot(ls, i) => ls[i].kind # "item"
              /\ new[1].kind # "blank"
  IN [b EXCEPT ![s].lines = IF bare THEN <<Blank>> \o new ELSE new]

AddReplyFlush(b, s, i, text, status) ==
  LET ls == b[s].lines IN
  [b EXCEPT ![s].lines = Spliced(ls, End(ls, i), <<Line("item", ls[i].depth, text, status)>>)]

\* AddReply: the last below its parent, two columns further in; a parent that is
\* not an item has no indentation of its own.
AddReply(b, s, i, text, status) ==
  LET ls == b[s].lines
      depth == IF ls[i].kind = "item" THEN ls[i].depth + 2 ELSE 2
  IN [b EXCEPT ![s].lines = Spliced(ls, End(ls, i), <<Line("item", depth, text, status)>>)]

RemovedLine(b, p) == [b EXCEPT ![p[1]].lines = Cut(@, p[2], p[2])]

\* Remove: an item and all that hangs under it.
Removed(b, p) == [b EXCEPT ![p[1]].lines = Cut(@, p[2], End(@, p[2]))]

\* shiftLeft
ShiftLeft(ls, n) == [i \in DOMAIN ls |-> [ls[i] EXCEPT !.depth = IF @ > n THEN @ - n ELSE 0]]

Archived(b, lines) ==
  LET c == AddSection(b, Archive)
      a == Min(Titled(c, Archive))
  IN [c EXCEPT ![a].lines = Inserted(@, lines)]

\* ArchiveItem
ArchiveItem(b, p) ==
  LET ls == b[p[1]].lines
  IN Archived(Removed(b, p), ShiftLeft(Subtree(ls, p[2]), ls[p[2]].depth))

\* ArchiveSection: every entry but the blank lines, and what hangs under those.
ArchiveSection(b, s) ==
  LET ls == b[s].lines
      kept == SetToSortSeq({i \in DOMAIN ls : IsRoot(ls, i) /\ ls[i].kind # "blank"}, <)
      entries == FlattenSeq([k \in DOMAIN kept |->
                               ShiftLeft(Subtree(ls, kept[k]), ls[kept[k]].depth)])
  IN SelectSeq(Archived(b, entries), LAMBDA x : x.title # b[s].title)

-----------------------------------------------------------------------------
(* Apply: one operation, as a locked read and write of the file.           *)

Apply(result, op) ==
  /\ ops' = ops + 1
  /\ board' = Written(result)
  /\ ids' = ids + Cardinality(Lacking(result))
  /\ last' = op

Op(name, root, at, under, text) ==
  [name |-> name, root |-> root, at |-> at, under |-> under, text |-> text]

\* The section meant by its title, under a root the root's own.
SectionOf(root, t) ==
  {s \in DOMAIN board : /\ board[s].title = t /\ s = Min(Titled(board, t))
                        /\ root = NoId \/ \E r \in SectionWithId(board, root) : board[r].title = t}

\* An add says the status itself ("[x] done"), or takes the section's; under an
\* item root it is a reply.
OpAdd(root, t, text, status) ==
  \/ \E r \in WithId(board, root) :
       Apply(AddReply(board, r[1], r[2], text, status), Op("add", root, r, r, text))
  \/ /\ WithId(board, root) = {}
     /\ \E s \in SectionOf(root, t) :
          /\ status # "none" \/ board[s].title \in {Ideas, Log}
          /\ Apply(AddItem(board, s, text, status), Op("add", root, <<s, 0>>, Nowhere, text))

\* reply (ReplyFlat): in the thread of its target.
OpReply(root, p, text) ==
  LET ls == board[p[1]].lines
      i == IF IsRoot(ls, p[2]) THEN p[2] ELSE Parent(ls, p[2])
  IN Apply(AddReply(board, p[1], i, text, "none"), Op("reply", root, p, <<p[1], i>>, text))

OpFork(root, p, text) ==
  Apply(AddReply(board, p[1], p[2], text, "none"), Op("fork", root, p, p, text))

\* edit, status, urgent, pin: of items only; another line is written as it was.
Changed(p, l) == IF At(board, p).kind = "item" THEN [board EXCEPT ![p[1]].lines[p[2]] = l] ELSE board

OpEdit(root, p, text) ==
  Apply(Changed(p, [At(board, p) EXCEPT !.text = text]), Op("edit", root, p, Nowhere, text))
OpStatus(root, p, status) ==
  Apply(Changed(p, [At(board, p) EXCEPT !.status = status]), Op("status", root, p, Nowhere, ""))
OpUrgent(root, p, flag) ==
  Apply(Changed(p, [At(board, p) EXCEPT !.urgent = flag]), Op("urgent", root, p, Nowhere, ""))
OpPin(root, p, flag) ==
  Apply(Changed(p, [At(board, p) EXCEPT !.pinned = flag]), Op("pin", root, p, Nowhere, ""))

OpArchive(root, p) ==
  /\ board[p[1]].title # Archive
  /\ Apply(ArchiveItem(board, p), Op("archive", root, p, Nowhere, ""))

OpDelete(root, p) == Apply(Removed(board, p), Op("delete", root, p, Nowhere, ""))

\* Whole-board operations are refused under a root.
OpLog(text) ==
  LET b == IF Titled(board, Log) # {} THEN board
           ELSE Append(board, [title |-> Log, id |-> NoId, lines |-> <<>>])
  IN Apply([b EXCEPT ![Min(Titled(b, Log))].lines = Inserted(@, <<Line("item", 0, text, "none")>>)],
           Op("log", NoId, Nowhere, Nowhere, text))

OpAddSection(t) ==
  /\ Titled(board, t) = {}
  /\ Apply(AddSection(board, t), Op("add-section", NoId, Nowhere, Nowhere, ""))

OpDeleteSection(s) ==
  Apply(RemoveAt(board, s), Op("delete-section", NoId, <<s, 0>>, Nowhere, ""))

OpRenameSection(root, s, t) ==
  /\ Titled(board, t) \subseteq {s}
  /\ Apply([board EXCEPT ![s].title = t], Op("rename-section", root, <<s, 0>>, Nowhere, ""))

OpArchiveSection(root, s) ==
  /\ board[s].title \notin {Archive, Log}
  /\ Apply(ArchiveSection(board, s), Op("archive-section", root, <<s, 0>>, Nowhere, ""))

-----------------------------------------------------------------------------
Init ==
  /\ board \in Docs
  /\ ids = Max({0} \cup {board[s].id : s \in DOMAIN board} \cup {At(board, p).id : p \in Places(board)})
  /\ last = NoOp
  /\ ops = 0

ItemOps(root, p) ==
  \/ \E text \in Text : OpReply(root, p, text) \/ OpFork(root, p, text) \/ OpEdit(root, p, text)
  \/ \E status \in Status : OpStatus(root, p, status)
  \/ \E flag \in BOOLEAN : OpUrgent(root, p, flag) \/ OpPin(root, p, flag)
  \/ OpArchive(root, p) \/ OpDelete(root, p)

SectionOps(root, t) ==
  \/ \E text \in Text, status \in Status : OpAdd(root, t, text, status)
  \/ \E s \in SectionOf(root, t) :
       OpArchiveSection(root, s) \/ \E u \in Title : OpRenameSection(root, s, u)

BoardOnly ==
  \/ \E text \in Text : OpLog(text)
  \/ \E t \in Title : OpAddSection(t) \/ \E s \in SectionOf(NoId, t) : OpDeleteSection(s)

Steps ==
  \/ \E root \in Roots(board) :
       (\E p \in LocatedUnder(root) : ItemOps(root, p)) \/ (\E t \in Title : SectionOps(root, t))
  \/ BoardOnly

Next == ops < MaxOps /\ Steps

Spec == Init /\ [][Next]_vars

-----------------------------------------------------------------------------
(* What is said about two boards, by the ids of their items.               *)

ItemIds(b) == {At(b, p).id : p \in Places(b)} \ {NoId}
Where(b, n) == CHOOSE p \in Places(b) : At(b, p).id = n

\* The item a line is a reply to, past the lines that are not items.
Ancestors(ls, i) == {j \in 1 .. i - 1 : ls[j].kind = "item"
                       /\ \A k \in j + 1 .. i : ls[k].depth > ls[j].depth}
Thread(b, p) == LET up == Ancestors(b[p[1]].lines, p[2])
                IN IF up = {} THEN NoId ELSE b[p[1]].lines[Max(up)].id

\* A place, and what hangs below it: the whole section for its heading.
Below(b, at, p) ==
  p[1] = at[1] /\ (at[2] = 0 \/ p[2] \in at[2] .. End(b[p[1]].lines, at[2]))

\* Every reply is at least two columns in, and hangs under an item.
Tidy(b) == \A p \in Places(b) :
  LET ls == b[p[1]].lines IN
  ~IsRoot(ls, p[2]) =>
     ls[Parent(ls, p[2])].kind = "item" /\ ls[p[2]].depth >= ls[Parent(ls, p[2])].depth + 2

-----------------------------------------------------------------------------
(* Types.                                                                  *)

Lines == [kind : {"item", "text", "blank"}, depth : 0 .. 12, text : Text \cup {""},
          status : Status, urgent : BOOLEAN, pinned : BOOLEAN, id : 0 .. ids]

\* Lines are lines; ids and titles are not given twice; once anything was
\* written every heading and item has an id.
TypeOK ==
  /\ \A s \in DOMAIN board : /\ board[s].title \in Title /\ board[s].id \in 0 .. ids
                             /\ \A i \in DOMAIN board[s].lines : board[s].lines[i] \in Lines
  /\ \A s, r \in DOMAIN board : s # r => board[s].title # board[r].title
  /\ \A p, q \in Places(board) : p # q /\ At(board, p).id # NoId => At(board, p).id # At(board, q).id
  /\ \A s \in DOMAIN board : board[s].id # NoId => board[s].id \notin ItemIds(board)
  /\ ops > 0 => Lacking(board) = {}

-----------------------------------------------------------------------------
(* What the operations promise.                                            *)

\* Nothing goes from the board but what a delete was pointed at, and, when a
\* section is archived, what hangs under one of its blank lines.
NothingVanishes ==
  [][\A n \in ItemIds(board) \ ItemIds(board') :
       /\ Below(board, last'.at, Where(board, n))
       /\ \/ last'.name \in {"delete", "delete-section"}
          \/ last'.name = "archive-section" /\ ~Tidy(board)]_vars

\* An operation moves nothing but what it archives, and that keeps its threads;
\* it changes nothing but the item it was pointed at.  A reply into the thread
\* of a line that is not an item is apart.
OthersStay ==
  [][\A n \in ItemIds(board) \cap ItemIds(board') :
       LET p == Where(board, n) q == Where(board', n)
           moved == last'.name \in {"archive", "archive-section"} /\ Below(board, last'.at, p)
       IN /\ p # last'.at => [At(board, p) EXCEPT !.depth = 0] = [At(board', q) EXCEPT !.depth = 0]
          /\ IF moved THEN board'[q[1]].title = Archive ELSE board[p[1]].id \in {NoId, board'[q[1]].id}
          /\ \/ Thread(board, p) \in {NoId, Thread(board', q)}
             \/ moved /\ ~Below(board, last'.at, Where(board, Thread(board, p)))
             \/ last'.name \in {"reply", "fork"} /\ At(board, last'.under).kind # "item"]_vars

\* Under a root, nothing outside it changes but the archive that is filled, and
\* what is new is inside; a reply to the root itself is apart.
StaysInside ==
  [][last'.root # NoId /\ ~(last'.name = "reply" /\ At(board, last'.at).id = last'.root) =>
       LET inside(b) == {n \in ItemIds(b) : InScope(b, last'.root, Where(b, n))} IN
       /\ \A n \in ItemIds(board) \ inside(board) :
            n \in ItemIds(board') /\ At(board, Where(board, n)) = At(board', Where(board', n))
       /\ Lacking(board) = {} =>
            ItemIds(board') \ ItemIds(board) \subseteq inside(board')]_vars

\* On a tidy board a reply lands in the thread it was meant for, and the board
\* is as tidy afterwards.
RepliesLand ==
  [][Tidy(board) =>
       /\ \/ Tidy(board')
          \/ last'.name \in {"reply", "fork"} /\ At(board, last'.under).kind # "item"
       /\ last'.name \in {"reply", "fork"} /\ At(board, last'.under).kind = "item" =>
            \E n \in ItemIds(board') \ ItemIds(board) :
              /\ At(board', Where(board', n)).text = last'.text
              /\ Thread(board', Where(board', n)) = At(board', last'.under).id]_vars

\* Archiving a section keeps everything in it.
SectionsArchiveWhole ==
  [][last'.name = "archive-section" => ItemIds(board) \subseteq ItemIds(board')]_vars
=============================================================================
