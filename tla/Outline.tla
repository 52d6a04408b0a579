------------------------------- MODULE Outline -------------------------------
(***************************************************************************)
(* The outline of the terminal UI: a cursor that counts stops, folds and   *)
(* memories that are keyed by what a line read like when it was parsed,    *)
(* and edits that are applied to the tree on the screen first and, when    *)
(* another writer was faster, again to the file they find.  When the save  *)
(* fails the edit stays on the screen, and goes with the next that works.  *)
(*                                                                         *)
(* A line is known by its item, and changes with its text (here: whether   *)
(* it reads as a reply), its marks and its id; no two items read the same. *)
(* Undo, redo and $EDITOR are, to the outline, other writers and a reload. *)
(***************************************************************************)
EXTENDS BoardTree

CONSTANTS
  Boards,     \* boards to start from
  MaxSteps    \* bound, for each board: edits, edits by others, folds, jumps, children to remember

ASSUME OutlineAssumption == MaxSteps \in [Boards -> Nat]

VARIABLES
  file,       \* the board file
  last,       \* model.lastDisk
  board,      \* model.board
  raw,        \* Item.raw: the line as it was read, Nothing for what was typed here
  collapsed,  \* model.collapsed: sections that are not in their default state
  folded,     \* model.collapsedItems
  foldPrev,   \* model.focusFoldPrev and focusFoldPrevItems, or Nothing
  mem,        \* model.outlineChildMem
  positions,  \* model.positions
  cursor,     \* model.cursor, counting from 1; 0 when there is no stop
  left        \* steps that are left

tree == <<file, last, board, raw>>
folds == <<collapsed, folded, foldPrev>>
vars == <<tree, folds, mem, positions, cursor, left>>

Counts == left > 0 /\ left' = left - 1

Line(b, x) == [item |-> x, reply |-> x \in b.reply, marked |-> x \in b.marked, id |-> x \in b.ids]
\* what an item reads like after b became c: typed items were never read
Read(b, c, r) == [x \in Item |-> IF x \in OnBoard(b) /\ x \in OnBoard(c) THEN r[x] ELSE Nothing]
Parsed(b) == [x \in Item |-> IF x \in OnBoard(b) THEN Line(b, x) ELSE Nothing]

\* sectionCollapsed, setCollapsed: only what differs from the default is kept
IsCollapsed(c, s) == IF s \in DOMAIN c THEN c[s] ELSE s = Archive
Collapse(c, s, v) == [t \in (DOMAIN c \cup {s}) \ {u \in {s} : v = (u = Archive)} |->
                       IF t = s THEN v ELSE c[t]]

\* itemFoldKey
FoldKey(b, r, x) == <<SectionOf(b, x), r[x]>>
IsFolded(x) == FoldKey(board, raw, x) \in folded

\* rebuildPositions: the stops of the cursor, in document order
Stops(b, r, c, f) ==
  LET shut(x) == \/ x \in Section /\ IsCollapsed(c, x)
                 \/ x \in Item /\ FoldKey(b, r, x) \in f
      from[x \in Thing] ==
        <<x>> \o IF shut(x) THEN <<>>
                 ELSE FlattenSeq([i \in DOMAIN b.kids[x] |-> from[b.kids[x][i]]])
  IN Tail(from[Title])
Rebuilt == positions' = Stops(board', raw', collapsed', folded')
Current == IF cursor = 0 THEN Nothing ELSE positions[cursor]

Clamped(at, n) == IF at > n THEN n ELSE IF at = 0 /\ n > 0 THEN 1 ELSE at
AtWas(s, x, else) == Clamped(else, Len(s))

\* cursorToItem, cursorToHeader: where x is among the stops, else where the cursor was
At(s, x, else) == IF x \in ToSet(s) THEN Place(s, x) ELSE Clamped(else, Len(s))
-----------------------------------------------------------------------------
(* Moving *)

Goto(n) == cursor' = n /\ UNCHANGED <<tree, folds, mem, positions, left>>

\* j (1), k (-1), g, G
Step(d) == cursor + d \in DOMAIN positions /\ Goto(cursor + d)
Ends(n) == cursor # 0 /\ Goto(n)

\* moveSection: tab, shift-tab; jumpToSection: 1 to 9.  A section's first stop
\* is its header.
CycleSection(d) ==
  /\ cursor # 0
  /\ LET n == Len(board.kids[Title])
         i == Place(board.kids[Title], SectionOf(board, Current))
     IN Goto(Place(positions, board.kids[Title][((i - 1 + d + n) % n) + 1]))
JumpToSection(s) == Goto(Place(positions, s))

\* exitMap: back from the map, on what was in its focus if that has a stop here
FromMap(x) == x \in ToSet(positions) /\ Goto(Place(positions, x))
-----------------------------------------------------------------------------
(* Folding *)

Looks == Counts /\ UNCHANGED tree
Refolds(c, f, x) ==
  /\ Looks
  /\ collapsed' = c
  /\ folded' = f
  /\ positions' = Stops(board, raw, c, f)
  /\ cursor' = At(positions', x, cursor)

\* enter; h on the header of an open section
ToggleSection ==
  /\ Current \in Section
  /\ Refolds(Collapse(collapsed, Current, ~IsCollapsed(collapsed, Current)), folded, Current)
  /\ UNCHANGED <<foldPrev, mem>>

\* toggleItemFold: enter; l on a folded item
ToggleItem ==
  /\ Current \in Item
  /\ board.kids[Current] # <<>>
  /\ LET k == FoldKey(board, raw, Current)
     IN Refolds(collapsed, IF k \in folded THEN folded \ {k} ELSE folded \cup {k}, Current)
  /\ UNCHANGED <<foldPrev, mem>>

\* outlineChildPick
MemKey(x) == IF x \in Section THEN <<x, Nothing>> ELSE <<Nothing, raw[x]>>
ChildPicked(m, x) ==
  LET kids == board.kids[x]
      known == {i \in DOMAIN kids : /\ MemKey(x) \in DOMAIN m
                                    /\ m[MemKey(x)] # Nothing
                                    /\ raw[kids[i]] = m[MemKey(x)]}
  IN kids[IF known = {} THEN 1 ELSE Min(known)]

\* l: opens a section and enters it, enters an item
EnterSection ==
  /\ Current \in Section
  /\ IsCollapsed(collapsed, Current)
  /\ Refolds(Collapse(collapsed, Current, FALSE), folded,
             IF board.kids[Current] = <<>> THEN Current ELSE ChildPicked(mem, Current))
  /\ UNCHANGED <<foldPrev, mem>>
EnterItem ==
  /\ Current \in Item
  /\ board.kids[Current] # <<>>
  /\ ~IsFolded(Current)
  /\ Goto(Place(positions, ChildPicked(mem, Current)))

\* h: out to the parent, which remembers
Leave ==
  /\ Current \in Item
  /\ Looks
  /\ LET p == Parent(board, Current)
     IN /\ mem' = [k \in DOMAIN mem \cup {MemKey(p)} |-> IF k = MemKey(p) THEN raw[Current] ELSE mem[k]]
        /\ cursor' = Place(positions, p)
  /\ UNCHANGED <<folds, positions>>

\* focusFoldToggle: z closes all but the way to the cursor, and opens it again
WayTo(x) == {y \in Item \cap OnBoard(board) : x \in Subtree(board, y)}
ZoomFoldsAll(x) ==
  {FoldKey(board, raw, y) : y \in {z \in Item \cap Subtree(board, SectionOf(board, x)) : board.kids[z] # <<>>}}
ZoomFolds(x) ==
  LET inside == Item \cap Subtree(board, SectionOf(board, x))
  IN {FoldKey(board, raw, y) : y \in {z \in inside \ WayTo(x) : board.kids[z] # <<>>}}
Zoom ==
  /\ cursor # 0
  /\ foldPrev = Nothing
  /\ foldPrev' = [collapsed |-> collapsed, folded |-> folded]
  /\ LET shut(c, s) == Collapse(c, s, s # SectionOf(board, Current))
     IN Refolds(FoldLeft(shut, collapsed, board.kids[Title]), ZoomFolds(Current), Current)
  /\ UNCHANGED mem
Unzoom ==
  /\ cursor # 0
  /\ foldPrev # Nothing
  /\ foldPrev' = Nothing
  /\ LET back == Stops(board, raw, foldPrev.collapsed, foldPrev.folded)
     IN Refolds(foldPrev.collapsed, foldPrev.folded,
                IF Current \in ToSet(back) THEN Current ELSE SectionOf(board, Current))
  /\ UNCHANGED mem

OpenedNot(x) == folded

\* jumpToMatch: from search and from the list of recent changes, opening the way
Opened(x) == folded \ {FoldKey(board, raw, y) : y \in WayTo(x) \ {x}}
Jump(x) ==
  /\ Refolds(Collapse(collapsed, SectionOf(board, x), FALSE), Opened(x), x)
  /\ UNCHANGED <<foldPrev, mem>>
-----------------------------------------------------------------------------
(* Editing.  mine: the tree on the screen, edited; at: the cursor on it;    *)
(* theirs: the edit on what another writer left in the file.                *)

Edits == Counts /\ UNCHANGED <<foldPrev, mem>>
KeepsFolds == UNCHANGED <<collapsed, folded>>

SavedOver(mine, theirs) ==
  /\ file' = mine
  /\ last' = mine
  /\ board' = mine
  /\ raw' = Read(board, mine, raw)

\* SaveRebasing worked: it wrote the tree, or the edit of the file it found
Saved(mine, theirs) ==
  /\ file' = IF file = last THEN mine ELSE theirs
  /\ last' = file'
  /\ board' = file'
  /\ raw' = IF file = last THEN Read(board, mine, raw) ELSE Read(file, theirs, Parsed(file))

\* it did not: "save failed", and the tree keeps the edit
Unsaved(mine) ==
  /\ UNCHANGED <<file, last>>
  /\ board' = mine
  /\ raw' = Read(board, mine, raw)

\* saveWithRebase
Saves(mine, at, theirs) ==
  /\ Edits
  /\ Saved(mine, theirs) \/ Unsaved(mine)
  /\ Rebuilt
  /\ cursor' = IF file # last /\ last' = file' THEN Clamped(at, Len(positions')) ELSE at

\* the stops on the edited tree
Then(mine) == Stops(mine, Read(board, mine, raw), collapsed, folded)
Stay(mine) == Clamped(cursor, Len(Then(mine)))

\* resolveTarget: the same line in its section, or (fuzzy) the same text, or
\* (wide) the same text in any section
Resolves(x, fuzzy, wide) ==
  /\ x \in OnBoard(file)
  /\ raw[x] # Nothing
  /\ wide \/ SectionOf(file, x) = SectionOf(board, x)
  /\ (x \in file.reply) = raw[x].reply
  /\ fuzzy \/ (x \in file.marked) = raw[x].marked

\* something to type that is not among the lines seen
New(seen) == LET off == Item \ seen IN IF off = {} THEN {} ELSE {CHOOSE x \in off : TRUE}

\* AddItem, AppendLog: a section that is gone comes back at the end
WithSectionLast(b, s) ==
  IF s \in OnBoard(b) THEN b ELSE [b EXCEPT !.kids[Title] = Append(@, s)]
Added(b, s, x, reply) == WithItem(WithSectionLast(b, s), s, x, reply)

NeighborBelow(x) ==
  LET near == {i \in DOMAIN positions : positions[i] \in Item /\ SectionOf(board, positions[i]) = SectionOf(board, x)}
      after == {i \in near : i > cursor}
      before == {i \in near : i < cursor}
  IN IF after # {} THEN positions[Min(after)] ELSE IF before # {} THEN positions[Max(before)] ELSE SectionOf(board, x)

\* removalNeighbor, selectAfterRemoval
Neighbor(x) ==
  LET near == {i \in DOMAIN positions : positions[i] \in Item /\ SectionOf(board, positions[i]) = SectionOf(board, x)}
      after == {i \in near : i > cursor /\ positions[i] \notin Subtree(board, x)}
      before == {i \in near : i < cursor}
  IN IF after # {} THEN positions[Min(after)] ELSE IF before # {} THEN positions[Max(before)] ELSE SectionOf(board, x)
Removes(mine, theirs) ==
  /\ KeepsFolds
  /\ Saves(mine, At(Then(mine), Neighbor(Current), cursor), theirs)

\* D and d
DeleteItem ==
  /\ Current \in Item
  /\ Removes(Without(board, Current),
             IF Resolves(Current, FALSE, FALSE) THEN Without(file, Current) ELSE file)
ArchiveItem ==
  /\ Current \in Item
  /\ Archivable(board, Current)
  /\ Removes(WithArchived(board, Current),
             IF Resolves(Current, TRUE, FALSE) THEN WithArchived(file, Current) ELSE file)
DeleteSection ==
  /\ KeepsFolds
  /\ Current \in Section
  /\ LET mine == Without(board, Current)
     IN Saves(mine, Stay(mine), IF Current \in OnBoard(file) THEN Without(file, Current) ELSE file)
ArchiveSection ==
  /\ KeepsFolds
  /\ Current \in Section \ {Archive, Log}
  /\ LET mine == WithSectionArchived(board, Current)
     IN Saves(mine, Stay(mine), IF Current \in OnBoard(file) THEN WithSectionArchived(file, Current) ELSE file)

\* a: to the section of the cursor, which goes to the section's last stop
AddItem(x) ==
  /\ KeepsFolds
  /\ cursor # 0
  /\ LET s == SectionOf(board, Current)
         mine == Added(board, s, x, FALSE)
         stops == Then(mine)
     IN Saves(mine, Max({i \in DOMAIN stops : SectionOf(mine, stops[i]) = s}), Added(file, s, x, FALSE))

\* R and F: below the thread's item or the item itself; what answers an item
\* that is gone becomes an item
Reply(x, fork) ==
  /\ KeepsFolds
  /\ Current \in Item
  /\ LET p == Parent(board, Current)
         to == IF fork \/ p \in Section THEN Current ELSE p
         mine == WithItem(board, to, x, TRUE)
     IN Saves(mine, At(Then(mine), x, cursor),
              IF Resolves(to, TRUE, TRUE) THEN WithItem(file, to, x, TRUE)
              ELSE Added(file, SectionOf(board, to), x, TRUE))

\* L
LogEntry(x) ==
  /\ KeepsFolds
  /\ LET mine == Added(board, Log, x, FALSE) IN Saves(mine, Stay(mine), Added(file, Log, x, FALSE))

\* space, b, ! and p
Set(S, x, on) == IF on THEN S \cup {x} ELSE S \ {x}
Mark ==
  /\ KeepsFolds
  /\ Current \in Item
  /\ LET on == Current \notin board.marked
     IN Saves([board EXCEPT !.marked = Set(@, Current, on)], cursor,
              IF Resolves(Current, TRUE, FALSE) THEN [file EXCEPT !.marked = Set(@, Current, on)] ELSE file)

\* e: a text whose item is gone is kept as a new item
EditItem ==
  /\ KeepsFolds
  /\ Current \in Item
  /\ LET x == Current
         on == x \notin board.reply
     IN \E y \in IF x \in OnBoard(file) THEN New(OnBoard(file)) ELSE {x} :
          Saves([board EXCEPT !.reply = Set(@, x, on)], cursor,
                IF Resolves(x, TRUE, TRUE) THEN [file EXCEPT !.reply = Set(@, x, on)]
                ELSE Added(file, SectionOf(board, x), y, on))

\* confirmAddSections: A, which jumps after saving; a name of one's own, which
\* jumps before
AddSection(s) ==
  /\ KeepsFolds
  /\ s \notin OnBoard(board)
  /\ Edits
  /\ Saved(WithSection(board, s), WithSection(file, s)) \/ Unsaved(WithSection(board, s))
  /\ Rebuilt
  /\ cursor' = Place(positions', s)
AddSectionNamed(s) ==
  /\ KeepsFolds
  /\ LET mine == WithSection(board, s) IN Saves(mine, Place(Then(mine), s), WithSection(file, s))

\* applySectionRename; migrateSectionState: its collapse goes with it
Renamed(b, s, t) ==
  [b EXCEPT !.kids = [x \in Thing |-> CASE x = t -> @[s] [] x = s -> <<>> [] x = Title -> ReplaceAll(@[x], s, t)
                                        [] OTHER -> @[x]],
            !.ids = IF s \in @ THEN (@ \ {s}) \cup {t} ELSE @]
Dropped(c, s) == [t \in DOMAIN c \ {s} |-> c[t]]
Migrated(c, s, t) == IF s \in DOMAIN c THEN Collapse(Dropped(c, s), t, c[s]) ELSE c
RenameSection(t) ==
  /\ Current \in Section
  /\ t \notin OnBoard(board)
  /\ collapsed' = Migrated(collapsed, Current, t)
  /\ folded' = folded
  /\ LET mine == Renamed(board, Current, t)
     IN Saves(mine, Clamped(cursor, Len(Stops(mine, raw, collapsed', folded))),
              IF Current \in OnBoard(file) /\ t \notin OnBoard(file) THEN Renamed(file, Current, t) ELSE file)

\* The others: something on top (in an editor) or at the end, something less,
\* something archived, reworded or marked; the op layer numbers what it finds.
Others(b) ==
  {Numbered(b)}
  \cup {[b EXCEPT !.kids[s] = <<x>> \o @] : s \in Section \cap OnBoard(b), x \in New(OnBoard(b))}
  \cup {Numbered(WithItem(b, p, x, TRUE)) : p \in Item \cap OnBoard(b), x \in New(OnBoard(b))}
  \cup {Numbered(Without(b, x)) : x \in OnBoard(b) \ {Title}}
  \cup {Numbered(WithArchived(b, x)) : x \in {y \in OnBoard(b) : Archivable(b, y)}}
  \cup {[b EXCEPT !.reply = Set(@, x, x \notin @)] : x \in Item \cap OnBoard(b)}
  \cup {[b EXCEPT !.marked = Set(@, x, x \notin @)] : x \in Item \cap OnBoard(b)}
OtherEdits ==
  /\ Counts
  /\ file' \in Others(file) \ {file}
  /\ UNCHANGED <<last, board, raw, folds, mem, positions, cursor>>

\* doReload: on the watcher's word, one's own saves included, and on r
Reload ==
  /\ <<file, Parsed(file)>> # <<board, raw>>
  /\ board' = file
  /\ raw' = Parsed(file)
  /\ last' = file
  /\ UNCHANGED <<file, folds, mem, left>>
  /\ Rebuilt
  /\ cursor' = Clamped(cursor, Len(positions'))
-----------------------------------------------------------------------------
Init ==
  /\ file \in Boards
  /\ last = file
  /\ board = file
  /\ raw = Parsed(file)
  /\ collapsed = <<>>
  /\ folded = {}
  /\ foldPrev = Nothing
  /\ mem = <<>>
  /\ positions = Stops(board, raw, collapsed, folded)
  /\ cursor = Clamped(0, Len(positions))
  /\ left = MaxSteps[board]

Next ==
  \/ \E d \in {-1, 1} : Step(d) \/ CycleSection(d)
  \/ Ends(1)
  \/ Ends(Len(positions))
  \/ \E s \in Section \cap OnBoard(board) : JumpToSection(s)
  \/ \E x \in OnBoard(board) \ {Title} : FromMap(x)
  \/ ToggleSection \/ ToggleItem \/ EnterSection \/ EnterItem \/ Leave \/ Zoom \/ Unzoom
  \/ \E x \in OnBoard(board) \cap Item : Jump(x)
  \/ DeleteItem \/ ArchiveItem \/ DeleteSection \/ ArchiveSection \/ Mark \/ EditItem
  \/ \E x \in New(OnBoard(board) \cup OnBoard(file)) : AddItem(x) \/ LogEntry(x) \/ \E fork \in BOOLEAN : Reply(x, fork)
  \/ \E s \in Section : AddSection(s) \/ AddSectionNamed(s) \/ RenameSection(s)
  \/ OtherEdits \/ Reload

Spec == Init /\ [][Next]_vars
-----------------------------------------------------------------------------
(* What holds *)

\* The cursor is on a stop, and nobody's line is known twice.
TypeOK ==
  /\ cursor \in 0 .. Len(positions)
  /\ cursor = 0 <=> board.kids[Title] = <<>>
  /\ \A x \in Item : x \notin OnBoard(board) => raw[x] = Nothing
  /\ \A x \in OnBoard(board) \cap Item : raw[x] # Nothing => raw[x].item = x
  /\ \A x \in Section : x \in DOMAIN collapsed => collapsed[x] # (x = Archive)

\* An edit leaves the cursor where it belongs: what follows what was removed in
\* its section, else what was before it; the new item, reply or section if it can
\* be seen.  So too when the save fails.  (When another writer was faster it need
\* not: see the README.)
Heir ==
  LET after == {i \in DOMAIN positions : i > cursor /\ positions[i] \notin Subtree(board, Current)}
      next == positions[Min(after)]
  IN IF after # {} /\ next \in Item /\ SectionOf(board, next) = SectionOf(board, Current)
     THEN next ELSE positions[cursor - 1]
\* a step that is an edit (others may also bring back what was last seen), and one
\* whose save failed
Edited == file' # file /\ last' = file' /\ (file = last \/ last' # last)
Failed == left' # left /\ board' # board /\ UNCHANGED <<file, last>>
Typed == OnBoard(board') \ OnBoard(board)
EditsLand ==
  [][(Edited /\ file = last) \/ Failed =>
       /\ DeleteItem \/ ArchiveItem => Current' = Heir
       /\ \A x \in Typed \cap Item :
            AddItem(x) \/ Reply(x, FALSE) \/ Reply(x, TRUE) =>
              Current' = IF x \in ToSet(positions') THEN x ELSE IF AddItem(x) THEN SectionOf(board', x) ELSE Current
       /\ \A s \in Section : AddSection(s) \/ AddSectionNamed(s) => Current' = s]_vars

\* No fold key moves the cursor off what it is on, but to go into a section and
\* to go up from what the undone zoom hides.
FoldingKeepsCursor ==
  [][<<collapsed, folded>>' # <<collapsed, folded>> /\ UNCHANGED tree /\ ~(\E x \in OnBoard(board) \cap Item : Jump(x)) =>
       \/ Current' = Current
       \/ EnterSection /\ Current' \in ToSet(board.kids[Current])
       \/ Unzoom /\ Current \notin ToSet(positions') /\ Current' = SectionOf(board, Current)]_vars

\* z shows the way to the cursor, what is around it, and one level of what is
\* below: nothing else of the section, and of the others the headers.
ZoomShowsOneLevel ==
  [][foldPrev' # foldPrev /\ Zoom => LET way == {Current} \cup {y \in OnBoard(board) : Current \in Subtree(board, y)}
             IN ToSet(positions') = ToSet(board.kids[Title]) \cup UNION {ToSet(board.kids[y]) : y \in way \ {Title}}]_vars

\* Search finds its match whatever is closed on the way.
JumpLands == [][left' # left /\ UNCHANGED tree => \A x \in OnBoard(board) \cap Item : Jump(x) => Current' = x]_vars

\* What an edit takes off the board is at or below the cursor's item or section:
\* off the screen when its save fails, out of the file when it finds what others
\* wrote there, whatever that is; and out of a file nobody touched, but for what
\* edits before it took off the screen without being saved.
Picked(b) == IF Current \in OnBoard(b) THEN Subtree(b, Current) ELSE {}
OnlyWhatWasPicked ==
  [][/\ Failed => OnBoard(board) \ OnBoard(board') \subseteq Picked(board)
     /\ Edited /\ file # last => OnBoard(file) \ OnBoard(file') \subseteq Picked(file)
     /\ Edited /\ file = last =>
          OnBoard(file) \ OnBoard(file') \subseteq Picked(board) \cup (OnBoard(file) \ OnBoard(board))]_vars

\* D is "exact-only: a line an external writer merely reworded ... is never
\* hard-deleted by mistake" (resolveTarget).  What is below the line is not looked
\* at, so this is not kept.
DeletesWhatIsShown ==
  [][Edited /\ file # last /\ DeleteItem =>
       \A y \in OnBoard(file) \ OnBoard(file') :
         /\ y \in OnBoard(board)
         /\ raw[y] # Nothing => (y \in file.reply) = raw[y].reply]_vars
=============================================================================
