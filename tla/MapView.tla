------------------------------- MODULE MapView -------------------------------
(***************************************************************************)
(* The map view of the terminal UI: focus, folds, zoom (re-rooting), the   *)
(* memory of where one came from, and the edits made from the map, while   *)
(* other writers change the board under it.                                *)
(*                                                                         *)
(* Every key ends in a repaint, which rebuilds a dropped map at once       *)
(* (viewMap calls ensureMap), so each action ends with the map Built from  *)
(* what it left.  All that the map remembers is keyed by places; only the  *)
(* zoom also has the durable id of its root.  The outline is the           *)
(* environment here: it hands over any cursor (Outline has its side).      *)
(***************************************************************************)
EXTENDS MindMap

CONSTANTS
  Boards,    \* boards to start from
  MaxEdits,  \* bound: changes of the board
  MaxLooks   \* bound, for each board: folds, zooms, wraps, jumps and branches to remember

ASSUME ViewAssumption ==
  /\ MaxEdits \in Nat
  /\ MaxLooks \in [Boards -> Nat]
  /\ \A b \in Boards : IsTree(b)

VARIABLES
  board,     \* model.board
  fold,      \* model.mapFold
  foldPrev,  \* model.mapFoldPrev: the folds before z, or Nothing
  showLog,   \* model.mapShowLog
  tall,      \* model.mapExpanded
  mem,       \* model.mapChildMem
  cursor,    \* what the outline's cursor is on, Nothing while the map is shown
  view,      \* model.mapFocusKey, mapFocusRoot(ID), and the built map, model.mp
  edits,     \* how many so far
  looks      \* how many are left

folds == <<fold, foldPrev, showLog, tall>>
vars == <<board, folds, mem, cursor, view, edits, looks>>

inMap == cursor = Nothing
Looks == inMap /\ looks > 0 /\ looks' = looks - 1 /\ UNCHANGED <<mem, cursor, edits>>

Whole == [key |-> <<>>, id |-> Nothing]
Zoom(b, key) == LET x == ThingAt(b, key)
                IN [key |-> key, id |-> IF x \in b.ids THEN x ELSE Nothing]

\* ensureMap: where the zoom's id is now, the whole board when its root is not
\* shown; the focus, or the root when the focus is not in the picture
Rekeyed(b, zoom) ==
  IF zoom.id = Nothing THEN zoom
  ELSE IF zoom.id \in OnBoard(b) THEN [zoom EXCEPT !.key = KeyOf(b, zoom.id)] ELSE Whole

Built(b, f, log, wrapped, focus, zoom) ==
  LET shown == Shown(b, f, log)
      kids == [k \in shown |-> Below(b, f, log, k)]
      z == IF Rekeyed(b, zoom).key \in shown THEN Rekeyed(b, zoom) ELSE Whole
      side == SideOf(kids, z.key)
      l == Layout(b, kids, z.key, side, wrapped)
  IN [focus |-> IF focus \in DOMAIN side THEN focus ELSE z.key,
      zoom |-> z, kids |-> kids, side |-> side, row |-> l.row, own |-> l.own]

Root == view.zoom.key
Focused == ThingAt(board, view.focus)
Siblings(k) == IF k = Root THEN <<k>>
               ELSE Among(view.kids[Above(k)], {c \in DOMAIN view.side : view.side[c] = view.side[k]})

PreferredAnySide(v, p, side, first) ==
  IF <<p, side>> \in DOMAIN mem /\ mem[<<p, side>>] \in ToSet(v.kids[p]) THEN mem[<<p, side>>] ELSE first

\* preferredChild
Preferred(v, p, side, first) ==
  IF /\ <<p, side>> \in DOMAIN mem
     /\ mem[<<p, side>>] \in ToSet(v.kids[p])
     /\ v.side[mem[<<p, side>>]] = side
  THEN mem[<<p, side>>] ELSE first
-----------------------------------------------------------------------------
(* Moving *)

FocusOn(k) ==
  /\ view' = [view EXCEPT !.focus = k]
  /\ UNCHANGED <<board, folds, mem, cursor, edits, looks>>

\* mapVertical: j (1), k (-1)
NextSibling(k, d) ==
  LET s == Siblings(k)
      at == Place(s, k) + d
  IN IF at \in DOMAIN s THEN s[at] ELSE k
Vertical(d) == inMap /\ view.focus # Root /\ FocusOn(NextSibling(view.focus, d))

\* centerVertical: to the nearest row that way
CenterVertical(d) ==
  /\ inMap
  /\ view.focus = Root
  /\ LET ring == view.kids[Root]
         far(i) == d * view.row[ring[i]]
         that == {i \in DOMAIN ring : far(i) > 0}
     IN IF that = {} THEN FocusOn(Root)
        ELSE \E i \in that : /\ \A j \in that : far(i) < far(j) \/ (far(i) = far(j) /\ i <= j)
                             /\ FocusOn(ring[i])

\* mapLateral: l (1), h (-1), away from the center into the branch one came from
Enters(k, d) == view.kids[k] # <<>> /\ (k = Root => \E c \in ToSet(view.kids[k]) : view.side[c] = d)
Entered(k, d) ==
  Preferred(view, k, d, Head(Among(view.kids[k], {c \in DOMAIN view.side : view.side[c] = d})))
Descend(d) ==
  /\ inMap
  /\ view.side[view.focus] \in {0, d}
  /\ Enters(view.focus, d)
  /\ FocusOn(Entered(view.focus, d))

\* mapLateral towards the center: the parent remembers the child
Ascend(d) ==
  /\ inMap
  /\ view.side[view.focus] = -d
  /\ LET at == <<Above(view.focus), -d>>
     IN /\ IF at \in DOMAIN mem THEN UNCHANGED looks ELSE looks > 0 /\ looks' = looks - 1
        /\ mem' = [x \in DOMAIN mem \cup {at} |-> IF x = at THEN view.focus ELSE mem[x]]
  /\ view' = [view EXCEPT !.focus = Above(@)]
  /\ UNCHANGED <<board, folds, cursor, edits>>

\* mapFocusSiblingEnd: g, G
SiblingEnd(last) ==
  /\ inMap
  /\ view.focus # Root
  /\ LET s == Siblings(view.focus) IN FocusOn(IF last THEN Last(s) ELSE Head(s))

\* the sections in the picture
SectionRing == Among([i \in DOMAIN board.kids[Title] |-> <<i>>], DOMAIN view.side)

\* mapJumpToSection: 1 to 9
JumpToSection(i) == inMap /\ <<i>> \in ToSet(SectionRing) /\ FocusOn(<<i>>)

\* mapCycleSection: tab, shift-tab
CycleSection(d) ==
  /\ inMap
  /\ SectionRing # <<>>
  /\ LET n == Len(SectionRing)
         here == {i \in 1 .. n : IsPrefix(SectionRing[i], view.focus)}
         next == IF here = {} THEN IF d > 0 THEN 1 ELSE n
                 ELSE (((CHOOSE i \in here : TRUE) + d + n - 1) % n) + 1
     IN FocusOn(SectionRing[next])
-----------------------------------------------------------------------------
(* Folding and zooming *)

Refold(f, v) ==
  /\ Looks
  /\ fold' = f
  /\ view' = v
  /\ UNCHANGED <<board, foldPrev, showLog, tall>>

\* expandInto: descending where nothing is shown unfolds first
ExpandInto(d) ==
  /\ inMap
  /\ view.focus # Root
  /\ view.side[view.focus] = d
  /\ view.kids[view.focus] = <<>>
  /\ board.kids[Focused] # <<>>
  /\ LET k == view.focus
         st == IF HasOther(board, Focused) THEN "default" ELSE "expanded"
         f == Folded(fold, k, st)
         v == Built(board, f, showLog, tall, k, view.zoom)
     IN /\ FoldAt(fold, k) # "expanded"
        /\ FoldAt(fold, k) = "default" => ~HasOther(board, Focused)
        /\ Refold(f, [v EXCEPT !.focus = IF v.kids[k] = <<>> THEN k
                                         ELSE Preferred(v, k, v.side[k], Head(v.kids[k]))])

\* mapToggleFold: enter
ToggleFold ==
  /\ inMap
  /\ Focused # Title
  /\ board.kids[Focused] # <<>>
  /\ LET f == Folded(fold, view.focus, NextFold(board, Focused, FoldAt(fold, view.focus)))
     IN Refold(f, Built(board, f, showLog, tall, view.focus, view.zoom))

OnlyTheWayDown(b, root, focus) ==
  LET at(x) == KeyOf(b, x)
      some == {x \in OnBoard(b) \ {Title} : b.kids[x] # <<>> /\ IsPrefix(root, at(x))}
  IN [k \in {at(x) : x \in some} |-> IF IsStrictPrefix(k, focus) THEN "expanded" ELSE "collapsed"]

\* mapFocusFoldToggle: z folds all but the way to the focus, and back again
OnlyTheWay(b, root, focus) ==
  LET at(x) == KeyOf(b, x)
      some == {x \in OnBoard(b) \ {Title} : b.kids[x] # <<>> /\ IsPrefix(root, at(x))}
  IN [k \in {at(x) : x \in some} |-> IF IsPrefix(k, focus) /\ IsPrefix(root, k) THEN "expanded" ELSE "collapsed"]
FocusFold ==
  /\ Looks
  /\ foldPrev = Nothing
  /\ foldPrev' = fold
  /\ fold' = OnlyTheWay(board, Root, view.focus)
  /\ view' = Built(board, fold', showLog, tall, view.focus, view.zoom)
  /\ UNCHANGED <<board, showLog, tall>>
FocusUnfold ==
  /\ Looks
  /\ foldPrev # Nothing
  /\ foldPrev' = Nothing
  /\ fold' = foldPrev
  /\ view' = Built(board, fold', showLog, tall, view.focus, view.zoom)
  /\ UNCHANGED <<board, showLog, tall>>

\* mapToggleExpand: w
ToggleTall ==
  /\ Looks
  /\ tall' = IF view.focus \in tall THEN tall \ {view.focus} ELSE tall \cup {view.focus}
  /\ view' = Built(board, fold, showLog, tall', view.focus, view.zoom)
  /\ UNCHANGED <<board, fold, foldPrev, showLog>>

\* M
ToggleLog ==
  /\ Looks
  /\ showLog' = ~showLog
  /\ view' = Built(board, fold, showLog', tall, view.focus, view.zoom)
  /\ UNCHANGED <<board, fold, foldPrev, tall>>

\* focusIn: f
FocusIn ==
  /\ inMap
  /\ Focused # Title
  /\ view.focus # Root
  /\ board.kids[Focused] # <<>>
  /\ LET k == view.focus
         f == IF FoldAt(fold, k) = "collapsed" THEN Unfolded(fold, k) ELSE fold
         v == Built(board, f, showLog, tall, k, Zoom(board, k))
     IN Refold(f, [v EXCEPT !.focus = IF v.kids[k] = <<>> THEN k ELSE Head(v.kids[k])])

\* focusOut: esc
FocusOut ==
  /\ Looks
  /\ Root # <<>>
  /\ view' = Built(board, fold, showLog, tall, Root, Zoom(board, Above(Root)))
  /\ UNCHANGED <<board, folds>>
-----------------------------------------------------------------------------
(* Editing.  A local save or rebase keeps what the keys remember. *)

Writes(b) == edits < MaxEdits /\ edits' = edits + 1 /\ board' = b /\ UNCHANGED <<folds, mem, looks>>
Edited(b, focus, zoom) ==
  /\ Writes(b)
  /\ view' = Built(b, fold, showLog, tall, focus, zoom)
  /\ UNCHANGED cursor

RemovalFocusUnshifted ==
  LET k == view.focus
      sibs == view.kids[Above(k)]
      at == Place(sibs, k)
  IN IF k = Root THEN Above(k)
     ELSE IF at < Len(sibs) THEN sibs[at + 1]
     ELSE IF at > 1 THEN sibs[at - 1]
     ELSE Above(k)

\* mapRemovalFocusKey: the next sibling, one place up; the previous; the parent
RemovalFocus ==
  LET k == view.focus
      sibs == view.kids[Above(k)]
      at == Place(sibs, k)
      up(s) == [s EXCEPT ![Len(s)] = @ - 1]
  IN IF k = Root THEN Above(k)
     ELSE IF at < Len(sibs) THEN up(sibs[at + 1])
     ELSE IF at > 1 THEN sibs[at - 1]
     ELSE Above(k)

\* any item that is not on the board
New == LET off == Item \ OnBoard(board) IN IF off = {} THEN {} ELSE {CHOOSE x \in off : TRUE}

\* mapDelete
DeleteItem ==
  /\ inMap
  /\ Focused \in Item
  /\ Edited(Without(board, Focused), RemovalFocus, view.zoom)
DeleteSection ==
  /\ inMap
  /\ Focused \in Section
  /\ Edited(Without(board, Focused), <<>>, Whole)

\* mapArchive, mapArchiveSection
ArchiveItem ==
  /\ inMap
  /\ Focused \in Item
  /\ Archivable(board, Focused)
  /\ Edited(WithArchived(board, Focused), RemovalFocus, view.zoom)
ArchiveSection ==
  /\ inMap
  /\ Focused \in Section \ {Archive, Log}
  /\ Edited(WithSectionArchived(board, Focused), <<>>, view.zoom)

\* startMapAdd, startMapAddSibling and handleMapInputKey: below an item the
\* human speaks in the thread, below a section it is an item
Added(p, x) == WithItem(board, p, x, p \in Item)
AddChild(x) ==
  /\ inMap
  /\ Focused # Title
  /\ Edited(Added(Focused, x), view.focus, view.zoom)
AddSibling(x) ==
  /\ inMap
  /\ Focused # Title
  /\ LET p == IF Focused \in Item /\ view.focus # Root THEN Parent(board, Focused) ELSE SectionOf(board, Focused)
     IN Edited(Added(p, x), view.focus, view.zoom)
AddSection(s) ==
  /\ inMap
  /\ Focused = Title
  /\ Edited(WithSection(board, s), view.focus, view.zoom)

\* e: the new text may read as a reply, or no longer
EditText ==
  /\ inMap
  /\ Focused \in Item
  /\ Edited([board EXCEPT !.reply = IF Focused \in @ THEN @ \ {Focused} ELSE @ \cup {Focused}],
            view.focus, view.zoom)

\* Another writer, or the outline: something is added on top (in an editor),
\* removed, archived; the op layer numbers what it finds.
OutsideEdits(b, x) ==
  LET p == IF x \in OnBoard(b) THEN {} ELSE {s \in Section : s \in OnBoard(b)}
  IN {Numbered(b)}
     \cup {[b EXCEPT !.kids[s] = <<x>> \o @] : s \in p}
     \cup {Numbered(Without(b, x)) : y \in {x} \cap OnBoard(b)}
     \cup {Numbered(WithArchived(b, x)) : y \in {z \in {x} \cap OnBoard(b) : Archivable(b, z)}}
Reload(x) ==
  \E b \in OutsideEdits(board, x) :
    IF inMap THEN Edited(b, view.focus, view.zoom)
    ELSE /\ Writes(b)
         /\ cursor' \in OnBoard(b) \ {Title}
         /\ UNCHANGED view
-----------------------------------------------------------------------------
(* To and from the other view, and search *)

RevealedNot(b, f, key) == f

\* revealKey: nothing on the way may be folded away
Revealed(b, f, key) ==
  LET ups == {SubSeq(key, 1, n) : n \in 0 .. Len(key) - 1}
      replied == {k \in ups : ThingAt(b, SubSeq(key, 1, Len(k) + 1)) \in b.reply}
      opened == {k \in ups \ replied : FoldAt(f, k) = "collapsed"}
  IN [k \in (DOMAIN f \cup replied) \ opened |-> IF k \in replied THEN "expanded" ELSE f[k]]

\* enterMap: m in the outline
EnterMap ==
  /\ ~inMap
  /\ cursor' = Nothing
  /\ LET k == KeyOf(board, cursor)
         zoom == IF IsPrefix(view.zoom.key, k) THEN view.zoom ELSE Whole
     IN /\ fold' = Revealed(board, fold, k)
        /\ view' = Built(board, fold', showLog, tall, k, zoom)
  /\ UNCHANGED <<board, foldPrev, showLog, tall, mem, edits, looks>>

\* exitMap: m in the map, and what the outline then does.  The zoom is kept; the
\* focus will be overwritten and the map rebuilt on the way back.
Stored(zoom) == [focus |-> <<>>, zoom |-> zoom, kids |-> <<>>, side |-> <<>>, row |-> <<>>, own |-> <<>>]
ExitMap(x) ==
  /\ inMap
  /\ cursor' = x
  /\ view' = Stored(view.zoom)
  /\ UNCHANGED <<board, folds, mem, edits, looks>>

\* jumpToMatch, from search (enter, n, N) and the list of recent changes: the
\* zoom's key is given up, its id is not
Jump(x) ==
  /\ inMap
  /\ LET k == KeyOf(board, x)
         zoom == IF IsPrefix(Root, k) THEN view.zoom ELSE [view.zoom EXCEPT !.key = <<>>]
         f == Revealed(board, fold, k)
     IN Refold(f, Built(board, f, showLog, tall, k, zoom))
-----------------------------------------------------------------------------
Init ==
  /\ board \in Boards
  /\ fold = <<>>
  /\ foldPrev = Nothing
  /\ showLog = FALSE
  /\ tall = {}
  /\ mem = <<>>
  /\ cursor \in OnBoard(board) \ {Title}
  /\ view = Stored(Whole)
  /\ edits = 0
  /\ looks = MaxLooks[board]

Next ==
  \/ \E d \in {-1, 1} : \/ Vertical(d) \/ CenterVertical(d) \/ Descend(d) \/ Ascend(d)
                        \/ ExpandInto(d) \/ CycleSection(d)
  \/ \E last \in BOOLEAN : SiblingEnd(last)
  \/ \E i \in DOMAIN board.kids[Title] : JumpToSection(i)
  \/ ToggleFold \/ FocusFold \/ FocusUnfold \/ ToggleTall \/ ToggleLog \/ FocusIn \/ FocusOut
  \/ DeleteItem \/ DeleteSection \/ ArchiveItem \/ ArchiveSection \/ EditText
  \/ \E x \in New : AddChild(x) \/ AddSibling(x)
  \/ \E s \in Section \ OnBoard(board) : AddSection(s)
  \/ \E x \in New \cup (Item \cap OnBoard(board)) : Reload(x)
  \/ EnterMap
  \/ \E x \in OnBoard(board) \ {Title} : ExitMap(x)
  \/ \E x \in OnBoard(board) \cap Item : Jump(x)

Spec == Init /\ [][Next]_vars
-----------------------------------------------------------------------------
(* What holds *)

\* The focus and the zoom's root are in the picture, and nothing is placed twice.
TypeOK ==
  /\ inMap => view.focus \in DOMAIN view.side /\ Root \in DOMAIN view.side
  /\ DOMAIN view.side \subseteq DOMAIN view.kids
  /\ inMap => \A k \in DOMAIN view.kids : ThingAt(board, k) # Nothing
  /\ inMap => \A k \in DOMAIN fold : FoldAt(fold, k) \in {"collapsed", "expanded"}

\* After d or D the focus is on what took the item's place: the next sibling in
\* the picture, else the one before, else the parent.  (A zoomed root has no
\* sibling in the picture.  Creating Archive moves Log and what comes after it:
\* see the README.)
Heir ==
  LET sibs == view.kids[Above(view.focus)]
      at == Place(sibs, view.focus)
  IN ThingAt(board, IF at < Len(sibs) THEN sibs[at + 1]
                    ELSE IF at > 1 THEN sibs[at - 1] ELSE Above(view.focus))
MovesItsSection ==
  /\ Log \in OnBoard(board) /\ Archive \notin OnBoard(board)
  /\ Place(board.kids[Title], Log) <= view.focus[1]
RemovalLands ==
  [][edits' # edits /\ (DeleteItem \/ (ArchiveItem /\ ~MovesItsSection)) /\ view.focus # Root
       => ThingAt(board', view'.focus) = Heir]_vars

\* Every node in the picture can be reached from the center with h, j, k and l,
\* whatever the map remembers.
StepsFrom(k) ==
  {NextSibling(k, d) : d \in {-1, 1}}
  \cup {Entered(k, d) : d \in {e \in {-1, 1} : view.side[k] \in {0, e} /\ Enters(k, e)}}
AllReachable ==
  inMap =>
    LET near[n \in 0 .. Cardinality(DOMAIN view.side)] ==
          IF n = 0 THEN {Root} ELSE near[n - 1] \cup UNION {StepsFrom(k) : k \in near[n - 1]}
    IN near[Cardinality(DOMAIN view.side)] = DOMAIN view.side

\* The picture is true to the tree: of two nodes on one side, neither below the
\* other, the one that comes first in the board ends above the row where the
\* other begins (so j goes down, and no text is drawn over another).  Only a node
\* that is wrapped over three rows or more with children below it may leave its
\* rows: it is centered on its children, not in the rows kept for it (see the
\* README).
Earlier(k, l) ==
  \E n \in DOMAIN k \cap DOMAIN l : SubSeq(k, 1, n - 1) = SubSeq(l, 1, n - 1) /\ k[n] < l[n]
Stacked(nodes) ==
  \A k, l \in nodes :
    view.side[k] = view.side[l] /\ Earlier(k, l)
      => FirstRow(view, k) + view.own[k] <= FirstRow(view, l)
StackedInOrder ==
  inMap => Stacked({k \in DOMAIN view.side : view.own[k] <= 2 \/ view.kids[k] = <<>>})

\* The same of every node, as placeNode's comment has it ("with its subtree rows
\* in [row0, row0+height)").
AllStackedInOrder == inMap => Stacked(DOMAIN view.side)

\* The map opens on what the outline's cursor was on, except in a hidden log, or
\* when its zoom has moved in the meantime (see the README).
MapOpensOnCursor ==
  [][/\ ~inMap /\ inMap'
     /\ SectionOf(board, cursor) # Log \/ showLog
     /\ Rekeyed(board, view.zoom) = view.zoom
     => ThingAt(board, view'.focus) = cursor]_vars

\* z keeps the focus, and opens it by exactly one level.  (Below a zoom into a
\* thread it does not: it drops the fold that showed the root.)
InThread(key) == \E n \in 1 .. Len(key) : ThingAt(board, SubSeq(key, 1, n)) \in board.reply
ZoomFoldKeepsPlace ==
  [][foldPrev' # foldPrev /\ FocusFold /\ ~InThread(Root) =>
       /\ view'.focus = view.focus
       /\ view.focus # Root => {k \in DOMAIN view'.kids : IsStrictPrefix(view.focus, k)}
            = {Append(view.focus, i) : i \in DOMAIN board.kids[Focused]}]_vars

\* Search jumps to the match (jumpToMatch: "moves the active view onto item it,
\* revealing it").  It does not out of a zoom with a durable id.
JumpLands ==
  [][looks' # looks =>
       \A x \in OnBoard(board) \cap Item :
         Jump(x) /\ (SectionOf(board, x) # Log \/ showLog) => ThingAt(board, view'.focus) = x]_vars
=============================================================================
