------------------------------- MODULE MindMap -------------------------------
(***************************************************************************)
(* The map the terminal UI draws of a board (internal/tui/mapview.go,      *)
(* buildMapTree) and its center-outward layout (internal/mindmap).  A node *)
(* is the key of the thing it stands for.                                  *)
(***************************************************************************)
EXTENDS BoardTree, Integers

CONSTANT Lines   \* lines a thing's text fills when it is wrapped

ASSUME MapAssumption == Lines \in [Thing -> Nat \ {0}]

\* The fold of a key: "default" shows all but the replies, "collapsed"
\* nothing, "expanded" everything.
FoldAt(fold, key) == IF key \in DOMAIN fold THEN fold[key] ELSE "default"
Unfolded(fold, key) == [k \in DOMAIN fold \ {key} |-> fold[k]]
Folded(fold, key, st) ==
  IF st = "default" THEN Unfolded(fold, key)
  ELSE [k \in DOMAIN fold \cup {key} |-> IF k = key THEN st ELSE fold[k]]

\* nextFold: skips a state that would look the same
NextFold(b, x, cur) ==
  CASE HasReply(b, x) /\ HasOther(b, x) ->
         CASE cur = "default" -> "expanded" [] cur = "expanded" -> "collapsed" [] OTHER -> "default"
    [] HasReply(b, x) /\ ~HasOther(b, x) -> IF cur = "expanded" THEN "default" ELSE "expanded"
    [] ~HasReply(b, x) /\ HasOther(b, x) -> IF cur = "collapsed" THEN "default" ELSE "collapsed"
    [] OTHER -> cur

\* Does the map show the child c of the thing p, when it shows p at key?
Emits(b, fold, showLog, p, key, c) ==
  IF p = Title THEN c # Log \/ showLog
  ELSE /\ FoldAt(fold, key) # "collapsed"
       /\ c \in b.reply => FoldAt(fold, key) = "expanded"

\* buildMapTree: the children shown below key, in order
Below(b, fold, showLog, key) ==
  LET x == ThingAt(b, key)
      all == DOMAIN b.kids[x]
  IN Among([i \in all |-> Append(key, i)],
           {Append(key, i) : i \in {j \in all : Emits(b, fold, showLog, x, key, b.kids[x][j])}})

\* everything it shows
Shown(b, fold, showLog) ==
  {k \in {KeyOf(b, x) : x \in OnBoard(b)} :
     \A n \in 1 .. Len(k) : LET up == SubSeq(k, 1, n - 1)
                            IN Emits(b, fold, showLog, ThingAt(b, up), up, ThingAt(b, SubSeq(k, 1, n)))}
-----------------------------------------------------------------------------
(* Layout.  kids: the children below each node that is shown; tall: the    *)
(* nodes whose text is wrapped.                                            *)

\* weight: the leaves below
Weight(kids, k) == Cardinality({l \in DOMAIN kids : IsPrefix(k, l) /\ kids[l] = <<>>})

\* splitSides: heaviest first onto the lighter side, ties to the left, but
\* the first of all to the right
Sides(kids, ring) ==
  LET w(i) == Weight(kids, ring[i])
      byWeight == SetToSortSeq(DOMAIN ring, LAMBDA i, j : w(i) > w(j) \/ (w(i) = w(j) /\ i < j))
      put(acc, i) == IF acc.right = {} \/ acc.r < acc.l
                     THEN [acc EXCEPT !.right = @ \cup {ring[i]}, !.r = @ + w(i)]
                     ELSE [acc EXCEPT !.l = @ + w(i)]
  IN FoldLeft(put, [right |-> {}, r |-> 0, l |-> 0], byWeight).right

\* height: the rows of a node with what is below it
HeightBelow(own, below) == IF below = 0 THEN own ELSE below
Height(own, below) == IF below > own THEN below ELSE own

\* the rows that the first n of the nodes s take, with what is below them
RowsOf(height, s, n) ==
  LET rows[i \in 0 .. n] == IF i = 0 THEN 0 ELSE rows[i - 1] + height[s[i]] IN rows[n]
AllRowsOf(height, s) == RowsOf(height, s, Len(s))

Heights(kids, own) ==
  LET height[k \in DOMAIN own] == Height(own[k], AllRowsOf(height, kids[k])) IN height

\* LayoutTreeOpts: the side of every node of the map rooted at root
SideOf(kids, root) ==
  LET right == Sides(kids, kids[root])
  IN [k \in {l \in DOMAIN kids : IsPrefix(root, l)} |->
        IF k = root THEN 0 ELSE IF SubSeq(k, 1, Len(root) + 1) \in right THEN 1 ELSE -1]

\* the nodes that are stacked with k
Stack(kids, side, k) == Among(kids[Above(k)], {c \in DOMAIN side : side[c] = side[k]})

\* placeNode: row0 of every node but the root, whose stacks are centered on row 0
Tops(kids, root, side, height) ==
  LET top[k \in DOMAIN side \ {root}] ==
        LET s == Stack(kids, side, k)
        IN RowsOf(height, s, Place(s, k) - 1)
           + IF Above(k) = root THEN - ((AllRowsOf(height, s) - 1) \div 2) ELSE top[Above(k)]
  IN top

\* placeNode: the row a node is centered on, its own block's or between its first
\* and its last child
Centers(kids, root, top, own) ==
  LET row[k \in DOMAIN own] ==
        IF k = root THEN 0
        ELSE IF kids[k] = <<>> THEN top[k] + (own[k] - 1) \div 2
        ELSE (row[Head(kids[k])] + row[Last(kids[k])]) \div 2
  IN row

\* nodeHeight, and the rows of all nodes
Layout(b, kids, root, side, tall) ==
  LET own == [k \in DOMAIN side |-> IF k \in tall THEN Lines[ThingAt(b, k)] ELSE 1]
  IN [row |-> Centers(kids, root, Tops(kids, root, side, Heights(kids, own)), own), own |-> own]

\* the first row of a node's block of text
FirstRow(l, k) == l.row[k] - (l.own[k] - 1) \div 2
=============================================================================
