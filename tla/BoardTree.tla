------------------------------ MODULE BoardTree ------------------------------
(***************************************************************************)
(* The board as the two views of the terminal UI walk it: sections in      *)
(* order, items and replies nested below them.  Lines that are no items    *)
(* are no node of any view and are left out (BoardOps has them).           *)
(*                                                                         *)
(* The views address a node by its place: the empty key is the title, <<i>>*)
(* the i-th section, <<i, j, k>> the k-th item below the j-th item of the  *)
(* i-th section.                                                           *)
(***************************************************************************)
EXTENDS Naturals, SequencesExt

CONSTANTS
  Section,  \* titles
  Item,     \* items, replies included
  Title,    \* the board's title: the node above the sections
  Log,      \* two of the titles are special
  Archive,
  Nothing   \* no node

ASSUME TreeAssumption ==
  /\ {Log, Archive} \subseteq Section
  /\ Section \cap Item = {}
  /\ Title \notin Section \cup Item
  /\ Nothing \notin Section \cup Item \cup {Title}

Thing == {Title} \cup Section \cup Item

\* A board: the children of everything on it, in order; which items read as
\* replies ("user:", "claude:"); which are marked (status, urgency, pin); what
\* carries a durable id.
Parent(b, x) == CHOOSE p \in Thing : x \in ToSet(b.kids[p])
Place(s, x) == CHOOSE i \in DOMAIN s : s[i] = x
OnBoard(b) == {Title} \cup UNION {ToSet(b.kids[x]) : x \in Thing}

\* What parsing makes of any file: sections below the title, items below them
\* and below one another, each in one place, nothing below what is not there.
IsTree(b) ==
  /\ b \in [kids : [Thing -> Seq(Section \cup Item)], reply : SUBSET Thing,
             marked : SUBSET Thing, ids : SUBSET Thing]
  /\ ToSet(b.kids[Title]) \subseteq Section
  /\ \A x \in Section \cup Item : ToSet(b.kids[x]) \subseteq Item
  /\ \A x \in Thing : IsInjective(b.kids[x])
  /\ \A x, y \in Thing : x # y => ToSet(b.kids[x]) \cap ToSet(b.kids[y]) = {}
  /\ \A x \in Thing \ OnBoard(b) : b.kids[x] = <<>>
  /\ IsFiniteSet(OnBoard(b))
  /\ \A S \in (SUBSET Item) \ {{}} :
       /\ \E x \in S : \A y \in S : x \notin ToSet(b.kids[y])
       /\ \E x \in S : \A y \in S : y \notin ToSet(b.kids[x])

\* The elements of s that are in T, in order.
Among(s, T) ==
  LET kept[n \in 0 .. Len(s)] ==
        IF n = 0 THEN <<>> ELSE IF s[n] \in T THEN Append(kept[n - 1], s[n]) ELSE kept[n - 1]
  IN kept[Len(s)]

\* itemMapKey, keyForItemIn
KeyOf(b, x) ==
  LET key[y \in OnBoard(b)] == IF y = Title THEN <<>>
                               ELSE LET p == Parent(b, y) IN Append(key[p], Place(b.kids[p], y))
  IN key[x]

\* itemForKey: Nothing when the path leaves the board
ThingAt(b, key) ==
  LET at[n \in 0 .. Len(key)] ==
        IF n = 0 THEN Title
        ELSE IF at[n - 1] # Nothing /\ key[n] \in DOMAIN b.kids[at[n - 1]]
             THEN b.kids[at[n - 1]][key[n]] ELSE Nothing
  IN at[Len(key)]

Subtree(b, x) ==
  LET below[y \in Thing] == {y} \cup UNION {below[c] : c \in ToSet(b.kids[y])} IN below[x]
SectionOf(b, x) ==
  LET up[y \in OnBoard(b) \ {Title}] == IF y \in Section THEN y ELSE up[Parent(b, y)] IN up[x]

\* parentKeyOf
Above(key) == IF key = <<>> THEN <<>> ELSE Front(key)

\* countReplies, hasNonReplyChild
HasReply(b, x) == \E c \in ToSet(b.kids[x]) : c \in b.reply
HasOther(b, x) == \E c \in ToSet(b.kids[x]) : c \notin b.reply
-----------------------------------------------------------------------------
(* The operations of a board that the views call *)

\* Remove, RemoveSection: with everything below
Without(b, x) ==
  LET gone == Subtree(b, x)
      p == Parent(b, x)
  IN [b EXCEPT !.kids = [y \in Thing |-> IF y \in gone THEN <<>>
                                          ELSE IF y = p THEN RemoveFirst(@[y], x) ELSE @[y]],
               !.reply = @ \ gone, !.marked = @ \ gone, !.ids = @ \ gone]

\* AddItem to a section, AddReply below an item: at the end, without an id
WithItem(b, p, x, reply) ==
  [b EXCEPT !.kids[p] = Append(@, x), !.reply = IF reply THEN @ \cup {x} ELSE @]

\* AddSection: above Log, if there is one
WithSection(b, s) ==
  LET all == b.kids[Title]
      at == IF Log \in ToSet(all) THEN Place(all, Log) ELSE Len(all) + 1
  IN IF s \in ToSet(all) THEN b ELSE [b EXCEPT !.kids[Title] = InsertAt(@, at, s)]

\* ArchiveItem: with everything below to the end of Archive
Archivable(b, x) == x \in Item /\ SectionOf(b, x) # Archive
WithArchived(b, x) ==
  LET p == Parent(b, x)
  IN [WithSection([b EXCEPT !.kids[p] = RemoveFirst(@, x)], Archive) EXCEPT !.kids[Archive] = Append(@, x)]

\* ArchiveSection: its items to the end of Archive
WithSectionArchived(b, s) ==
  LET c == WithSection(b, Archive)
  IN [c EXCEPT !.kids[Archive] = @ \o b.kids[s], !.kids[s] = <<>>,
               !.kids[Title] = RemoveFirst(@, s), !.ids = @ \ {s}]

\* EnsureIDs
Numbered(b) == [b EXCEPT !.ids = OnBoard(b) \ {Title}]
=============================================================================
