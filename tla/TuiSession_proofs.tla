--------------------------- MODULE TuiSession_proofs ---------------------------
(***************************************************************************)
(* What TLAPS proves of the terminal UI on a local board, for any set of   *)
(* lines, any limit of its two histories, with and without faults.         *)
(***************************************************************************)
EXTENDS TuiSession, SequenceTheorems, TLAPS

-----------------------------------------------------------------------------
(* The stacks of the undo journal.                                         *)

\* Trimming keeps a sequence of entries and bounds it.
LEMMA TrimType ==
  ASSUME NEW S, NEW s \in Seq(S)
  PROVE  /\ Trim(s) \in Seq(S)
         /\ Len(Trim(s)) <= UndoLimit
         /\ \A i \in 1..Len(Trim(s)) : \E k \in 1..Len(s) : Trim(s)[i] = s[k]
<1> USE UndoLimitAssumption
<1>1. CASE Len(s) <= UndoLimit
  BY <1>1 DEF Trim
<1>2. CASE Len(s) > UndoLimit
  <2> DEFINE m == Len(s) - UndoLimit + 1
  <2>1. m \in 1..Len(s) /\ Len(s) \in Nat
    BY <1>2
  <2>2. Trim(s) = SubSeq(s, m, Len(s))
    BY <1>2 DEF Trim
  <2>3. /\ SubSeq(s, m, Len(s)) \in Seq(S)
        /\ Len(SubSeq(s, m, Len(s))) = UndoLimit
        /\ \A i \in 1..UndoLimit : SubSeq(s, m, Len(s))[i] = s[m + i - 1]
    BY <2>1
  <2>4. \A i \in 1..UndoLimit : m + i - 1 \in 1..Len(s)
    BY <2>1
  <2>5. \A i \in 1..UndoLimit : Trim(s)[i] = s[m + i - 1]
    BY <2>2, <2>3
  <2>6. \A i \in 1..UndoLimit : \E k \in 1..Len(s) : Trim(s)[i] = s[k]
    BY <2>4, <2>5
  <2> HIDE DEF m
  <2> QED
    BY <2>2, <2>3, <2>6
<1> QED
  BY <1>1, <1>2

\* Popping a non-empty stack: its top and what is under it.
LEMMA PopType ==
  ASSUME NEW S, NEW s \in Seq(S), s # <<>>
  PROVE  /\ Last(s) \in S
         /\ Front(s) \in Seq(S)
         /\ Len(Front(s)) = Len(s) - 1
         /\ Len(s) \in Nat \ {0}
         /\ \A i \in 1..Len(s) - 1 : Front(s)[i] = s[i]
<1>1. Len(s) \in Nat \ {0} /\ \A i \in 1..Len(s) : s[i] \in S
  BY EmptySeq, ElementOfSeq
<1>2. /\ SubSeq(s, 1, Len(s) - 1) \in Seq(S)
      /\ Len(SubSeq(s, 1, Len(s) - 1)) = Len(s) - 1
      /\ \A i \in 1..Len(s) - 1 : SubSeq(s, 1, Len(s) - 1)[i] = s[i]
  <2> DEFINE n == Len(s) - 1
  <2>1. n \in Int /\ \A i \in 1..n : s[i] \in S
    BY <1>1
  <2>2. n \in Nat /\ n - 1 + 1 = n /\ (IF 1 <= n THEN n - 1 + 1 ELSE 0) = n
    BY <1>1
  <2>3. \A i \in 1..n : 1 + i - 1 = i
    BY <2>1
  <2> HIDE DEF n
  <2>4. /\ SubSeq(s, 1, n) \in Seq(S)
        /\ Len(SubSeq(s, 1, n)) = IF 1 <= n THEN n - 1 + 1 ELSE 0
        /\ \A i \in 1 .. n - 1 + 1 : SubSeq(s, 1, n)[i] = s[1 + i - 1]
    BY <2>1, SubSeqProperties
  <2>5. /\ SubSeq(s, 1, n) \in Seq(S)
        /\ Len(SubSeq(s, 1, n)) = n
        /\ \A i \in 1..n : SubSeq(s, 1, n)[i] = s[i]
    BY <2>2, <2>3, <2>4, Zenon
  <2> QED
    BY <2>5 DEF n
<1> QED
  BY <1>1, <1>2 DEF Last, Front

\* Pushing on a stack.
LEMMA PushType ==
  ASSUME NEW S, NEW s \in Seq(S), NEW e \in S
  PROVE  /\ Append(s, e) \in Seq(S)
         /\ Len(Append(s, e)) = Len(s) + 1
         /\ \A i \in 1..Len(s) + 1 : Append(s, e)[i] = IF i = Len(s) + 1 THEN e ELSE s[i]
         /\ Last(Append(s, e)) = e
         /\ Append(s, e) # <<>>
BY DEF Last

\* The entries and the journals over a set of contents: no entry is a no-op.
EntriesOver(C) == {e \in [before : C, after : C] : e.before # e.after}
JournalsOver(C) == [undo : Seq(EntriesOver(C)), redo : Seq(EntriesOver(C))]

\* Recording an edit of any contents gives a journal over them.
LEMMA RecordOver ==
  ASSUME NEW C, NEW j \in JournalsOver(C), NEW before \in C, NEW after \in C
  PROVE  Record(j, before, after) \in JournalsOver(C)
<1>1. CASE before = after
  BY <1>1 DEF Record
<1>2. CASE before # after
  <2>1. j.undo \in Seq(EntriesOver(C)) /\ Entry(before, after) \in EntriesOver(C)
    BY <1>2 DEF JournalsOver, EntriesOver, Entry
  <2>2. Append(j.undo, Entry(before, after)) \in Seq(EntriesOver(C))
    BY <2>1, PushType
  <2>3. Trim(Append(j.undo, Entry(before, after))) \in Seq(EntriesOver(C))
    BY <2>2, TrimType
  <2>4. <<>> \in Seq(EntriesOver(C))
    OBVIOUS
  <2> QED
    BY <1>2, <2>3, <2>4 DEF Record, JournalsOver
<1> QED
  BY <1>1, <1>2

\* A walk leads to a content and leaves a journal, either way.
LEMMA WalkOver ==
  ASSUME NEW C, NEW j \in JournalsOver(C)
  PROVE  /\ j.undo # <<>> => Last(j.undo).before \in C /\ Undone(j) \in JournalsOver(C)
         /\ j.redo # <<>> => Last(j.redo).after \in C /\ Redone(j) \in JournalsOver(C)
<1>1. j.undo \in Seq(EntriesOver(C)) /\ j.redo \in Seq(EntriesOver(C))
  BY DEF JournalsOver
<1>2. ASSUME j.undo # <<>>
      PROVE  Last(j.undo).before \in C /\ Undone(j) \in JournalsOver(C)
  <2>1. Last(j.undo) \in EntriesOver(C) /\ Front(j.undo) \in Seq(EntriesOver(C))
    BY <1>1, <1>2, PopType
  <2>2. Append(j.redo, Last(j.undo)) \in Seq(EntriesOver(C))
    BY <1>1, <2>1, PushType
  <2> QED
    BY <2>1, <2>2 DEF Undone, JournalsOver, EntriesOver
<1>3. ASSUME j.redo # <<>>
      PROVE  Last(j.redo).after \in C /\ Redone(j) \in JournalsOver(C)
  <2>1. Last(j.redo) \in EntriesOver(C) /\ Front(j.redo) \in Seq(EntriesOver(C))
    BY <1>1, <1>3, PopType
  <2>2. Append(j.undo, Last(j.redo)) \in Seq(EntriesOver(C))
    BY <1>1, <2>1, PushType
  <2> QED
    BY <2>1, <2>2 DEF Redone, JournalsOver, EntriesOver
<1> QED
  BY <1>2, <1>3

Histories == [undo : Seq(Content), redo : Seq(Content)]

-----------------------------------------------------------------------------
(* The operators.                                                          *)

\* A push keeps a stack of contents.
LEMMA PushBoundedType ==
  ASSUME NEW s \in Seq(Content), NEW v \in Content
  PROVE  pushBounded(s, v) \in Seq(Content)
<1>1. CASE Len(s) < HistLimit
  BY <1>1, PushType DEF pushBounded
<1>2. CASE ~(Len(s) < HistLimit)
  <2>1. Len(s) \in Nat /\ Len(s) # 0
    BY <1>2, HistLimitAssumption
  <2>2. s # <<>>
    BY <2>1
  <2>3. Tail(s) \in Seq(Content)
    BY <2>2
  <2>4. Append(Tail(s), v) \in Seq(Content)
    BY <2>3, PushType
  <2> QED
    BY <1>2, <2>4 DEF pushBounded
<1> QED
  BY <1>1, <1>2

\* Every move of the in-memory history keeps it.
LEMMA HistoryType ==
  ASSUME NEW h \in Histories, NEW v \in Content
  PROVE  /\ Snapshot(h, v) \in Histories
         /\ RecordExternal(h, v) \in Histories
         /\ h.undo # <<>> => Last(h.undo) \in Content /\ undoTo(h, v) \in Histories
         /\ h.redo # <<>> => Last(h.redo) \in Content /\ redoTo(h, v) \in Histories
<1>1. h.undo \in Seq(Content) /\ h.redo \in Seq(Content)
  BY DEF Histories
<1>2. pushBounded(h.undo, v) \in Seq(Content) /\ pushBounded(h.redo, v) \in Seq(Content)
  BY <1>1, PushBoundedType
<1>3. h.undo # <<>> => Last(h.undo) \in Content /\ Front(h.undo) \in Seq(Content)
  BY <1>1, PopType
<1>4. h.redo # <<>> => Last(h.redo) \in Content /\ Front(h.redo) \in Seq(Content)
  BY <1>1, PopType
<1>5. <<>> \in Seq(Content)
  OBVIOUS
<1>6. Snapshot(h, v) \in Histories
  BY <1>2, <1>5 DEF Snapshot, Histories
<1>7. RecordExternal(h, v) \in Histories
  BY <1>1, <1>2 DEF RecordExternal, Histories
<1>8. h.undo # <<>> => undoTo(h, v) \in Histories
  BY <1>2, <1>3 DEF undoTo, Histories
<1>9. h.redo # <<>> => redoTo(h, v) \in Histories
  BY <1>2, <1>4 DEF redoTo, Histories
<1> QED
  BY <1>3, <1>4, <1>6, <1>7, <1>8, <1>9

\* A mutation of a content is a content.
LEMMA OpType ==
  ASSUME NEW op \in Mutations
  PROVE  /\ op.add \in Content /\ op.del \in Content /\ op.text \in BOOLEAN
         /\ \A c \in Content : applyOp(c, op) \in Content
BY DEF Mutations, applyOp, Content

\* The journal of the types is the journal of the lemmas.
LEMMA JournalType ==
  ASSUME TypeOK
  PROVE  /\ journal \in JournalsOver(Content)
         /\ \A j : j \in JournalsOver(Content) <=> j \in [undo : Seq(Entries), redo : Seq(Entries)]
         /\ hist \in Histories
BY DEF TypeOK, JournalsOver, EntriesOver, Entries, Histories

-----------------------------------------------------------------------------
(* Types.                                                                  *)

Watches == [event : BOOLEAN, signal : BOOLEAN, msg : BOOLEAN]

\* A replacement leaves a change signal.
LEMMA ReplacedType ==
  ASSUME watch \in Watches, Replaced
  PROVE  /\ watch' \in Watches
         /\ Watching => watch'.event
BY DEF Watches, Replaced

\* The steps that write the file keep the types of the file and the tree.
LEMMA TypeSave ==
  ASSUME TypeOK, NEW op \in Mutations, SaveWithRebase(op) \/ SaveFails(op),
         mode' \in Modes, target' \in Content, base' \in Content
  PROVE  TypeOK'
<1>1. /\ op.add \in Content /\ op.del \in Content
      /\ applyOp(tree, op) \in Content /\ applyOp(disk, op) \in Content
  BY OpType DEF TypeOK
<1>2. Saved(op).out \in Content
  BY <1>1 DEF Saved
<1>3. CASE SaveWithRebase(op)
  <2>1. disk' \in Content /\ tree' \in Content /\ lastDisk' \in Content
    BY <1>2, <1>3 DEF SaveWithRebase
  <2>2. journal' \in JournalsOver(Content)
    <3>1. journal' = Record(journal, disk, Saved(op).out)
      BY <1>3 DEF SaveWithRebase
    <3> QED
      BY <1>2, <3>1, JournalType, RecordOver DEF TypeOK
  <2>3. hist' \in Histories
    <3>1. Snapshot(hist, tree) \in Histories
      BY JournalType, HistoryType DEF TypeOK
    <3>2. RecordExternal(Snapshot(hist, tree), disk) \in Histories
      BY <3>1, HistoryType DEF TypeOK
    <3>3. hist' \in {Snapshot(hist, tree), RecordExternal(Snapshot(hist, tree), disk)}
      BY <1>3 DEF SaveWithRebase
    <3> QED
      BY <3>1, <3>2, <3>3
  <2>4. owed' \in Content
    <3>1. owed' \in {Saved(op).out, (owed \ op.del) \cup op.add, owed}
      BY <1>3 DEF SaveWithRebase
    <3> QED
      BY <1>1, <1>2, <3>1 DEF TypeOK, Content
  <2>5. edits' \in 0 .. MaxEdits
    BY <1>3, TuiAssumption DEF SaveWithRebase, TypeOK
  <2>6. watch' \in Watches
    BY <1>3, ReplacedType DEF SaveWithRebase, TypeOK, Watches
  <2>7. excuse' = {} /\ walked' = {}
    BY <1>3 DEF SaveWithRebase
  <2> QED
    BY <2>1, <2>2, <2>3, <2>4, <2>5, <2>6, <2>7, JournalType DEF TypeOK, Watches, Histories
<1>4. CASE SaveFails(op)
  <2>1. hist' \in Histories
    BY <1>4, JournalType, HistoryType DEF SaveFails, TypeOK
  <2>2. edits' \in 0 .. MaxEdits
    BY <1>4, TuiAssumption DEF SaveFails, TypeOK
  <2>3. disk' = disk /\ journal' = journal /\ lastDisk' = lastDisk /\ owed' = owed /\ watch' = watch
    BY <1>4 DEF SaveFails
  <2>4. tree' \in Content /\ walked' = {}
    BY <1>1, <1>4 DEF SaveFails
  <2>5. excuse' \subseteq {"torn", "unwatched", "swallowed", "unsaved"}
    BY <1>4 DEF SaveFails, TypeOK
  <2> QED
    BY <2>1, <2>2, <2>3, <2>4, <2>5 DEF TypeOK, Histories
<1> QED
  BY <1>3, <1>4

\* Reading the file again.
LEMMA TypeReload ==
  ASSUME TypeOK, NEW r \in BOOLEAN, Reload(r),
         disk' = disk, journal' = journal, owed' = owed, edits' = edits,
         walked' \subseteq Content, watch' \in Watches,
         mode' \in Modes, target' \in Content, base' \in Content
  PROVE  TypeOK'
<1>1. hist' \in Histories
  <2>1. hist' \in {hist, RecordExternal(hist, tree)}
    BY DEF Reload
  <2>2. hist \in Histories /\ RecordExternal(hist, tree) \in Histories
    BY JournalType, HistoryType DEF TypeOK
  <2> QED
    BY <2>1, <2>2
<1>2. tree' \in Content /\ lastDisk' \in Content /\ excuse' = {}
  BY DEF Reload, TypeOK
<1> QED
  BY <1>1, <1>2 DEF TypeOK, Histories, Watches

\* Every step keeps the types.
LEMMA TypeStep ==
  TypeOK /\ [Next]_vars => TypeOK'
<1> SUFFICES ASSUME TypeOK, [Next]_vars
             PROVE  TypeOK'
  OBVIOUS
<1> USE DEF Watches
<1>0. disk \in Content /\ tree \in Content /\ watch \in Watches
  BY DEF TypeOK
<1>1. ASSUME NEW c \in Content, NEW j \in JournalsOver(Content), Outside(c, j),
             edits' \in 0 .. MaxEdits
      PROVE  TypeOK'
  <2>1. watch' \in Watches
    BY <1>0, <1>1, ReplacedType DEF Outside
  <2>2. disk' \in Content /\ owed' \in Content /\ walked' = {}
    BY <1>1 DEF Outside, TypeOK, Content
  <2>3. journal' \in [undo : Seq(Entries), redo : Seq(Entries)]
    BY <1>1, JournalType DEF Outside
  <2> QED
    BY <1>1, <2>1, <2>2, <2>3 DEF Outside, TypeOK, shown
<1>2. ASSUME NEW l \in Line, OutsideEdit(l)
      PROVE  TypeOK'
  <2>1. PICK c \in {disk \cup {l}, disk \ {l}} :
               Outside(c, Record(journal, disk, c)) \/ Outside(c, journal)
    BY <1>2 DEF OutsideEdit
  <2>2. c \in Content
    BY <1>0 DEF Content
  <2>3. edits' \in 0 .. MaxEdits
    BY <1>2, TuiAssumption DEF OutsideEdit, TypeOK
  <2>4. journal \in JournalsOver(Content) /\ Record(journal, disk, c) \in JournalsOver(Content)
    BY <1>0, <2>2, JournalType, RecordOver
  <2> QED
    BY <1>1, <2>1, <2>2, <2>3, <2>4
<1>3. CASE OutsideUndo
  <2>1. Last(journal.undo).before \in Content /\ Undone(journal) \in JournalsOver(Content)
    BY <1>3, JournalType, WalkOver DEF OutsideUndo, CanUndo
  <2>2. edits' \in 0 .. MaxEdits
    BY <1>3 DEF OutsideUndo, TypeOK
  <2> QED
    BY <1>1, <1>3, <2>1, <2>2 DEF OutsideUndo
<1>4. CASE ReloadKey
  BY <1>4, TypeReload DEF ReloadKey, TypeOK, Modes
<1>5. CASE OpenEditor
  <2>1. hist' \in Histories
    BY <1>0, <1>5, JournalType, HistoryType DEF OpenEditor
  <2> QED
    BY <1>5, <2>1 DEF OpenEditor, TypeOK, Modes, Histories
<1>6. CASE UndoKey
  <2>1. disk' \in Content /\ journal' \in JournalsOver(Content)
    BY <1>6, JournalType, WalkOver DEF UndoKey, CanUndo
  <2>2. watch' \in Watches
    BY <1>0, <1>6, ReplacedType DEF UndoKey
  <2>3. owed' \in Content /\ walked' \subseteq Content
    BY <1>6, <2>1 DEF UndoKey, TypeOK, Content
  <2> QED
    BY <1>6, <2>1, <2>2, <2>3, JournalType DEF UndoKey, TypeOK, shown, Modes
<1>7. CASE RedoKey
  <2>1. disk' \in Content /\ journal' \in JournalsOver(Content)
    BY <1>7, JournalType, WalkOver DEF RedoKey, CanRedo
  <2>2. watch' \in Watches
    BY <1>0, <1>7, ReplacedType DEF RedoKey
  <2>3. owed' \in Content /\ walked' = {}
    BY <1>7, <2>1 DEF RedoKey, TypeOK, Content
  <2> QED
    BY <1>7, <2>1, <2>2, <2>3, JournalType DEF RedoKey, TypeOK, shown, Modes
<1>8. ASSUME NEW c \in Content, Restore(c), hist' \in Histories, walked' \subseteq Content,
             UNCHANGED <<mode, target, base>>
      PROVE  TypeOK'
  <2>1. journal' \in JournalsOver(Content)
    <3>1. journal' = Record(journal, disk, c)
      BY <1>8 DEF Restore
    <3> QED
      BY <1>0, <3>1, JournalType, RecordOver
  <2>2. watch' \in Watches
    BY <1>0, <1>8, ReplacedType DEF Restore
  <2>3. edits' \in 0 .. MaxEdits
    BY <1>8, TuiAssumption DEF Restore, TypeOK
  <2> QED
    BY <1>8, <2>1, <2>2, <2>3, JournalType DEF Restore, TypeOK, Histories
<1>9. CASE UndoFallback
  <2>1. Last(hist.undo) \in Content /\ undoTo(hist, tree) \in Histories
    BY <1>0, <1>9, JournalType, HistoryType DEF UndoFallback
  <2>2. walked' \subseteq Content
    BY <1>0, <1>9 DEF UndoFallback, TypeOK
  <2>3. Restore(Last(hist.undo)) /\ hist' = undoTo(hist, tree) /\ UNCHANGED <<mode, target, base>>
    BY <1>9 DEF UndoFallback
  <2> QED
    BY <1>8, <2>1, <2>2, <2>3
<1>10. CASE RedoFallback
  <2>1. Last(hist.redo) \in Content /\ redoTo(hist, tree) \in Histories
    BY <1>0, <1>10, JournalType, HistoryType DEF RedoFallback
  <2>2. walked' \subseteq Content
    BY <1>10 DEF RedoFallback
  <2>3. Restore(Last(hist.redo)) /\ hist' = redoTo(hist, tree) /\ UNCHANGED <<mode, target, base>>
    BY <1>10 DEF RedoFallback
  <2> QED
    BY <1>8, <2>1, <2>2, <2>3
<1>11. CASE InputAbandon
  BY <1>11 DEF InputAbandon, TypeOK, shown, Modes, Content
<1>12. CASE InputEsc
  <2>1. mode' \in Modes /\ target' \in Content
    BY <1>12 DEF InputEsc, Modes, Content
  <2>2. Reload(TRUE) /\ UNCHANGED <<disk, journal, base, watch, edits, owed, walked>>
    BY <1>12 DEF InputEsc
  <2> QED
    BY <2>1, <2>2, TypeReload DEF TypeOK
<1>13. CASE Quit
  <2>1. hist' \in Histories
    BY <1>13 DEF Quit, NoHistory, Histories
  <2>2. tree' \in Content /\ lastDisk' \in Content
    BY <1>13 DEF Quit, Content
  <2> QED
    BY <1>13, <2>1, <2>2 DEF Quit, TypeOK, Modes, Quiet, Histories
<1>14. ASSUME NEW op \in Mutations, StructuralKey(op)
       PROVE  TypeOK'
  BY <1>14, TypeSave DEF StructuralKey, TypeOK
<1>15. ASSUME NEW op \in Mutations, InputEnter(op)
       PROVE  TypeOK'
  <2>1. mode' \in Modes /\ target' \in Content /\ base' \in Content
    BY <1>15 DEF InputEnter, Modes, Content, TypeOK
  <2> QED
    BY <1>15, <2>1, TypeSave DEF InputEnter
<1>16. ASSUME NEW del \in Content, StartInput(del)
       PROVE  TypeOK'
  BY <1>16 DEF StartInput, TypeOK, shown, Modes
<1>17. CASE OpenLoad
  BY <1>17 DEF OpenLoad, TypeOK, Modes
<1>18. CASE OpenBase
  BY <1>18 DEF OpenBase, TypeOK, Modes
<1>19. CASE OpenWatch
  BY <1>19 DEF OpenWatch, TypeOK, shown, Modes
<1>20. CASE WatchLoop
  BY <1>20 DEF WatchLoop, TypeOK, shown
<1>21. CASE WatchWait
  BY <1>21 DEF WatchWait, TypeOK, shown
<1>22. CASE ReloadMsg
  <2>1. watch' \in Watches
    BY <1>0, <1>22 DEF ReloadMsg
  <2>2. CASE mode = "board"
    <3>1. Reload(TRUE) /\ UNCHANGED <<disk, journal, mode, target, base, edits, owed, walked>>
      BY <1>22, <2>2 DEF ReloadMsg
    <3> QED
      BY <2>1, <3>1, TypeReload DEF TypeOK
  <2>3. CASE mode # "board"
    BY <1>22, <2>1, <2>3 DEF ReloadMsg, Swallow, TypeOK, shown
  <2> QED
    BY <2>2, <2>3
<1>23. CASE Resync
  <2>1. mode' \in Modes
    BY <1>23 DEF Resync, Modes
  <2>2. Reload(FALSE) /\ UNCHANGED <<disk, journal, target, base, watch, edits, owed, walked>>
    BY <1>23 DEF Resync
  <2> QED
    BY <2>1, <2>2, TypeReload DEF TypeOK
<1>24. CASE EditorFails
  BY <1>24 DEF EditorFails, TypeOK, shown, Modes
<1>25. ASSUME NEW mine \in Content, FinishEditorMerge(mine)
       PROVE  TypeOK'
  <2>1. disk' \in Content
    BY <1>25 DEF FinishEditorMerge, EditorMerged, TypeOK, Content
  <2>2. hist' \in Histories
    <3>1. hist \in Histories /\ RecordExternal(hist, disk) \in Histories
      BY <1>0, JournalType, HistoryType
    <3> QED
      BY <1>25, <3>1 DEF FinishEditorMerge
  <2>3. edits' \in 0 .. MaxEdits
    BY <1>25, TuiAssumption DEF FinishEditorMerge, TypeOK
  <2>4. watch' \in Watches
    BY <1>0, <1>25, ReplacedType DEF FinishEditorMerge
  <2>5. owed' \in Content /\ base' \in Content /\ walked' = {}
    BY <1>25 DEF FinishEditorMerge, TypeOK, Content
  <2> QED
    BY <1>25, <2>1, <2>2, <2>3, <2>4, <2>5 DEF FinishEditorMerge, TypeOK, Modes, Histories
<1>26. CASE UNCHANGED vars
  BY <1>26 DEF vars, TypeOK, shown
<1> QED
  BY <1>2, <1>3, <1>4, <1>5, <1>6, <1>7, <1>9, <1>10, <1>11, <1>12, <1>13, <1>14, <1>15,
     <1>16, <1>17, <1>18, <1>19, <1>20, <1>21, <1>22, <1>23, <1>24, <1>25, <1>26
     DEF Next, Others, Keys

\* The initial states have the types.
LEMMA TypeInit ==
  Init => TypeOK
<1> SUFFICES ASSUME Init
             PROVE  TypeOK
  OBVIOUS
<1>1. /\ EmptyJournal \in [undo : Seq(Entries), redo : Seq(Entries)]
      /\ NoHistory \in [undo : Seq(Content), redo : Seq(Content)]
  BY DEF EmptyJournal, NoHistory
<1>2. edits \in 0 .. MaxEdits
  BY TuiAssumption DEF Init
<1>3. {} \in Content /\ "closed" \in Modes /\ Quiet \in Watches
  BY DEF Content, Modes, Quiet, Watches
<1> QED
  BY <1>1, <1>2, <1>3 DEF Init, TypeOK, Watches

\* Types: whatever the UI and the others do, every part of the session keeps
\* its type, and no journal entry is a no-op.
THEOREM SessionTypes ==
  Spec => []TypeOK
<1> QED
  BY TypeInit, TypeStep, PTL DEF Spec

-----------------------------------------------------------------------------
(* The inductive invariant: the three promises hold each other up.  A save *)
(* that finds the disk as remembered keeps the lines owed only because the *)
(* remembered bytes are those of the tree; and a stale screen is owed a    *)
(* reload in every mode in which a message can still be dropped.           *)

StaleIsAnnounced ==
  mode \in {"board", "input", "editor"} /\ tree # disk =>
    watch.event \/ watch.signal \/ watch.msg \/ excuse # {}

SessionInv == TypeOK /\ NothingLost /\ SaveBaseIsTheTree /\ StaleIsAnnounced

\* A change of the disk only: the tree and what is remembered stay, and the
\* change is announced to whoever watches.
LEMMA DiskOnlyStep ==
  ASSUME SessionInv, Replaced, UNCHANGED <<tree, lastDisk, excuse>>, owed' \subseteq disk',
         \/ mode' = mode
         \/ mode' = "resync" /\ mode \in {"board", "editor"}
  PROVE  NothingLost' /\ SaveBaseIsTheTree' /\ StaleIsAnnounced'
<1>1. NothingLost'
  BY DEF NothingLost
<1>2. SaveBaseIsTheTree'
  BY DEF SaveBaseIsTheTree, SessionInv
<1>3. StaleIsAnnounced'
  <2>1. CASE Watching
    BY <2>1, ReplacedType DEF StaleIsAnnounced, SessionInv, TypeOK, Watches
  <2>2. CASE ~Watching
    BY <2>2 DEF StaleIsAnnounced, Watching
  <2> QED
    BY <2>1, <2>2
<1> QED
  BY <1>1, <1>2, <1>3

\* Tree, memory and disk agree, and nothing owed is missing.
LEMMA AgreeStep ==
  ASSUME tree' = disk', lastDisk' = disk', owed' \subseteq disk'
  PROVE  NothingLost' /\ SaveBaseIsTheTree' /\ StaleIsAnnounced'
BY DEF NothingLost, SaveBaseIsTheTree, StaleIsAnnounced

\* A save keeps every line owed: rebased it starts from the disk; unrebased it
\* starts from a tree that is the disk, or carries its excuse.
LEMMA SaveStep ==
  ASSUME SessionInv, mode \in {"board", "input"}, NEW op \in Mutations,
         SaveWithRebase(op) \/ SaveFails(op)
  PROVE  NothingLost' /\ SaveBaseIsTheTree' /\ StaleIsAnnounced'
<1>1. CASE SaveWithRebase(op)
  <2>1. /\ disk' = Saved(op).out /\ tree' = disk' /\ lastDisk' = disk'
        /\ owed' = IF excuse \cap {"torn", "unsaved"} # {} /\ ~Saved(op).over THEN Saved(op).out
                   ELSE IF op.text \/ op.del \subseteq (IF Saved(op).over THEN disk ELSE tree)
                   THEN (owed \ op.del) \cup op.add ELSE owed
    BY <1>1 DEF SaveWithRebase
  <2>2. owed' \subseteq disk'
    <3>1. owed \subseteq disk
      BY DEF SessionInv, NothingLost
    <3>2. CASE disk # lastDisk
      BY <2>1, <3>1, <3>2 DEF Saved, applyOp
    <3>3. CASE disk = lastDisk
      <4>1. Saved(op) = [out |-> applyOp(tree, op), over |-> FALSE]
        BY <3>3 DEF Saved
      <4>2. CASE excuse \cap {"torn", "unsaved"} # {}
        BY <2>1, <4>1, <4>2
      <4>3. CASE excuse \cap {"torn", "unsaved"} = {}
        <5>1. tree = disk
          BY <3>3, <4>3 DEF SessionInv, SaveBaseIsTheTree
        <5> QED
          BY <2>1, <3>1, <4>1, <4>3, <5>1 DEF applyOp
      <4> QED
        BY <4>2, <4>3
    <3> QED
      BY <3>2, <3>3
  <2> QED
    BY <2>1, <2>2, AgreeStep
<1>2. CASE SaveFails(op)
  BY <1>2 DEF SaveFails, NothingLost, SaveBaseIsTheTree, StaleIsAnnounced, SessionInv
<1> QED
  BY <1>1, <1>2

\* Every step keeps the promises.
LEMMA SessionStep ==
  SessionInv /\ [Next]_vars => NothingLost' /\ SaveBaseIsTheTree' /\ StaleIsAnnounced'
<1> SUFFICES ASSUME SessionInv, [Next]_vars
             PROVE  NothingLost' /\ SaveBaseIsTheTree' /\ StaleIsAnnounced'
  OBVIOUS
<1> DEFINE Promise == NothingLost /\ SaveBaseIsTheTree /\ StaleIsAnnounced
<1>0. owed \subseteq disk
  BY DEF SessionInv, NothingLost
<1>1. ASSUME NEW c, NEW j, Outside(c, j)
      PROVE  Promise'
  <2>1. owed' \subseteq disk' /\ mode' = mode /\ Replaced /\ UNCHANGED <<tree, lastDisk, excuse>>
    BY <1>1 DEF Outside, shown
  <2> QED
    BY <2>1, DiskOnlyStep
<1>2. ASSUME NEW l \in Line, OutsideEdit(l)
      PROVE  Promise'
  BY <1>1, <1>2 DEF OutsideEdit
<1>3. CASE OutsideUndo
  BY <1>1, <1>3 DEF OutsideUndo
<1>4. ASSUME NEW r \in BOOLEAN, Reload(r), UNCHANGED <<disk, owed>>
      PROVE  Promise'
  BY <1>0, <1>4, AgreeStep DEF Reload
<1>5. CASE OpenEditor
  BY <1>5 DEF OpenEditor, SessionInv, NothingLost, SaveBaseIsTheTree, StaleIsAnnounced
<1>6. CASE UndoKey \/ RedoKey
  <2>1. /\ owed' \subseteq disk' /\ Replaced /\ UNCHANGED <<tree, lastDisk, excuse>>
        /\ mode' = "resync" /\ mode = "board"
    BY <1>6 DEF UndoKey, RedoKey, shown
  <2> QED
    BY <2>1, DiskOnlyStep
<1>7. ASSUME NEW c, Restore(c)
      PROVE  Promise'
  BY <1>7, AgreeStep DEF Restore
<1>8. CASE UndoFallback \/ RedoFallback
  BY <1>7, <1>8 DEF UndoFallback, RedoFallback
<1>9. CASE InputAbandon
  BY <1>9 DEF InputAbandon, shown, SessionInv, NothingLost, SaveBaseIsTheTree, StaleIsAnnounced
<1>10. CASE Quit
  BY <1>10 DEF Quit, SessionInv, NothingLost, SaveBaseIsTheTree, StaleIsAnnounced
<1>11. ASSUME NEW op \in Mutations, StructuralKey(op) \/ InputEnter(op)
       PROVE  Promise'
  BY <1>11, SaveStep DEF StructuralKey, InputEnter
<1>12. ASSUME NEW del \in Content, StartInput(del)
       PROVE  Promise'
  BY <1>12 DEF StartInput, shown, SessionInv, NothingLost, SaveBaseIsTheTree, StaleIsAnnounced
<1>13. CASE OpenLoad
  BY <1>13 DEF OpenLoad, SessionInv, NothingLost, SaveBaseIsTheTree, StaleIsAnnounced
<1>14. CASE OpenBase
  BY <1>14 DEF OpenBase, SessionInv, NothingLost, SaveBaseIsTheTree, StaleIsAnnounced
<1>15. CASE OpenWatch
  BY <1>15 DEF OpenWatch, shown, SessionInv, NothingLost, SaveBaseIsTheTree, StaleIsAnnounced
<1>16. CASE WatchLoop \/ WatchWait
  <2>1. /\ UNCHANGED <<disk, mode, tree, lastDisk, owed, excuse>>
        /\ watch'.event \/ watch'.signal \/ watch'.msg
    BY <1>16 DEF WatchLoop, WatchWait, shown, SessionInv, TypeOK
  <2> QED
    BY <2>1 DEF SessionInv, NothingLost, SaveBaseIsTheTree, StaleIsAnnounced
<1>17. CASE ReloadMsg
  <2>1. CASE mode = "board"
    BY <1>4, <1>17, <2>1 DEF ReloadMsg
  <2>2. CASE mode # "board"
    BY <1>17, <2>2
       DEF ReloadMsg, Swallow, shown, SessionInv, NothingLost, SaveBaseIsTheTree, StaleIsAnnounced
  <2> QED
    BY <2>1, <2>2
<1>18. CASE EditorFails
  BY <1>18 DEF EditorFails, shown, SessionInv, NothingLost, SaveBaseIsTheTree, StaleIsAnnounced
<1>19. ASSUME NEW mine \in Content, FinishEditorMerge(mine)
       PROVE  Promise'
  <2>1. owed' \subseteq disk'
    <3>1. disk' \in EditorMerged(mine) /\ owed' = (owed \ (base \ mine)) \cup (mine \ base)
      BY <1>19 DEF FinishEditorMerge
    <3>2. CASE disk \in {{}, base}
      BY <1>0, <3>1, <3>2 DEF EditorMerged
    <3>3. CASE disk \notin {{}, base}
      BY <1>0, <3>1, <3>3 DEF EditorMerged
    <3> QED
      BY <3>2, <3>3
  <2>2. /\ Replaced /\ UNCHANGED <<tree, lastDisk, excuse>>
        /\ mode' = "resync" /\ mode = "editor"
    BY <1>19 DEF FinishEditorMerge
  <2> QED
    BY <2>1, <2>2, DiskOnlyStep
<1>20. CASE UNCHANGED vars
  BY <1>20 DEF vars, shown, SessionInv, NothingLost, SaveBaseIsTheTree, StaleIsAnnounced
<1>21. CASE ReloadKey \/ InputEsc \/ Resync
  BY <1>4, <1>21 DEF ReloadKey, InputEsc, Resync
<1> QED
  BY <1>2, <1>3, <1>5, <1>6, <1>8, <1>9, <1>10, <1>11, <1>12, <1>13, <1>14, <1>15, <1>16,
     <1>17, <1>18, <1>19, <1>20, <1>21 DEF Next, Others, Keys

LEMMA SessionInvHolds ==
  Spec => []SessionInv
<1>1. Init => SessionInv
  BY TypeInit DEF Init, SessionInv, NothingLost, SaveBaseIsTheTree, StaleIsAnnounced
<1>2. SessionInv /\ [Next]_vars => SessionInv'
  BY TypeStep, SessionStep DEF SessionInv
<1> QED
  BY <1>1, <1>2, PTL DEF Spec

\* In every order of the UI's reads, saves and editor merges and of the others'
\* writes, a line stays until someone takes it away (saveWithRebase, the editor
\* merge, undo), a tree read in two halves or left unsaved apart.
THEOREM SessionLosesNothing ==
  Spec => []NothingLost
<1>1. SessionInv => NothingLost
  BY DEF SessionInv
<1> QED
  BY <1>1, SessionInvHolds, PTL

\* The comparison that saveWithRebase trusts: the remembered bytes are those of
\* the tree from the moment the board is watched, dropped reloads included.
THEOREM SessionSaveBase ==
  Spec => []SaveBaseIsTheTree
<1>1. SessionInv => SaveBaseIsTheTree
  BY DEF SessionInv
<1> QED
  BY <1>1, SessionInvHolds, PTL

\* A screen that is not the board is about to be read again, or has lost its
\* message in one of the three ways the excuses name.
THEOREM SessionStaleIsOwed ==
  Spec => []StaleScreenIsOwedAReload
<1>1. SessionInv => StaleScreenIsOwedAReload
  BY DEF SessionInv, StaleIsAnnounced, StaleScreenIsOwedAReload
<1> QED
  BY <1>1, SessionInvHolds, PTL
===============================================================================
