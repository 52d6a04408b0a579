---------------------------- MODULE UndoJournal ----------------------------
(***************************************************************************)
(* The undo journal of a board file, <board>.undo.json, as operators on    *)
(* its two stacks (internal/board/undo.go).  A content is whatever the     *)
(* module that uses the journal says it is: the journal only ever compares *)
(* contents for equality and copies them.                                  *)
(***************************************************************************)
EXTENDS Naturals, SequencesExt

CONSTANT UndoLimit           \* undoLimit, 100 in the code

ASSUME UndoLimitAssumption == UndoLimit \in Nat \ {0}

Entry(before, after) == [before |-> before, after |-> after]

\* loadJournal of an absent or unreadable sidecar.
EmptyJournal == [undo |-> <<>>, redo |-> <<>>]

\* The newest UndoLimit entries.
Trim(s) == IF Len(s) > UndoLimit
           THEN SubSeq(s, Len(s) - UndoLimit + 1, Len(s)) ELSE s

RecordKeepingRedo(j, before, after) ==
  IF before = after THEN j
  ELSE [undo |-> Trim(Append(j.undo, Entry(before, after))), redo |-> j.redo]

\* journalRecord: a changing edit is appended, the redo line is dropped.
Record(j, before, after) ==
  IF before = after THEN j
  ELSE [undo |-> Trim(Append(j.undo, Entry(before, after))), redo |-> <<>>]

CanUndoUnchecked(j, disk) == j.undo # <<>>

\* timeTravel's two refusals, ErrUndoEmpty and ErrUndoConflict: the board must
\* still read exactly the state the entry left behind.
CanUndo(j, disk) == j.undo # <<>> /\ Last(j.undo).after = disk
CanRedo(j, disk) == j.redo # <<>> /\ Last(j.redo).before = disk

UndoneToBottom(j) == [undo |-> Front(j.undo), redo |-> <<Last(j.undo)>> \o j.redo]

\* The walk itself: the entry moves to the other stack, which is not trimmed.
Undone(j) == [undo |-> Front(j.undo), redo |-> Append(j.redo, Last(j.undo))]
Redone(j) == [undo |-> Append(j.undo, Last(j.redo)), redo |-> Front(j.redo)]
=============================================================================
