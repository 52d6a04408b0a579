----------------------------- MODULE TuiHistory -----------------------------
(***************************************************************************)
(* The terminal UI's in-memory history (internal/tui/history.go): two      *)
(* bounded stacks of whole boards.                                         *)
(***************************************************************************)
EXTENDS Naturals, SequencesExt

CONSTANT HistLimit           \* newHistory's limit, 100 in the code

ASSUME HistLimitAssumption == HistLimit \in Nat \ {0}

NoHistory == [undo |-> <<>>, redo |-> <<>>]

\* The newest HistLimit entries.
pushBounded(s, v) ==
  IF Len(s) < HistLimit THEN Append(s, v) ELSE Append(Tail(s), v)

\* Before a local mutation: what was undone can no longer be redone.
Snapshot(h, v) == [undo |-> pushBounded(h.undo, v), redo |-> <<>>]

\* Someone else's write: undo will step back over it, redo stays.
RecordExternal(h, v) == [undo |-> pushBounded(h.undo, v), redo |-> h.redo]

undoTo(h, cur) == [undo |-> Front(h.undo), redo |-> pushBounded(h.redo, cur)]
redoTo(h, cur) == [undo |-> pushBounded(h.undo, cur), redo |-> Front(h.redo)]
=============================================================================
