------------------------------ MODULE BoardFile ------------------------------
(***************************************************************************)
(* One board file, its undo journal and its advisory lock, shared by every *)
(* process that writes the board: the edit CLI and the web server          *)
(* (EditUnderLockJournaled), the hooks and the TUI's in-memory undo        *)
(* (SaveTo), every other key of the TUI (SaveRebasing), the editor merge   *)
(* (SaveEditorMerge) and undo/redo (timeTravel).                           *)
(*                                                                         *)
(* A content is a set of lines.  Every file is replaced by a rename, so a  *)
(* file write is one step; taking the flock, reading the files and         *)
(* computing what to write is one step too, because only the holder of the *)
(* lock writes.  The two renames of one operation are separate steps: the  *)
(* process may die, or a write may fail, before each of them, and readers  *)
(* that take no lock see what is in between.                               *)
(***************************************************************************)
EXTENDS UndoJournal

CONSTANTS
  Proc,      \* processes and request handlers that write the board
  Viewer,    \* those that load it first and write later: the TUI, hooks, editors
  Line,      \* the lines a board may hold
  Kinds,     \* the kinds of writer of this instance
  Faults,    \* TRUE: processes die and file writes fail
  Missing,   \* the content of a board file that does not exist
  NoProc     \* the holder of a free lock

ASSUME BoardFileAssumption ==
  /\ Viewer \subseteq Proc
  /\ Faults \in BOOLEAN
  /\ \A c \in SUBSET Line : c # Missing
  /\ NoProc \notin Proc

VARIABLES
  board,     \* the board file
  journal,   \* the journal sidecar
  lock,      \* who holds the flock of <board>.lock
  job,       \* the operation the holder is in the middle of
  view,      \* [Viewer -> what it has read without the lock]
  \* history variables
  landed,    \* every content the board file ever had
  back,      \* undo steps and redo steps nothing has come in the way of
  fwd

files == <<board, journal>>
vars == <<board, journal, lock, job, view, landed, back, fwd>>

Content == SUBSET Line
Disk == {Missing} \cup Content
LinesOf(c) == IF c = Missing THEN {} ELSE c

\* An edit adds some lines and deletes some; an item is edited by doing both.
Ops == {op \in [add : Content, del : Content] :
          op.add \cap op.del = {} /\ op.add \cup op.del # {}}
Apply(c, op) == (LinesOf(c) \ op.del) \cup op.add

\* What is deleted is there, and what is added is new: where the operation was asked
\* for, that is; where it lands the lines may have come and gone.
Fits(op, c) == op.del \subseteq LinesOf(c) /\ op.add \cap LinesOf(c) = {}

\* The writes an operation still owes, in the order the code makes them.
Plans == {<<>>, <<"board">>, <<"journal">>,
          <<"journal", "board">>, <<"board", "journal">>}

\* ok: no error is returned; whole: every file planned was written.
NoJob == [kind |-> "none", op |-> [add |-> {}, del |-> {}], out |-> {},
          jout |-> EmptyJournal, todo |-> <<>>, ok |-> TRUE, whole |-> TRUE,
          board0 |-> {}, journal0 |-> EmptyJournal]

\* A process that has read the board: the tree it holds (the base of an editor's
\* temp copy), and in the TUI the bytes it takes for the disk's, lastDisk.
\* gone (a history field): the lines of lastDisk its tree is without, because they
\* came between openBoard's two reads or went in a save that failed.
Stages == {"none", "template", "loaded", "open", "editor"}
View(at, tree, last, gone) == [at |-> at, tree |-> tree, last |-> last, gone |-> gone]
NoView == View("none", {}, {}, {})

Init ==
  /\ board \in {Missing, {}}
  /\ journal = EmptyJournal
  /\ lock = NoProc
  /\ job = NoJob
  /\ view = [p \in Viewer |-> NoView]
  /\ landed = {board} \ {Missing}
  /\ back = 0
  /\ fwd = 0

-----------------------------------------------------------------------------
(* Reading without the lock, and taking the lock.                          *)

See(p, v) ==
  /\ lock # p
  /\ view' = [view EXCEPT ![p] = v]
  /\ UNCHANGED <<files, lock, job, landed, back, fwd>>

\* board.Load, or SessionStart finding no board and making the template.
Load(p) ==
  /\ view[p].at = "none"
  /\ See(p, View(IF board = Missing THEN "template" ELSE "loaded", LinesOf(board), {}, {}))

\* openBoard reads the file a second time, for lastDisk.
ReadLast(p) ==
  /\ view[p].at = "loaded"
  /\ See(p, View("open", view[p].tree, LinesOf(board), LinesOf(board) \ view[p].tree))

\* doReload: one read gives the tree and lastDisk.
Reload(p) ==
  /\ view[p].at \in {"none", "open"}
  /\ board # Missing
  /\ See(p, View("open", board, board, {}))

\* The TUI's E, or the browser's editor: a base read for itself.
OpenEditor(p) ==
  /\ "merge" \in Kinds
  /\ view[p].at \in {"none", "open"}
  /\ See(p, View("editor", LinesOf(board), {}, {}))

\* The process ends, or throws its copy away.
Forget(p) ==
  /\ view[p].at # "none"
  /\ See(p, NoView)

\* WithLock: p gets the lock with its writes planned, in that order; a journal
\* that stays what it is is not saved.
Begin(p, kind, op, out, jout, order) ==
  /\ kind \in Kinds
  /\ lock = NoProc
  /\ lock' = p
  /\ job' = [kind |-> kind, op |-> op, out |-> out, jout |-> jout,
             todo |-> IF jout = journal THEN <<"board">> ELSE order,
             ok |-> TRUE, whole |-> TRUE, board0 |-> board, journal0 |-> journal]
  /\ UNCHANGED <<files, view, landed, back, fwd>>

\* The journal with this write recorded: a board that was not there has no
\* state to undo back to, and an edit that changes nothing is not an edit.
Journaled(out) == IF board = Missing THEN journal ELSE Record(journal, board, out)

\* EditUnderLockJournaled: the transform gets the file as read under the lock, and
\* saves the journal before the board is written.
Edit(p, op) ==
  LET out == Apply(board, op) IN
  /\ board # Missing
  /\ Fits(op, board)
  /\ Begin(p, "edit", op, out, Journaled(out), <<"journal", "board">>)

\* Save and SaveRebasing write the board, then its journal entry.
BeginSave(p, kind, op, out) == Begin(p, kind, op, out, Journaled(out), <<"board", "journal">>)

\* Save/SaveTo: the tree loaded earlier, whatever the disk holds now.
Save(p, op) ==
  /\ view[p].at \in {"template", "loaded", "open"}
  /\ Fits(op, view[p].tree)
  /\ BeginSave(p, "save", op, Apply(view[p].tree, op))

RebasedOntoView(p, op) == Apply(view[p].tree, op)

\* SaveRebasing: the TUI's tree when the disk is lastDisk, otherwise the
\* mutation again on the disk's tree.
Rebased(p, op) ==
  IF board \in {Missing, view[p].last} THEN Apply(view[p].tree, op) ELSE Apply(board, op)

Rebase(p, op) ==
  /\ view[p].at = "open"
  /\ Fits(op, view[p].tree)
  /\ BeginSave(p, "rebase", op, Rebased(p, op))

\* git merge-file on sets of lines.
Merge3(mine, base, theirs) ==
  (mine \cap theirs) \cup (mine \ base) \cup (theirs \ base)

MergedFavouringDisk(mine, base) == {IF board = Missing THEN mine ELSE board}

\* SaveEditorMerge: mine when nobody else wrote (or the file is empty or gone),
\* else git's merge, clean or with both sides of its conflicts; without git, both.
Merged(mine, base) ==
  IF board \in {Missing, {}, base} THEN {mine}
  ELSE {c \in SUBSET (mine \cup board) : Merge3(mine, base, board) \subseteq c}

\* ... and nothing is journaled.
Merge(p, op) ==
  /\ view[p].at = "editor"
  /\ Fits(op, view[p].tree)
  /\ \E out \in Merged(Apply(view[p].tree, op), view[p].tree) :
       Begin(p, "merge", op, out, journal, <<"board">>)

\* timeTravel: the board, then the journal.  The lines an undo may take away
\* are those its entry brought, and conversely.
Undo(p) ==
  LET e == Last(journal.undo) IN
  /\ CanUndo(journal, board)
  /\ Begin(p, "undo", [add |-> LinesOf(e.before) \ LinesOf(e.after),
                       del |-> LinesOf(e.after) \ LinesOf(e.before)],
           e.before, Undone(journal), <<"board", "journal">>)

Redo(p) ==
  LET e == Last(journal.redo) IN
  /\ CanRedo(journal, board)
  /\ Begin(p, "redo", [add |-> LinesOf(e.after) \ LinesOf(e.before),
                       del |-> LinesOf(e.before) \ LinesOf(e.after)],
           e.after, Redone(journal), <<"board", "journal">>)

-----------------------------------------------------------------------------
(* Inside the critical section.                                            *)

Owes(file) == lock # NoProc /\ job.todo # <<>> /\ Head(job.todo) = file

WriteBoard ==
  /\ Owes("board")
  /\ board' = job.out
  /\ job' = [job EXCEPT !.todo = Tail(@)]
  /\ landed' = landed \cup {job.out}
  /\ UNCHANGED <<journal, lock, view, back, fwd>>

WriteJournal ==
  /\ Owes("journal")
  /\ journal' = job.jout
  /\ job' = [job EXCEPT !.todo = Tail(@)]
  /\ UNCHANGED <<board, lock, view, landed, back, fwd>>

\* A failed write.  journalRecord swallows its own and the operation goes on;
\* every other one is an error and ends it (timeTravel's journal is its last).
FailedTodo == IF Head(job.todo) = "board" THEN <<>> ELSE Tail(job.todo)

Swallowed == job.ok /\ Head(job.todo) = "journal" /\ job.kind \notin {"undo", "redo"}

FailWrite ==
  /\ Faults
  /\ lock # NoProc
  /\ job.todo # <<>>
  /\ job' = [job EXCEPT !.todo = FailedTodo, !.ok = Swallowed, !.whole = FALSE]
  /\ UNCHANGED <<files, lock, view, landed, back, fwd>>

Min2(a, b) == IF a < b THEN a ELSE b
Pred(n) == IF n = 0 THEN 0 ELSE n - 1

\* The undo and redo steps still open when the lock is given up: a journaled
\* edit adds one and closes the redo line, undo and redo walk, an operation
\* that wrote one file without the other closes everything.
Walkable(complete) ==
  IF files = <<job.board0, job.journal0>> THEN <<back, fwd>>
  ELSE IF complete /\ job.kind = "undo" THEN <<Pred(back), fwd + 1>>
  ELSE IF complete /\ job.kind = "redo" THEN <<back + 1, Pred(fwd)>>
  ELSE IF complete /\ job.kind # "merge" /\ job.board0 # Missing
       THEN <<Min2(back + 1, UndoLimit), 0>>
  ELSE <<0, 0>>

Release(complete) ==
  /\ lock' = NoProc
  /\ job' = NoJob
  /\ back' = Walkable(complete)[1]
  /\ fwd' = Walkable(complete)[2]
  /\ UNCHANGED <<files, landed>>

\* saveWithRebase, and restore's save: what was written is the tree and lastDisk;
\* after an error the mutation stays in the tree, beside the old lastDisk.
Saved(v) ==
  IF job.ok THEN View("open", job.out, job.out, {})
  ELSE View("open", Apply(v.tree, job.op), v.last,
            v.last \cap ((v.gone \ job.op.add) \cup job.op.del))

\* What the caller goes on from: a hook and an editor are done with theirs, and the
\* TUI reloads after an editor and after an undo or redo that worked.
Kept(v) ==
  IF job.kind = "edit" THEN v
  ELSE IF job.kind \in {"undo", "redo"} THEN (IF job.ok /\ v.at = "open" THEN NoView ELSE v)
  ELSE IF v.at = "open" THEN Saved(v)
  ELSE NoView

\* The operation returns.
Unlock ==
  /\ lock # NoProc
  /\ job.todo = <<>>
  /\ Release(job.whole)
  /\ view' = IF lock \in Viewer THEN [view EXCEPT ![lock] = Kept(view[lock])] ELSE view

\* The holder dies: the kernel drops its flock.
Crash ==
  /\ Faults
  /\ lock # NoProc
  /\ job.todo # <<>>
  /\ Release(FALSE)
  /\ view' = [view EXCEPT ![lock] = NoView]

\* The sidecar is lost or corrupt: it reads as an empty journal.
LoseJournal ==
  /\ Faults
  /\ lock = NoProc
  /\ journal' = EmptyJournal
  /\ back' = 0
  /\ fwd' = 0
  /\ UNCHANGED <<board, lock, job, view, landed>>

Next ==
  \/ \E p \in Viewer : Load(p) \/ ReadLast(p) \/ Reload(p) \/ OpenEditor(p) \/ Forget(p)
  \/ \E p \in Viewer, op \in Ops : Save(p, op) \/ Rebase(p, op) \/ Merge(p, op)
  \/ \E p \in Proc : Undo(p) \/ Redo(p)
  \/ \E p \in Proc, op \in Ops : Edit(p, op)
  \/ WriteBoard \/ WriteJournal \/ FailWrite \/ Unlock \/ Crash \/ LoseJournal

Spec == Init /\ [][Next]_vars

-----------------------------------------------------------------------------
(* Types.                                                                  *)

\* A journal entry is of boards that were there, and of a change.
Entries == {e \in [before : Content, after : Content] : e.before # e.after}
Journals2 == [undo : Seq(Entries), redo : Seq(Entries)]

Jobs == [kind : Kinds \cup {"none"}, op : [add : Content, del : Content],
         out : Content, jout : Journals2,
         todo : Plans, ok : BOOLEAN, whole : BOOLEAN, board0 : Disk, journal0 : Journals2]

Views == [at : Stages, tree : Content, last : Content, gone : Content]

\* The shape of the state: every entry of the journal holds two different
\* board contents, so that an undo always changes the board.
TypeOK ==
  /\ board \in Disk
  /\ journal \in Journals2
  /\ lock \in Proc \cup {NoProc}
  /\ job \in Jobs
  /\ view \in [Viewer -> Views]
  /\ landed \subseteq Content
  /\ back \in Nat
  /\ fwd \in Nat

-----------------------------------------------------------------------------
(* What the protocol promises.                                             *)

\* undoLimit bounds the whole timeline.  Only journalRecord trims, and redo
\* pushes onto the undo stack without trimming: what undo took off is what
\* redo puts back.
JournalBounded == Len(journal.undo) + Len(journal.redo) <= UndoLimit

\* One shared timeline: between operations, each of the last `back` edits can
\* be undone and each of the last `fwd` undone edits redone, whoever made them;
\* only an unjournaled or interrupted write stands in the way.
Reversible ==
  lock = NoProc => /\ back > 0 => CanUndo(journal, board)
                   /\ fwd > 0 => CanRedo(journal, board)

\* Undo and redo only ever bring back a board that really was on disk, even
\* when a process died between saving the journal and writing the board and
\* left an entry for an edit that never landed.
RestoresReal ==
  [][ job.kind \in {"undo", "redo"} /\ board' # board => board' \in landed ]_vars

\* What a rebasing save may drop beside what it was asked to: it writes the TUI's own
\* tree when the disk is lastDisk, and that tree may lack lines of lastDisk.
Unseen == IF job.kind = "rebase" /\ job.board0 = view[lock].last THEN view[lock].gone ELSE {}

\* No lost update: a board write by a locked read-modify-write, a rebasing
\* save, a merge or an undo takes away no line but those it was asked to take
\* away, whatever was written since its process last looked.  Two exceptions,
\* both of a rebasing save that finds lastDisk on disk: the lines that came between
\* openBoard's two reads (tui.go:491 and 501), which are in lastDisk and not in the
\* tree, and those the user took out in a save that failed (tui.go:791), which
\* left the tree without them.
LosesOnlyItsOwn ==
  [][ board' # board /\ job.kind # "save"
      => LinesOf(board) \ LinesOf(board') \subseteq job.op.del \cup Unseen ]_vars

\* SaveRebasing's comment, "never silently clobbers a concurrent external write": the
\* same without the exceptions.  (An edit between openBoard's two reads is.)
RebasesLoseOnlyTheirOwn ==
  [][ board' # board /\ job.kind = "rebase"
      => LinesOf(board) \ LinesOf(board') \subseteq job.op.del ]_vars

\* An operation that reports success has its lines on the board when it gives
\* up the lock.
EditLands ==
  [][ lock # NoProc /\ lock' = NoProc /\ job.todo = <<>> /\ job.ok
      => job.op.add \subseteq LinesOf(board) ]_vars

\* README "Write protocol": the hooks too hold the lock across the whole read,
\* modify and rename.  (They load the board before they take it.)
SavesLoseOnlyTheirOwn ==
  [][ board' # board /\ job.kind = "save"
      => LinesOf(board) \ LinesOf(board') \subseteq job.op.del ]_vars

\* SPEC "Shared undo journal": every writer journals.  (The editor merge of the
\* TUI's E and of the web's set-content does not.)
EveryWriterJournals ==
  [][ lock # NoProc /\ lock' = NoProc /\ job.todo = <<>> /\ job.ok
      /\ job.board0 \notin {Missing, board}
      => journal # job.journal0 ]_vars

-----------------------------------------------------------------------------
(* The abstract history this implements.                                   *)

\* The files as they were when the operation in progress took the lock: an
\* operation happens, for the history, when it gives the lock up.
Settled == IF lock = NoProc THEN [board |-> board, journal |-> journal]
           ELSE [board |-> job.board0, journal |-> job.journal0]

History == INSTANCE Timeline WITH
  Depth <- UndoLimit,
  now <- Settled.board,
  past <- [i \in DOMAIN Settled.journal.undo |-> Settled.journal.undo[i].before],
  future <- [i \in DOMAIN Settled.journal.redo |-> Settled.journal.redo[i].after]

\* The two files and the lock implement one history with a cursor, as long as
\* every writer journals and nothing fails: EditUnderLockJournaled, SaveTo,
\* SaveRebasing and timeTravel each are one atomic step of it, in whatever order
\* they write their two files.
ImplementsHistory == History!Spec
=============================================================================
