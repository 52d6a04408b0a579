----------------------------- MODULE TuiSession -----------------------------
(***************************************************************************)
(* The terminal UI on one local board (internal/tui): the tree it shows,   *)
(* the bytes it believes are on disk, its own bounded undo history, the    *)
(* inline input that holds a pending mutation, the $EDITOR round trip, and *)
(* the file watch that tells it of other writers.  The others (edit CLI,   *)
(* web server, hooks, a human's editor) act between any two of its steps.  *)
(*                                                                         *)
(* A content is a set of lines.  What happens under the board's lock is    *)
(* one step (BoardFile takes it apart); the UI reads without the lock, so  *)
(* each of its reads is a step of its own.                                 *)
(***************************************************************************)
EXTENDS UndoJournal, TuiHistory

CONSTANTS
  Line,       \* the lines a board may hold
  MaxEdits,   \* bound: edits, and undo steps that are not the journal's
  Faults      \* TRUE: saves fail

ASSUME TuiAssumption ==
  /\ MaxEdits \in Nat
  /\ Faults \in BOOLEAN

VARIABLES
  disk,      \* the board file
  journal,   \* its shared undo journal
  mode,      \* where the UI is
  tree,      \* model.board: what is on the screen
  lastDisk,  \* model.lastDisk: what the UI believes is on disk
  hist,      \* model.hist: in-memory undo and redo stacks of whole boards
  target,    \* lines the open input will replace
  base,      \* model.editorBase
  watch,     \* the change signal: in the kernel, in the watcher's channel, in
             \* the UI's queue
  edits,     \* how many so far
  \* history variables
  owed,      \* lines someone wrote and nobody has taken away since
  excuse,    \* why the UI may hold something else than the file, unannounced
  walked     \* contents left behind by the undo key since the last edit

shown == <<tree, lastDisk, hist>>
vars == <<disk, journal, mode, shown, target, base, watch, edits, owed, excuse, walked>>

Content == SUBSET Line
Modes == {"closed", "loaded", "based", "board", "input", "editor", "resync"}
Quiet == [event |-> FALSE, signal |-> FALSE, msg |-> FALSE]

\* What one mutation does: text is always kept, as a new item when its target
\* is gone; a structural change of an item that is gone changes nothing.
Mutations == {op \in [text : BOOLEAN, add : Content, del : Content] :
                /\ op.add \cap op.del = {}
                /\ op.add \cup op.del # {}
                /\ op.text => op.add # {}
                /\ ~op.text => op.del # {}}

applyOp(content, op) ==
  IF op.text \/ op.del \subseteq content THEN (content \ op.del) \cup op.add ELSE content

Init ==
  /\ disk \in Content
  /\ journal = EmptyJournal
  /\ mode = "closed"
  /\ tree = {}
  /\ lastDisk = {}
  /\ hist = NoHistory
  /\ target = {}
  /\ base = {}
  /\ watch = Quiet
  /\ edits = 0
  /\ owed = disk
  /\ excuse = {}
  /\ walked = {}

-----------------------------------------------------------------------------
(* The file watch: every replacement of the file raises one event; a burst *)
(* coalesces in the watcher's one-slot channel.                            *)

Watching == mode \notin {"closed", "loaded", "based"}

ReplacedUnseen == watch' = watch

\* A process replaced the file; the directory is watched, so a rename is seen.
Replaced == watch' = IF Watching THEN [watch EXCEPT !.event = TRUE] ELSE watch

\* watcher.loop
WatchLoop ==
  /\ watch.event
  /\ watch' = [watch EXCEPT !.event = FALSE, !.signal = TRUE]
  /\ UNCHANGED <<disk, journal, mode, shown, target, base, edits, owed, excuse, walked>>

\* watcher.wait delivers a reloadMsg; it is asked again when that was handled.
WatchWait ==
  /\ watch.signal /\ ~watch.msg
  /\ watch' = [watch EXCEPT !.signal = FALSE, !.msg = TRUE]
  /\ UNCHANGED <<disk, journal, mode, shown, target, base, edits, owed, excuse, walked>>

-----------------------------------------------------------------------------
(* The other writers.                                                      *)

\* A line comes or goes, and a journaling writer records it.
Outside(c, j) ==
  /\ c # disk
  /\ disk' = c
  /\ journal' = j
  /\ owed' = (owed \cap c) \cup (c \ disk)
  /\ walked' = {}
  /\ Replaced
  /\ UNCHANGED <<mode, shown, target, base, excuse>>

OutsideEdit(l) ==
  /\ edits < MaxEdits
  /\ edits' = edits + 1
  /\ \E c \in {disk \cup {l}, disk \ {l}} :
       Outside(c, Record(journal, disk, c)) \/ Outside(c, journal)

OutsideUndo ==
  /\ CanUndo(journal, disk)
  /\ Outside(Last(journal.undo).before, Undone(journal))
  /\ UNCHANGED edits

-----------------------------------------------------------------------------
(* Opening and leaving.                                                    *)

\* openBoard: the tree, then the bytes, then the watch.
OpenLoad ==
  /\ mode = "closed"
  /\ mode' = "loaded"
  /\ tree' = disk
  /\ UNCHANGED <<disk, journal, lastDisk, hist, target, base, watch, edits, owed, excuse, walked>>

OpenBase ==
  /\ mode = "loaded"
  /\ mode' = "based"
  /\ lastDisk' = disk
  /\ excuse' = IF tree = disk THEN {} ELSE {"torn"}
  /\ UNCHANGED <<disk, journal, tree, hist, target, base, watch, edits, owed, walked>>

OpenWatch ==
  /\ mode = "based"
  /\ mode' = "board"
  /\ excuse' = IF tree = disk THEN excuse ELSE excuse \cup {"unwatched"}
  /\ UNCHANGED <<disk, journal, shown, target, base, watch, edits, owed, walked>>

\* Quitting, and the in-place restart.
Quit ==
  /\ mode = "board"
  /\ mode' = "closed"
  /\ tree' = {}
  /\ lastDisk' = {}
  /\ hist' = NoHistory
  /\ watch' = Quiet
  /\ excuse' = {}
  /\ walked' = {}
  /\ UNCHANGED <<disk, journal, target, base, edits, owed>>

-----------------------------------------------------------------------------
(* Reading the file again.                                                 *)

\* doReload.
Reload(recordExternal) ==
  /\ tree' = disk
  /\ lastDisk' = disk
  /\ hist' = IF recordExternal /\ disk # tree THEN RecordExternal(hist, tree) ELSE hist
  /\ excuse' = {}

Swallow ==
  /\ excuse' = IF tree = disk THEN excuse ELSE excuse \cup {"swallowed"}
  /\ UNCHANGED shown

\* A reloadMsg: an open input holds a pointer into the tree, so the message is
\* dropped there.
ReloadMsg ==
  /\ watch.msg
  /\ mode \in {"board", "input"}
  /\ watch' = [watch EXCEPT !.msg = FALSE]
  /\ IF mode = "board" THEN Reload(TRUE)
     ELSE Swallow
  /\ UNCHANGED <<disk, journal, mode, target, base, edits, owed, walked>>

\* The r key.
ReloadKey ==
  /\ mode = "board"
  /\ Reload(TRUE)
  /\ UNCHANGED <<disk, journal, mode, target, base, watch, edits, owed, walked>>

\* The reload that follows undo, redo and the editor's merge, after the lock
\* was given up.
Resync ==
  /\ mode = "resync"
  /\ mode' = "board"
  /\ Reload(FALSE)
  /\ UNCHANGED <<disk, journal, target, base, watch, edits, owed, walked>>

-----------------------------------------------------------------------------
(* Saving a mutation.                                                      *)

SavedLastWins(op) == [out |-> applyOp(tree, op), over |-> FALSE]

\* SaveRebasing: the tree as it is when the disk reads what the UI believes;
\* otherwise the mutation again, on the disk's tree.
Saved(op) ==
  IF disk = lastDisk THEN [out |-> applyOp(tree, op), over |-> FALSE]
  ELSE [out |-> applyOp(disk, op), over |-> TRUE]

\* snapshot, then saveWithRebase.  A torn or unsaved tree takes others' lines
\* with it, which is what the excuse says.
SaveWithRebase(op) ==
  LET s == Saved(op) IN
  /\ edits < MaxEdits
  /\ edits' = edits + 1
  /\ disk' = s.out
  /\ journal' = Record(journal, disk, s.out)
  /\ tree' = s.out
  /\ lastDisk' = s.out
  /\ hist' = IF s.over THEN RecordExternal(Snapshot(hist, tree), disk) ELSE Snapshot(hist, tree)
  /\ owed' = IF excuse \cap {"torn", "unsaved"} # {} /\ ~s.over THEN s.out
             ELSE IF op.text \/ op.del \subseteq (IF s.over THEN disk ELSE tree)
             THEN (owed \ op.del) \cup op.add ELSE owed
  /\ excuse' = {}
  /\ walked' = {}
  /\ Replaced

\* The save fails: the mutation stays on the screen only.
SaveFails(op) ==
  /\ Faults
  /\ edits < MaxEdits
  /\ edits' = edits + 1
  /\ tree' = applyOp(tree, op)
  /\ hist' = Snapshot(hist, tree)
  /\ excuse' = excuse \cup {"unsaved"}
  /\ walked' = {}
  /\ UNCHANGED <<disk, journal, lastDisk, owed, watch>>

\* A one-key mutation of an item of the tree, or of its section.
StructuralKey(op) ==
  /\ mode = "board"
  /\ ~op.text
  /\ op.del \subseteq tree
  /\ SaveWithRebase(op) \/ SaveFails(op)
  /\ UNCHANGED <<mode, target, base>>

\* An inline input opens, on an item (edit) or on none (add, log, search).
StartInput(del) ==
  /\ mode = "board"
  /\ del \subseteq tree
  /\ mode' = "input"
  /\ target' = del
  /\ UNCHANGED <<disk, journal, shown, base, watch, edits, owed, excuse, walked>>

\* Enter with text.
InputEnter(op) ==
  /\ mode = "input"
  /\ op.text
  /\ op.del = target
  /\ mode' = "board"
  /\ target' = {}
  /\ SaveWithRebase(op) \/ SaveFails(op)
  /\ UNCHANGED base

\* Enter with nothing, a title left as it was, and every end of a search.
InputAbandon ==
  /\ mode = "input"
  /\ mode' = "board"
  /\ target' = {}
  /\ UNCHANGED <<disk, journal, shown, base, watch, edits, owed, excuse, walked>>

\* Esc resyncs with the disk.
InputEsc ==
  /\ mode = "input"
  /\ mode' = "board"
  /\ target' = {}
  /\ Reload(TRUE)
  /\ UNCHANGED <<disk, journal, base, watch, edits, owed, walked>>

-----------------------------------------------------------------------------
(* $EDITOR on a temporary copy.                                            *)

OpenEditor ==
  /\ mode = "board"
  /\ mode' = "editor"
  /\ hist' = Snapshot(hist, tree)
  /\ base' = disk
  /\ UNCHANGED <<disk, journal, tree, lastDisk, target, watch, edits, owed, excuse, walked>>

\* SaveEditorMerge: mine when nobody else wrote, else the three-way merge with
\* the markers of its conflicts; nothing is journaled.
EditorMerged(mine) ==
  IF disk \in {{}, base} THEN {mine}
  ELSE {c \in SUBSET (mine \cup disk) :
          (mine \cap disk) \cup (mine \ base) \cup (disk \ base) \subseteq c}

FinishEditorMerge(mine) ==
  /\ mode = "editor"
  /\ mode' = "resync"
  /\ mine # base => edits < MaxEdits
  /\ edits' = IF mine = base THEN edits ELSE edits + 1
  /\ disk' \in EditorMerged(mine)
  /\ hist' = IF disk = base THEN hist ELSE RecordExternal(hist, disk)
  /\ base' = {}
  /\ owed' = (owed \ (base \ mine)) \cup (mine \ base)
  /\ walked' = {}
  /\ Replaced
  /\ UNCHANGED <<journal, tree, lastDisk, target, excuse>>

\* The buffer is lost, or the merge cannot be written.
EditorFails ==
  /\ Faults
  /\ mode = "editor"
  /\ mode' = "resync"
  /\ UNCHANGED <<disk, journal, shown, target, base, watch, edits, owed, excuse, walked>>

-----------------------------------------------------------------------------
(* Undo and redo.                                                          *)

\* restore: the whole tree is replaced, and saved over whatever is there.
Restore(content) ==
  /\ edits < MaxEdits
  /\ edits' = edits + 1
  /\ disk' = content
  /\ journal' = Record(journal, disk, content)
  /\ tree' = content
  /\ lastDisk' = content
  /\ owed' = content
  /\ excuse' = {}
  /\ Replaced

\* The shared journal.
UndoKey ==
  /\ mode = "board"
  /\ CanUndo(journal, disk)
  /\ mode' = "resync"
  /\ disk' = Last(journal.undo).before
  /\ journal' = Undone(journal)
  /\ owed' = (owed \cap disk') \cup (disk' \ disk)
  /\ walked' = walked \cup {disk}
  /\ Replaced
  /\ UNCHANGED <<shown, target, base, edits, excuse>>

RedoKey ==
  /\ mode = "board"
  /\ CanRedo(journal, disk)
  /\ mode' = "resync"
  /\ disk' = Last(journal.redo).after
  /\ journal' = Redone(journal)
  /\ owed' = (owed \cap disk') \cup (disk' \ disk)
  /\ walked' = {}
  /\ Replaced
  /\ UNCHANGED <<shown, target, base, edits, excuse>>

\* The in-memory history, when the journal is empty or does not apply.
UndoFallback ==
  /\ mode = "board"
  /\ ~CanUndo(journal, disk)
  /\ hist.undo # <<>>
  /\ hist' = undoTo(hist, tree)
  /\ Restore(Last(hist.undo))
  /\ walked' = walked \cup {disk}
  /\ UNCHANGED <<mode, target, base>>

RedoFallback ==
  /\ mode = "board"
  /\ ~CanRedo(journal, disk)
  /\ hist.redo # <<>>
  /\ hist' = redoTo(hist, tree)
  /\ Restore(Last(hist.redo))
  /\ walked' = {}
  /\ UNCHANGED <<mode, target, base>>

-----------------------------------------------------------------------------
Others == (\E l \in Line : OutsideEdit(l)) \/ OutsideUndo

Keys ==
  \/ ReloadKey \/ OpenEditor \/ UndoKey \/ RedoKey \/ UndoFallback \/ RedoFallback
  \/ InputAbandon \/ InputEsc \/ Quit
  \/ \E op \in Mutations : StructuralKey(op) \/ InputEnter(op)
  \/ \E del \in Content : StartInput(del)

Next ==
  \/ Others \/ Keys
  \/ OpenLoad \/ OpenBase \/ OpenWatch
  \/ WatchLoop \/ WatchWait \/ ReloadMsg \/ Resync
  \/ EditorFails \/ \E mine \in Content : FinishEditorMerge(mine)

Spec == Init /\ [][Next]_vars

-----------------------------------------------------------------------------
(* Types.                                                                  *)

Entries == {e \in [before : Content, after : Content] : e.before # e.after}

TypeOK ==
  /\ disk \in Content /\ tree \in Content /\ lastDisk \in Content
  /\ journal \in [undo : Seq(Entries), redo : Seq(Entries)]
  /\ mode \in Modes
  /\ hist \in [undo : Seq(Content), redo : Seq(Content)]
  /\ target \in Content /\ base \in Content
  /\ watch \in [event : BOOLEAN, signal : BOOLEAN, msg : BOOLEAN]
  /\ edits \in 0 .. MaxEdits
  /\ owed \in Content
  /\ excuse \subseteq {"torn", "unwatched", "swallowed", "unsaved"}
  /\ walked \subseteq Content

-----------------------------------------------------------------------------
(* What the session promises.                                              *)

\* Whatever the order of the UI's reads, saves and merges and of the others'
\* writes, a line stays on the board until someone takes it away; the two
\* excuses are a tree and a lastDisk that were read at different times, and a
\* tree that holds a mutation which could not be saved.
NothingLost == owed \subseteq disk

\* A board that is not what the screen shows is about to be read again: an
\* event, a signal or a message is on its way, unless a message was dropped by
\* an input that did not resync, a write fell between the open and its watch,
\* or a save failed.
StaleScreenIsOwedAReload ==
  mode = "board" /\ tree # disk =>
    watch.event \/ watch.signal \/ watch.msg \/ excuse # {}

\* The tree and the bytes the next save compares the disk with were read or
\* written together, so that a disk that reads the same holds no line the tree
\* has not got; the two excuses again apart.
SaveBaseIsTheTree ==
  mode \notin {"closed", "loaded"} /\ excuse \cap {"torn", "unsaved"} = {} => tree = lastDisk

\* A save takes away only what its mutation names: what another writer put on
\* the board stays, whenever it was put there.
SaveNeverClobbers ==
  [][\A op \in Mutations :
       StructuralKey(op) \/ InputEnter(op) => disk \ op.del \subseteq disk']_vars

\* Pressing u again and again only goes back: it never returns to a state that
\* an earlier u left.
UndoOnlyGoesBack ==
  [][UndoKey \/ UndoFallback => disk' \notin walked]_vars
=============================================================================
