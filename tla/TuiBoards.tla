------------------------------ MODULE TuiBoards ------------------------------
(***************************************************************************)
(* One terminal UI that moves between boards (internal/tui): it starts on  *)
(* a file, in the picker, in the dashboard or on a cloud board, opens and  *)
(* leaves boards, and edits and undoes on the one that is open.  What one  *)
(* board leaves behind in the model meets the next one here; the races of  *)
(* one open board are TuiSession's, so an edit and a reload are one step.  *)
(***************************************************************************)
EXTENDS UndoJournal, TuiHistory

CONSTANTS
  Board,     \* local board files
  Cloud,     \* the cloud board
  Line,      \* [Board \cup {Cloud} -> the lines that are written on that board]
  Starts,    \* how this UI may be started: file, picker, dash, remote
  MaxEdits,  \* bound: edits, and undo steps that are not the journal's
  None       \* no board, no watch

ASSUME TuiBoardsAssumption ==
  /\ Cloud \notin Board
  /\ None \notin Board \cup {Cloud}
  /\ \A b, c \in Board \cup {Cloud} : b # c => Line[b] \cap Line[c] = {}
  /\ Starts \subseteq {"file", "picker", "dash", "remote"}
  /\ MaxEdits \in Nat

VARIABLES
  store,    \* [Board \cup {Cloud} -> content]
  journal,  \* [Board -> its shared undo journal]
  start,    \* how this UI was started
  mode,     \* the board view, the picker or the dashboard
  path,     \* model.path
  remote,   \* whether model.remote is set
  cameFromDash,
  tree,     \* model.board
  hist,     \* model.hist
  watch,    \* model.watch: the board or "dir" it watches
  signal,   \* whether its channel holds a signal
  waits,    \* wait commands on it
  cloud,    \* the same for remoteStore: [signal, waits]
  msgs,     \* reloadMsgs not handled yet
  edits

watching == <<watch, signal, waits, cloud, msgs>>
model == <<mode, path, remote, cameFromDash, tree, hist>>
vars == <<store, journal, start, model, watching, edits>>

Boards == Board \cup {Cloud}
Lines == UNION {Line[b] : b \in Boards}

\* bound: reloadMsgs at one time
MaxMsgs == 3
Queue(n) == IF n > MaxMsgs THEN MaxMsgs ELSE n

\* Where an edit and a reload go: to the cloud whenever a remote store is there.
Attached == IF remote THEN Cloud ELSE path

Init ==
  /\ store = [b \in Boards |-> {}]
  /\ journal = [b \in Board |-> EmptyJournal]
  /\ start \in Starts
  /\ mode = CASE start = "picker" -> "picker" [] start = "dash" -> "dash" [] OTHER -> "board"
  /\ path \in IF start = "file" THEN Board ELSE {None}
  /\ remote = (start = "remote")
  /\ cameFromDash = FALSE
  /\ tree = {}
  /\ hist = NoHistory
  /\ watch = CASE start = "dash" -> "dir" [] start = "file" -> path [] OTHER -> None
  /\ signal = FALSE
  /\ waits = IF watch = None THEN 0 ELSE 1
  /\ cloud = [signal |-> remote, waits |-> IF remote THEN 1 ELSE 0]
  /\ msgs = 0
  /\ edits = 0

-----------------------------------------------------------------------------
(* Watches and their wait commands.                                        *)

RewatchedUnheard(on) ==
  /\ watch' = on
  /\ signal' = FALSE
  /\ waits' = 0
  /\ msgs' = msgs

\* A watch is closed: its wait commands end, and one that had a signal to read
\* as well may still deliver it.  The new one, if any, has one wait command.
Rewatched(on) ==
  /\ watch' = on
  /\ signal' = FALSE
  /\ waits' = IF on = None THEN 0 ELSE 1
  /\ msgs' \in {msgs} \cup {Queue(n) : n \in IF signal /\ waits > 0 THEN {msgs + 1} ELSE {}}

WatchWait ==
  /\ signal /\ waits > 0
  /\ signal' = FALSE
  /\ waits' = waits - 1
  /\ msgs' = Queue(msgs + 1)
  /\ UNCHANGED <<store, journal, start, model, watch, cloud, edits>>

CloudWait ==
  /\ cloud.signal /\ cloud.waits > 0
  /\ cloud' = [signal |-> FALSE, waits |-> cloud.waits - 1]
  /\ msgs' = Queue(msgs + 1)
  /\ UNCHANGED <<store, journal, start, model, watch, signal, waits, edits>>

-----------------------------------------------------------------------------
(* Other writers, and the changes a watch sees.                            *)

\* The dashboard's watch sees every board file.
Touched(b) ==
  /\ signal' = (signal \/ watch \in {b, "dir"})
  /\ UNCHANGED <<watch, waits, cloud, msgs>>

TouchedCloud ==
  /\ cloud' = [cloud EXCEPT !.signal = remote]
  /\ UNCHANGED <<watch, signal, waits, msgs>>

Written(b, content) ==
  /\ store' = [store EXCEPT ![b] = content]
  /\ IF b = Cloud THEN TouchedCloud /\ UNCHANGED journal
     ELSE /\ Touched(b)
          /\ journal' = [journal EXCEPT ![b] = Record(@, store[b], content)]

OutsideEdit(b) ==
  /\ edits < MaxEdits
  /\ edits' = edits + 1
  /\ \E l \in Line[b] : Written(b, store[b] \cup {l}) \/ Written(b, store[b] \ {l})
  /\ UNCHANGED <<start, model>>

-----------------------------------------------------------------------------
(* Opening and leaving boards.                                             *)

\* openBoard
Opened(b) ==
  /\ path' = b
  /\ tree' = store[b]
  /\ mode' = "board"

\* Enter in the picker: openBoard, then Init starts the wait commands.
PickerOpen(b) ==
  /\ mode = "picker"
  /\ Opened(b)
  /\ Rewatched(b)
  /\ cloud' = [cloud EXCEPT !.waits = IF remote /\ @ < MaxMsgs THEN @ + 1 ELSE @]
  /\ UNCHANGED <<store, journal, start, remote, cameFromDash, hist, edits>>

\* Enter in the dashboard.
DashOpen(b) ==
  /\ mode = "dash"
  /\ Opened(b)
  /\ cameFromDash' = TRUE
  /\ Rewatched(b)
  /\ UNCHANGED <<store, journal, start, remote, hist, cloud, edits>>

\* q or esc on a board that the dashboard opened: enterDash.
EnterDash ==
  /\ mode = "board" /\ cameFromDash
  /\ mode' = "dash"
  /\ cameFromDash' = FALSE
  /\ Rewatched("dir")
  /\ UNCHANGED <<store, journal, start, path, remote, tree, hist, cloud, edits>>

KeptHistory == hist

\* The history the picker hands to the next board.
PickerHistory == NoHistory

\* B: enterPicker.
EnterPicker ==
  /\ mode = "board"
  /\ mode' = "picker"
  /\ path' = None
  /\ tree' = {}
  /\ cameFromDash' = FALSE
  /\ hist' = PickerHistory
  /\ Rewatched(None)
  /\ UNCHANGED <<store, journal, start, remote, cloud, edits>>

-----------------------------------------------------------------------------
(* On a board.                                                             *)

\* What a mutation leaves on the screen and in the store: the op again on what
\* the store holds by then.
Mutate(add, del) ==
  LET out == (store[Attached] \ del) \cup add IN
  /\ mode = "board"
  /\ edits < MaxEdits
  /\ edits' = edits + 1
  /\ Written(Attached, out)
  /\ tree' = out
  /\ hist' = IF remote \/ store[Attached] = tree THEN Snapshot(hist, tree)
             ELSE RecordExternal(Snapshot(hist, tree), store[Attached])
  /\ UNCHANGED <<start, mode, path, remote, cameFromDash>>

\* The user types a line of the board that is open, or deletes one on the screen.
AddLine(l) == l \in Line[IF path = None THEN Cloud ELSE path] /\ Mutate({l}, {})
DeleteLine(l) == l \in tree /\ Mutate({}, {l})

\* doReload
Reload(record) ==
  /\ tree' = store[Attached]
  /\ hist' = IF record /\ tree' # tree THEN RecordExternal(hist, tree) ELSE hist

\* The r key.
ReloadKey ==
  /\ mode = "board"
  /\ Reload(TRUE)
  /\ UNCHANGED <<store, journal, start, mode, path, remote, cameFromDash, watching, edits>>

\* A reloadMsg is acted on according to the mode, and then a wait command is
\* issued again: the cloud's whenever there is one.
Rewait ==
  IF remote
  THEN /\ cloud' = [cloud EXCEPT !.waits = IF @ < MaxMsgs THEN @ + 1 ELSE @]
       /\ UNCHANGED waits
  ELSE /\ waits' = IF watch = None \/ waits = MaxMsgs THEN waits ELSE waits + 1
       /\ UNCHANGED cloud

ReloadMsg ==
  /\ msgs > 0
  /\ msgs' = msgs - 1
  /\ IF mode = "board" THEN Reload(TRUE) ELSE UNCHANGED <<tree, hist>>
  /\ Rewait
  /\ UNCHANGED <<store, journal, start, mode, path, remote, cameFromDash, watch, signal, edits>>

\* u: the shared journal, else the in-memory history, written over the open file.
UndoKey ==
  /\ mode = "board" /\ ~remote
  /\ CanUndo(journal[path], store[path])
  /\ store' = [store EXCEPT ![path] = Last(journal[path].undo).before]
  /\ journal' = [journal EXCEPT ![path] = Undone(@)]
  /\ tree' = store'[path]
  /\ Touched(path)
  /\ UNCHANGED <<start, mode, path, remote, cameFromDash, hist, edits>>

UndoFallback ==
  /\ mode = "board" /\ ~remote
  /\ ~CanUndo(journal[path], store[path])
  /\ hist.undo # <<>>
  /\ edits < MaxEdits
  /\ edits' = edits + 1
  /\ Written(path, Last(hist.undo))
  /\ tree' = Last(hist.undo)
  /\ hist' = undoTo(hist, tree)
  /\ UNCHANGED <<start, mode, path, remote, cameFromDash>>

RedoKey ==
  /\ mode = "board" /\ ~remote
  /\ CanRedo(journal[path], store[path])
  /\ store' = [store EXCEPT ![path] = Last(journal[path].redo).after]
  /\ journal' = [journal EXCEPT ![path] = Redone(@)]
  /\ tree' = store'[path]
  /\ Touched(path)
  /\ UNCHANGED <<start, mode, path, remote, cameFromDash, hist, edits>>

RedoFallback ==
  /\ mode = "board" /\ ~remote
  /\ ~CanRedo(journal[path], store[path])
  /\ hist.redo # <<>>
  /\ edits < MaxEdits
  /\ edits' = edits + 1
  /\ Written(path, Last(hist.redo))
  /\ tree' = Last(hist.redo)
  /\ hist' = redoTo(hist, tree)
  /\ UNCHANGED <<start, mode, path, remote, cameFromDash>>

-----------------------------------------------------------------------------
Navigate ==
  \/ \E b \in Board : PickerOpen(b) \/ DashOpen(b)
  \/ EnterDash \/ EnterPicker

Keys ==
  \/ \E l \in Lines : AddLine(l) \/ DeleteLine(l)
  \/ ReloadKey \/ UndoKey \/ UndoFallback \/ RedoKey \/ RedoFallback

Next ==
  \/ \E b \in Boards : OutsideEdit(b)
  \/ Navigate \/ Keys
  \/ WatchWait \/ CloudWait \/ ReloadMsg

Spec == Init /\ [][Next]_vars

-----------------------------------------------------------------------------
(* Types.                                                                  *)

Content == SUBSET Lines
Entries == {e \in [before : Content, after : Content] : e.before # e.after}

TypeOK ==
  /\ store \in [Boards -> Content]
  /\ journal \in [Board -> [undo : Seq(Entries), redo : Seq(Entries)]]
  /\ start \in Starts
  /\ mode \in {"board", "picker", "dash"}
  /\ path \in Board \cup {None}
  /\ remote \in BOOLEAN /\ cameFromDash \in BOOLEAN
  /\ mode = "board" => remote \/ path # None
  /\ tree \in Content
  /\ hist \in [undo : Seq(Content), redo : Seq(Content)]
  /\ watch \in Board \cup {"dir", None}
  /\ signal \in BOOLEAN
  /\ cloud \in [signal : BOOLEAN, waits : 0 .. MaxMsgs]
  /\ waits \in 0 .. MaxMsgs /\ msgs \in 0 .. MaxMsgs
  /\ edits \in 0 .. MaxEdits

-----------------------------------------------------------------------------
(* What moving between boards must not disturb.                            *)

\* What is written on one board never turns up on another, whichever boards
\* were open before and whatever was undone there.
BoardsStayApart == \A b \in Boards : store[b] \subseteq Line[b]

\* It holds of a UI that was started on a file or in the picker, whose way from
\* board to board is through enterPicker; and there the screen and the
\* in-memory history, too, are the open board's.
NothingCrosses ==
  start \in {"file", "picker"} =>
    /\ BoardsStayApart
    /\ path # None => /\ tree \subseteq Line[path]
                      /\ \A k \in DOMAIN hist.undo : hist.undo[k] \subseteq Line[path]
                      /\ \A k \in DOMAIN hist.redo : hist.redo[k] \subseteq Line[path]

\* While a watch is open, somebody waits for it or a message is about to be
\* handled that will make somebody wait: the chain of wait commands never
\* breaks, whenever a watch was closed and whatever its last message meets.  Left
\* out is the watch of a local board opened after a cloud board: remote is still
\* set then, and Update waits for the cloud again and not for the watch
\* (tui.go:1200), so of that watch one message is heard.
SomeoneListens ==
  /\ watch # None /\ ~remote => waits + msgs > 0
  /\ remote => cloud.waits + msgs > 0
=============================================================================
