# A TLA+ verification of session-notes

session-notes is a markdown board that a person and coding agents edit at the
same time: a TUI, a command line, agent hooks, a local web server and a cloud
server all write it, and agents wait for each other's edits with `watch`. What
is hard in it is the sharing, and the places where a view of the board (a cursor,
a fold, a zoom) must survive that the board changes under it. This directory models
both, checks them with TLC on small instances and proves the main results with
TLAPS for all instances.

Every definition is translated from the Go source; `PROJECT.json` ("map") names
the lines each one stands for. The documentation of the repository is quoted only
where the code does something else (see [Disagreements](#disagreements)).

## The system

| Component | State it keeps | Operations | Talks to | Modelled |
|---|---|---|---|---|
| Board file, lock, undo journal (`internal/board`: lock, edit, parse, undo, conflict) | the board file, `.undo` sidecar, flock file | EditUnderLock(Journaled), Save, SaveRebasing, SaveEditorMerge, Undo, Redo | every local writer, through the files | `UndoJournal`, `BoardFile`, `Timeline` |
| watch and `edit --refresh-snapshot` (`watch.go`, `edit.go`) | the snapshot file | arm, seed, poll, print, deliverPending, refresh | the board file and its lock | `Watch` |
| Cloud store (`internal/cloud/store.go`) | SQLite tables boards and ops, one mutex per board, list of wake-up channels | CreateBoard, ApplyOp, SetContent, journal and prune, Subscribe, notify | HTTP handlers | `CloudStore` |
| Cloud event streams and their clients (`server.go`, `remote.go`, `watch.go`, `tui/remote.go`) | per stream: last compared content; per client: what it shows, queued events | subscribe, compare, filter, emit; read again, reconnect | store, by channels; client, by SSE | `CloudEvents` |
| Cloud HTTP API and remote edits (`server.go`, `remote.go`, `edit.go`) | RemoteTree: last version seen; tokens and grants | raw, edit and put requests, retry on 409; grant, revoke | store | `RemoteCall`, `RemoteEdit` |
| TUI session (`internal/tui`: tui, history, watch, editor) | tree, lastDisk, in-memory history, pending input, editor base | open, reload, key edits, inputs, `$EDITOR`, undo, redo, restart | board file, fsnotify watch | `TuiHistory`, `TuiSession` |
| TUI navigation (picker, dash, remote) | open path, remote store, watches and their wait commands | open from picker or dashboard, back, edit, undo | board files, cloud board | `TuiBoards` |
| Board tree and operations (`ops.go`, `board.go`, `tree.go`, `scope.go`, `ids.go`) | the tree that a file's lines read as | add, reply, fork, edit, marks, archive, delete, log, section operations; addressing, roots, ids | all of the above | `BoardOps` |
| TUI outline (`tui.go`, `search.go`) | cursor, collapsed sections, folded items, saved folds of a zoom | moves, folds, zoom, jumps, every editing key, reload | board operations, session | `BoardTree`, `Outline` |
| TUI map (`mapview.go`, `internal/mindmap`) | focus, folds, zoom, remembered children | moves, folds, zoom, wrap, jumps, every editing key | outline (m), board operations | `BoardTree`, `MindMap`, `MapView` |
| Hooks and status files (`internal/hooks`, `status.go`, `pins.go`) | status record, `.last-seen`, `.pins`, `.wip`, pane mappings | session start/end, prompt, stop, statusline, `pins --due` | board file, each other through the files | `Sidecar`, `SessionHooks` |
| Local web server (`internal/web`) | a stamp per event stream; the page: what it shows, its requests | board, events, edits, set-content | board file, status record, browser | `BoardPage`; its writes are `BoardFile`'s |
| Self-update, drawing, set-up, key map, deployment | — | — | — | see [Not modelled](#not-modelled) |

### What is hard in it, and what makes it right

*Board file.* Any number of processes read and write one file. A writer either
reads inside the lock (edit CLI, web), or loads first and rebases later (TUI),
or loads first and writes what it has (hooks, the in-memory undo of the TUI), or merges
(editor sessions). Each writes two files with two renames; a process may die, or a write
may fail, between them. Right means: nobody's line is lost but those an
operation was asked to take away; a reported success is on disk; undo and redo
are one bounded timeline for all writers and never bring back a board nobody
had.

*watch.* The snapshot is a delivery receipt shared by poll, re-armed watches and
the agent's own edits. Right means: a line is marked seen only if the agent was
told of it; the agent is never told of its own edits; every line that stays is
told in the end, across exits and re-armings.

*Cloud store.* Writers are serialized by a mutex per board; creating a board is
not; board and journal rows are one transaction; the journal is pruned now and
then. Right means: the journal is the true, gapless, bounded recent history, and
each write lands on what it was computed from.

*TUI.* It reads tree and bytes without the lock and at different times, keeps a
pointer into the tree while an input is open (and drops reloads then), keeps a
history of its own beside the shared one, and moves between boards with one
model. Right means: what it saves takes away only what the user took away; the
bytes it compares the disk with are those of its tree; a stale screen is
about to be read again; nothing of one board reaches another.

*Operations.* An operation works on a tree and is read back from indented lines,
in which text and blank lines are nodes like items; it is addressed by id, by a
line seen earlier or by text, and may be confined to a subtree. Right means:
nothing leaves the board unasked, nothing else moves or changes, replies
are read back where they were put, and nothing happens outside the root.

*Event streams.* A writer wakes handlers through channels of capacity one and
never waits. The handler reads board and journal at different times and filters
by node and by author. The client reads the board again on each event, and
events may be coalesced or dropped. Right means: no wake-up is lost, the filters
drop only what they should, and clients catch up.

*Outline and map.* Both keep tables keyed by what lines read like (folds) or by where
they are (the map's keys), and a position among stops that are built anew at each
change; a save may find another's file and bring that in. The map
computes sides and rows with integer division and moves through them by
remembered places. Right means: the cursor is where the edit
or the jump left it; folding and zooming never lose it; what is drawn can be reached
and is not drawn over; an edit that met another's file took out
nothing but what was picked.

*Hooks and page.* Each hook is a process of its own that reads and writes small files
without a lock, may be killed anywhere, and shares them with the status line, a
monitor's `pins --due` and the hooks of other sessions. The web page reads board
and status, and reads again when a stream tells it that their stamp moved. Right
means: the status record merges; a change the agent was not told of is told at
the next prompt; pins come within their cadence; a pane shows its latest session; an
open page keeps catching up.

*Remote edits.* A caller posts an op with the version it saw last, fetches and posts
again on a 409, and loses answers; the server looks up token, grant and board
one after the other. Right means: an edit lands at most once, an answer is true
and stays true, every call ends, and no write goes beyond what its caller was
granted.

## Modules

Each module says at its top what a state is and what one step is.

**`UndoJournal`** — pure operators on the two stacks of `undo.go`: `Record`
(journalRecord: push, trim to `UndoLimit`, close the redo line), `CanUndo`,
`CanRedo` (timeTravel's check that the board is still what the entry left),
`Undone`, `Redone`.

**`BoardFile`** — the files, the lock, the operation the lock holder is in the
middle of (`job`: what it will write and the writes it still owes, in the
code's order), and for processes that load before they lock, the copy they have
(`view`: the tree and `lastDisk`, which openBoard reads one after the other, `Load` and
`ReadLast`, and a reload at once). A save that worked leaves what it wrote in both; one that
failed leaves its mutation in the tree beside the old `lastDisk` (`Saved`), and the next
writes both. `gone` is a history variable: the lines of `lastDisk` the tree is without. Taking the lock and computing the result is one step, since only
the holder writes; each rename is a step of its own (`WriteBoard`,
`WriteJournal`), with `FailWrite` and `Crash` before any of them. `landed`,
`back`, `fwd` are history variables. One action per kind of writer: `Edit`,
`Save`, `Rebase`, `Merge`, `Undo`, `Redo`. A board is a set of lines: order,
nesting and text do not matter to what is stated. An operation adds what is new and deletes
what is there on the tree it was asked for (`Fits`). After the TUI's undo and redo the copy is
given up, and the reload that follows is a `Reload`.

**`Timeline`** — the abstract history users are promised: a present, a past and
a future, with atomic Edit, Undo and Redo. `BoardFile` implements it
(`History == INSTANCE Timeline WITH ...`, `ImplementsHistory`).

**`Watch`** — the board and snapshot files, watch processes and the agent's
edit. Other writers' critical sections are one step (nobody can see them half
done); the agent's `EditBegin` / `EditBoard` / `EditSnap` are three, because a
crash may come between; seeding reads and writes outside the lock, so it is two
(`ReadSeed`, `Seed`). A line is written at most once, so that a
difference cannot cancel a later one. `told`, `own`, `lost` are history
variables.

**`CloudStore`** — the row of one board and its journal (`db`), the mutex and
the write that holds it (`job`), subscriptions and the channels' contents.
A transaction is one step (SQLite's); `CreateBoard` takes no mutex; waking
streams is a step per stream; a restart keeps only `db`. `past` is the history.

**`CloudEvents`** — extends `CloudStore` with the handlers (`conn`) and the
clients (`client`). A handler's answer, subscription, baseline, wake-up, read,
judgement are separate steps, as they are separate reads and writes in
`handleEvents`; contents are named by their version. Streams in `Tui` belong to a TUI (reconnects,
gives itself an event when connected), the others to `watch`.

**`RemoteCall`** — what a caller may rely on: a call lands at most once, "done" has
landed, "refused" never will, "failed" says nothing. `RemoteEdit` implements it
(`CallOutcome`, `ImplementsRemoteCall`).

**`RemoteEdit`** — callers (`me`), requests under way (`net`), tokens and grants
(`access`) and a board of flat items, each with the call that wrote it last. A request
goes through the places of the handlers: sent, admitted (authWrap), authorized
(authorize, and handleEdit's forced root), answered; access may change between any
two. `HearConflict` is Apply's loop with its last post without a base; `Post`, `Raw` and
`Put` are the three requests, and `edit replace` is a `Raw` followed by a `Put`.
`GiveUp` ends a call on a broken connection and leaves its request behind, to be
served or not; `Lose` drops a request or an answer. The store's write is one step:
`CloudStore` takes it apart. A 404 for a missing grant makes PushContent try to create
the board, which an admin alone may do and who is never told so: it is a refusal
here. `told`, `landed` and a request's `held` are history variables.

**`TuiHistory`** — the two bounded stacks of whole boards of `history.go`.

**`TuiSession`** — one UI on one local board, with other writers between any two
steps. `mode` is where the UI is: opening takes three steps (`OpenLoad` parses,
`OpenBase` reads the bytes, `OpenWatch` watches), an undo or a finished
editor leaves it in `resync` until it has read the file again. `watch` is the
signal in its three stages (kernel event, channel of capacity one, message in
the queue). What happens under the board's lock is one step: `BoardFile` takes
it apart. `Saved` is SaveRebasing's decision, `EditorMerged` the outcomes
a three-way merge may have, `Restore` the last-writer-wins save of the undo
fallback. `owed`, `excuse` and `walked` are history variables: the lines
somebody wrote and nobody took away, why the screen may be stale or torn without
notice, and what `u` has left behind.

**`TuiBoards`** — one UI over two boards and a cloud board: picker, dashboard,
watches that are closed and opened with wait commands under way, the history that stays
or goes. Each board has lines of its own, so a line on the wrong board shows.
The races of one open board are `TuiSession`'s; an edit is one step here. Of the watch of a
local board opened after a cloud board nothing is promised: `remote` is still set, and
after one message only the cloud is waited for (tui.go:1200).

**`BoardOps`** — the operations on one board's tree. The state is the file: sections
of lines with their indentation; the tree is what `Parent` and `End` read out of
it, as buildTree does, so an operation's effect is judged as the next
reader sees it. `Located` is what the three ways of addressing come to,
`LocatedUnder` what a root lets through; `Written` gives ids and renders.
One action per operation of `Apply`, and `Apply` itself writes. `last` says what the last
operation was pointed at, for the properties. Texts that would be read back
as marks or anchors ("[x] ...", "!! ...", "... ^id"), and the title in the
frontmatter, are left out; `FileTree.Apply`'s lock and journal are `BoardFile`'s `Edit`.

**`BoardTree`** — a board as the two views see it: sections, items, replies, ids;
what removing, adding and archiving make of it; the map's keys.

**`MindMap`** — pure functions: the fold cycle (`NextFold`), what a fold shows,
the balancing of sides, heights and rows of `layout.go`. Recursion over
the tree is written as recursive functions. Columns and characters are left out.

**`MapView`** — the map over a board that the map, the outline or another writer
changes. `view` is what ensureMap builds after every step (`Built`): the zoom
followed by its id, the focus or what takes its place, shown nodes, sides, rows. One action
per key or group of keys of `handleMapKey`, the searches' jumps, and going to the outline and back.
`looks` and `edits` bound how much happens.

**`Outline`** — the outline over the file on disk and the tree last read. `positions`
are the stops of rebuildPositions. Each editing key is one step that works on the tree,
moves the cursor as the key's handler does (`Neighbor`, `At`), and saves (`Saves`), as `saveWithRebase` does:
on an unchanged file the tree is written, otherwise the edit is applied again to what looks like its target
in the file (`Saved`); or the save fails, and the edit stays in the tree beside the old
`lastDisk` (`Unsaved`), to be written with the next one or dropped by a rebase or reload. `OtherEdits` changes the file between any two.

**`Sidecar`** — `UpdateStatus` in its steps: read and change, open the temporary
file of one fixed name, write into it, rename it. Files are inodes, so that a writer goes on writing into
a file another has renamed away. `want` and `doubt` are history variables.

**`SessionHooks`** — extends `Sidecar` with the hooks of any number of sessions,
their small files, panes, and `pins --due`. Each read and each write
of a file is a step; `KillHook`, `KillLine`, `KillCli` may come before any of them. Of
`.last-seen` only its order with the board's time is kept ("never", "upto",
"behind"). A user's edit is one step: `BoardFile` takes it apart. `news`, `told`, `cut`, `latest`,
`raced` are history variables.

**`BoardPage`** — extends `SessionHooks` with the stream's handler and the browser of
one page. A stamp never comes back, so what is kept is whether it has moved since; answers under way
are counted as fresh or stale and arrive in any order.

`MCBoardFile`, `MCWatch`, `MCCloudEvents`, `MCRemoteEdit`, `MCTuiSession`, `MCTuiBoards`, `MCBoardOps`, `MCMapView`, `MCOutline`, `MCBoardPage` hold the symmetry sets
and definitions that the `.cfg` files use.

## Runs

Each run takes less than three minutes with two workers. The runs check what
could really go wrong; the type invariants of the modules with proofs are proved
(`JournalStaysBounded`, `HistoryIsBounded`, `WritesAreSerial` and `SessionSaveBase` likewise have no run of
their own any more), and those of `Watch`, `BoardOps` and `Outline` are stated in their modules and can be added to a cfg by one line.

| Run | Shows | Bounds |
|---|---|---|
| BoardWriters | `LosesOnlyItsOwn`, `EditLands`: every kind of writer against every other, a rebasing save that finds `lastDisk` excepted for what a torn open or a failed save left its tree without (`Unseen`, which happens); `Reversible`, `RestoresReal`: one timeline for them, with crashes and failed writes between the renames | 2 processes, one of which loads first, 2 lines, UndoLimit 2; 4 420 676 states |
| BoardHistory | `ImplementsHistory`: refinement of `Timeline` when nothing fails and every writer journals | 2 processes, 2 lines, UndoLimit 2 |
| WatchProtocol | `NothingMarkedUnseen`, `OwnEditNeverReported`, and the liveness of `EveryLineReported` and `SnapshotCatchesUp`: watches of one node, from a snapshot that is there or not, with faults | 2 watches, 2 lines, one of them in the node |
| CloudWatch | `JournalExplains`: the store under failed transactions, a racing CreateBoard and restarts; `WakeUpOwed`, `DropsOnlyOwn`, and the liveness of `OthersAreRead`: the stream of `watch --ignore-author` for a whole board, both excepting writes that were pruned before the handler asked (`Pruned`, which happens) | 2 authors, 1 stream, 4 versions, keep 1, prune every 2; 535 209 states |
| CloudScreen | `ScreenCatchesUp` (liveness) for a TUI of one node, over restarts and reconnections | 1 author, 2 lines, 3 versions |
| RemoteEdit | `ImplementsRemoteCall` (refinement of `RemoteCall`), `WritesAreGranted`, and the liveness of `EveryCallEnds` | a CLI run and a TUI, a call each, 2 items, 4 ops, 2 tries, one change of access, faults |
| TuiSession | `NothingLost`, `StaleScreenIsOwedAReload`: saves, inputs, editor, undo and failed saves against other writers | 2 lines, 3 edits, UndoLimit 1, HistLimit 2 |
| TuiBoards | `NothingCrosses`, `SomeoneListens`: every start, every way from board to board | 2 boards and a cloud board, a line each, 3 edits, at most 3 messages |
| BoardOps | `NothingVanishes`, `OthersStay`, `StaysInside`, `RepliesLand`: every operation, target and root, two in a row | 3 boards of up to 10 lines, 2 texts, 3 marks, MaxOps 2 |
| MapView | `AllReachable`, `StackedInOrder`: the picture and its keys; `RemovalLands`, `MapOpensOnCursor`, `ZoomFoldKeepsPlace`: the focus over edits, views and zooms | 3 boards of up to 9 things, one edit, 1 or 2 looks around it; 176 278 states |
| Outline | `EditsLand`, `OnlyWhatWasPicked`: every editing key, also over another's file and with saves that fail; `FoldingKeepsCursor`, `ZoomShowsOneLevel`, `JumpLands`: folds, zoom, search | 2 boards, 2 or 3 steps; 356 316 states |
| BoardPage | `SidecarMerges`, `NewsIsKept`, `PinsReach`, `PaneShowsLatest`: hooks, status line and `pins --due` with kills; the liveness of `PageCatchesUp`: the page over lost connections and requests | 2 sessions, a pane, a pinned line, cadence 1; five starts, each of which lets one or two prompts, edits, ticks, kills or drops happen; 618 327 states |

*Why the bounds are enough.* The processes interact pairwise through one file,
one lock and one snapshot: two that interfere and a third that observes cover
the orders in which a load, a write and a second write can fall; in the files' runs the
observer is the property, and the proofs hold for any number. Two
lines tell "mine" from "theirs". UndoLimit 2 has both a full and a half-full
journal, with trimming, redo after trimming, and chains of two. In `CloudWatch`
four versions with retention 1 and interval 2 have a full journal, two prunes and
the growth between them, and a handler that started at the first can lag so far behind that another
author's write is pruned before it asks. In `CloudScreen` three versions let a handler lag one write
behind while the next is being announced. In `RemoteEdit` two callers race on one item,
a delete makes the other's target vanish, a replace spans another's write, the grant
grows, shrinks or goes between any two steps, and each call goes through all its
tries and the last post without a base. `BoardOps` takes two operations, as the first gives ids and the second works on
what the first wrote; its boards have what its code tells apart:
replies at two depths and at odd indentation, text with and without items below
it, blank lines inside a thread, with and without Log and Archive, with and
without ids. `MapView`'s boards have a thread with a reply and an item below one item, a thread of replies only, an empty section,
a Log or an Archive, a section after the log, ids or none, and texts that wrap over two and three rows; a look (a fold, a zoom, a jump, a way to the outline) and an edit come in
any order, on the small board with two looks. `Outline`'s boards have a thread of a reply, a Log or an Archive; two steps put an
edit and what another wrote in each order with a fold, zoom or jump, and an edit after one whose save failed, and three, on the smaller board, put one between
the others. `BoardPage`'s starts
each have the actors of one hazard: two updates of the status and a kill; two prompts with a
monitor and a clock that passes the cadence; two prompts, two edits and a kill; a session
started twice in the pane of another; a page with two edits and a lost connection or request. The safety properties that matter most are also proved without
bounds.

*Bounds in the model* are `UndoLimit` (the code's undoLimit, 100), `HistLimit` (100), `MaxEdits` and `MaxMsgs` (no counterpart: they end the run), `MaxVersion` (no
counterpart: it ends the run), `InboxCap` (8 in the code), `JournalKeep` and
`PruneEvery` (500 and 64), `MaxTries` (8), `MaxCalls` and `MaxChanges` (no counterpart),
`MaxOps`, `MaxLooks`, `MaxSteps` and `Starts` (no counterpart), `Cadence` (15 minutes), and the finiteness of `Line` and `Text`. Deadlock is
checked in every run but BoardOps, MapView, Outline and BoardPage, which end when
their bounds are used up, and RemoteEdit, which ends when all calls have been made.

## Fairness

Stated only where a liveness property needs it. `Watch`: an edit that holds the
lock finishes (`WF`); a watch polls on a ticker and prints (`WF`), and because the lock
may be taken by others between two polls, its polls are strongly fair; the
agent re-arms a watch that has exited, as the docs' loop does. Faults are
never fair: nothing dies every time at the same point. `CloudEvents`: a write
that holds the mutex is a goroutine that runs on (`WF` on its steps together); a
handler goroutine runs when it can (`WF`); the TUI's event loop does not wait for
its stream, so taking an event is strongly fair, as connections may end first; the
TUI's connection ends because its `http.Client` has a timeout of 30 s (`WF`
on `End` for `Tui` only), and it then connects again. No fairness is given to writers
starting, `watch` connections ending, or restarts. `RemoteEdit`: the server serves
what reaches it and a caller reads its answer (`WF` per caller); a caller whose request
is lost gives up in the end (`WF`): RemoteTree's client has its 30 s, and
PushContent's, which has no timeout, has TCP's keep-alive. Calls, losses and
changes of access have no fairness. `BoardPage`: the server's goroutines answer, connect,
stamp and poll on a ticker, what they send arrives or is lost with its connection, and the browser handles events and answers (`WF` on
each of these); nothing is asked of hooks, users, the clock, or of lost things. The TUI modules have safety
properties only and no fairness.

## Proofs

All in modules of their own, with assumptions only on constants
(`BoardFileAssumption`, `TuiBoardsAssumption`, `WatchAssumption`, `CloudStoreAssumption`,
`CloudEventsAssumption`, `RemoteEditAssumption`, `RemoteEditData`, `SidecarAssumption`, `HooksAssumption`,
`PageAssumption`, `TreeAssumption`, `MapAssumption`, `ViewAssumption`), which TLC evaluates in the
runs. The last says of the boards a map starts from what parsing makes of any file: each section and item in
one place, items below sections and items, in no circle (`IsTree`).

**`BoardFile_proofs`** — `TypeCorrect`, `JournalStaysBounded`,
`TravelRestoresReal`, `NoLostUpdate`, `SuccessIsOnDisk`, `TimelineIsShared`,
`HistoryIsImplemented`. The bound is not inductive by itself: the holder's planned
journal (`job.jout`) must be bounded too, and an undo's entry must come off the
stack it came from. `TravelRestoresReal` needs that a pending undo or redo writes
an entry whose board was on disk, which rests on the check in `timeTravel`
against the board as it is under the lock. `NoLostUpdate`, `SuccessIsOnDisk`: the invariant
says that the lock holder's `board0` is the board until its write, and that what
it is about to write loses no more of it than its operation deletes (all kinds
but `save`) and has all that its operation adds. Of a process that has loaded it says that the lines of `lastDisk`
which its tree is without are in `gone` (`Knows`): that is what a rebasing save may lose
besides, through openBoard's two reads and through failed saves, and all it may. `TimelineIsShared`: that an undo leads back
is inductive only when it is said of a whole stretch of each stack (`Links`: each of the last
`back` entries ends where the next begins, the last one at the board on disk), and, while
the lock is held, of what was read and of what will be written (`Underway`), since a crash
leaves the one, the other, or a mixture that counts for nothing. `HistoryIsImplemented`: the
refinement of `Timeline`, under `Faultless` (no faults and no editor merge, which does
not journal). The history moves when the lock is given up (`OneStep`), and what was planned then is a change,
a step back, a step forth, or nothing (`PlanIsStep`); that trimming drops one entry at a
time needs that the journal is bounded.

**`Watch_proofs`** — `ReceiptsAreTrue`, `OwnEditsAreSilent`, when the snapshot
file is there from the start (`seeded`); without it `OwnEditNeverReported` fails (see the
disagreements), so the condition cannot go.
The invariant relates snapshot, board and the edit in progress: while an edit
has the lock, board minus snapshot is told or its own.

**`CloudEvents_proofs`**, of the store — `StoreTypes`, `HistoryIsTrue`, `HistoryIsBounded`,
`WritesAreSerial` from one invariant `StoreInv`. The window is inductive only with the number
of rows counted from the last prune (`Window`: at most JournalKeep + version mod
PruneEvery), which needs arithmetic of remainders by an unknown divisor, done by hand
(`Division`, `Remainder`, `ModSucc`). That versions count needs that a board
that does not exist has no content (`Fresh`), because a first write may race
CreateBoard.

**`CloudEvents_proofs`**, of the streams — `StreamsKeepTheStore` (the server with its streams
implements `CloudStore`'s specification, so its theorems carry over),
`EventTypes`, `NoLostWakeUp`, `SuppressionIsExact`. No lost wake-up is inductive only if
a handler that has just read (`judge`) is also owed one when the board has
gone on, and if only a write being announced has targets (`Quiescent`).
`SuppressionIsExact` has no condition: of the rows that are left, all are the ignored
author's when a handler passes over a change, so a write of anybody else that is passed over is
one whose row is gone. Without that exception it is false (`PassesOverOwnAlone`: TLC has a
counterexample under the bounds of `CloudWatch`).

**`RemoteEdit_proofs`** — `EditTypes`, `CallsLandOnce` (the refinement of `RemoteCall`)
and `WritesWereGranted`. The invariant says of each request under way that its call
is open or given up, that it has landed exactly if it has the answer of a write,
and which access it was let in by (`RequestOK`); of callers, that only the call they
wait for is asked and those to come have done nothing (`CallsOK`). At most once
follows since a caller has one request of a call at a time and posts again only
after an answer that says it has not landed.

**`TuiSession_proofs`** — `SessionTypes`, `SessionLosesNothing`, `SessionSaveBase`,
`SessionStaleIsOwed` from one invariant, `SessionInv`. A save that finds the
disk as remembered keeps what is owed only because the remembered bytes are
those of the tree, so the promises are proved together; and staleness must be
tracked through inputs and the editor (`StaleIsAnnounced`), where a message can
be dropped before the board view is back. What trimming, pushing, popping, recording and
walking the journal keep, over any contents, is stated as lemmas where it is used: here,
in `TuiBoards_proofs` and, of the stacks alone, in `BoardFile_proofs`.

**`TuiBoards_proofs`** — `BoardsTypes`, `WaitsGoOn`, `LinesStayHome`. What each key does to
a board, its journal, the screen and the history is said once over any sets of contents
(`MutateOver`, `KeysOver`, `ReloadOver`) and used twice: with every content for
the types, with the contents of each board's own lines for `LinesStayHome`. The
latter is inductive (`ApartInv`) only if it is said of the journals too, since undo writes
what they hold, and if the picker has neither tree nor history to hand on; from
a start in the dashboard or on a cloud board that is false (see the disagreements). `WaitsGoOn` is
inductive as it stands, once the counts have their bounds.

**`BoardPage_proofs`** — `SidecarIsMerged`, for any sessions, models and panes and
with writers killed anywhere. The invariant (`SidecarInv`) says which inodes may be the
same: an update that has been alone has the temporary file to itself from the moment it truncates it, and its
record holds what both fields should be; the sidecar is never the temporary
file; when two overlap, both lose that claim. That the hooks' and the page's
other steps leave all this alone is a lemma (`Others`).

The three promises of the hooks rest on the types of their state (`HookTypes`, which
`HooksAreTyped` proves: no stored time lies ahead of the clock), each with an invariant of its own.
`NewsIsNeverForgotten` (`NewsSound`): while something is not told the board is newer than
the stamp, and a hook past its stat has seen that of everything that was there then.
`LatestIsShown` (`PaneSound`): a session that is ending is the latest of no pane, so a
mapping that it has read and will remove is of a pane without a latest session, or of one
where another started in between. `PinsComeInTime` (`PinSound`): what the file says was
injected has been printed since, was cut short by a kill, or is held by a process that is
about to print it; a hook that finds nothing due may therefore rely on the file. All
are for any sets of sessions, panes and lines and any cadence; of `None` they assume that
it is neither a session nor a number (`HooksAssumption`).

**`MapView_proofs`** — `ViewTypes`, `EverythingReachable`, `OpensOnTheCursor`, `FoldsAroundTheFocus`,
`RemovalsLand`, `StacksInOrder`, for any boards, texts and bounds. The invariant (`IInv`) says that the
map on the screen is the one its board, its folds and its zoom ask for now (`Picture`:
nodes, sides, focus and root; the zoom's key is where its id is), that the board is a tree (`IsTree`) and
folds are folds, and that the outline's cursor is on the board. That is why a
focus, a zoom or a fold keyed by a place can never be left over from an earlier board:
every edit, of whoever, rebuilds the picture (`BuiltParts`), and every operation of a board keeps it a tree
(`Pruned`, `Grown`, `Moved`, `Poured`). The other theorems follow from it for a step:

- `EverythingReachable`: a set of nodes that has the root and is closed under the
  steps has all nodes (`ClosedIsAll`), for each node hangs in a row on one side of its parent (`Hung`), the keys enter
  every row and walk it to both ends; so the sets near the root grow until they are everything.
- `OpensOnTheCursor`: what `revealKey` unfolds shows every step of the key (`RevealedShown`).
- `FoldsAroundTheFocus`: the folds that z makes keep the way to the focus open, when no
  step above the root is a reply, and close its children (`WayStays`, `OneLevel`).
- `RemovalsLand`: a board without the item at the i-th place below p leads to the same things on the way to p, and
  the siblings behind i are one place up (`Taken`, `SiblingsMoveUp`); `Without` is such a board always, `WithArchived` where
  making Archive does not move the section (`DeleteTaken`, `ArchiveTaken`).
- `StacksInOrder`: the rows and heights on the screen are those of the layout (`LInv`, a second
  invariant: every step builds the map or moves only its focus). The layout keeps a range of rows for each node with what is
  below it (`Rowed`); a child's range lies in its parent's (`ChildrenWithin`), and of two in a stack the first's
  ends above the second's (`SiblingsApart`), so by induction from the root the ranges of any two nodes on a side
  of which neither is above the other do not overlap, in the order of the board (`RowsApart`). By induction from the leaves each
  node is centered in its range, and not on its last row unless that is the only one (`CentersWithin`): which is
  why two rows of text still fit, and three need not (the disagreement below).

`KeyOf`, `ThingAt`, `Subtree`, `SectionOf`, `Among` and the layout's `RowsOf`, `Heights`, `Tops` and `Centers` are recursive functions on numbers,
keys or things. No induction theorem with an operator parameter can be used on them, but what they compute can be proved all the same from
least counterexamples: in a set of numbers (`SetInduction`), of keys (`KeyInduction`), of things from the title
down or from the leaves up (`DownTheTree`, `UpTheTree`, which rest on `IsTree` having no circle), and, that there is such a
function at all, from ranks that fall with every call (`Iteration`, `Recursion`).

*Model-checked only:* the liveness properties (`EveryLineReported`,
`SnapshotCatchesUp`, `OthersAreRead`, `ScreenCatchesUp`, `EveryCallEnds`, `PageCatchesUp`), which are beyond the
prover; the properties of `Outline`, whose rows are
a list that every key rebuilds from the tree and the raw lines; the properties of
`BoardOps`, which speak of what every line hangs under before and after a splice
(nested minima and maxima over positions). Nothing known puts the action properties of these two modules
beyond the prover; no proof of them has been attempted, and they stay with TLC.

## Disagreements

What the repository's own documents, comments or tests say and the code does not
do. All were met while modelling and are quoted at their line in `PROJECT.json`. Where a property
is named, it is defined in its module, and a run of it (or of a property in the table above without the
excuse it states) has a counterexample.

- When the journal does not apply, `u` restores an in-memory snapshot
  and journals that, so the next `u` undoes it: the key toggles (`UndoOnlyGoesBack`).
- The dashboard keeps the in-memory history from board to board;
  `u` may write one board's content over another (`BoardsStayApart`).
- Archiving a section drops a reply that is indented under a
  blank line (`SectionsArchiveWhole`).
- Leaving a cloud board for the picker keeps the remote store;
  edits of the local board opened next go to the cloud (`BoardsStayApart` fails
  from a start on a cloud board).
- A reply to the root item of a carve-out lands outside it; a reply
  among siblings of odd indentation is read back under the last of them; a pin on an urgent
  item is lost when the board is written.
- Hooks, and the TUI when `u` or `ctrl+r` falls back to its own history (`restore`), load before they lock
  and may drop another writer's line (README "Write protocol"). `BoardFile` has
  it as `Save`; `LosesOnlyItsOwn` excepts it (`SavesLoseOnlyTheirOwn` fails). The structural keys do rebase: the comment of
  `save` (tui.go:764-768), which says that they do not, is older than the code.
- openBoard reads the file twice; a write between the two is overwritten by the
  first save (`SaveNeverClobbers` and `RebasesLoseOnlyTheirOwn` fail).
- An input that ends with nothing to save does not resync, though it dropped
  reloads.
- The editor merge does not journal (SPEC "EVERY writer journals").
- The web's set-content merges where the README says it is refused.
- The watch's snapshot is seeded outside the lock, so an agent can be told
  of its own edit; for the same reason a second first arming can mark a line as seen that was not
  printed; and a watch of a node marks the whole board as seen (edit.go:45-48).
- An agent on a cloud board can be woken by its own edits.
- A change during a reconnect of a cloud TUI can stay unseen until the next one.
- On a 409 the remote client takes the new version but not the new text, and posts its
  op over it; a remote `edit replace` puts back the whole board it read
  (`ReplaceKeepsTheRest` fails); a TUI save whose answer is lost is called unsaved
  though it may land.
- The author filter can drop another author's write when the journal was
  pruned under it (`PassesOverOwnAlone`).
- The map: a node wrapped over three rows or more with few children below it is drawn over
  the one before it (`AllStackedInOrder`); a jump of the search out of a zoom goes back into it (`JumpLands`); after a
  change above the zoomed node `m` opens on the zoom's root; `z` inside a zoomed thread loses the zoom;
  archiving an entry of the log, or of a section after it, on a board without an Archive loses the focus; `A` on the
  root of a zoom adds outside what is shown; `m` to an item that the outline has folded away
  does not go there.
- The outline: `D` over another's file takes replies along that nobody saw
  (`DeletesWhatIsShown`); the cursor is an index and moves to another item when another's file
  comes in; folds are keyed by the raw line and open when it changes; a rename leaves item folds behind
  under the old title; what `h` remembers for a header `l` does not use; jumping to
  a section goes to its header.
- The hooks: overlapping status updates lose each other's field or leave a file
  that cannot be read; a write between prompt-submit's stat and its stamp is never announced;
  a session end can remove the mapping of a session that has just started; a process killed before it prints
  its pins silences them for a cadence, and two at once print them twice; urgent items are
  printed at every prompt.
- The web page: what changes between its first read and the stream's first
  stamp, in a reconnection, or behind a failed or overtaken request is not shown until the next change. Its undo
  walks the shared journal, not one of its own.

## Plan

Done: `UndoJournal`, `BoardFile` with `Timeline`, `Watch`, `CloudStore`,
`CloudEvents` composed with it, `RemoteEdit` with `RemoteCall`, `TuiSession`, and
`Sidecar` with `SessionHooks` and `BoardPage`, `TuiBoards`, and `MapView` over `MindMap` and
`BoardTree`, with proofs; `BoardOps` and `Outline`, model-checked. To come, in order:

1. Self-update (download, verify, replace, re-exec), journal migration.
2. Several boards in one cloud store; the dashboard's and the web index's lists.
3. The mouse, and the search's list and scores, in the two views.

Theorems to come: the outline's, over the lemmas about trees that the map's proofs have; the safety of 1.

## Not modelled

Drawing (the map's columns and characters, `view.go`, the list of the picker, the scores of the
search), mouse and scrolling, generated key tables,
command-line parsing and printing, one-shot set-up commands, the prototypes
under `explorations/`, test drivers and deployment scripts: they keep no shared
state. Conflict sidecars, the watch's notes directory, several boards in one
store, the watch snapshot in the web page's stamp, the printed statistics of the hooks, and the text of boards are abstracted away. Self-update
replaces a file and starts the program again; it is planned as above.
