-------------------------------- MODULE Watch --------------------------------
(***************************************************************************)
(* How an agent hears of the edits others make to a board file: `watch`    *)
(* polls the board against a snapshot file and prints the difference, and  *)
(* `edit --refresh-snapshot` copies what it wrote over the same snapshot,  *)
(* so that the agent is not told of its own edits.                         *)
(*                                                                         *)
(* A board is a set of lines; a line that comes to the board is new, so a  *)
(* difference is never cancelled by a later one.  Critical sections of the *)
(* board lock that cannot be seen half done are one step; the edit CLI's,  *)
(* which prints, writes the board and writes the snapshot, is three.  The  *)
(* undo journal is left to BoardFile: nothing here reads it.               *)
(***************************************************************************)
EXTENDS Integers

CONSTANTS
  Line,      \* the lines that may ever be written
  Old,       \* those the board starts with
  InNode,    \* those under the watched node; all of them without --node
  Watcher,   \* watch processes that share the snapshot file
  Faults,    \* TRUE: processes die, file operations fail
  NoFile     \* the snapshot before it exists

ASSUME WatchAssumption ==
  /\ Old \subseteq Line
  /\ InNode \subseteq Line
  /\ Faults \in BOOLEAN
  /\ \A c \in SUBSET Line : c # NoFile

VARIABLES
  board,     \* the board file
  snap,      \* the snapshot file
  pc,        \* [Watcher -> where the process is]
  out,       \* [Watcher -> the added lines it is about to print, or the seed it read]
  edit,      \* the agent's edit in progress
  used,      \* every line that was ever on the board
  \* history variables
  own,       \* the lines the agent wrote with --refresh-snapshot, and no fault
             \* kept from the snapshot
  told,      \* the lines the agent knows: printed, its own, or there when the
             \* snapshot was first made
  lost,      \* the lines a fault may have kept from it
  seeded     \* whether the snapshot file was there from the start

vars == <<board, snap, pc, out, edit, used, own, told, lost, seeded>>

Lines(file) == IF file = NoFile THEN {} ELSE file
NoEdit == [step |-> "none", to |-> {}, self |-> {}]

Init ==
  /\ board = Old
  /\ seeded \in BOOLEAN
  /\ snap = IF seeded THEN Old ELSE NoFile
  /\ pc = [w \in Watcher |-> "off"]
  /\ out = [w \in Watcher |-> {}]
  /\ edit = NoEdit
  /\ used = Old
  /\ own = {}
  /\ told = IF seeded THEN Old ELSE {}
  /\ lost = {}

LockFreeBeforeRefresh == edit.step \in {"none", "snap"}

\* The board lock is held from the read of the board to the snapshot's refresh.
LockFree == edit.step = "none"

-----------------------------------------------------------------------------
(* Writers the watch is to report: the user in the TUI or the web, a hook. *)

Add(x) ==
  /\ LockFree
  /\ x \notin used
  /\ board' = board \cup {x}
  /\ used' = used \cup {x}
  /\ UNCHANGED <<snap, pc, out, edit, own, told, lost>>

Delete(x) ==
  /\ LockFree
  /\ x \in board
  /\ board' = board \ {x}
  /\ UNCHANGED <<snap, pc, out, edit, used, own, told, lost>>

\* The first snapshot is a baseline: what is in it is no change to report.
Baseline(content) == IF snap = NoFile THEN content ELSE {}

-----------------------------------------------------------------------------
(* The agent's edit with --refresh-snapshot.                               *)

DeliverNothing == {}

\* deliverPending: what the watch still owes is printed before the edit is
\* applied; without a snapshot file no watch is armed and nothing is owed.
DeliverPending == IF snap = NoFile THEN {} ELSE board \ snap

\* The lock is taken, the pending lines are printed; the transform then may
\* fail, and the edit is over.
EditBegin(x) ==
  /\ LockFree
  /\ x \notin used
  /\ told' = told \cup DeliverPending
  /\ edit' \in {NoEdit, [step |-> "board", to |-> board \cup {x}, self |-> {x}]}
  /\ UNCHANGED <<board, snap, pc, out, used, own, lost>>

EditBoard ==
  /\ edit.step = "board"
  /\ board' = edit.to
  /\ used' = used \cup edit.self
  /\ own' = own \cup edit.self
  /\ told' = told \cup edit.self
  /\ edit' = [edit EXCEPT !.step = "snap"]
  /\ UNCHANGED <<snap, pc, out, lost>>

EditSnap ==
  /\ edit.step = "snap"
  /\ snap' = edit.to
  /\ told' = told \cup Baseline(edit.to)
  /\ edit' = NoEdit
  /\ UNCHANGED <<board, pc, out, used, own, lost>>

\* The process dies, or its next write fails: the lock is free again.  A board
\* write whose snapshot does not follow is for the watch somebody else's.
EditFails ==
  /\ Faults
  /\ edit.step # "none"
  /\ edit' = NoEdit
  /\ own' = own \ edit.self
  /\ UNCHANGED <<board, snap, pc, out, used, told, lost>>

-----------------------------------------------------------------------------
(* The watch process.                                                      *)

SeedsAlways == TRUE

\* init: an existing snapshot is kept, so that what happened since the last
\* arming is still reported; a missing one is made from the board.
Seeds == snap = NoFile

Arm(w) ==
  /\ pc[w] = "off"
  /\ pc' = [pc EXCEPT ![w] = IF Seeds THEN "read" ELSE "poll"]
  /\ UNCHANGED <<board, snap, out, edit, used, own, told, lost>>

\* The board is read for it, and the snapshot written, without the lock.
ReadSeed(w) ==
  /\ pc[w] = "read"
  /\ out' = [out EXCEPT ![w] = board]
  /\ pc' = [pc EXCEPT ![w] = "seed"]
  /\ UNCHANGED <<board, snap, edit, used, own, told, lost>>

Seed(w) ==
  /\ pc[w] = "seed"
  /\ snap' = out[w]
  /\ told' = told \cup Baseline(out[w])
  /\ pc' = [pc EXCEPT ![w] = "poll"]
  /\ out' = [out EXCEPT ![w] = {}]
  /\ UNCHANGED <<board, edit, used, own, lost>>

\* The added lines and the removed lines of the watched subtree.
Diff(before, after) == ((after \ before) \cup (before \ after)) \cap InNode
Added(before, after) == (after \ before) \cap InNode

AdvancedByAdditions == Lines(snap) \cup board

\* What a poll that found a change leaves in the snapshot.
Advanced == board

\* A poll under the lock that finds a change: the snapshot is advanced to the
\* whole board, also when only a node is watched; the text is printed after the
\* lock is given up.
Poll(w) ==
  /\ pc[w] = "poll"
  /\ LockFree
  /\ Diff(Lines(snap), board) # {}
  /\ snap' = Advanced
  /\ out' = [out EXCEPT ![w] = Added(Lines(snap), board)]
  /\ pc' = [pc EXCEPT ![w] = "print"]
  /\ UNCHANGED <<board, edit, used, own, told, lost>>

\* fmt.Print; with --once the process then exits.
Report(w) ==
  /\ pc[w] = "print"
  /\ told' = told \cup out[w]
  /\ out' = [out EXCEPT ![w] = {}]
  /\ pc' \in {[pc EXCEPT ![w] = "off"], [pc EXCEPT ![w] = "poll"]}
  /\ UNCHANGED <<board, snap, edit, used, own, lost>>

\* The process is killed; or the poll that advanced the snapshot then failed on
\* the notes directory and returned its error instead of its text.
Die(w) ==
  /\ Faults
  /\ pc[w] # "off"
  /\ lost' = IF pc[w] = "print" THEN lost \cup out[w] ELSE lost
  /\ out' = [out EXCEPT ![w] = {}]
  /\ pc' = [pc EXCEPT ![w] = "off"]
  /\ UNCHANGED <<board, snap, edit, used, own, told>>

\* Killed inside os.WriteFile, which is no rename: the snapshot is left with a
\* part of the board.
Torn(w) ==
  /\ Faults
  /\ pc[w] = "poll"
  /\ LockFree
  /\ Diff(Lines(snap), board) # {}
  /\ snap' \in SUBSET board
  /\ lost' = lost \cup (snap' \ Lines(snap))
  /\ own' = own \cap snap'
  /\ pc' = [pc EXCEPT ![w] = "off"]
  /\ UNCHANGED <<board, out, edit, used, told>>

Step ==
  \/ \E x \in Line : Add(x) \/ Delete(x) \/ EditBegin(x)
  \/ EditBoard \/ EditSnap \/ EditFails
  \/ \E w \in Watcher : Arm(w) \/ ReadSeed(w) \/ Seed(w) \/ Poll(w) \/ Report(w) \/ Die(w) \/ Torn(w)

Next == Step /\ UNCHANGED seeded

\* An edit that has the lock goes on; a watch process that is armed runs, polls
\* on its interval and prints, and the agent re-arms one that has exited.  No
\* process is killed each time just before the same step.
Fairness ==
  /\ WF_vars((EditBoard \/ EditSnap) /\ UNCHANGED seeded)
  /\ \A w \in Watcher :
       /\ WF_vars(Arm(w) /\ UNCHANGED seeded) /\ WF_vars(Report(w) /\ UNCHANGED seeded)
       /\ SF_vars(ReadSeed(w) /\ UNCHANGED seeded) /\ SF_vars(Seed(w) /\ UNCHANGED seeded)
       /\ SF_vars(Poll(w) /\ UNCHANGED seeded)

Spec == Init /\ [][Next]_vars /\ Fairness

-----------------------------------------------------------------------------
(* What the snapshot promises.                                             *)

Steps == {"none", "board", "snap"}
Places == {"off", "read", "seed", "poll", "print"}

\* The shape of the state; what an edit wrote stays on the board until its
\* refresh is done, because it has the lock.
TypeOK ==
  /\ board \subseteq used /\ used \subseteq Line
  /\ snap \in {NoFile} \cup SUBSET used
  /\ pc \in [Watcher -> Places]
  /\ out \in [Watcher -> SUBSET used]
  /\ edit \in [step : Steps, to : SUBSET Line, self : SUBSET Line]
  /\ edit.step = "snap" => board = edit.to
  /\ own \cup told \cup lost \subseteq used
  /\ seeded \in BOOLEAN

\* What a watch process is about to print.
InFlight == UNION {out[w] : w \in {v \in Watcher : pc[v] = "print"}}

\* A delivery receipt is true: a line of the watched node is in the snapshot only
\* when the agent was told of it, or a watch process is about to print it, or a
\* process died with it in hand.  In particular an edit's refresh never marks
\* somebody else's line as seen, and re-arming never swallows what came while no
\* watch ran.  (The first arming, which makes the snapshot, may: WatchSelfEcho.)
NothingMarkedUnseen ==
  seeded => Lines(snap) \cap InNode \subseteq told \cup lost \cup InFlight

\* Self-edit suppression: from the first snapshot on, the watch never reports a
\* line the agent wrote with --refresh-snapshot, whatever the polls and other
\* watches do meanwhile.
OwnEditNeverReported ==
  seeded => \A w \in Watcher : pc[w] = "print" => out[w] \cap own = {}

\* Every line of the watched node that stays on the board is in the end printed
\* to the agent, across exits and re-armings, unless a fault lost it.
EveryLineReported ==
  \A x \in InNode : (seeded /\ x \in board) ~> (x \in told \cup lost \/ x \notin board)

\* The snapshot keeps catching up with the board, whatever race the first arming
\* ran into and although two watches take turns, unless processes keep dying:
\* receipts never stay wrong for good.
SnapshotCatchesUp ==
  \/ []<>(Diff(Lines(snap), board) = {})
  \/ []<><<EditFails \/ \E w \in Watcher : Die(w)>>_vars

\* SPEC: the agent's own edit is never emitted.
OwnEditNeverEchoed == \A w \in Watcher : pc[w] = "print" => out[w] \cap own = {}
=============================================================================
