---------------------------- MODULE Watch_proofs ----------------------------
(***************************************************************************)
(* Delivery receipts and self-edit suppression, for any number of watches  *)
(* lines and nodes, when the snapshot file is there from the start.        *)
(*                                                                         *)
(* The argument rests on one set that never shrinks: the lines the agent   *)
(* knows, was about to be told, or lost to a fault.  What the snapshot has  *)
(* of the node, and what an edit is going to copy over it, stay inside it.  *)
(***************************************************************************)
EXTENDS Watch, TLAPS

Known == told \cup lost \cup InFlight

\* The typing part: with a snapshot file no process is ever seeding one.
Types ==
  /\ board \subseteq used
  /\ snap # NoFile /\ snap \subseteq Line
  /\ used \subseteq Line
  /\ pc \in [Watcher -> {"off", "poll", "print"}]
  /\ out \in [Watcher -> SUBSET used]
  /\ edit \in [step : Steps, to : SUBSET Line, self : SUBSET Line]

\* What the edit in progress has promised; nobody else writes meanwhile.
EditInv ==
  /\ edit.step = "board" =>
       /\ edit.self \cap used = {}
       /\ edit.to = board \cup edit.self
       /\ board \cap InNode \subseteq Known
  /\ edit.step = "snap" => edit.to = board /\ board \cap InNode \subseteq Known

\* The agent's lines that are on the board are in the snapshot, but for those of
\* the edit that is about to refresh it.
OwnInv ==
  /\ own \subseteq used
  /\ own \cap board \subseteq snap \cup (IF edit.step = "snap" THEN edit.self ELSE {})

Told == snap \cap InNode \subseteq Known

IInv ==
  /\ seeded
  /\ Types
  /\ Told
  /\ EditInv
  /\ OwnInv
  /\ OwnEditNeverReported

\* What it is to be known, without the union.
LEMMA KnownMeans ==
  \A x : x \in Known <=> \/ x \in told \/ x \in lost
                         \/ \E w \in Watcher : pc[w] = "print" /\ x \in out[w]
  BY DEF Known, InFlight

\* ... and after a step.
LEMMA KnownMeansNext ==
  \A x : x \in Known' <=> \/ x \in told' \/ x \in lost'
                          \/ \E w \in Watcher : pc'[w] = "print" /\ x \in out'[w]
  BY DEF Known, InFlight

\* No step makes the agent forget: a line in flight is printed or lost.
LEMMA KnownGrows ==
  ASSUME Types, [Next]_vars
  PROVE  Known \subseteq Known'
<1> SUFFICES ASSUME NEW x, x \in Known PROVE x \in Known'
  OBVIOUS
<1>1. CASE told \subseteq told' /\ lost \subseteq lost' /\ UNCHANGED <<pc, out>>
  BY <1>1, KnownMeans, KnownMeansNext
<1>2. ASSUME NEW y \in Line, Add(y) \/ Delete(y) \/ EditBegin(y)
      PROVE  told \subseteq told' /\ lost \subseteq lost' /\ UNCHANGED <<pc, out>>
  BY <1>2 DEF Add, Delete, EditBegin
<1>3. ASSUME EditBoard \/ EditSnap \/ EditFails \/ UNCHANGED vars
      PROVE  told \subseteq told' /\ lost \subseteq lost' /\ UNCHANGED <<pc, out>>
  BY <1>3 DEF EditBoard, EditSnap, EditFails, vars
<1>4. ASSUME NEW w \in Watcher, Arm(w) \/ ReadSeed(w) \/ Seed(w) \/ Poll(w) \/ Torn(w)
      PROVE  x \in Known'
  <2>1. told \subseteq told' /\ lost \subseteq lost' /\ pc[w] # "print"
    BY <1>4 DEF Arm, ReadSeed, Seed, Poll, Torn
  <2>2. \A v \in Watcher \ {w} : pc'[v] = pc[v] /\ out'[v] = out[v]
    BY <1>4 DEF Arm, ReadSeed, Seed, Poll, Torn, Types
  <2> QED
    BY <2>1, <2>2, KnownMeans, KnownMeansNext
<1>5. ASSUME NEW w \in Watcher, Report(w) PROVE x \in Known'
  <2>1. told' = told \cup out[w] /\ lost' = lost
    BY <1>5 DEF Report
  <2>2. \A v \in Watcher \ {w} : pc'[v] = pc[v] /\ out'[v] = out[v]
    BY <1>5 DEF Report, Types
  <2> QED
    BY <2>1, <2>2, KnownMeans, KnownMeansNext
<1>6. ASSUME NEW w \in Watcher, Die(w) PROVE x \in Known'
  <2>1. told' = told /\ lost \subseteq lost' /\ (pc[w] = "print" => out[w] \subseteq lost')
    BY <1>6 DEF Die
  <2>2. \A v \in Watcher \ {w} : pc'[v] = pc[v] /\ out'[v] = out[v]
    BY <1>6 DEF Die, Types
  <2> QED
    BY <2>1, <2>2, KnownMeans, KnownMeansNext
<1> QED
  BY <1>1, <1>2, <1>3, <1>4, <1>5, <1>6 DEF Next, Step

LEMMA InitInv ==
  ASSUME seeded, Init
  PROVE  IInv
<1>1. Old \subseteq Line /\ Old # NoFile
  BY WatchAssumption
<1>2. Types
  BY <1>1 DEF Init, Types, NoEdit, Steps
<1>3. Told
  BY KnownMeans DEF Init, Told
<1> QED
  BY <1>2, <1>3 DEF Init, IInv, EditInv, OwnInv, OwnEditNeverReported, NoEdit

\* The file is there, so what is diffed against it is itself.
LEMMA SnapshotLines ==
  ASSUME Types
  PROVE  Lines(snap) = snap
  BY DEF Types, Lines

LEMMA TypesStep ==
  ASSUME IInv, [Next]_vars
  PROVE  Types'
<1> USE DEF IInv, Types, Steps
<1>1. \A c \in SUBSET Line : c # NoFile
  BY WatchAssumption
<1>2. ASSUME NEW x \in Line, Add(x) PROVE Types'
  BY <1>2 DEF Add
<1>3. ASSUME NEW x \in Line, Delete(x) PROVE Types'
  BY <1>3 DEF Delete
<1>4. ASSUME NEW x \in Line, EditBegin(x) PROVE Types'
  BY <1>4 DEF EditBegin, NoEdit
<1>5. CASE EditBoard
  BY <1>5 DEF EditBoard, EditInv
<1>6. CASE EditSnap
  BY <1>1, <1>6 DEF EditSnap, EditInv, NoEdit
<1>7. CASE EditFails
  BY <1>7 DEF EditFails, NoEdit
<1>8. ASSUME NEW w \in Watcher, Arm(w) PROVE Types'
  BY <1>8 DEF Arm, Seeds
<1>9. ASSUME NEW w \in Watcher, ReadSeed(w) \/ Seed(w) PROVE Types'
  BY <1>9 DEF ReadSeed, Seed
<1>10. ASSUME NEW w \in Watcher, Poll(w) PROVE Types'
  <2>1. Added(Lines(snap), board) \subseteq board
    BY DEF Added
  <2> QED
    BY <1>1, <1>10, <2>1 DEF Poll, Advanced
<1>11. ASSUME NEW w \in Watcher, Report(w) PROVE Types'
  BY <1>11 DEF Report
<1>12. ASSUME NEW w \in Watcher, Die(w) PROVE Types'
  BY <1>12 DEF Die
<1>13. ASSUME NEW w \in Watcher, Torn(w) PROVE Types'
  BY <1>1, <1>13 DEF Torn
<1>14. CASE UNCHANGED vars
  BY <1>14 DEF vars
<1> QED
  BY <1>2, <1>3, <1>4, <1>5, <1>6, <1>7, <1>8, <1>9, <1>10, <1>11, <1>12, <1>13, <1>14
  DEF Next, Step

LEMMA SnapStep ==
  ASSUME IInv, [Next]_vars, Known \subseteq Known'
  PROVE  Told'
<1> USE DEF IInv, Told
<1>1. CASE UNCHANGED snap
  BY <1>1
<1>2. ASSUME NEW x \in Line, Add(x) \/ Delete(x) \/ EditBegin(x) PROVE UNCHANGED snap
  BY <1>2 DEF Add, Delete, EditBegin
<1>3. ASSUME EditBoard \/ EditFails \/ UNCHANGED vars PROVE UNCHANGED snap
  BY <1>3 DEF EditBoard, EditFails, vars
<1>4. ASSUME NEW w \in Watcher, Arm(w) \/ ReadSeed(w) \/ Report(w) \/ Die(w)
      PROVE  UNCHANGED snap
  BY <1>4 DEF Arm, ReadSeed, Report, Die
<1>5. CASE EditSnap
  BY <1>5 DEF EditSnap, EditInv
<1>6. ASSUME NEW w \in Watcher, Seed(w) PROVE FALSE
  BY <1>6 DEF Seed, Types
<1>7. ASSUME NEW w \in Watcher, Poll(w) PROVE Told'
  <2>2. pc'[w] = "print" /\ out'[w] = (board \ snap) \cap InNode
    BY <1>7, SnapshotLines DEF Poll, Types, Added
  <2>3. (board \ snap) \cap InNode \subseteq Known'
    BY <2>2, KnownMeansNext
  <2>4. snap' = board
    BY <1>7 DEF Poll, Advanced
  <2> QED
    BY <2>3, <2>4
<1>8. ASSUME NEW w \in Watcher, Torn(w) PROVE Told'
  <2>1. snap' \ snap \subseteq lost'
    BY <1>8, SnapshotLines DEF Torn
  <2> QED
    BY <2>1, KnownMeansNext
<1> QED
  BY <1>1, <1>2, <1>3, <1>4, <1>5, <1>6, <1>7, <1>8 DEF Next, Step

LEMMA EditStep ==
  ASSUME IInv, [Next]_vars, Known \subseteq Known'
  PROVE  EditInv'
<1> USE DEF IInv, EditInv
<1>1. ASSUME NEW x \in Line, Add(x) \/ Delete(x) PROVE EditInv'
  BY <1>1 DEF Add, Delete, LockFree
<1>2. ASSUME NEW x \in Line, EditBegin(x) PROVE EditInv'
  <2>1. board \ snap \subseteq told'
    BY <1>2 DEF EditBegin, DeliverPending, Types
  <2>2. board \cap InNode \subseteq Known'
    BY <2>1, KnownMeansNext DEF Told
  <2> QED
    BY <1>2, <2>2 DEF EditBegin, NoEdit, Types
<1>3. CASE EditBoard
  <2>1. edit.self \subseteq told' /\ board' = board \cup edit.self
    BY <1>3 DEF EditBoard
  <2>2. board' \cap InNode \subseteq Known'
    BY <1>3, <2>1, KnownMeansNext DEF EditBoard
  <2>3. edit'.step = "snap" /\ edit'.to = edit.to
    BY <1>3 DEF EditBoard, Types
  <2> QED
    BY <1>3, <2>2, <2>3 DEF EditBoard
<1>4. CASE EditSnap \/ EditFails
  BY <1>4 DEF EditSnap, EditFails, NoEdit
<1>5. ASSUME NEW w \in Watcher, Arm(w) \/ ReadSeed(w) \/ Seed(w) \/ Poll(w) \/ Report(w)
                                \/ Die(w) \/ Torn(w)
      PROVE  UNCHANGED <<edit, board, used>>
  BY <1>5 DEF Arm, ReadSeed, Seed, Poll, Report, Die, Torn
<1>6. ASSUME UNCHANGED vars PROVE UNCHANGED <<edit, board, used>>
  BY <1>6 DEF vars
<1>7. ASSUME UNCHANGED <<edit, board, used>> PROVE EditInv'
  BY <1>7
<1> QED
  BY <1>1, <1>2, <1>3, <1>4, <1>5, <1>6, <1>7 DEF Next, Step

LEMMA OwnStep ==
  ASSUME IInv, [Next]_vars
  PROVE  OwnInv'
<1> USE DEF IInv, OwnInv, Types
<1>1. ASSUME NEW x \in Line, Add(x) \/ Delete(x) PROVE OwnInv'
  BY <1>1 DEF Add, Delete, LockFree
<1>2. ASSUME NEW x \in Line, EditBegin(x) PROVE OwnInv'
  BY <1>2 DEF EditBegin, LockFree, NoEdit
<1>3. CASE EditBoard
  <2>1. edit'.step = "snap" /\ edit'.self = edit.self
    BY <1>3 DEF EditBoard
  <2> QED
    BY <1>3, <2>1 DEF EditBoard, EditInv
<1>4. CASE EditSnap
  BY <1>4 DEF EditSnap, EditInv, NoEdit
<1>5. CASE EditFails
  BY <1>5 DEF EditFails, NoEdit
<1>6. ASSUME NEW w \in Watcher, Arm(w) \/ ReadSeed(w) \/ Report(w) \/ Die(w)
      PROVE  UNCHANGED <<own, used, board, snap, edit>>
  BY <1>6 DEF Arm, ReadSeed, Report, Die
<1>7. ASSUME NEW w \in Watcher, Seed(w) PROVE FALSE
  BY <1>7 DEF Seed
<1>8. ASSUME NEW w \in Watcher, Poll(w) \/ Torn(w) PROVE OwnInv'
  BY <1>8 DEF Poll, Torn, Advanced
<1>9. ASSUME UNCHANGED vars PROVE UNCHANGED <<own, used, board, snap, edit>>
  BY <1>9 DEF vars
<1>10. ASSUME UNCHANGED <<own, used, board, snap, edit>> PROVE OwnInv'
  BY <1>10
<1> QED
  BY <1>1, <1>2, <1>3, <1>4, <1>5, <1>6, <1>7, <1>8, <1>9, <1>10 DEF Next, Step

LEMMA EchoStep ==
  ASSUME IInv, [Next]_vars
  PROVE  OwnEditNeverReported'
<1> USE DEF IInv, OwnEditNeverReported
<1>1. ASSUME UNCHANGED <<pc, out>>, own' \subseteq own PROVE OwnEditNeverReported'
  BY <1>1
<1>2. ASSUME NEW x \in Line, Add(x) \/ Delete(x) \/ EditBegin(x)
      PROVE  UNCHANGED <<pc, out>> /\ own' \subseteq own
  BY <1>2 DEF Add, Delete, EditBegin
<1>3. ASSUME EditSnap \/ EditFails \/ UNCHANGED vars
      PROVE  UNCHANGED <<pc, out>> /\ own' \subseteq own
  BY <1>3 DEF EditSnap, EditFails, vars
<1>4. CASE EditBoard
  <2>1. own' = own \cup edit.self /\ UNCHANGED <<pc, out>> /\ edit.self \cap used = {}
    BY <1>4 DEF EditBoard, EditInv
  <2>2. \A v \in Watcher : out[v] \subseteq used
    BY DEF Types
  <2> QED
    BY <2>1, <2>2
<1>5. ASSUME NEW w \in Watcher, Poll(w) PROVE OwnEditNeverReported'
  <2>1. out'[w] \subseteq board \ snap /\ own' = own
    BY <1>5, SnapshotLines DEF Poll, Added, Types
  <2>2. own \cap board \subseteq snap
    BY <1>5 DEF Poll, LockFree, OwnInv
  <2>3. \A v \in Watcher \ {w} : pc'[v] = pc[v] /\ out'[v] = out[v]
    BY <1>5 DEF Poll, Types
  <2> QED
    BY <2>1, <2>2, <2>3
<1>6. ASSUME NEW w \in Watcher,
             Arm(w) \/ ReadSeed(w) \/ Seed(w) \/ Report(w) \/ Die(w) \/ Torn(w)
      PROVE  OwnEditNeverReported'
  <2>1. own' \subseteq own /\ pc'[w] # "print"
    BY <1>6 DEF Arm, ReadSeed, Seed, Report, Die, Torn, Types, Seeds
  <2>2. \A v \in Watcher \ {w} : pc'[v] = pc[v] /\ out'[v] = out[v]
    BY <1>6 DEF Arm, ReadSeed, Seed, Report, Die, Torn, Types
  <2> QED
    BY <2>1, <2>2
<1> QED
  BY <1>1, <1>2, <1>3, <1>4, <1>5, <1>6 DEF Next, Step

\* The inductive invariant holds throughout.
THEOREM Invariance == Spec => [](seeded => IInv)
<1>1. Init => (seeded => IInv)
  BY InitInv
<1>2. (seeded => IInv) /\ [Next]_vars => (seeded => IInv)'
  <2> SUFFICES ASSUME seeded => IInv, [Next]_vars, seeded' PROVE IInv'
    OBVIOUS
  <2>1. seeded
    BY DEF Next, vars
  <2>2. Known \subseteq Known'
    BY <2>1, KnownGrows DEF IInv
  <2> QED
    BY <2>1, <2>2, TypesStep, SnapStep, EditStep, OwnStep, EchoStep DEF IInv
<1> QED
  BY <1>1, <1>2, PTL DEF Spec

\* Delivery receipts are true: whatever the watches and edits interleave, and
\* whichever of them die, no line of the node is in the snapshot (so drawn as
\* delivered by the web server) that the agent was not told of, is not about to be
\* told of, and did not lose to a fault.
THEOREM ReceiptsAreTrue == Spec => []NothingMarkedUnseen
<1>1. (seeded => IInv) => NothingMarkedUnseen
  <2> SUFFICES ASSUME IInv PROVE Lines(snap) \cap InNode \subseteq told \cup lost \cup InFlight
    BY DEF NothingMarkedUnseen
  <2> QED
    BY SnapshotLines DEF IInv, Told, Known
<1> QED
  BY <1>1, Invariance, PTL

\* Self-edit suppression: no watch prints a line the agent wrote with
\* --refresh-snapshot, when the snapshot file was there from the start.
THEOREM OwnEditsAreSilent == Spec => []OwnEditNeverReported
<1>1. (seeded => IInv) => OwnEditNeverReported
  BY DEF IInv, OwnEditNeverReported
<1> QED
  BY <1>1, Invariance, PTL
=============================================================================
