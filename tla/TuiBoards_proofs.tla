---------------------------- MODULE TuiBoards_proofs ----------------------------
(***************************************************************************)
(* What TLAPS proves of a terminal UI that moves between boards, for any   *)
(* boards and lines, any limits of its two histories and any ways to start *)
(* it: its types, that a UI started on a file or in the picker never       *)
(* carries a line from one board to another, and that the chain of its     *)
(* wait commands never breaks.                                             *)
(***************************************************************************)
EXTENDS TuiBoards, SequenceTheorems, TLAPS

-----------------------------------------------------------------------------
(* The stacks of the undo journal.                                         *)

\* Trimming keeps a sequence of entries and bounds it.
LEMMA TrimType ==
  ASSUME NEW S, NEW s \in Seq(S)
  PROVE  /\ Trim(s) \in Seq(S)
         /\ Len(Trim(s)) <= UndoLimit
         /\ \A i \in 1..Len(Trim(s)) : \E k \in 1..Len(s) : Trim(s)[i] = s[k]
<1> USE UndoLimitAssumption
<1>1. CASE Len(s) <= UndoLimit
  BY <1>1 DEF Trim
<1>2. CASE Len(s) > UndoLimit
  <2> DEFINE m == Len(s) - UndoLimit + 1
  <2>1. m \in 1..Len(s) /\ Len(s) \in Nat
    BY <1>2
  <2>2. Trim(s) = SubSeq(s, m, Len(s))
    BY <1>2 DEF Trim
  <2>3. /\ SubSeq(s, m, Len(s)) \in Seq(S)
        /\ Len(SubSeq(s, m, Len(s))) = UndoLimit
        /\ \A i \in 1..UndoLimit : SubSeq(s, m, Len(s))[i] = s[m + i - 1]
    BY <2>1
  <2>4. \A i \in 1..UndoLimit : m + i - 1 \in 1..Len(s)
    BY <2>1
  <2>5. \A i \in 1..UndoLimit : Trim(s)[i] = s[m + i - 1]
    BY <2>2, <2>3
  <2>6. \A i \in 1..UndoLimit : \E k \in 1..Len(s) : Trim(s)[i] = s[k]
    BY <2>4, <2>5
  <2> HIDE DEF m
  <2> QED
    BY <2>2, <2>3, <2>6
<1> QED
  BY <1>1, <1>2

\* Popping a non-empty stack: its top and what is under it.
LEMMA PopType ==
  ASSUME NEW S, NEW s \in Seq(S), s # <<>>
  PROVE  /\ Last(s) \in S
         /\ Front(s) \in Seq(S)
         /\ Len(Front(s)) = Len(s) - 1
         /\ Len(s) \in Nat \ {0}
         /\ \A i \in 1..Len(s) - 1 : Front(s)[i] = s[i]
<1>1. Len(s) \in Nat \ {0} /\ \A i \in 1..Len(s) : s[i] \in S
  BY EmptySeq, ElementOfSeq
<1>2. /\ SubSeq(s, 1, Len(s) - 1) \in Seq(S)
      /\ Len(SubSeq(s, 1, Len(s) - 1)) = Len(s) - 1
      /\ \A i \in 1..Len(s) - 1 : SubSeq(s, 1, Len(s) - 1)[i] = s[i]
  <2> DEFINE n == Len(s) - 1
  <2>1. n \in Int /\ \A i \in 1..n : s[i] \in S
    BY <1>1
  <2>2. n \in Nat /\ n - 1 + 1 = n /\ (IF 1 <= n THEN n - 1 + 1 ELSE 0) = n
    BY <1>1
  <2>3. \A i \in 1..n : 1 + i - 1 = i
    BY <2>1
  <2> HIDE DEF n
  <2>4. /\ SubSeq(s, 1, n) \in Seq(S)
        /\ Len(SubSeq(s, 1, n)) = IF 1 <= n THEN n - 1 + 1 ELSE 0
        /\ \A i \in 1 .. n - 1 + 1 : SubSeq(s, 1, n)[i] = s[1 + i - 1]
    BY <2>1, SubSeqProperties
  <2>5. /\ SubSeq(s, 1, n) \in Seq(S)
        /\ Len(SubSeq(s, 1, n)) = n
        /\ \A i \in 1..n : SubSeq(s, 1, n)[i] = s[i]
    BY <2>2, <2>3, <2>4, Zenon
  <2> QED
    BY <2>5 DEF n
<1> QED
  BY <1>1, <1>2 DEF Last, Front

\* Pushing on a stack.
LEMMA PushType ==
  ASSUME NEW S, NEW s \in Seq(S), NEW e \in S
  PROVE  /\ Append(s, e) \in Seq(S)
         /\ Len(Append(s, e)) = Len(s) + 1
         /\ \A i \in 1..Len(s) + 1 : Append(s, e)[i] = IF i = Len(s) + 1 THEN e ELSE s[i]
         /\ Last(Append(s, e)) = e
         /\ Append(s, e) # <<>>
BY DEF Last

\* The entries and the journals over a set of contents: no entry is a no-op.
EntriesOver(C) == {e \in [before : C, after : C] : e.before # e.after}
JournalsOver(C) == [undo : Seq(EntriesOver(C)), redo : Seq(EntriesOver(C))]

\* Recording an edit of any contents gives a journal over them.
LEMMA RecordOver ==
  ASSUME NEW C, NEW j \in JournalsOver(C), NEW before \in C, NEW after \in C
  PROVE  Record(j, before, after) \in JournalsOver(C)
<1>1. CASE before = after
  BY <1>1 DEF Record
<1>2. CASE before # after
  <2>1. j.undo \in Seq(EntriesOver(C)) /\ Entry(before, after) \in EntriesOver(C)
    BY <1>2 DEF JournalsOver, EntriesOver, Entry
  <2>2. Append(j.undo, Entry(before, after)) \in Seq(EntriesOver(C))
    BY <2>1, PushType
  <2>3. Trim(Append(j.undo, Entry(before, after))) \in Seq(EntriesOver(C))
    BY <2>2, TrimType
  <2>4. <<>> \in Seq(EntriesOver(C))
    OBVIOUS
  <2> QED
    BY <1>2, <2>3, <2>4 DEF Record, JournalsOver
<1> QED
  BY <1>1, <1>2

\* A walk leads to a content and leaves a journal, either way.
LEMMA WalkOver ==
  ASSUME NEW C, NEW j \in JournalsOver(C)
  PROVE  /\ j.undo # <<>> => Last(j.undo).before \in C /\ Undone(j) \in JournalsOver(C)
         /\ j.redo # <<>> => Last(j.redo).after \in C /\ Redone(j) \in JournalsOver(C)
<1>1. j.undo \in Seq(EntriesOver(C)) /\ j.redo \in Seq(EntriesOver(C))
  BY DEF JournalsOver
<1>2. ASSUME j.undo # <<>>
      PROVE  Last(j.undo).before \in C /\ Undone(j) \in JournalsOver(C)
  <2>1. Last(j.undo) \in EntriesOver(C) /\ Front(j.undo) \in Seq(EntriesOver(C))
    BY <1>1, <1>2, PopType
  <2>2. Append(j.redo, Last(j.undo)) \in Seq(EntriesOver(C))
    BY <1>1, <2>1, PushType
  <2> QED
    BY <2>1, <2>2 DEF Undone, JournalsOver, EntriesOver
<1>3. ASSUME j.redo # <<>>
      PROVE  Last(j.redo).after \in C /\ Redone(j) \in JournalsOver(C)
  <2>1. Last(j.redo) \in EntriesOver(C) /\ Front(j.redo) \in Seq(EntriesOver(C))
    BY <1>1, <1>3, PopType
  <2>2. Append(j.undo, Last(j.redo)) \in Seq(EntriesOver(C))
    BY <1>1, <2>1, PushType
  <2> QED
    BY <2>1, <2>2 DEF Redone, JournalsOver, EntriesOver
<1> QED
  BY <1>2, <1>3

-----------------------------------------------------------------------------
(* The in-memory history over any set of contents.                         *)

HistoriesOver(C) == [undo : Seq(C), redo : Seq(C)]

\* A push keeps a stack of contents.
LEMMA PushBoundedOver ==
  ASSUME NEW C, NEW s \in Seq(C), NEW v \in C
  PROVE  pushBounded(s, v) \in Seq(C)
<1>1. CASE Len(s) < HistLimit
  BY <1>1, PushType DEF pushBounded
<1>2. CASE ~(Len(s) < HistLimit)
  <2>1. Len(s) # 0
    BY <1>2, HistLimitAssumption
  <2>2. Tail(s) \in Seq(C)
    BY <2>1
  <2>3. Append(Tail(s), v) \in Seq(C)
    BY <2>2, PushType
  <2> QED
    BY <1>2, <2>3 DEF pushBounded
<1> QED
  BY <1>1, <1>2

\* Every move of a history of contents of one set stays within that set.
LEMMA HistoryOver ==
  ASSUME NEW C, NEW h \in HistoriesOver(C), NEW v \in C
  PROVE  /\ Snapshot(h, v) \in HistoriesOver(C)
         /\ RecordExternal(h, v) \in HistoriesOver(C)
         /\ h.undo # <<>> => Last(h.undo) \in C /\ undoTo(h, v) \in HistoriesOver(C)
         /\ h.redo # <<>> => Last(h.redo) \in C /\ redoTo(h, v) \in HistoriesOver(C)
<1>1. h.undo \in Seq(C) /\ h.redo \in Seq(C)
  BY DEF HistoriesOver
<1>2. pushBounded(h.undo, v) \in Seq(C) /\ pushBounded(h.redo, v) \in Seq(C)
  BY <1>1, PushBoundedOver
<1>3. h.undo # <<>> => Last(h.undo) \in C /\ Front(h.undo) \in Seq(C)
  BY <1>1, PopType
<1>4. h.redo # <<>> => Last(h.redo) \in C /\ Front(h.redo) \in Seq(C)
  BY <1>1, PopType
<1>5. <<>> \in Seq(C)
  OBVIOUS
<1>6. Snapshot(h, v) \in HistoriesOver(C) /\ RecordExternal(h, v) \in HistoriesOver(C)
  BY <1>1, <1>2, <1>5 DEF Snapshot, RecordExternal, HistoriesOver
<1>7. h.undo # <<>> => undoTo(h, v) \in HistoriesOver(C)
  BY <1>2, <1>3 DEF undoTo, HistoriesOver
<1>8. h.redo # <<>> => redoTo(h, v) \in HistoriesOver(C)
  BY <1>2, <1>4 DEF redoTo, HistoriesOver
<1> QED
  BY <1>3, <1>4, <1>6, <1>7, <1>8

\* Nothing has been done yet: a history over any set.
LEMMA NothingYet ==
  ASSUME NEW C
  PROVE  NoHistory \in HistoriesOver(C) /\ EmptyJournal \in JournalsOver(C)
<1>1. <<>> \in Seq(C) /\ <<>> \in Seq(EntriesOver(C))
  OBVIOUS
<1> QED
  BY <1>1 DEF NoHistory, EmptyJournal, HistoriesOver, JournalsOver

-----------------------------------------------------------------------------
(* What the steps do to a board, over any contents.  C[b] is the set of    *)
(* the contents that board b may have: every content for the types, those  *)
(* of its own lines for the crossing.                                      *)

StoresOver(C) ==
  /\ \A b \in Boards : store[b] \in C[b]
  /\ \A b \in Board : journal[b] \in JournalsOver(C[b])

\* The shapes of the variables, which the steps of every kind keep.
Shapes ==
  /\ store = [b \in Boards |-> store[b]]
  /\ journal = [b \in Board |-> journal[b]]

\* Replacing one value of a function leaves a function.
LEMMA ExceptShape ==
  ASSUME NEW S, NEW f, f = [x \in S |-> f[x]], NEW b \in S, NEW v,
         NEW g, g = [f EXCEPT ![b] = v]
  PROVE  /\ g = [x \in S |-> g[x]]
         /\ \A x \in S : g[x] = IF x = b THEN v ELSE f[x]
<1>1. DOMAIN f = S
  OBVIOUS
<1>2. g = [x \in S |-> IF x = b THEN v ELSE f[x]]
  BY <1>1
<1>3. \A x \in S : g[x] = IF x = b THEN v ELSE f[x]
  BY <1>2
<1>4. [x \in S |-> g[x]] = [x \in S |-> IF x = b THEN v ELSE f[x]]
  BY <1>3
<1> QED
  BY <1>2, <1>3, <1>4

\* A write of a content of its board.
LEMMA WrittenOver ==
  ASSUME NEW C, NEW b \in Boards, NEW content \in C[b],
         Shapes, StoresOver(C), Written(b, content)
  PROVE  Shapes' /\ StoresOver(C)' /\ store'[b] = content
<1> USE TuiBoardsAssumption DEF Boards
<1>1. /\ store' = [store EXCEPT ![b] = content]
      /\ journal' = IF b = Cloud THEN journal
                    ELSE [journal EXCEPT ![b] = Record(journal[b], store[b], content)]
  BY DEF Written
<1>2. /\ store' = [x \in Boards |-> store'[x]]
      /\ \A x \in Boards : store'[x] = IF x = b THEN content ELSE store[x]
  BY <1>1, ExceptShape DEF Shapes
<1>3. CASE b = Cloud
  BY <1>1, <1>2, <1>3 DEF Shapes, StoresOver
<1>4. CASE b # Cloud
  <2>1. /\ journal' = [x \in Board |-> journal'[x]]
        /\ \A x \in Board : journal'[x] = IF x = b THEN Record(journal[b], store[b], content)
                                         ELSE journal[x]
    BY <1>1, <1>4, ExceptShape DEF Shapes
  <2>2. Record(journal[b], store[b], content) \in JournalsOver(C[b])
    BY <1>4, RecordOver DEF StoresOver
  <2> QED
    BY <1>2, <2>1, <2>2 DEF Shapes, StoresOver
<1> QED
  BY <1>2, <1>3, <1>4

\* A walk along the journal of a local board.
LEMMA WalkedOver ==
  ASSUME NEW C, NEW b \in Board, Shapes, StoresOver(C),
         \/ /\ journal[b].undo # <<>>
            /\ store' = [store EXCEPT ![b] = Last(journal[b].undo).before]
            /\ journal' = [journal EXCEPT ![b] = Undone(@)]
         \/ /\ journal[b].redo # <<>>
            /\ store' = [store EXCEPT ![b] = Last(journal[b].redo).after]
            /\ journal' = [journal EXCEPT ![b] = Redone(@)]
  PROVE  Shapes' /\ StoresOver(C)' /\ store'[b] \in C[b]
<1>1. b \in Boards /\ \A x \in Board : x \in Boards
  BY DEF Boards
<1>2. PICK c \in C[b], j \in JournalsOver(C[b]) :
         store' = [store EXCEPT ![b] = c] /\ journal' = [journal EXCEPT ![b] = j]
  BY WalkOver DEF StoresOver
<1>3. /\ store' = [x \in Boards |-> store'[x]]
      /\ \A x \in Boards : store'[x] = IF x = b THEN c ELSE store[x]
  BY <1>1, <1>2, ExceptShape DEF Shapes
<1>4. /\ journal' = [x \in Board |-> journal'[x]]
      /\ \A x \in Board : journal'[x] = IF x = b THEN j ELSE journal[x]
  BY <1>2, ExceptShape DEF Shapes
<1> QED
  BY <1>1, <1>3, <1>4 DEF Shapes, StoresOver

\* What the screen and the in-memory history of a board hold.
ScreenOver(S) == tree \in S /\ hist \in HistoriesOver(S)

\* A mutation of the board that is attached.
LEMMA MutateOver ==
  ASSUME NEW C, NEW b \in Boards, Attached = b, Shapes, StoresOver(C), ScreenOver(C[b]),
         NEW add, NEW del, (store[b] \ del) \cup add \in C[b], Mutate(add, del)
  PROVE  Shapes' /\ StoresOver(C)' /\ ScreenOver(C[b])'
<1>1. Written(b, (store[b] \ del) \cup add)
  BY DEF Mutate
<1>2. Shapes' /\ StoresOver(C)'
  BY <1>1, WrittenOver
<1>3. tree' \in C[b]
  BY DEF Mutate
<1>4. hist' \in {Snapshot(hist, tree), RecordExternal(Snapshot(hist, tree), store[b])}
  BY DEF Mutate
<1>5. store[b] \in C[b] /\ tree \in C[b] /\ hist \in HistoriesOver(C[b])
  BY DEF StoresOver, ScreenOver
<1>6. Snapshot(hist, tree) \in HistoriesOver(C[b])
  BY <1>5, HistoryOver
<1>7. RecordExternal(Snapshot(hist, tree), store[b]) \in HistoriesOver(C[b])
  BY <1>5, <1>6, HistoryOver
<1> QED
  BY <1>2, <1>3, <1>4, <1>6, <1>7 DEF ScreenOver

\* A reload of the board that is attached.
LEMMA ReloadOver ==
  ASSUME NEW C, NEW b \in Boards, Attached = b, StoresOver(C), ScreenOver(C[b]), Reload(TRUE)
  PROVE  ScreenOver(C[b])'
<1>1. tree' \in C[b] /\ tree \in C[b] /\ hist \in HistoriesOver(C[b])
  BY DEF Reload, StoresOver, ScreenOver
<1>2. RecordExternal(hist, tree) \in HistoriesOver(C[b])
  BY <1>1, HistoryOver
<1>3. hist' \in {hist, RecordExternal(hist, tree)}
  BY DEF Reload
<1> QED
  BY <1>1, <1>2, <1>3 DEF ScreenOver

\* u and the redo key, by the journal or by the in-memory history.
Walk == UndoKey \/ UndoFallback \/ RedoKey \/ RedoFallback

LEMMA KeysOver ==
  ASSUME NEW C, path \in Board, Shapes, StoresOver(C), ScreenOver(C[path]), Walk
  PROVE  Shapes' /\ StoresOver(C)' /\ ScreenOver(C[path])'
<1> path' = path
  BY DEF Walk, UndoKey, UndoFallback, RedoKey, RedoFallback
<1>1. CASE UndoKey \/ RedoKey
  <2>1. Shapes' /\ StoresOver(C)' /\ store'[path] \in C[path]
    BY <1>1, WalkedOver DEF UndoKey, RedoKey, CanUndo, CanRedo
  <2>2. tree' = store'[path] /\ hist' = hist
    BY <1>1 DEF UndoKey, RedoKey
  <2> QED
    BY <2>1, <2>2 DEF ScreenOver
<1>2. CASE UndoFallback
  <2>1. Last(hist.undo) \in C[path] /\ undoTo(hist, tree) \in HistoriesOver(C[path])
    BY <1>2, HistoryOver DEF UndoFallback, ScreenOver
  <2>2. Shapes' /\ StoresOver(C)'
    BY <1>2, <2>1, WrittenOver DEF UndoFallback, Boards
  <2> QED
    BY <1>2, <2>1, <2>2 DEF UndoFallback, ScreenOver
<1>3. CASE RedoFallback
  <2>1. Last(hist.redo) \in C[path] /\ redoTo(hist, tree) \in HistoriesOver(C[path])
    BY <1>3, HistoryOver DEF RedoFallback, ScreenOver
  <2>2. Shapes' /\ StoresOver(C)'
    BY <1>3, <2>1, WrittenOver DEF RedoFallback, Boards
  <2> QED
    BY <1>3, <2>1, <2>2 DEF RedoFallback, ScreenOver
<1> QED
  BY <1>1, <1>2, <1>3 DEF Walk

-----------------------------------------------------------------------------
(* Types.                                                                  *)

Anything == [b \in Boards |-> Content]

WatchTypes ==
  /\ watch \in Board \cup {"dir", None}
  /\ signal \in BOOLEAN
  /\ cloud \in [signal : BOOLEAN, waits : 0 .. MaxMsgs]
  /\ waits \in 0 .. MaxMsgs /\ msgs \in 0 .. MaxMsgs

ModeTypes ==
  /\ start \in Starts
  /\ mode \in {"board", "picker", "dash"}
  /\ path \in Board \cup {None}
  /\ remote \in BOOLEAN /\ cameFromDash \in BOOLEAN
  /\ mode = "board" => remote \/ path # None
  /\ edits \in 0 .. MaxEdits

\* The types in the terms of the lemmas.
LEMMA TypeParts ==
  TypeOK <=> /\ Shapes /\ StoresOver(Anything) /\ ScreenOver(Content)
             /\ WatchTypes /\ ModeTypes
<1>1. store \in [Boards -> Content] <=> /\ store = [b \in Boards |-> store[b]]
                                        /\ \A b \in Boards : store[b] \in Content
  OBVIOUS
<1>2. JournalsOver(Content) = [undo : Seq(Entries), redo : Seq(Entries)]
  BY DEF JournalsOver, EntriesOver, Entries
<1>3. journal \in [Board -> JournalsOver(Content)]
        <=> /\ journal = [b \in Board |-> journal[b]]
            /\ \A b \in Board : journal[b] \in JournalsOver(Content)
  OBVIOUS
<1>4. /\ \A b \in Boards : Anything[b] = Content
      /\ \A b \in Board : Anything[b] = Content
  BY DEF Anything, Boards
<1>5. Shapes /\ StoresOver(Anything)
        <=> store \in [Boards -> Content] /\ journal \in [Board -> JournalsOver(Content)]
  BY <1>1, <1>3, <1>4 DEF Shapes, StoresOver
<1> QED
  BY <1>2, <1>5 DEF TypeOK, ScreenOver, HistoriesOver, WatchTypes, ModeTypes

LEMMA TypePartsNext ==
  (/\ Shapes /\ StoresOver(Anything) /\ ScreenOver(Content)
   /\ WatchTypes /\ ModeTypes)' => TypeOK'
<1>1. TypeOK <=> /\ Shapes /\ StoresOver(Anything) /\ ScreenOver(Content)
                 /\ WatchTypes /\ ModeTypes
  BY TypeParts
<1> QED
  BY <1>1, PTL

\* What a change of a board's watch, or of what it holds, does to the counts.
LEMMA QueueType ==
  /\ \A n \in Nat : Queue(n) \in 0 .. MaxMsgs
  /\ \A n \in 0 .. MaxMsgs : Queue(n + 1) \in 0 .. MaxMsgs /\ Queue(n + 1) > 0 /\ Queue(n + 1) >= n
BY DEF Queue, MaxMsgs

\* Two counts have a positive sum when one of them is positive.
LEMMA SomePositive ==
  \A m, n \in 0 .. MaxMsgs : m + n > 0 <=> m > 0 \/ n > 0
BY DEF MaxMsgs

LEMMA RewatchedType ==
  ASSUME WatchTypes, NEW on \in Board \cup {"dir", None}, Rewatched(on)
  PROVE  /\ watch' = on /\ signal' = FALSE
         /\ waits' = IF on = None THEN 0 ELSE 1
         /\ waits' \in 0 .. MaxMsgs /\ msgs' \in 0 .. MaxMsgs
         /\ msgs' >= msgs
<1>1. waits' = IF on = None THEN 0 ELSE 1
  BY DEF Rewatched
<1>2. msgs \in 0 .. MaxMsgs
  BY DEF WatchTypes
<1>3. msgs' = msgs \/ msgs' = Queue(msgs + 1)
  BY DEF Rewatched
<1>4. msgs' \in 0 .. MaxMsgs /\ msgs' >= msgs
  BY <1>2, <1>3, QueueType DEF MaxMsgs
<1> QED
  BY <1>1, <1>4 DEF Rewatched, MaxMsgs

LEMMA SeenType ==
  ASSUME WatchTypes, remote \in BOOLEAN,
         \/ \E b \in Board : Touched(b)
         \/ TouchedCloud
  PROVE  /\ WatchTypes'
         /\ watch' = watch /\ waits' = waits /\ msgs' = msgs /\ cloud'.waits = cloud.waits
<1>1. cloud' \in {cloud, [cloud EXCEPT !.signal = remote]}
  BY DEF Touched, TouchedCloud
<1>2. cloud'.signal \in BOOLEAN /\ cloud'.waits = cloud.waits /\ cloud' \in [signal : BOOLEAN, waits : 0 .. MaxMsgs]
  BY <1>1 DEF WatchTypes
<1> QED
  BY <1>2 DEF WatchTypes, Touched, TouchedCloud

\* The modes and the bound of the edits.
LEMMA ModeStep ==
  ASSUME ModeTypes, [Next]_vars
  PROVE  ModeTypes' /\ remote' = remote /\ start' = start
<1> USE DEF ModeTypes
<1>1. CASE \E b \in Board : PickerOpen(b) \/ DashOpen(b)
  BY <1>1, TuiBoardsAssumption DEF PickerOpen, DashOpen, Opened
<1>2. CASE EnterDash \/ EnterPicker
  BY <1>2 DEF EnterDash, EnterPicker
<1>3. CASE \E l \in Lines : AddLine(l) \/ DeleteLine(l)
  BY <1>3, TuiBoardsAssumption DEF AddLine, DeleteLine, Mutate
<1>4. CASE Walk
  BY <1>4, TuiBoardsAssumption DEF Walk, UndoKey, UndoFallback, RedoKey, RedoFallback
<1>5. CASE ReloadKey \/ WatchWait \/ CloudWait \/ ReloadMsg \/ UNCHANGED vars
  BY <1>5 DEF ReloadKey, WatchWait, CloudWait, ReloadMsg, vars, model
<1>6. CASE \E b \in Boards : OutsideEdit(b)
  BY <1>6, TuiBoardsAssumption DEF OutsideEdit, model
<1> QED
  BY <1>1, <1>2, <1>3, <1>4, <1>5, <1>6 DEF Next, Navigate, Keys, Walk

\* The watches: their types, and that the chain of wait commands goes on.
LEMMA WatchStep ==
  ASSUME WatchTypes, ModeTypes, [Next]_vars
  PROVE  WatchTypes' /\ (SomeoneListens => SomeoneListens')
<1> remote' = remote /\ remote \in BOOLEAN
  BY ModeStep DEF ModeTypes
<1> /\ waits \in 0 .. MaxMsgs /\ msgs \in 0 .. MaxMsgs /\ cloud.waits \in 0 .. MaxMsgs
   /\ watch \in Board \cup {"dir", None} /\ signal \in BOOLEAN
   /\ cloud \in [signal : BOOLEAN, waits : 0 .. MaxMsgs]
  BY DEF WatchTypes
<1>0. /\ SomeoneListens <=> /\ watch # None /\ ~remote => waits > 0 \/ msgs > 0
                            /\ remote => cloud.waits > 0 \/ msgs > 0
      /\ waits' \in 0 .. MaxMsgs /\ msgs' \in 0 .. MaxMsgs /\ cloud'.waits \in 0 .. MaxMsgs
           => (SomeoneListens' <=> /\ watch' # None /\ ~remote => waits' > 0 \/ msgs' > 0
                                   /\ remote => cloud'.waits > 0 \/ msgs' > 0)
  BY SomePositive, Zenon DEF SomeoneListens
<1>1. ASSUME NEW on \in Board \cup {"dir", None}, Rewatched(on),
             cloud' = cloud \/ cloud' = [cloud EXCEPT !.waits = IF remote /\ @ < MaxMsgs THEN @ + 1 ELSE @]
      PROVE  WatchTypes' /\ (SomeoneListens => SomeoneListens')
  <2>1. /\ watch' = on /\ signal' = FALSE
        /\ waits' = IF on = None THEN 0 ELSE 1
        /\ waits' \in 0 .. MaxMsgs /\ msgs' \in 0 .. MaxMsgs
        /\ msgs' >= msgs
    BY <1>1, RewatchedType
  <2>2. /\ cloud' \in [signal : BOOLEAN, waits : 0 .. MaxMsgs] 
        /\ cloud'.waits \in 0 .. MaxMsgs /\ cloud'.waits >= cloud.waits
    BY <1>1 DEF MaxMsgs
  <2>3. SomeoneListens => SomeoneListens'
    BY <1>0, <2>1, <2>2 DEF MaxMsgs
  <2> QED
    BY <2>1, <2>2, <2>3 DEF WatchTypes
<1>2. CASE \E b \in Board : PickerOpen(b) \/ DashOpen(b)
  BY <1>1, <1>2 DEF PickerOpen, DashOpen
<1>3. CASE EnterDash \/ EnterPicker
  BY <1>1, <1>3 DEF EnterDash, EnterPicker
<1>4. ASSUME (\E b \in Board : Touched(b)) \/ TouchedCloud
      PROVE  WatchTypes' /\ (SomeoneListens => SomeoneListens')
  BY <1>4, SeenType DEF SomeoneListens
<1>5. CASE \E b \in Boards : OutsideEdit(b)
  BY <1>4, <1>5 DEF OutsideEdit, Written, Boards
<1>6. CASE \E l \in Lines : AddLine(l) \/ DeleteLine(l)
  <2>1. Attached \in Boards
    BY <1>6, TuiBoardsAssumption DEF AddLine, DeleteLine, Mutate, Attached, ModeTypes, Boards
  <2>2. \E c : Written(Attached, c)
    BY <1>6 DEF AddLine, DeleteLine, Mutate
  <2> QED
    BY <1>4, <2>1, <2>2 DEF Written, Boards
<1>7. CASE Walk
  <2>1. path \in Board /\ path # Cloud
    BY <1>7, TuiBoardsAssumption
       DEF Walk, UndoKey, UndoFallback, RedoKey, RedoFallback, ModeTypes
  <2>2. Touched(path)
    BY <1>7, <2>1 DEF Walk, UndoKey, UndoFallback, RedoKey, RedoFallback, Written
  <2> QED
    BY <1>4, <2>1, <2>2
<1>8. CASE WatchWait
  <2>1. msgs' \in 0 .. MaxMsgs /\ msgs' > 0
    BY <1>8, QueueType DEF WatchWait, WatchTypes
  <2>2. waits' \in 0 .. MaxMsgs
    BY <1>8 DEF WatchWait, WatchTypes, MaxMsgs
  <2>3. watch' = watch /\ cloud' = cloud /\ signal' = FALSE
    BY <1>8 DEF WatchWait
  <2>4. SomeoneListens'
    BY <1>0, <2>1, <2>2, <2>3 DEF MaxMsgs
  <2> QED
    BY <2>1, <2>2, <2>3, <2>4 DEF WatchTypes
<1>9. CASE CloudWait
  <2>1. msgs' \in 0 .. MaxMsgs /\ msgs' > 0
    BY <1>9, QueueType DEF CloudWait, WatchTypes
  <2>2. cloud' \in [signal : BOOLEAN, waits : 0 .. MaxMsgs] /\ cloud'.waits \in 0 .. MaxMsgs
    BY <1>9 DEF CloudWait, MaxMsgs
  <2>3. watch' = watch /\ waits' = waits /\ signal' = signal
    BY <1>9 DEF CloudWait
  <2>4. SomeoneListens'
    BY <1>0, <2>1, <2>2, <2>3 DEF MaxMsgs
  <2> QED
    BY <2>1, <2>2, <2>3, <2>4 DEF WatchTypes
<1>10. CASE ReloadMsg
  <2>1. msgs' \in 0 .. MaxMsgs /\ watch' = watch /\ signal' = signal
    BY <1>10 DEF ReloadMsg, WatchTypes, MaxMsgs
  <2>2. CASE remote
    <3>1. cloud' = [cloud EXCEPT !.waits = IF @ < MaxMsgs THEN @ + 1 ELSE @] /\ waits' = waits
      BY <1>10, <2>2 DEF ReloadMsg, Rewait
    <3>2. /\ cloud' \in [signal : BOOLEAN, waits : 0 .. MaxMsgs]
          /\ cloud'.waits \in 0 .. MaxMsgs /\ cloud'.waits > 0
      BY <3>1 DEF MaxMsgs
    <3>3. SomeoneListens'
      BY <1>0, <2>1, <2>2, <3>1, <3>2 DEF MaxMsgs
    <3> QED
      BY <2>1, <3>1, <3>2, <3>3 DEF WatchTypes
  <2>3. CASE ~remote
    <3>1. /\ waits' = IF watch = None \/ waits = MaxMsgs THEN waits ELSE waits + 1
          /\ cloud' = cloud
      BY <1>10, <2>3 DEF ReloadMsg, Rewait
    <3>2. waits' \in 0 .. MaxMsgs /\ (watch # None => waits' > 0)
      BY <3>1 DEF MaxMsgs
    <3>3. SomeoneListens'
      BY <1>0, <2>1, <2>3, <3>1, <3>2 DEF MaxMsgs
    <3> QED
      BY <2>1, <3>1, <3>2, <3>3 DEF WatchTypes
  <2> QED
    BY <2>2, <2>3
<1>11. CASE ReloadKey \/ UNCHANGED vars
  BY <1>11 DEF ReloadKey, vars, watching, WatchTypes, SomeoneListens
<1> QED
  BY <1>2, <1>3, <1>5, <1>6, <1>7, <1>8, <1>9, <1>10, <1>11 DEF Next, Navigate, Keys, Walk

\* The boards and the screen, over every content.
LEMMA DataStep ==
  ASSUME Shapes, StoresOver(Anything), ScreenOver(Content), ModeTypes, [Next]_vars
  PROVE  (Shapes /\ StoresOver(Anything) /\ ScreenOver(Content))'
<1> DEFINE Kept == Shapes' /\ StoresOver(Anything)' /\ ScreenOver(Content)'
<1> SUFFICES Kept
  OBVIOUS
<1>1. /\ \A b \in Boards : Anything[b] = Content
      /\ \A b \in Boards : store[b] \in Content
      /\ \A b \in Board : b \in Boards
      /\ \A b \in Boards : Line[b] \subseteq Lines
  BY DEF StoresOver, Anything, Boards, Lines
<1>2. CASE \E b \in Boards : OutsideEdit(b)
  <2>1. PICK b \in Boards : \E l \in Line[b] :
               Written(b, store[b] \cup {l}) \/ Written(b, store[b] \ {l})
    BY <1>2 DEF OutsideEdit
  <2>2. \A l \in Line[b] : store[b] \cup {l} \in Anything[b] /\ store[b] \ {l} \in Anything[b]
    BY <1>1 DEF Content
  <2>3. Shapes' /\ StoresOver(Anything)'
    BY <2>1, <2>2, WrittenOver
  <2> QED
    BY <1>2, <2>3 DEF OutsideEdit, model, ScreenOver
<1>3. CASE \E b \in Board : PickerOpen(b) \/ DashOpen(b)
  BY <1>1, <1>3 DEF PickerOpen, DashOpen, Opened, Shapes, StoresOver, ScreenOver
<1>4. CASE EnterDash
  BY <1>4 DEF EnterDash, Shapes, StoresOver, ScreenOver
<1>5. CASE EnterPicker
  <2>1. hist' \in HistoriesOver(Content)
    BY <1>5, NothingYet DEF EnterPicker, PickerHistory
  <2> QED
    BY <1>5, <2>1 DEF EnterPicker, Shapes, StoresOver, ScreenOver, Content
<1>6. CASE \E l \in Lines : AddLine(l) \/ DeleteLine(l)
  <2>1. PICK l \in Lines : Mutate({l}, {}) \/ Mutate({}, {l})
    BY <1>6 DEF AddLine, DeleteLine
  <2>2. Attached \in Boards
    BY <2>1 DEF Mutate, Attached, Boards, ModeTypes
  <2>3. /\ (store[Attached] \ {}) \cup {l} \in Anything[Attached]
        /\ (store[Attached] \ {l}) \cup {} \in Anything[Attached]
        /\ Anything[Attached] = Content
    BY <1>1, <2>2 DEF Content
  <2>4. ASSUME NEW c \in Boards, c = Attached
        PROVE  Kept
    BY <2>1, <2>3, <2>4, MutateOver
  <2> QED
    BY <2>2, <2>4
<1>7. CASE Walk
  <2>1. path \in Board /\ Anything[path] = Content /\ path' = path
    BY <1>1, <1>7 DEF Walk, UndoKey, UndoFallback, RedoKey, RedoFallback, ModeTypes
  <2>2. Shapes' /\ StoresOver(Anything)' /\ ScreenOver(Anything[path])'
    BY <1>7, <2>1, KeysOver
  <2> QED
    BY <2>1, <2>2 DEF ScreenOver
<1>8. CASE ReloadKey \/ ReloadMsg
  <2>1. store' = store /\ journal' = journal
    BY <1>8 DEF ReloadKey, ReloadMsg
  <2>2. CASE mode = "board" /\ Reload(TRUE)
    <3>1. Attached \in Boards
      BY <2>2 DEF Attached, Boards, ModeTypes
    <3>2. ASSUME NEW c \in Boards, c = Attached
          PROVE  ScreenOver(Content)'
      BY <1>1, <2>2, <3>2, ReloadOver
    <3> QED
      BY <2>1, <3>1, <3>2 DEF Shapes, StoresOver
  <2>3. CASE tree' = tree /\ hist' = hist
    BY <2>1, <2>3 DEF Shapes, StoresOver, ScreenOver
  <2> QED
    BY <1>8, <2>2, <2>3 DEF ReloadKey, ReloadMsg
<1>9. CASE WatchWait \/ CloudWait \/ UNCHANGED vars
  BY <1>9 DEF WatchWait, CloudWait, vars, model, Shapes, StoresOver, ScreenOver
<1> QED
  BY <1>2, <1>3, <1>4, <1>5, <1>6, <1>7, <1>8, <1>9 DEF Next, Navigate, Keys, Walk

LEMMA TypesInitially == Init => TypeOK /\ SomeoneListens
<1> SUFFICES ASSUME Init PROVE TypeOK /\ SomeoneListens
  OBVIOUS
<1> USE TuiBoardsAssumption
<1>1. ScreenOver(Content)
  BY NothingYet DEF Init, ScreenOver, Content
<1>2. Shapes /\ StoresOver(Anything)
  <2>1. store = [b \in Boards |-> {}] /\ journal = [b \in Board |-> EmptyJournal]
    BY DEF Init
  <2>2. \A b \in Boards : store[b] \in Anything[b]
    BY <2>1 DEF Anything, Content
  <2>3. \A b \in Board : journal[b] \in JournalsOver(Anything[b])
    BY <2>1, NothingYet
  <2> QED
    BY <2>1, <2>2, <2>3 DEF Shapes, StoresOver
<1>3. /\ start \in Starts /\ start \in {"file", "picker", "dash", "remote"}
      /\ path \in Board \cup {None} /\ (start = "file" <=> path \in Board)
      /\ edits = 0 /\ cameFromDash = FALSE
      /\ remote \in BOOLEAN /\ (remote <=> start = "remote")
  BY DEF Init
<1>4. /\ start = "file" => mode = "board"
      /\ start = "picker" => mode = "picker"
      /\ start = "dash" => mode = "dash"
      /\ start = "remote" => mode = "board"
  BY DEF Init
<1>5. ModeTypes
  <2>1. mode \in {"board", "picker", "dash"} /\ edits \in 0 .. MaxEdits
    BY <1>3, <1>4
  <2>2. path \in Board => path # None
    OBVIOUS
  <2>3. mode = "board" => remote \/ path # None
    BY <1>3, <1>4, <2>2
  <2> QED
    BY <1>3, <2>1, <2>3, Zenon DEF ModeTypes
<1>6. WatchTypes /\ SomeoneListens
  <2>1. watch \in Board \cup {"dir", None}
    BY <1>3 DEF Init
  <2>2. cloud.waits = IF remote THEN 1 ELSE 0
    BY DEF Init
  <2>3. cloud = [signal |-> remote, waits |-> cloud.waits]
    BY DEF Init
  <2>4. cloud \in [signal : BOOLEAN, waits : 0 .. MaxMsgs]
    BY <1>3, <2>2, <2>3 DEF MaxMsgs
  <2>5. waits = (IF watch = None THEN 0 ELSE 1) /\ msgs = 0 /\ signal = FALSE
    BY DEF Init
  <2>6. WatchTypes
    <3>1. waits \in 0 .. MaxMsgs /\ msgs \in 0 .. MaxMsgs
      BY <2>5 DEF MaxMsgs
    <3>2. signal \in BOOLEAN
      BY <2>5
    <3> QED
      BY <2>1, <2>4, <3>1, <3>2, Zenon DEF WatchTypes
  <2>7. SomeoneListens
    BY <1>3, <2>2, <2>5 DEF SomeoneListens
  <2> QED
    BY <2>6, <2>7
<1> QED
  BY <1>1, <1>2, <1>5, <1>6, TypeParts

\* Whatever is opened, left, written, undone and reloaded, in any order, the
\* variables keep their types: a board view always has a board, every journal
\* holds entries that change something, and the history holds whole boards.
THEOREM BoardsTypes == Spec => []TypeOK
<1>1. Init => TypeOK
  BY TypesInitially
<1>2. TypeOK /\ [Next]_vars => TypeOK'
  <2> SUFFICES ASSUME TypeOK, [Next]_vars PROVE TypeOK'
    OBVIOUS
  <2>1. Shapes /\ StoresOver(Anything) /\ ScreenOver(Content) /\ WatchTypes /\ ModeTypes
    BY TypeParts
  <2>2. (Shapes /\ StoresOver(Anything) /\ ScreenOver(Content))' /\ WatchTypes' /\ ModeTypes'
    BY <2>1, DataStep, WatchStep, ModeStep
  <2> QED
    BY <2>2, TypePartsNext
<1> QED
  BY <1>1, <1>2, PTL DEF Spec

\* The chain of wait commands never breaks: while a watch is open somebody
\* waits for it, or a reload message is about to make somebody wait; and the
\* same of the cloud's for as long as a remote board is attached, when nothing is
\* said of a local watch (SomeoneListens).
THEOREM WaitsGoOn == Spec => []SomeoneListens
<1>1. Init => SomeoneListens
  BY TypesInitially
<1>2. TypeOK /\ SomeoneListens /\ [Next]_vars => SomeoneListens'
  BY TypeParts, WatchStep
<1> QED
  BY <1>1, <1>2, BoardsTypes, PTL DEF Spec

-----------------------------------------------------------------------------
(* Nothing crosses from one board to another.                              *)

\* The contents of a board's own lines.
Own == [b \in Boards |-> SUBSET Line[b]]

\* The inductive invariant: every board, its journal included, holds its own
\* lines, and so do the screen and the history while it is open; the picker
\* has neither a tree nor a history to hand on.
ApartInv ==
  start \in {"file", "picker"} =>
    /\ StoresOver(Own)
    /\ path # None => ScreenOver(Own[path])
    /\ ~remote /\ ~cameFromDash
    /\ mode = "picker" => path = None /\ tree = {} /\ hist = NoHistory
    /\ mode # "dash"

LEMMA ApartInitially == Init => ApartInv
<1> SUFFICES ASSUME Init, start \in {"file", "picker"}
             PROVE  /\ StoresOver(Own)
                    /\ path # None => ScreenOver(Own[path])
                    /\ ~remote /\ ~cameFromDash
                    /\ mode = "picker" => path = None /\ tree = {} /\ hist = NoHistory
                    /\ mode # "dash"
  BY DEF ApartInv
<1>1. store = [b \in Boards |-> {}] /\ journal = [b \in Board |-> EmptyJournal]
  BY DEF Init
<1>2. \A b \in Boards : store[b] \in Own[b]
  BY <1>1 DEF Own
<1>3. \A b \in Board : journal[b] \in JournalsOver(Own[b])
  BY <1>1, NothingYet
<1>4. path # None => ScreenOver(Own[path])
  <2>1. path # None => path \in Boards /\ tree = {} /\ hist = NoHistory
    BY DEF Init, Boards
  <2>2. \A b \in Boards : {} \in Own[b]
    BY DEF Own
  <2> QED
    BY <2>1, <2>2, NothingYet DEF ScreenOver
<1>5. start = "file" => mode = "board"
  BY DEF Init
<1>6. start = "picker" => mode = "picker" /\ path = None /\ tree = {} /\ hist = NoHistory
  BY DEF Init
<1>7. ~remote /\ ~cameFromDash
  BY DEF Init
<1> QED
  BY <1>2, <1>3, <1>4, <1>5, <1>6, <1>7 DEF StoresOver

LEMMA ApartStep ==
  ASSUME TypeOK, ApartInv, [Next]_vars
  PROVE  ApartInv'
<1> DEFINE Data == Shapes' /\ StoresOver(Own)'
           Rest == /\ path' # None => tree' \in Own[path'] /\ hist' \in HistoriesOver(Own[path'])
                   /\ ~cameFromDash'
                   /\ mode' = "picker" => path' = None /\ tree' = {} /\ hist' = NoHistory
                   /\ mode' # "dash"
<1>1. Shapes /\ StoresOver(Anything) /\ ScreenOver(Content) /\ WatchTypes /\ ModeTypes
  BY TypeParts
<1>2. start' = start /\ remote' = remote
  BY <1>1, ModeStep
<1> SUFFICES ASSUME start \in {"file", "picker"}
             PROVE  Data /\ Rest
  <2>1. Data /\ Rest => ApartInv'
    BY <1>2 DEF ApartInv, ScreenOver
  <2> QED
    BY <1>2, <2>1 DEF ApartInv
<1>3. /\ StoresOver(Own)
      /\ path # None => ScreenOver(Own[path])
      /\ remote = FALSE /\ cameFromDash = FALSE
      /\ mode = "picker" => path = None /\ tree = {} /\ hist = NoHistory
      /\ mode # "dash"
      /\ mode = "board" => path \in Board /\ path # None
      /\ path \in Board \cup {None}
  BY <1>1, TuiBoardsAssumption DEF ApartInv, ModeTypes
<1>4. /\ \A b \in Boards : Own[b] = SUBSET Line[b] /\ store[b] \in Own[b]
      /\ \A b \in Board : b \in Boards /\ b # None
  BY <1>3, TuiBoardsAssumption DEF Own, StoresOver, Boards
<1>5. CASE \E b \in Boards : OutsideEdit(b)
  <2>1. PICK b \in Boards : \E l \in Line[b] :
               Written(b, store[b] \cup {l}) \/ Written(b, store[b] \ {l})
    BY <1>5 DEF OutsideEdit
  <2>2. \A l \in Line[b] : store[b] \cup {l} \in Own[b] /\ store[b] \ {l} \in Own[b]
    BY <1>4
  <2>3. Data
    BY <1>1, <1>3, <2>1, <2>2, WrittenOver
  <2>4. UNCHANGED model
    BY <1>5 DEF OutsideEdit
  <2> QED
    BY <1>3, <2>3, <2>4 DEF model, ScreenOver
<1>6. CASE \E b \in Board : PickerOpen(b) \/ DashOpen(b)
  <2>1. PICK b \in Board : PickerOpen(b)
    BY <1>3, <1>6 DEF DashOpen
  <2>2. /\ store' = store /\ journal' = journal /\ cameFromDash' = cameFromDash
        /\ path' = b /\ tree' = store[b] /\ mode' = "board"
        /\ hist' = NoHistory
    BY <1>3, <2>1 DEF PickerOpen, Opened
  <2> QED
    BY <1>1, <1>3, <1>4, <2>2, NothingYet DEF Shapes, StoresOver
<1>7. CASE EnterDash \/ EnterPicker
  <2>1. EnterPicker
    BY <1>3, <1>7 DEF EnterDash
  <2> QED
    BY <1>1, <1>3, <2>1 DEF EnterPicker, PickerHistory, Shapes, StoresOver
<1>8. CASE \E l \in Lines : AddLine(l) \/ DeleteLine(l)
  <2>1. PICK l \in Lines : AddLine(l) \/ DeleteLine(l)
    BY <1>8
  <2>2. mode = "board" /\ path \in Board /\ path # None /\ Attached = path
    BY <1>3, <2>1 DEF AddLine, DeleteLine, Mutate, Attached
  <2>3. path' = path /\ mode' = mode /\ cameFromDash' = cameFromDash
    BY <2>1 DEF AddLine, DeleteLine, Mutate
  <2>4. ScreenOver(Own[path]) /\ path \in Boards
    BY <1>3, <1>4, <2>2
  <2>5. Own[path] = SUBSET Line[path] /\ store[path] \subseteq Line[path]
    BY <1>4, <2>4
  <2>6. CASE AddLine(l)
    <3>1. Mutate({l}, {}) /\ l \in Line[path]
      BY <2>2, <2>6 DEF AddLine
    <3>2. (store[path] \ {}) \cup {l} \in Own[path]
      BY <2>5, <3>1
    <3>3. ASSUME NEW b \in Boards, b = path
          PROVE  Data /\ ScreenOver(Own[b])'
      BY <1>1, <1>3, <2>2, <2>4, <3>1, <3>2, <3>3, MutateOver
    <3> QED
      BY <2>2, <2>3, <2>4, <3>3, <1>3 DEF ScreenOver
  <2>7. CASE DeleteLine(l)
    <3>1. Mutate({}, {l})
      BY <2>7 DEF DeleteLine
    <3>2. (store[path] \ {l}) \cup {} \in Own[path]
      BY <2>5
    <3>3. ASSUME NEW b \in Boards, b = path
          PROVE  Data /\ ScreenOver(Own[b])'
      BY <1>1, <1>3, <2>2, <2>4, <3>1, <3>2, <3>3, MutateOver
    <3> QED
      BY <2>2, <2>3, <2>4, <3>3, <1>3 DEF ScreenOver
  <2> QED
    BY <2>1, <2>6, <2>7
<1>9. CASE Walk
  <2>1. path' = path /\ mode' = mode /\ cameFromDash' = cameFromDash /\ mode = "board"
    BY <1>9 DEF Walk, UndoKey, UndoFallback, RedoKey, RedoFallback
  <2>2. Data /\ ScreenOver(Own[path])'
    BY <1>1, <1>3, <1>9, <2>1, KeysOver
  <2> QED
    BY <1>3, <2>1, <2>2 DEF ScreenOver
<1>10. CASE ReloadKey \/ ReloadMsg
  <2>1. /\ store' = store /\ journal' = journal
        /\ path' = path /\ mode' = mode /\ cameFromDash' = cameFromDash
    BY <1>10 DEF ReloadKey, ReloadMsg
  <2>2. Data
    BY <1>1, <1>3, <2>1 DEF Shapes, StoresOver
  <2>3. CASE mode = "board" /\ Reload(TRUE)
    <3>1. path \in Boards /\ path # None /\ ScreenOver(Own[path]) /\ Attached = path
      BY <1>3, <1>4, <2>3 DEF Attached
    <3>2. ASSUME NEW b \in Boards, b = path
          PROVE  ScreenOver(Own[b])'
      BY <1>3, <2>3, <3>1, <3>2, ReloadOver
    <3> QED
      BY <1>3, <2>1, <2>2, <2>3, <3>1, <3>2 DEF ScreenOver
  <2>4. CASE tree' = tree /\ hist' = hist
    BY <1>3, <2>1, <2>2, <2>4 DEF ScreenOver
  <2> QED
    BY <1>10, <2>3, <2>4 DEF ReloadKey, ReloadMsg
<1>11. CASE WatchWait \/ CloudWait \/ UNCHANGED vars
  <2>1. UNCHANGED <<store, journal, model>>
    BY <1>11 DEF WatchWait, CloudWait, vars
  <2> QED
    BY <1>1, <1>3, <2>1 DEF model, Shapes, StoresOver, ScreenOver
<1> QED
  BY <1>5, <1>6, <1>7, <1>8, <1>9, <1>10, <1>11 DEF Next, Navigate, Keys, Walk

\* What is written on one board never turns up on another, in its file, on the
\* screen or in the history, when the UI was started on a file or in the
\* picker: the picker's way drops the tree and the history, openBoard reads the
\* new board, and u writes only what the open board's own journal or history
\* holds.
THEOREM LinesStayHome == Spec => []NothingCrosses
<1>1. Init => ApartInv
  BY ApartInitially
<1>2. TypeOK /\ ApartInv /\ [Next]_vars => ApartInv'
  BY ApartStep
<1>3. TypeOK /\ ApartInv => NothingCrosses
  <2> SUFFICES ASSUME TypeOK, ApartInv, start \in {"file", "picker"}
               PROVE  /\ BoardsStayApart
                      /\ path # None =>
                           /\ tree \subseteq Line[path]
                           /\ \A k \in DOMAIN hist.undo : hist.undo[k] \subseteq Line[path]
                           /\ \A k \in DOMAIN hist.redo : hist.redo[k] \subseteq Line[path]
    BY DEF NothingCrosses
  <2>1. BoardsStayApart
    BY DEF ApartInv, StoresOver, Own, BoardsStayApart
  <2>2. ASSUME path # None
        PROVE  /\ tree \subseteq Line[path]
               /\ \A k \in DOMAIN hist.undo : hist.undo[k] \subseteq Line[path]
               /\ \A k \in DOMAIN hist.redo : hist.redo[k] \subseteq Line[path]
    <3>1. path \in Boards
      BY <2>2 DEF TypeOK, Boards
    <3>2. tree \in SUBSET Line[path] /\ hist \in HistoriesOver(SUBSET Line[path])
      BY <2>2, <3>1 DEF ApartInv, ScreenOver, Own
    <3>3. hist.undo \in Seq(SUBSET Line[path]) /\ hist.redo \in Seq(SUBSET Line[path])
      BY <3>2 DEF HistoriesOver
    <3>4. \A k \in DOMAIN hist.undo : hist.undo[k] \in SUBSET Line[path]
      BY <3>3, ElementOfSeq
    <3>5. \A k \in DOMAIN hist.redo : hist.redo[k] \in SUBSET Line[path]
      BY <3>3, ElementOfSeq
    <3> QED
      BY <3>2, <3>4, <3>5
  <2> QED
    BY <2>1, <2>2
<1> QED
  BY <1>1, <1>2, <1>3, BoardsTypes, PTL DEF Spec
=============================================================================
