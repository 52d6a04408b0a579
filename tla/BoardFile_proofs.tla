--------------------------- MODULE BoardFile_proofs ---------------------------
(***************************************************************************)
(* What TLAPS proves of the board file and its undo journal, for any set   *)
(* of processes, lines and writer kinds, with and without faults.          *)
(***************************************************************************)
EXTENDS BoardFile, SequenceTheorems, TLAPS

-----------------------------------------------------------------------------
(* The stacks of the undo journal.                                         *)

\* Trimming keeps a sequence of entries and bounds it.
LEMMA TrimType ==
  ASSUME NEW S, NEW s \in Seq(S)
  PROVE  /\ Trim(s) \in Seq(S)
         /\ Len(Trim(s)) <= UndoLimit
         /\ \A i \in 1..Len(Trim(s)) : \E k \in 1..Len(s) : Trim(s)[i] = s[k]
<1> USE UndoLimitAssumption
<1>1. CASE Len(s) <= UndoLimit
  BY <1>1 DEF Trim
<1>2. CASE Len(s) > UndoLimit
  <2> DEFINE m == Len(s) - UndoLimit + 1
  <2>1. m \in 1..Len(s) /\ Len(s) \in Nat
    BY <1>2
  <2>2. Trim(s) = SubSeq(s, m, Len(s))
    BY <1>2 DEF Trim
  <2>3. /\ SubSeq(s, m, Len(s)) \in Seq(S)
        /\ Len(SubSeq(s, m, Len(s))) = UndoLimit
        /\ \A i \in 1..UndoLimit : SubSeq(s, m, Len(s))[i] = s[m + i - 1]
    BY <2>1
  <2>4. \A i \in 1..UndoLimit : m + i - 1 \in 1..Len(s)
    BY <2>1
  <2>5. \A i \in 1..UndoLimit : Trim(s)[i] = s[m + i - 1]
    BY <2>2, <2>3
  <2>6. \A i \in 1..UndoLimit : \E k \in 1..Len(s) : Trim(s)[i] = s[k]
    BY <2>4, <2>5
  <2> HIDE DEF m
  <2> QED
    BY <2>2, <2>3, <2>6
<1> QED
  BY <1>1, <1>2

\* Popping a non-empty stack: its top and what is under it.
LEMMA PopType ==
  ASSUME NEW S, NEW s \in Seq(S), s # <<>>
  PROVE  /\ Last(s) \in S
         /\ Front(s) \in Seq(S)
         /\ Len(Front(s)) = Len(s) - 1
         /\ Len(s) \in Nat \ {0}
         /\ \A i \in 1..Len(s) - 1 : Front(s)[i] = s[i]
<1>1. Len(s) \in Nat \ {0} /\ \A i \in 1..Len(s) : s[i] \in S
  BY EmptySeq, ElementOfSeq
<1>2. /\ SubSeq(s, 1, Len(s) - 1) \in Seq(S)
      /\ Len(SubSeq(s, 1, Len(s) - 1)) = Len(s) - 1
      /\ \A i \in 1..Len(s) - 1 : SubSeq(s, 1, Len(s) - 1)[i] = s[i]
  <2> DEFINE n == Len(s) - 1
  <2>1. n \in Int /\ \A i \in 1..n : s[i] \in S
    BY <1>1
  <2>2. n \in Nat /\ n - 1 + 1 = n /\ (IF 1 <= n THEN n - 1 + 1 ELSE 0) = n
    BY <1>1, SMTT(30)
  <2>3. \A i \in 1..n : 1 + i - 1 = i
    BY <2>1
  <2> HIDE DEF n
  <2>4. /\ SubSeq(s, 1, n) \in Seq(S)
        /\ Len(SubSeq(s, 1, n)) = IF 1 <= n THEN n - 1 + 1 ELSE 0
        /\ \A i \in 1 .. n - 1 + 1 : SubSeq(s, 1, n)[i] = s[1 + i - 1]
    BY <2>1, SubSeqProperties
  <2>5. /\ SubSeq(s, 1, n) \in Seq(S)
        /\ Len(SubSeq(s, 1, n)) = n
        /\ \A i \in 1..n : SubSeq(s, 1, n)[i] = s[i]
    BY <2>2, <2>3, <2>4, Zenon
  <2> QED
    BY <2>5 DEF n
<1> QED
  BY <1>1, <1>2 DEF Last, Front

\* Pushing on a stack.
LEMMA PushType ==
  ASSUME NEW S, NEW s \in Seq(S), NEW e \in S
  PROVE  /\ Append(s, e) \in Seq(S)
         /\ Len(Append(s, e)) = Len(s) + 1
         /\ \A i \in 1..Len(s) + 1 : Append(s, e)[i] = IF i = Len(s) + 1 THEN e ELSE s[i]
         /\ Last(Append(s, e)) = e
         /\ Append(s, e) # <<>>
BY DEF Last

Steps(j) == Len(j.undo) + Len(j.redo)

-----------------------------------------------------------------------------
(* The operators of the journal.                                           *)

\* Recording keeps the journal well typed and within its limit.
LEMMA RecordType ==
  ASSUME NEW j \in Journals2, NEW before \in Content, NEW after \in Content
  PROVE  /\ Record(j, before, after) \in Journals2
         /\ Steps(j) <= UndoLimit => Steps(Record(j, before, after)) <= UndoLimit
<1>1. CASE before = after
  BY <1>1 DEF Record
<1>2. CASE before # after
  <2> DEFINE u == Append(j.undo, Entry(before, after))
  <2>1. j.undo \in Seq(Entries) /\ Entry(before, after) \in Entries
    BY <1>2 DEF Journals2, Entries, Entry
  <2>2. u \in Seq(Entries)
    BY <2>1, PushType
  <2>3. Trim(u) \in Seq(Entries) /\ Len(Trim(u)) <= UndoLimit
    BY <2>2, TrimType
  <2>4. Record(j, before, after) = [undo |-> Trim(u), redo |-> <<>>]
    BY <1>2 DEF Record
  <2> HIDE DEF u
  <2> QED
    BY <2>3, <2>4, UndoLimitAssumption DEF Journals2, Steps
<1> QED
  BY <1>1, <1>2

\* Undo and redo keep the number of entries.
LEMMA UndoneType ==
  ASSUME NEW j \in Journals2, j.undo # <<>>
  PROVE  Undone(j) \in Journals2 /\ Steps(Undone(j)) = Steps(j)
<1>1. j.undo \in Seq(Entries) /\ j.redo \in Seq(Entries)
  BY DEF Journals2
<1>2. /\ Last(j.undo) \in Entries /\ Front(j.undo) \in Seq(Entries)
      /\ Len(Front(j.undo)) = Len(j.undo) - 1 /\ Len(j.undo) \in Nat \ {0}
  BY <1>1, PopType
<1>3. Append(j.redo, Last(j.undo)) \in Seq(Entries)
      /\ Len(Append(j.redo, Last(j.undo))) = Len(j.redo) + 1
  BY <1>1, <1>2, PushType
<1>4. Undone(j).undo = Front(j.undo) /\ Undone(j).redo = Append(j.redo, Last(j.undo))
  BY DEF Undone
<1>5. Len(j.redo) \in Nat
  BY <1>1
<1>6. Steps(Undone(j)) = Steps(j)
  <2>1. Steps(Undone(j)) = Len(Front(j.undo)) + Len(Append(j.redo, Last(j.undo)))
    BY <1>4 DEF Steps
  <2>2. \A m, n \in Nat : (m - 1) + (n + 1) = m + n
    OBVIOUS
  <2> QED
    BY <1>2, <1>3, <1>5, <2>1, <2>2, Zenon DEF Steps
<1> QED
  BY <1>2, <1>3, <1>6 DEF Undone, Journals2

LEMMA RedoneType ==
  ASSUME NEW j \in Journals2, j.redo # <<>>
  PROVE  Redone(j) \in Journals2 /\ Steps(Redone(j)) = Steps(j)
<1>1. j.undo \in Seq(Entries) /\ j.redo \in Seq(Entries)
  BY DEF Journals2
<1>2. /\ Last(j.redo) \in Entries /\ Front(j.redo) \in Seq(Entries)
      /\ Len(Front(j.redo)) = Len(j.redo) - 1 /\ Len(j.redo) \in Nat \ {0}
  BY <1>1, PopType
<1>3. Append(j.undo, Last(j.redo)) \in Seq(Entries)
      /\ Len(Append(j.undo, Last(j.redo))) = Len(j.undo) + 1
  BY <1>1, <1>2, PushType
<1> QED
  BY <1>1, <1>2, <1>3, SMTT(30) DEF Redone, Journals2, Steps

-----------------------------------------------------------------------------
(* The inductive invariant.                                                *)

\* Every content the journal could bring back has been on disk: the board
\* before each edit and, once the edit was undone, the board after it.
RealJournal(j) ==
  /\ \A i \in 1..Len(j.undo) : j.undo[i].before \in landed
  /\ \A i \in 1..Len(j.redo) : j.redo[i].before \in landed /\ j.redo[i].after \in landed

\* The invariant holds of what the operation in progress is about to write too.
Real ==
  /\ board # Missing => board \in landed
  /\ RealJournal(journal)
  /\ RealJournal(job.jout)
  /\ job.kind \in {"undo", "redo"} => job.out \in landed

Bounded == Steps(journal) <= UndoLimit /\ Steps(job.jout) <= UndoLimit

\* A TUI's tree lacks no line of its lastDisk but those it is known to have lost.
Knows(v) == v.at = "open" => v.last \ v.tree \subseteq v.gone
Known == \A p \in Viewer : Knows(view[p])

IInv == TypeOK /\ Bounded /\ Real /\ Known

OpType == [add : Content, del : Content]
Orders == {<<"board">>, <<"journal", "board">>, <<"board", "journal">>}

\* An operation that takes the lock with a plan that keeps the invariant.
GoodBegin(p, kind, op, out, jout, order) ==
  /\ Begin(p, kind, op, out, jout, order)
  /\ Steps(jout) <= UndoLimit
  /\ RealJournal(jout)
  /\ kind \in {"undo", "redo"} => out \in landed

Begins ==
  \E p \in Proc, kind \in Kinds, op \in OpType, out \in Content,
     jout \in Journals2, order \in Orders : GoodBegin(p, kind, op, out, jout, order)

-----------------------------------------------------------------------------
(* Every operation begins with such a plan.                                *)

LEMMA ApplyType ==
  ASSUME NEW c \in Disk, NEW op \in Ops
  PROVE  Apply(c, op) \in Content /\ op \in OpType
BY BoardFileAssumption DEF Apply, LinesOf, Disk, Content, Ops, OpType

\* What SaveTo, SaveRebasing and EditUnderLockJournaled record keeps the
\* journal real: the board they replace was on disk.
LEMMA JournaledGood ==
  ASSUME IInv, NEW out \in Content
  PROVE  /\ Journaled(out) \in Journals2
         /\ Steps(Journaled(out)) <= UndoLimit
         /\ RealJournal(Journaled(out))
<1>1. /\ journal \in Journals2 /\ board \in Disk
      /\ Steps(journal) <= UndoLimit /\ RealJournal(journal)
      /\ board # Missing => board \in landed
  BY DEF IInv, TypeOK, Bounded, Real
<1>2. CASE board = Missing \/ board = out
  BY <1>1, <1>2 DEF Journaled, Record
<1>3. CASE board # Missing /\ board # out
  <2>1. board \in Content
    BY <1>1, <1>3 DEF Disk
  <2>2. Record(journal, board, out) \in Journals2 /\ Steps(Record(journal, board, out)) <= UndoLimit
    BY <1>1, <2>1, RecordType
  <2> DEFINE u == Append(journal.undo, Entry(board, out))
  <2>3. Record(journal, board, out) = [undo |-> Trim(u), redo |-> <<>>]
    BY <1>3 DEF Record
  <2>4. journal.undo \in Seq(Entries) /\ Entry(board, out) \in Entries
    BY <1>1, <1>3, <2>1 DEF Journals2, Entries, Entry
  <2>5. /\ u \in Seq(Entries) /\ Len(u) = Len(journal.undo) + 1
        /\ \A i \in 1..Len(u) :
             u[i] = IF i = Len(journal.undo) + 1 THEN Entry(board, out) ELSE journal.undo[i]
    BY <2>4, PushType
  <2>6. \A i \in 1..Len(u) : u[i].before \in landed
    <3> TAKE i \in 1..Len(u)
    <3>1. CASE i = Len(journal.undo) + 1
      BY <2>5, <3>1, <1>1, <1>3 DEF Entry
    <3>2. CASE i # Len(journal.undo) + 1
      <4>1. i \in 1..Len(journal.undo)
        <5>1. Len(journal.undo) \in Nat
          BY <2>4
        <5> HIDE DEF u
        <5> QED
          BY <5>1, <2>5, <3>2
      <4> QED
        BY <4>1, <2>5, <3>2, <1>1 DEF RealJournal
    <3> QED
      BY <3>1, <3>2
  <2>7. \A i \in 1..Len(Trim(u)) : \E k \in 1..Len(u) : Trim(u)[i] = u[k]
    BY <2>5, TrimType
  <2>8. \A i \in 1..Len(Trim(u)) : Trim(u)[i].before \in landed
    <3> HIDE DEF u
    <3> QED
      BY <2>6, <2>7
  <2>9. RealJournal([undo |-> Trim(u), redo |-> <<>>])
    BY <2>8 DEF RealJournal
  <2> QED
    BY <1>3, <2>2, <2>3, <2>9 DEF Journaled
<1> QED
  BY <1>2, <1>3

\* An undo brings back a board that was on disk, and leaves a real journal: the
\* entry it moves to the redo line is the one whose result is on disk now.
LEMMA UndoneGood ==
  ASSUME IInv, CanUndo(journal, board)
  PROVE  /\ Undone(journal) \in Journals2 /\ Steps(Undone(journal)) <= UndoLimit
         /\ RealJournal(Undone(journal))
         /\ Last(journal.undo) \in Entries /\ Last(journal.undo).before \in landed
<1> DEFINE s == journal.undo
           r == journal.redo
<1>1. /\ journal \in Journals2 /\ s \in Seq(Entries) /\ r \in Seq(Entries) /\ s # <<>>
      /\ Steps(journal) <= UndoLimit /\ RealJournal(journal)
      /\ board # Missing => board \in landed
  BY DEF IInv, TypeOK, Bounded, Real, CanUndo, Journals2
<1>2. /\ Last(s) \in Entries /\ Front(s) \in Seq(Entries) /\ Len(Front(s)) = Len(s) - 1
      /\ Len(s) \in Nat \ {0} /\ \A i \in 1..Len(s) - 1 : Front(s)[i] = s[i]
  BY <1>1, PopType
<1>3. /\ Len(Append(r, Last(s))) = Len(r) + 1 /\ Len(r) \in Nat
      /\ \A i \in 1..Len(r) + 1 : Append(r, Last(s))[i] = IF i = Len(r) + 1 THEN Last(s) ELSE r[i]
  BY <1>1, <1>2, PushType
<1>4. Last(s).before \in landed
  BY <1>1, <1>2 DEF RealJournal, Last
<1>5. Last(s).after \in landed
  <2>1. Last(s).after = board
    BY DEF CanUndo
  <2>2. Last(s).after \in Content
    BY <1>2 DEF Entries
  <2> QED
    BY <2>1, <2>2, <1>1, BoardFileAssumption DEF Content
<1>6. \A i \in 1..Len(Front(s)) : Front(s)[i].before \in landed
  <2>1. \A i \in 1..Len(Front(s)) : i \in 1..Len(s) - 1 /\ i \in 1..Len(s)
    BY <1>2
  <2> QED
    BY <2>1, <1>1, <1>2 DEF RealJournal
<1>7. \A i \in 1..Len(Append(r, Last(s))) :
        Append(r, Last(s))[i].before \in landed /\ Append(r, Last(s))[i].after \in landed
  <2>1. \A i \in 1..Len(r) + 1 : i = Len(r) + 1 \/ i \in 1..Len(r)
    BY <1>3
  <2> QED
    BY <2>1, <1>1, <1>3, <1>4, <1>5 DEF RealJournal
<1>8. RealJournal(Undone(journal))
  BY <1>6, <1>7 DEF RealJournal, Undone
<1>9. Undone(journal) \in Journals2 /\ Steps(Undone(journal)) = Steps(journal)
  BY <1>1, UndoneType
<1> QED
  BY <1>1, <1>2, <1>4, <1>8, <1>9

\* A redo, likewise: the entry it moves back was real on both sides.
LEMMA RedoneGood ==
  ASSUME IInv, CanRedo(journal, board)
  PROVE  /\ Redone(journal) \in Journals2 /\ Steps(Redone(journal)) <= UndoLimit
         /\ RealJournal(Redone(journal))
         /\ Last(journal.redo) \in Entries /\ Last(journal.redo).after \in landed
<1> DEFINE s == journal.redo
           u == journal.undo
<1>1. /\ journal \in Journals2 /\ s \in Seq(Entries) /\ u \in Seq(Entries) /\ s # <<>>
      /\ Steps(journal) <= UndoLimit /\ RealJournal(journal)
  BY DEF IInv, TypeOK, Bounded, Real, CanRedo, Journals2
<1>2. /\ Last(s) \in Entries /\ Front(s) \in Seq(Entries) /\ Len(Front(s)) = Len(s) - 1
      /\ Len(s) \in Nat \ {0} /\ \A i \in 1..Len(s) - 1 : Front(s)[i] = s[i]
  BY <1>1, PopType
<1>3. /\ Len(Append(u, Last(s))) = Len(u) + 1 /\ Len(u) \in Nat
      /\ \A i \in 1..Len(u) + 1 : Append(u, Last(s))[i] = IF i = Len(u) + 1 THEN Last(s) ELSE u[i]
  BY <1>1, <1>2, PushType
<1>4. Last(s).before \in landed /\ Last(s).after \in landed
  BY <1>1, <1>2 DEF RealJournal, Last
<1>5. \A i \in 1..Len(Front(s)) : Front(s)[i].before \in landed /\ Front(s)[i].after \in landed
  <2>1. \A i \in 1..Len(Front(s)) : i \in 1..Len(s) - 1 /\ i \in 1..Len(s)
    BY <1>2
  <2> QED
    BY <2>1, <1>1, <1>2 DEF RealJournal
<1>6. \A i \in 1..Len(Append(u, Last(s))) : Append(u, Last(s))[i].before \in landed
  <2>1. \A i \in 1..Len(u) + 1 : i = Len(u) + 1 \/ i \in 1..Len(u)
    BY <1>3
  <2> QED
    BY <2>1, <1>1, <1>3, <1>4 DEF RealJournal
<1>7. RealJournal(Redone(journal))
  BY <1>5, <1>6 DEF RealJournal, Redone
<1>8. Redone(journal) \in Journals2 /\ Steps(Redone(journal)) = Steps(journal)
  BY <1>1, RedoneType
<1> QED
  BY <1>1, <1>2, <1>4, <1>7, <1>8

\* What a viewer holds is a content.
LEMMA ViewType ==
  ASSUME IInv, NEW p \in Viewer
  PROVE  /\ p \in Proc /\ board \in Disk
         /\ view[p] \in Views /\ Knows(view[p])
         /\ view[p].tree \in Content /\ view[p].tree \in Disk
BY BoardFileAssumption DEF IInv, TypeOK, Known, Views, Disk

\* The operations that write an edit: all of them record what Journaled says,
\* the editor merge nothing.
LEMMA WriterBegins ==
  ASSUME IInv, NEW p \in Proc, NEW op \in Ops,
         \/ Edit(p, op)
         \/ p \in Viewer /\ (Save(p, op) \/ Rebase(p, op) \/ Merge(p, op))
  PROVE  Begins
<1> USE DEF Orders
<1>1. op \in OpType
  BY DEF Ops, OpType
<1>2. CASE Edit(p, op)
  <2> DEFINE out == Apply(board, op)
  <2>1. out \in Content
    BY ApplyType DEF IInv, TypeOK
  <2>2. Begin(p, "edit", op, out, Journaled(out), <<"journal", "board">>)
    BY <1>2 DEF Edit
  <2> HIDE DEF out
  <2>3. /\ Journaled(out) \in Journals2 /\ Steps(Journaled(out)) <= UndoLimit
        /\ RealJournal(Journaled(out))
    BY <2>1, JournaledGood
  <2>4. "edit" \in Kinds /\ GoodBegin(p, "edit", op, out, Journaled(out), <<"journal", "board">>)
    BY <2>2, <2>3 DEF GoodBegin, Begin
  <2> QED
    BY <1>1, <2>1, <2>3, <2>4 DEF Begins
<1>3. ASSUME NEW kind \in {"save", "rebase"}, NEW out \in Content, BeginSave(p, kind, op, out)
      PROVE  Begins
  <2>1. Begin(p, kind, op, out, Journaled(out), <<"board", "journal">>)
    BY <1>3 DEF BeginSave
  <2>2. /\ Journaled(out) \in Journals2 /\ Steps(Journaled(out)) <= UndoLimit
        /\ RealJournal(Journaled(out))
    BY JournaledGood
  <2>3. kind \in Kinds /\ GoodBegin(p, kind, op, out, Journaled(out), <<"board", "journal">>)
    BY <2>1, <2>2 DEF GoodBegin, Begin
  <2> QED
    BY <1>1, <2>2, <2>3 DEF Begins
<1>4. CASE p \in Viewer /\ Save(p, op)
  <2>1. Apply(view[p].tree, op) \in Content
    BY <1>4, ViewType, ApplyType
  <2> QED
    BY <1>3, <1>4, <2>1 DEF Save
<1>5. CASE p \in Viewer /\ Rebase(p, op)
  <2>1. Rebased(p, op) \in Content
    BY <1>5, ViewType, ApplyType DEF Rebased
  <2> QED
    BY <1>3, <1>5, <2>1 DEF Rebase
<1>6. CASE p \in Viewer /\ Merge(p, op)
  <2>1. PICK out \in Merged(Apply(view[p].tree, op), view[p].tree) :
          Begin(p, "merge", op, out, journal, <<"board">>)
    BY <1>6 DEF Merge
  <2>2. /\ view[p].tree \in Content /\ Apply(view[p].tree, op) \in Content /\ board \in Disk
    BY <1>6, ViewType, ApplyType
  <2>3. out \in Content
    BY <2>1, <2>2 DEF Merged, Merge3, Content, Disk
  <2>4. "merge" \in Kinds /\ GoodBegin(p, "merge", op, out, journal, <<"board">>)
    BY <2>1 DEF GoodBegin, Begin, IInv, Bounded, Real
  <2>5. journal \in Journals2
    BY DEF IInv, TypeOK
  <2> QED
    BY <1>1, <2>3, <2>4, <2>5 DEF Begins
<1> QED
  BY <1>2, <1>4, <1>5, <1>6

\* Undo and redo.
LEMMA TravelBegins ==
  ASSUME IInv, NEW p \in Proc, Undo(p) \/ Redo(p)
  PROVE  Begins
<1> USE DEF Orders
<1>1. CASE Undo(p)
  <2> DEFINE e == Last(journal.undo)
             op == [add |-> LinesOf(e.before) \ LinesOf(e.after),
                    del |-> LinesOf(e.after) \ LinesOf(e.before)]
  <2>1. /\ CanUndo(journal, board)
        /\ Begin(p, "undo", op, e.before, Undone(journal), <<"board", "journal">>)
    BY <1>1 DEF Undo
  <2>2. /\ Undone(journal) \in Journals2 /\ Steps(Undone(journal)) <= UndoLimit
        /\ RealJournal(Undone(journal)) /\ e \in Entries /\ e.before \in landed
    BY <2>1, UndoneGood
  <2>3. e.before \in Content /\ op \in OpType
    BY <2>2, BoardFileAssumption DEF Entries, OpType, LinesOf, Content
  <2> HIDE DEF e, op
  <2>4. "undo" \in Kinds /\ GoodBegin(p, "undo", op, e.before, Undone(journal), <<"board", "journal">>)
    BY <2>1, <2>2 DEF GoodBegin, Begin
  <2> QED
    BY <2>2, <2>3, <2>4 DEF Begins
<1>2. CASE Redo(p)
  <2> DEFINE e == Last(journal.redo)
             op == [add |-> LinesOf(e.after) \ LinesOf(e.before),
                    del |-> LinesOf(e.before) \ LinesOf(e.after)]
  <2>1. /\ CanRedo(journal, board)
        /\ Begin(p, "redo", op, e.after, Redone(journal), <<"board", "journal">>)
    BY <1>2 DEF Redo
  <2>2. /\ Redone(journal) \in Journals2 /\ Steps(Redone(journal)) <= UndoLimit
        /\ RealJournal(Redone(journal)) /\ e \in Entries /\ e.after \in landed
    BY <2>1, RedoneGood
  <2>3. e.after \in Content /\ op \in OpType
    BY <2>2, BoardFileAssumption DEF Entries, OpType, LinesOf, Content
  <2> HIDE DEF e, op
  <2>4. "redo" \in Kinds /\ GoodBegin(p, "redo", op, e.after, Redone(journal), <<"board", "journal">>)
    BY <2>1, <2>2 DEF GoodBegin, Begin
  <2> QED
    BY <2>2, <2>3, <2>4 DEF Begins
<1> QED
  BY <1>1, <1>2

-----------------------------------------------------------------------------
(* Every step keeps the invariant.                                         *)

\* A journal that is real stays so: nothing that landed is forgotten.
LEMMA RealMonotone ==
  ASSUME NEW j, RealJournal(j), landed \subseteq landed'
  PROVE  /\ \A i \in 1..Len(j.undo) : j.undo[i].before \in landed'
         /\ \A i \in 1..Len(j.redo) : j.redo[i].before \in landed' /\ j.redo[i].after \in landed'
BY DEF RealJournal

LEMMA NoJobType ==
  /\ NoJob \in Jobs
  /\ Steps(NoJob.jout) <= UndoLimit
  /\ RealJournal(NoJob.jout)
  /\ NoJob.kind \notin {"undo", "redo"}
<1>1. EmptyJournal \in Journals2 /\ EmptyJournal.undo = <<>> /\ EmptyJournal.redo = <<>>
  BY DEF EmptyJournal, Journals2
<1>2. Steps(EmptyJournal) <= UndoLimit /\ RealJournal(EmptyJournal)
  BY <1>1, UndoLimitAssumption DEF Steps, RealJournal
<1> HIDE DEF EmptyJournal
<1>3. NoJob \in Jobs
  BY <1>1 DEF NoJob, Jobs, Plans, Content, Disk
<1> QED
  BY <1>2, <1>3 DEF NoJob

LEMMA InitInv == Init => IInv
<1> SUFFICES ASSUME Init PROVE IInv
  OBVIOUS
<1>1. /\ journal = EmptyJournal /\ job = NoJob /\ board \in {Missing, {}}
      /\ landed = {board} \ {Missing}
  BY DEF Init
<1>2. EmptyJournal \in Journals2 /\ NoJob.jout = EmptyJournal
  BY DEF NoJob, EmptyJournal, Journals2
<1>3. TypeOK
  <2>1. NoView \in Views
    BY DEF NoView, View, Views, Stages, Content
  <2> QED BY <1>1, <1>2, <2>1, NoJobType DEF Init, TypeOK, Disk, Content
<1>4. Bounded /\ Real
  BY <1>1, <1>2, NoJobType DEF Bounded, Real
<1>5. Known
  <2>1. NoView.at = "none"
    BY DEF NoView, View
  <2> QED BY <2>1 DEF Init, Known, Knows
<1> QED
  BY <1>3, <1>4, <1>5 DEF IInv

LEMMA BeginPreserves ==
  ASSUME IInv, Begins
  PROVE  IInv'
<1>1. PICK p \in Proc, kind \in Kinds, op \in OpType, out \in Content,
           jout \in Journals2, order \in Orders : GoodBegin(p, kind, op, out, jout, order)
  BY DEF Begins
<1>2. /\ lock' = p /\ UNCHANGED <<board, journal, view, landed, back, fwd>>
      /\ job' = [kind |-> kind, op |-> op, out |-> out, jout |-> jout,
                 todo |-> IF jout = journal THEN <<"board">> ELSE order,
                 ok |-> TRUE, whole |-> TRUE, board0 |-> board, journal0 |-> journal]
      /\ Steps(jout) <= UndoLimit /\ RealJournal(jout)
      /\ kind \in {"undo", "redo"} => out \in landed
  BY <1>1 DEF GoodBegin, Begin, files
<1>3. (IF jout = journal THEN <<"board">> ELSE order) \in Plans
  BY DEF Orders, Plans
<1>4. board \in Disk /\ journal \in Journals2
  BY DEF IInv, TypeOK
<1>5. job' \in Jobs
  BY <1>2, <1>3, <1>4 DEF Jobs, OpType
<1>6. TypeOK'
  BY <1>2, <1>5 DEF IInv, TypeOK
<1>7. job'.jout = jout /\ job'.kind = kind /\ job'.out = out
  BY <1>2
<1>8. Bounded'
  BY <1>2, <1>7 DEF IInv, Bounded, Steps
<1>9. Real'
  BY <1>2, <1>7 DEF IInv, Real, RealJournal
<1>10. Known'
  BY <1>2 DEF IInv, Known, Knows
<1> QED
  BY <1>6, <1>8, <1>9, <1>10 DEF IInv

\* What is left of a plan is a plan.
LEMMA PlanTail ==
  ASSUME NEW t \in Plans, t # <<>>
  PROVE  Tail(t) \in Plans
<1> DEFINE S == {"board", "journal"}
<1>1. t \in Seq(S) /\ Len(t) \in {1, 2}
  <2>1. \A x \in S : <<x>> \in Seq(S) /\ Len(<<x>>) = 1
    OBVIOUS
  <2>2. \A x, y \in S : <<x, y>> \in Seq(S) /\ Len(<<x, y>>) = 2
    OBVIOUS
  <2> QED
    BY <2>1, <2>2 DEF Plans
<1> HIDE DEF S
<1>2. Tail(t) \in Seq(S) /\ Len(Tail(t)) = Len(t) - 1 /\ Tail(t) = SubSeq(t, 2, Len(t))
  BY <1>1, HeadTailProperties, TailIsSubSeq
<1>3. CASE Len(t) = 1
  BY <1>2, <1>3, SubSeqEmpty DEF Plans
<1>4. CASE Len(t) = 2
  <2>1. Len(Tail(t)) = 1 /\ Tail(t)[1] \in S
    BY <1>2, <1>4, ElementOfSeq
  <2>2. <<Tail(t)[1]>> \in Seq(S) /\ Len(<<Tail(t)[1]>>) = 1
    BY <2>1
  <2>3. Tail(t) = <<Tail(t)[1]>>
    <3> DEFINE u == <<Tail(t)[1]>>
    <3>1. u \in Seq(S) /\ Len(u) = 1 /\ u[1] = Tail(t)[1]
      BY <2>2
    <3>2. Tail(t) \in Seq(S) /\ Len(Tail(t)) = Len(u)
      BY <1>2, <2>1, <3>1
    <3> HIDE DEF u
    <3>3. \A i \in 1..Len(Tail(t)) : Tail(t)[i] = u[i]
      <4>1. \A i \in 1..1 : i = 1
        OBVIOUS
      <4> QED
        BY <2>1, <3>1, <4>1, Zenon
    <3>4. Tail(t) = u
      BY <3>1, <3>2, <3>3, SeqEqual
    <3> QED
      BY <3>4 DEF u
  <2> QED
    BY <2>1, <2>3 DEF Plans, S
<1> QED
  BY <1>1, <1>3, <1>4

LEMMA WritesPreserve ==
  ASSUME IInv, WriteBoard \/ WriteJournal \/ FailWrite
  PROVE  IInv'
<1>1. job \in Jobs /\ job.todo \in Plans /\ job.todo # <<>>
  BY DEF IInv, TypeOK, Jobs, WriteBoard, WriteJournal, FailWrite, Owes
<1>2. Tail(job.todo) \in Plans /\ <<>> \in Plans
  BY <1>1, PlanTail DEF Plans
<1> Known'
  <2>1. view' = view
    BY DEF WriteBoard, WriteJournal, FailWrite
  <2> QED BY <2>1 DEF IInv, Known, Knows
<1>3. CASE WriteBoard
  <2>1. /\ board' = job.out /\ landed' = landed \cup {job.out}
        /\ job' = [job EXCEPT !.todo = Tail(job.todo)]
        /\ UNCHANGED <<journal, lock, view, back, fwd>>
    BY <1>3 DEF WriteBoard
  <2>2. job' \in Jobs /\ job'.jout = job.jout /\ job'.kind = job.kind /\ job'.out = job.out
    BY <1>1, <1>2, <2>1 DEF Jobs
  <2>3. job.out \in Content
    BY <1>1 DEF Jobs
  <2>4. TypeOK'
    BY <2>1, <2>2, <2>3 DEF IInv, TypeOK, Disk
  <2>5. Bounded'
    BY <2>1, <2>2 DEF IInv, Bounded, Steps
  <2>6. Real'
    BY <2>1, <2>2 DEF IInv, Real, RealJournal
  <2> QED
    BY <2>4, <2>5, <2>6 DEF IInv
<1>4. CASE WriteJournal
  <2>1. /\ journal' = job.jout /\ job' = [job EXCEPT !.todo = Tail(job.todo)]
        /\ UNCHANGED <<board, lock, view, landed, back, fwd>>
    BY <1>4 DEF WriteJournal
  <2>2. job' \in Jobs /\ job'.jout = job.jout /\ job'.kind = job.kind /\ job'.out = job.out
    BY <1>1, <1>2, <2>1 DEF Jobs
  <2>3. TypeOK'
    BY <1>1, <2>1, <2>2 DEF IInv, TypeOK, Jobs
  <2>4. Bounded'
    BY <2>1, <2>2 DEF IInv, Bounded, Steps
  <2>5. Real'
    BY <2>1, <2>2 DEF IInv, Real, RealJournal
  <2> QED
    BY <2>3, <2>4, <2>5 DEF IInv
<1>5. CASE FailWrite
  <2>1. /\ job' = [job EXCEPT !.todo = FailedTodo, !.ok = Swallowed, !.whole = FALSE]
        /\ UNCHANGED <<board, journal, lock, view, landed, back, fwd>>
    BY <1>5 DEF FailWrite, files
  <2>2. FailedTodo \in Plans /\ Swallowed \in BOOLEAN
    BY <1>1, <1>2 DEF FailedTodo, Swallowed, Jobs
  <2>3. job' \in Jobs /\ job'.jout = job.jout /\ job'.kind = job.kind /\ job'.out = job.out
    BY <1>1, <2>1, <2>2 DEF Jobs
  <2>4. TypeOK'
    BY <2>1, <2>3 DEF IInv, TypeOK
  <2>5. Bounded'
    BY <2>1, <2>3 DEF IInv, Bounded, Steps
  <2>6. Real'
    BY <2>1, <2>3 DEF IInv, Real, RealJournal
  <2> QED
    BY <2>4, <2>5, <2>6 DEF IInv
<1> QED
  BY <1>3, <1>4, <1>5

\* Giving the lock up, in whatever way.
LEMMA ReleasePreserves ==
  ASSUME IInv, NEW complete \in BOOLEAN, Release(complete), view' \in [Viewer -> Views], Known'
  PROVE  IInv'
<1>1. /\ lock' = NoProc /\ job' = NoJob /\ UNCHANGED <<board, journal, landed>>
      /\ back' = Walkable(complete)[1] /\ fwd' = Walkable(complete)[2]
  BY DEF Release, files
<1>2. back' \in Nat /\ fwd' \in Nat
  <2>1. back \in Nat /\ fwd \in Nat /\ UndoLimit \in Nat
    BY UndoLimitAssumption DEF IInv, TypeOK
  <2>2. Pred(back) \in Nat /\ Pred(fwd) \in Nat /\ Min2(back + 1, UndoLimit) \in Nat
    BY <2>1 DEF Pred, Min2
  <2> QED
    BY <1>1, <2>1, <2>2 DEF Walkable
<1>3. TypeOK'
  BY <1>1, <1>2, NoJobType DEF IInv, TypeOK
<1>4. Bounded'
  <2>1. Steps(journal)' = Steps(journal) /\ Steps(job.jout)' = Steps(NoJob.jout)
    BY <1>1 DEF Steps
  <2> QED
    BY <2>1, NoJobType DEF IInv, Bounded
<1>5. Real'
  <2>1. job'.jout = NoJob.jout /\ job'.kind = NoJob.kind
    BY <1>1
  <2>2. RealJournal(journal)' /\ RealJournal(job.jout)'
    BY <1>1, <2>1, NoJobType DEF IInv, Real, RealJournal
  <2> QED
    BY <1>1, <2>1, <2>2, NoJobType DEF IInv, Real
<1> QED
  BY <1>3, <1>4, <1>5 DEF IInv

\* One viewer's view changes to one that is as it should be.
LEMMA ViewChanges ==
  ASSUME IInv, NEW p, NEW v \in Views, Knows(v), view' = [view EXCEPT ![p] = v]
  PROVE  view' \in [Viewer -> Views] /\ Known'
<1>1. view \in [Viewer -> Views] /\ \A q \in Viewer : Knows(view[q])
  BY DEF IInv, TypeOK, Known
<1>2. \A q \in Viewer : view'[q] = IF q = p THEN v ELSE view[q]
  BY <1>1
<1>3. view' \in [Viewer -> Views]
  BY <1>1
<1>4. \A q \in Viewer : Knows(view'[q])
  BY <1>1, <1>2
<1> QED
  BY <1>3, <1>4 DEF Known, Knows

\* An empty view is as it should be.
LEMMA NoViewGood == NoView \in Views /\ Knows(NoView)
BY DEF NoView, View, Views, Stages, Content, Knows

\* What each reading leaves a viewer with.
LEMMA SeenGood ==
  ASSUME IInv, NEW p \in Viewer,
         Load(p) \/ ReadLast(p) \/ Reload(p) \/ OpenEditor(p) \/ Forget(p)
  PROVE  \E v \in Views : Knows(v) /\ See(p, v)
<1>1. board \in Disk /\ LinesOf(board) \in Content /\ view[p] \in Views
      /\ view[p].tree \in Content
  BY ViewType, BoardFileAssumption DEF LinesOf, Disk, Content
<1>2. {} \in Content
  BY DEF Content
<1>3. CASE Load(p)
  <2> DEFINE at == IF board = Missing THEN "template" ELSE "loaded"
             v == View(at, LinesOf(board), {}, {})
  <2>1. at \in Stages /\ at # "open"
    BY DEF Stages
  <2> HIDE DEF at
  <2>2. v \in Views /\ Knows(v)
    BY <1>1, <1>2, <2>1 DEF View, Views, Knows
  <2>3. See(p, v)
    BY <1>3 DEF Load, at
  <2> QED BY <2>2, <2>3
<1>4. CASE ReadLast(p)
  <2> DEFINE v == View("open", view[p].tree, LinesOf(board), LinesOf(board) \ view[p].tree)
  <2>1. LinesOf(board) \ view[p].tree \in Content
    BY <1>1 DEF Content
  <2>2. v \in Views
    BY <1>1, <2>1 DEF View, Views, Stages
  <2>3. Knows(v)
    BY DEF View, Knows
  <2>4. See(p, v)
    BY <1>4 DEF ReadLast
  <2> QED BY <2>2, <2>3, <2>4
<1>5. CASE Reload(p)
  <2> DEFINE v == View("open", board, board, {})
  <2>1. board \in Content
    BY <1>1, <1>5 DEF Reload, Disk
  <2>2. v \in Views /\ Knows(v)
    BY <1>2, <2>1 DEF View, Views, Stages, Knows
  <2>3. See(p, v)
    BY <1>5 DEF Reload
  <2> QED BY <2>2, <2>3
<1>6. CASE OpenEditor(p)
  <2> DEFINE v == View("editor", LinesOf(board), {}, {})
  <2>1. v \in Views /\ Knows(v)
    BY <1>1, <1>2 DEF View, Views, Stages, Knows
  <2>2. See(p, v)
    BY <1>6 DEF OpenEditor
  <2> QED BY <2>1, <2>2
<1>7. CASE Forget(p)
  BY <1>7, NoViewGood DEF Forget
<1> QED
  BY <1>3, <1>4, <1>5, <1>6, <1>7

\* What a viewer goes on from when its operation returns: after a save that failed,
\* the lines it deleted are among those its tree is known to have lost.
LEMMA KeptGood ==
  ASSUME IInv, Unlock, lock \in Viewer
  PROVE  Kept(view[lock]) \in Views /\ Knows(Kept(view[lock]))
<1> DEFINE v == view[lock]
<1>1. /\ v \in Views /\ Knows(v) /\ board \in Disk
      /\ v.tree \in Content /\ v.last \in Content /\ v.gone \in Content
      /\ job.op.add \in Content /\ job.op.del \in Content
  BY ViewType DEF Views, IInv, TypeOK, Jobs
<1> HIDE DEF v
<1>2. CASE v.at # "open" \/ job.kind \in {"edit", "undo", "redo"}
  BY <1>1, <1>2, NoViewGood DEF Kept, v
<1>3. CASE v.at = "open" /\ job.kind \notin {"edit", "undo", "redo"}
  <2>1. Kept(view[lock]) = Saved(v)
    BY <1>3 DEF Kept, v
  <2>2. CASE job.ok
    <3>1. job.out \in Content
      BY DEF IInv, TypeOK, Jobs
    <3>2. View("open", job.out, job.out, {}) \in Views /\ Knows(View("open", job.out, job.out, {}))
      BY <3>1 DEF View, Views, Stages, Knows, Content
    <3> QED BY <2>1, <2>2, <3>2 DEF Saved
  <2>3. CASE ~job.ok
    <3> DEFINE t == (v.tree \ job.op.del) \cup job.op.add
               g == v.last \cap ((v.gone \ job.op.add) \cup job.op.del)
               w == View("open", t, v.last, g)
    <3>1. t \in Content /\ g \in Content
      BY <1>1 DEF Content
    <3>2. v.last \ t \subseteq g
      BY <1>1, <1>3 DEF Knows
    <3>3. Apply(v.tree, job.op) = t
      BY <1>1, BoardFileAssumption DEF Apply, LinesOf, Content
    <3>4. Saved(v) = w
      BY <2>3, <3>3 DEF Saved
    <3> HIDE DEF t, g
    <3>5. w \in Views /\ Knows(w)
      BY <1>1, <3>1, <3>2 DEF View, Views, Stages, Knows
    <3> QED BY <2>1, <3>4, <3>5
  <2> QED BY <2>2, <2>3
<1> QED BY <1>2, <1>3

LEMMA NextPreserves ==
  ASSUME IInv, [Next]_vars
  PROVE  IInv'
<1>1. ASSUME UNCHANGED <<board, journal, lock, job, landed, back, fwd>>,
             view' \in [Viewer -> Views], Known'
      PROVE  IInv'
  <2>1. TypeOK'
    BY <1>1 DEF IInv, TypeOK
  <2>2. Bounded'
    BY <1>1 DEF IInv, Bounded, Steps
  <2>3. Real'
    BY <1>1 DEF IInv, Real, RealJournal
  <2> QED
    BY <1>1, <2>1, <2>2, <2>3 DEF IInv
<1>2. ASSUME view' = view
      PROVE  view' \in [Viewer -> Views] /\ Known'
  BY <1>2 DEF IInv, TypeOK, Known, Knows
<1>3. ASSUME NEW p \in Viewer,
             Load(p) \/ ReadLast(p) \/ Reload(p) \/ OpenEditor(p) \/ Forget(p)
      PROVE  IInv'
  <2>1. PICK v \in Views : Knows(v) /\ See(p, v)
    BY <1>3, SeenGood
  <2>2. view' \in [Viewer -> Views] /\ Known'
    BY <2>1, ViewChanges DEF See
  <2> QED
    BY <1>1, <2>1, <2>2 DEF See, files
<1>4. ASSUME NEW p \in Viewer, NEW op \in Ops, Save(p, op) \/ Rebase(p, op) \/ Merge(p, op)
      PROVE  IInv'
  BY <1>4, WriterBegins, BeginPreserves, BoardFileAssumption
<1>5. ASSUME NEW p \in Proc, Undo(p) \/ Redo(p)
      PROVE  IInv'
  BY <1>5, TravelBegins, BeginPreserves
<1>6. ASSUME NEW p \in Proc, NEW op \in Ops, Edit(p, op)
      PROVE  IInv'
  BY <1>6, WriterBegins, BeginPreserves
<1>7. CASE WriteBoard \/ WriteJournal \/ FailWrite
  BY <1>7, WritesPreserve
<1>8. CASE Unlock
  <2>1. view' \in [Viewer -> Views] /\ Known'
    <3>1. CASE lock \in Viewer
      <4>1. view' = [view EXCEPT ![lock] = Kept(view[lock])]
        BY <1>8, <3>1 DEF Unlock
      <4>2. Kept(view[lock]) \in Views /\ Knows(Kept(view[lock]))
        BY <1>8, <3>1, KeptGood
      <4> QED BY <4>1, <4>2, ViewChanges
    <3>2. CASE lock \notin Viewer
      BY <1>2, <1>8, <3>2 DEF Unlock
    <3> QED BY <3>1, <3>2
  <2>2. job.whole \in BOOLEAN
    BY DEF IInv, TypeOK, Jobs
  <2> QED
    BY <1>8, <2>1, <2>2, ReleasePreserves DEF Unlock
<1>9. CASE Crash
  <2>1. view' \in [Viewer -> Views] /\ Known'
    BY <1>9, NoViewGood, ViewChanges DEF Crash
  <2> QED
    BY <1>9, <2>1, ReleasePreserves DEF Crash
<1>10. CASE LoseJournal
  <2>1. /\ journal' = EmptyJournal /\ UNCHANGED <<board, lock, job, view, landed>>
        /\ back' = 0 /\ fwd' = 0
    BY <1>10 DEF LoseJournal
  <2>2. NoJob.jout = EmptyJournal /\ EmptyJournal \in Journals2
    BY DEF NoJob, EmptyJournal, Journals2
  <2>3. TypeOK'
    BY <2>1, <2>2 DEF IInv, TypeOK
  <2>4. Bounded'
    BY <2>1, <2>2, NoJobType DEF IInv, Bounded, Steps
  <2>5. Real'
    BY <2>1, <2>2, NoJobType DEF IInv, Real, RealJournal
  <2> QED
    BY <1>2, <2>1, <2>3, <2>4, <2>5 DEF IInv
<1>11. CASE UNCHANGED vars
  BY <1>1, <1>2, <1>11 DEF vars, files
<1> QED
  BY <1>3, <1>4, <1>5, <1>6, <1>7, <1>8, <1>9, <1>10, <1>11 DEF Next

-----------------------------------------------------------------------------
(* The theorems.                                                           *)

THEOREM Invariance == Spec => []IInv
<1>1. IInv /\ [Next]_vars => IInv'
  BY NextPreserves
<1> QED
  BY InitInv, <1>1, PTL DEF Spec

\* The journal always holds pairs of board contents, and the operation in
\* progress always owes one of the write plans of the code.
THEOREM TypeCorrect == Spec => []TypeOK
<1>1. IInv => TypeOK
  BY DEF IInv
<1> QED
  BY Invariance, <1>1, PTL

\* undo and redo together never hold more than undoLimit entries, though redo
\* does not trim.
THEOREM JournalStaysBounded == Spec => []JournalBounded
<1>1. IInv => JournalBounded
  BY DEF IInv, Bounded, Steps, JournalBounded
<1> QED
  BY Invariance, <1>1, PTL

\* Undo and redo only write boards that were on disk before, whatever crashed,
\* failed or wrote without journaling in between.
THEOREM TravelRestoresReal == Spec => RestoresReal
<1>1. IInv /\ [Next]_vars
      => [job.kind \in {"undo", "redo"} /\ board' # board => board' \in landed]_vars
  <2> SUFFICES ASSUME IInv, Next, job.kind \in {"undo", "redo"}, board' # board
               PROVE  board' \in landed
    OBVIOUS
  <2>1. WriteBoard
    BY DEF Next, Load, ReadLast, Reload, OpenEditor, Forget, See, Save, BeginSave, Rebase,
           Merge, Undo, Redo, Edit, Begin, WriteJournal, FailWrite, Unlock, Crash, Release, LoseJournal, files
  <2> QED
    BY <2>1 DEF WriteBoard, IInv, Real
<1> QED
  BY Invariance, <1>1, PTL DEF Spec, RestoresReal

-----------------------------------------------------------------------------
(* No lost update and no lost edit, with crashes and failed writes.         *)
(*                                                                         *)
(* The argument: while an operation still owes its board write, the board  *)
(* is what it was when the lock was taken, and the content planned then    *)
(* drops nothing but what the operation deletes and has what it adds.  A    *)
(* rebasing save that writes the TUI's own tree found lastDisk on disk, and *)
(* that tree lacks only lines it is known to have lost (Knows).            *)


\* The board write is still to come.
Pends(t) == \E i \in 1..Len(t) : t[i] = "board"

\* The operation in progress would lose nothing but its own, and has its lines in
\* what it writes or has written them.
Keeps ==
  lock # NoProc =>
    /\ job.kind = "rebase" => lock \in Viewer
    /\ Pends(job.todo) /\ job.kind # "save" =>
         LinesOf(board) \ LinesOf(job.out) \subseteq job.op.del \cup Unseen
    /\ Pends(job.todo) => job.op.add \subseteq LinesOf(job.out)
    /\ ~Pends(job.todo) /\ job.ok => job.op.add \subseteq LinesOf(board)

\* What an operation plans when it takes the lock.
Lacks(p, kind) == IF kind = "rebase" /\ board = view[p].last THEN view[p].gone ELSE {}

GoodPlan(p, kind, op, out) ==
  /\ kind = "rebase" => p \in Viewer
  /\ kind # "save" => LinesOf(board) \ LinesOf(out) \subseteq op.del \cup Lacks(p, kind)
  /\ op.add \subseteq LinesOf(out)

-----------------------------------------------------------------------------
(* The plans.                                                              *)

LEMMA ContentLines == \A c \in Content : LinesOf(c) = c
  BY BoardFileAssumption DEF LinesOf, Content

\* A locked read-modify-write is planned on the board itself.
LEMMA EditPlan ==
  ASSUME IInv, NEW p, NEW op \in Ops
  PROVE  GoodPlan(p, "edit", op, Apply(board, op))
<1>1. Apply(board, op) \in Content
  BY ApplyType DEF IInv, TypeOK
<1> QED
  BY <1>1, ContentLines DEF GoodPlan, Apply

\* A plain save has its lines; it may lose others.
LEMMA SavePlan ==
  ASSUME IInv, NEW p \in Viewer, NEW op \in Ops
  PROVE  GoodPlan(p, "save", op, Apply(view[p].tree, op))
<1>1. Apply(view[p].tree, op) \in Content
  BY ApplyType, ViewType
<1> QED
  BY <1>1, ContentLines DEF GoodPlan, Apply

\* A rebasing save is planned on the TUI's tree only when its lastDisk is the board.
LEMMA RebasePlan ==
  ASSUME IInv, NEW p \in Viewer, NEW op \in Ops, view[p].at = "open"
  PROVE  GoodPlan(p, "rebase", op, Rebased(p, op))
<1> DEFINE tree == view[p].tree
           last == view[p].last
           gone == view[p].gone
<1>1. /\ tree \in Content /\ Apply(tree, op) \in Content /\ last \in Content
      /\ Apply(board, op) \in Content /\ last \ tree \subseteq gone
  BY ApplyType, ViewType DEF Views, Knows
<1>2. /\ LinesOf(Apply(tree, op)) = (tree \ op.del) \cup op.add
      /\ LinesOf(Apply(board, op)) = (LinesOf(board) \ op.del) \cup op.add
  BY <1>1, ContentLines DEF Apply
<1>3. CASE board = Missing
  <2>1. Rebased(p, op) = Apply(tree, op) /\ LinesOf(board) = {}
    BY <1>3 DEF Rebased, LinesOf
  <2> QED BY <1>2, <2>1 DEF GoodPlan
<1>4. CASE board = last
  <2>1. Rebased(p, op) = Apply(tree, op) /\ LinesOf(board) = last /\ Lacks(p, "rebase") = gone
    BY <1>1, <1>4, ContentLines DEF Rebased, Lacks
  <2> HIDE DEF tree, last, gone
  <2>2. last \ ((tree \ op.del) \cup op.add) \subseteq op.del \cup gone
    BY <1>1
  <2> QED BY <1>2, <2>1, <2>2 DEF GoodPlan
<1>5. CASE board \notin {Missing, last}
  <2>1. Rebased(p, op) = Apply(board, op)
    BY <1>5 DEF Rebased
  <2> QED BY <1>2, <2>1 DEF GoodPlan
<1> QED
  BY <1>3, <1>4, <1>5

\* A merge takes from the board only what mine took from the base, and brings all
\* that mine added to it, whether the merge is clean or keeps both sides.
LEMMA MergePlan ==
  ASSUME IInv, NEW p \in Viewer, NEW op \in Ops, Fits(op, view[p].tree),
         NEW out \in Merged(Apply(view[p].tree, op), view[p].tree)
  PROVE  GoodPlan(p, "merge", op, out)
<1> DEFINE base == view[p].tree
           mine == Apply(base, op)
<1>1. mine \in Content /\ base \in Content /\ board \in Disk
  BY ApplyType, ViewType
<1>2. mine = (base \ op.del) \cup op.add /\ op.add \cap base = {}
  BY <1>1, ContentLines DEF Apply, Fits
<1> HIDE DEF mine, base
<1>3. CASE board \in {Missing, {}, base}
  <2>1. out = mine
    BY <1>3 DEF Merged, mine, base
  <2>2. LinesOf(board) \subseteq base
    BY <1>1, <1>3, ContentLines DEF LinesOf
  <2> QED
    BY <1>1, <1>2, <2>1, <2>2, ContentLines DEF GoodPlan
<1>4. CASE board \notin {Missing, {}, base}
  <2>1. board \in Content /\ LinesOf(board) = board
    BY <1>1, <1>4, ContentLines DEF Disk
  <2>2. out \subseteq mine \cup board /\ Merge3(mine, base, board) \subseteq out
    BY <1>4 DEF Merged, mine, base
  <2>3. out \in Content
    BY <1>1, <2>1, <2>2 DEF Content
  <2>4. board \ out \subseteq op.del /\ op.add \subseteq out
    BY <1>2, <2>2 DEF Merge3
  <2> QED
    BY <2>1, <2>3, <2>4, ContentLines DEF GoodPlan
<1> QED
  BY <1>3, <1>4

\* Undo and redo replace exactly the board their entry tells of.
LEMMA UndoPlan ==
  ASSUME IInv, NEW p, CanUndo(journal, board)
  PROVE  LET e == Last(journal.undo) IN
         GoodPlan(p, "undo", [add |-> LinesOf(e.before) \ LinesOf(e.after),
                              del |-> LinesOf(e.after) \ LinesOf(e.before)], e.before)
  BY DEF CanUndo, GoodPlan

LEMMA RedoPlan ==
  ASSUME IInv, NEW p, CanRedo(journal, board)
  PROVE  LET e == Last(journal.redo) IN
         GoodPlan(p, "redo", [add |-> LinesOf(e.after) \ LinesOf(e.before),
                              del |-> LinesOf(e.before) \ LinesOf(e.after)], e.after)
  BY DEF CanRedo, GoodPlan

-----------------------------------------------------------------------------
(* Every step keeps it.                                                    *)

\* What a plan still owes after its first write.
LEMMA PendsTail ==
  ASSUME NEW t \in Plans, t # <<>>
  PROVE  /\ Head(t) \in {"board", "journal"}
         /\ Head(t) = "board" => Pends(t) /\ ~Pends(Tail(t))
         /\ Head(t) = "journal" => (Pends(Tail(t)) <=> Pends(t))
<1>1. CASE t = <<"board">>
  BY <1>1 DEF Pends
<1>2. CASE t = <<"journal">>
  BY <1>2 DEF Pends
<1>3. CASE t = <<"journal", "board">>
  BY <1>3 DEF Pends
<1>4. CASE t = <<"board", "journal">>
  BY <1>4 DEF Pends
<1> QED
  BY <1>1, <1>2, <1>3, <1>4 DEF Plans

LEMMA BeginKeeps ==
  ASSUME IInv, NEW p, NEW kind, NEW op, NEW out, NEW jout,
         NEW order \in {<<"board">>, <<"journal", "board">>, <<"board", "journal">>},
         Begin(p, kind, op, out, jout, order), GoodPlan(p, kind, op, out)
  PROVE  Keeps'
<1>1. /\ board' = board /\ view' = view /\ lock' = p
      /\ job'.kind = kind /\ job'.op = op /\ job'.out = out
      /\ job'.todo = IF jout = journal THEN <<"board">> ELSE order
      /\ job'.board0 = board
  BY DEF Begin, files
<1>2. Pends(job'.todo)
  BY <1>1 DEF Pends
<1>3. Pends(job.todo)'
  BY <1>2 DEF Pends
<1>4. Unseen' = Lacks(p, kind)
  BY <1>1 DEF Unseen, Lacks
<1> QED
  BY <1>1, <1>3, <1>4 DEF Keeps, GoodPlan, LinesOf

LEMMA WritesKeep ==
  ASSUME IInv, Keeps, WriteBoard \/ WriteJournal \/ FailWrite
  PROVE  Keeps'
<1>1. lock # NoProc /\ lock' = lock /\ job.todo \in Plans /\ job.todo # <<>>
      /\ job \in Jobs /\ view' = view
  BY DEF IInv, TypeOK, Jobs, WriteBoard, WriteJournal, FailWrite, Owes
<1>2. ~Pends(<<>>)
  BY DEF Pends
<1>3. CASE WriteBoard
  <2>1. /\ Head(job.todo) = "board" /\ board' = job.out
        /\ job'.todo = Tail(job.todo) /\ job'.op = job.op /\ job'.kind = job.kind
    BY <1>1, <1>3 DEF WriteBoard, Owes, Jobs
  <2>2. Pends(job.todo) /\ ~Pends(job'.todo)
    BY <1>1, <2>1, PendsTail
  <2>3. ~Pends(job.todo)'
    BY <2>2 DEF Pends
  <2>4. job.op.add \subseteq LinesOf(job.out)
    BY <1>1, <2>2 DEF Keeps
  <2> QED
    BY <1>1, <2>1, <2>3, <2>4 DEF Keeps, LinesOf
<1>4. CASE WriteJournal
  <2>1. /\ Head(job.todo) = "journal" /\ board' = board /\ job'.todo = Tail(job.todo)
        /\ job'.op = job.op /\ job'.kind = job.kind /\ job'.out = job.out
        /\ job'.ok = job.ok /\ job'.board0 = job.board0
    BY <1>1, <1>4 DEF WriteJournal, Owes, Jobs
  <2>2. Pends(job'.todo) <=> Pends(job.todo)
    BY <1>1, <2>1, PendsTail
  <2>3. Pends(job.todo)' <=> Pends(job.todo)
    BY <2>2 DEF Pends
  <2>4. Unseen' = Unseen
    BY <1>1, <2>1 DEF Unseen
  <2> QED
    BY <1>1, <2>1, <2>3, <2>4 DEF Keeps, LinesOf
<1>5. CASE FailWrite
  <2>1. /\ board' = board /\ job'.todo = FailedTodo /\ job'.ok = Swallowed
        /\ job'.op = job.op /\ job'.kind = job.kind /\ job'.out = job.out
        /\ job'.board0 = job.board0
    BY <1>1, <1>5 DEF FailWrite, Jobs, files
  <2>2. Pends(job'.todo) => Pends(job.todo)
    BY <1>1, <1>2, <2>1, PendsTail DEF FailedTodo
  <2>3. Pends(job.todo)' => Pends(job.todo)
    BY <2>2 DEF Pends
  <2>4. ~Pends(job.todo)' /\ job'.ok => ~Pends(job.todo) /\ job.ok
    <3>1. job'.ok => Head(job.todo) = "journal" /\ job.ok
      BY <2>1 DEF Swallowed
    <3>2. Head(job.todo) = "journal" => job'.todo = Tail(job.todo)
      BY <2>1 DEF FailedTodo
    <3>3. Head(job.todo) = "journal" => (Pends(job.todo)' <=> Pends(job.todo))
      BY <1>1, <3>2, PendsTail DEF Pends
    <3> QED BY <3>1, <3>3
  <2>5. Unseen' = Unseen
    BY <1>1, <2>1 DEF Unseen
  <2> QED
    BY <1>1, <2>1, <2>3, <2>4, <2>5 DEF Keeps, LinesOf
<1> QED
  BY <1>3, <1>4, <1>5

LEMMA NextKeeps ==
  ASSUME IInv, Keeps, [Next]_vars
  PROVE  Keeps'
<1>1. ASSUME UNCHANGED <<board, lock, job>>,
             lock \in Viewer => view'[lock] = view[lock]
      PROVE  Keeps'
  <2>1. Pends(job.todo)' <=> Pends(job.todo)
    BY <1>1 DEF Pends
  <2>2. lock # NoProc => Unseen' = Unseen
    BY <1>1 DEF Unseen, Keeps
  <2> QED
    BY <1>1, <2>1, <2>2 DEF Keeps, LinesOf
<1>2. ASSUME lock' = NoProc PROVE Keeps'
  BY <1>2 DEF Keeps
<1>3. ASSUME NEW p \in Viewer,
             Load(p) \/ ReadLast(p) \/ Reload(p) \/ OpenEditor(p) \/ Forget(p)
      PROVE  Keeps'
  <2>1. PICK v : See(p, v)
    BY <1>3 DEF Load, ReadLast, Reload, OpenEditor, Forget
  <2>2. view \in [Viewer -> Views]
    BY DEF IInv, TypeOK
  <2>3. lock \in Viewer => view'[lock] = view[lock]
    BY <2>1, <2>2 DEF See
  <2> QED BY <1>1, <2>1, <2>3 DEF See, files
<1>4. ASSUME NEW p \in Viewer, NEW op \in Ops, Save(p, op) PROVE Keeps'
  BY <1>4, SavePlan, BeginKeeps DEF Save, BeginSave
<1>5. ASSUME NEW p \in Viewer, NEW op \in Ops, Rebase(p, op) PROVE Keeps'
  BY <1>5, RebasePlan, BeginKeeps DEF Rebase, BeginSave
<1>6. ASSUME NEW p \in Viewer, NEW op \in Ops, Merge(p, op) PROVE Keeps'
  <2>1. PICK out \in Merged(Apply(view[p].tree, op), view[p].tree) :
               Begin(p, "merge", op, out, journal, <<"board">>)
    BY <1>6 DEF Merge
  <2>2. GoodPlan(p, "merge", op, out)
    BY <1>6, MergePlan DEF Merge
  <2> QED
    BY <2>1, <2>2, BeginKeeps
<1>7. ASSUME NEW p \in Proc, Undo(p) PROVE Keeps'
  BY <1>7, UndoPlan, BeginKeeps DEF Undo
<1>8. ASSUME NEW p \in Proc, Redo(p) PROVE Keeps'
  BY <1>8, RedoPlan, BeginKeeps DEF Redo
<1>9. ASSUME NEW p \in Proc, NEW op \in Ops, Edit(p, op) PROVE Keeps'
  BY <1>9, EditPlan, BeginKeeps DEF Edit
<1>10. CASE WriteBoard \/ WriteJournal \/ FailWrite
  BY <1>10, WritesKeep
<1>11. CASE Unlock \/ Crash
  BY <1>2, <1>11 DEF Unlock, Crash, Release
<1>12. CASE LoseJournal \/ UNCHANGED vars
  BY <1>1, <1>12 DEF LoseJournal, vars, files
<1> QED
  BY <1>3, <1>4, <1>5, <1>6, <1>7, <1>8, <1>9, <1>10, <1>11, <1>12 DEF Next

THEOREM UpdatesKeep == Spec => []Keeps
<1>1. Init => Keeps
  BY DEF Init, Keeps
<1>2. IInv /\ Keeps /\ [Next]_vars => Keeps'
  BY NextKeeps
<1> QED
  BY <1>1, <1>2, Invariance, PTL DEF Spec

\* Only the write of the board in the critical section changes the board.
LEMMA BoardChanges ==
  ASSUME Next, board' # board
  PROVE  WriteBoard
BY DEF Next, Load, ReadLast, Reload, OpenEditor, Forget, See, Save, BeginSave, Rebase,
       Merge, Undo, Redo, Edit, Begin, WriteJournal, FailWrite, Unlock, Crash, Release, LoseJournal, files

\* No lost update: whatever other processes wrote since a process last looked, its
\* edit, rebasing save, merge, undo or redo takes away no line it did not mean to,
\* but for those the tree of a TUI had lost: that came between openBoard's two reads, or
\* went in a save that failed.
THEOREM NoLostUpdate == Spec => LosesOnlyItsOwn
<1>1. IInv /\ Keeps /\ [Next]_vars
      => [board' # board /\ job.kind # "save"
          => LinesOf(board) \ LinesOf(board') \subseteq job.op.del \cup Unseen]_vars
  <2> SUFFICES ASSUME IInv, Keeps, Next, board' # board, job.kind # "save"
               PROVE  LinesOf(board) \ LinesOf(board') \subseteq job.op.del \cup Unseen
    OBVIOUS
  <2>1. /\ lock # NoProc /\ job.todo \in Plans /\ job.todo # <<>>
        /\ Head(job.todo) = "board" /\ board' = job.out
    BY BoardChanges DEF WriteBoard, Owes, IInv, TypeOK, Jobs
  <2>2. Pends(job.todo)
    BY <2>1, PendsTail
  <2> QED
    BY <2>1, <2>2 DEF Keeps, LinesOf
<1> QED
  BY <1>1, UpdatesKeep, Invariance, PTL DEF Spec, LosesOnlyItsOwn

\* An operation that returns success has its lines on the board as it unlocks.
THEOREM SuccessIsOnDisk == Spec => EditLands
<1>1. Keeps /\ [Next]_vars
      => [lock # NoProc /\ lock' = NoProc /\ job.todo = <<>> /\ job.ok
          => job.op.add \subseteq LinesOf(board)]_vars
  BY DEF Keeps, Pends
<1> QED
  BY <1>1, UpdatesKeep, PTL DEF Spec, EditLands

-----------------------------------------------------------------------------
(* One shared timeline.                                                    *)
(*                                                                         *)
(* The argument: the last `back` entries of the undo stack are linked, each *)
(* leads to the board the next one started from and the last to the board  *)
(* on disk, and likewise the last `fwd` of the redo stack.  The operation  *)
(* in progress has read such a journal and plans another; a crash between  *)
(* its writes leaves one of the two, or a pair that counts for nothing.    *)

UndoLinks(s, n, d) ==
  /\ n <= Len(s)
  /\ n > 0 => s[Len(s)].after = d
  /\ \A i \in 1 .. Len(s) - 1 : i > Len(s) - n => s[i].after = s[i + 1].before
RedoLinks(s, n, d) ==
  /\ n <= Len(s)
  /\ n > 0 => s[Len(s)].before = d
  /\ \A i \in 1 .. Len(s) - 1 : i > Len(s) - n => s[i].before = s[i + 1].after

Links(j, d, b, f) == UndoLinks(j.undo, b, d) /\ RedoLinks(j.redo, f, d)

\* An entry that starts where the stack leads to.
LEMMA PushLinks ==
  ASSUME NEW s \in Seq(Entries), NEW e \in Entries, NEW n \in Nat
  PROVE  /\ UndoLinks(s, n, e.before) => UndoLinks(Append(s, e), n + 1, e.after)
         /\ RedoLinks(s, n, e.after) => RedoLinks(Append(s, e), n + 1, e.before)
<1> DEFINE t == Append(s, e)
<1>1. /\ Len(s) \in Nat /\ Len(t) = Len(s) + 1
      /\ \A i \in 1 .. Len(s) + 1 : t[i] = IF i = Len(s) + 1 THEN e ELSE s[i]
  BY PushType
<1> HIDE DEF t
<1>2. /\ t[Len(t)] = e
      /\ Len(s) > 0 => t[Len(s)] = s[Len(s)]
      /\ \A i \in 1 .. Len(s) - 1 : t[i] = s[i] /\ t[i + 1] = s[i + 1]
  BY <1>1
<1>3. \A i \in 1 .. Len(t) - 1 :
        \/ i = Len(s) /\ t[i] = s[Len(s)] /\ t[i + 1] = e
        \/ i \in 1 .. Len(s) - 1 /\ t[i] = s[i] /\ t[i + 1] = s[i + 1]
  BY <1>1, <1>2
<1>4. ASSUME UndoLinks(s, n, e.before) PROVE UndoLinks(t, n + 1, e.after)
  <2>1. n + 1 <= Len(t) /\ t[Len(t)].after = e.after
    BY <1>1, <1>2, <1>4 DEF UndoLinks
  <2>2. ASSUME NEW i \in 1 .. Len(t) - 1, i > Len(t) - (n + 1)
        PROVE  t[i].after = t[i + 1].before
    <3>1. i > Len(s) - n
      BY <1>1, <2>2
    <3>2. CASE i = Len(s) /\ t[i] = s[Len(s)] /\ t[i + 1] = e
      <4>1. n > 0
        BY <3>1, <3>2
      <4> QED BY <1>4, <3>2, <4>1 DEF UndoLinks
    <3>3. CASE i \in 1 .. Len(s) - 1 /\ t[i] = s[i] /\ t[i + 1] = s[i + 1]
      BY <1>4, <3>1, <3>3 DEF UndoLinks
    <3> QED BY <1>3, <2>2, <3>2, <3>3
  <2> QED BY <2>1, <2>2 DEF UndoLinks
<1>5. ASSUME RedoLinks(s, n, e.after) PROVE RedoLinks(t, n + 1, e.before)
  <2>1. n + 1 <= Len(t) /\ t[Len(t)].before = e.before
    BY <1>1, <1>2, <1>5 DEF RedoLinks
  <2>2. ASSUME NEW i \in 1 .. Len(t) - 1, i > Len(t) - (n + 1)
        PROVE  t[i].before = t[i + 1].after
    <3>1. i > Len(s) - n
      BY <1>1, <2>2
    <3>2. CASE i = Len(s) /\ t[i] = s[Len(s)] /\ t[i + 1] = e
      <4>1. n > 0
        BY <3>1, <3>2
      <4> QED BY <1>5, <3>2, <4>1 DEF RedoLinks
    <3>3. CASE i \in 1 .. Len(s) - 1 /\ t[i] = s[i] /\ t[i + 1] = s[i + 1]
      BY <1>5, <3>1, <3>3 DEF RedoLinks
    <3> QED BY <1>3, <2>2, <3>2, <3>3
  <2> QED BY <2>1, <2>2 DEF RedoLinks
<1> QED BY <1>4, <1>5 DEF t

\* What is under the top leads to where the top started.
LEMMA PopLinks ==
  ASSUME NEW s \in Seq(Entries), s # <<>>, NEW n \in Nat, NEW d
  PROVE  /\ UndoLinks(s, n, d) => UndoLinks(Front(s), Pred(n), Last(s).before)
         /\ RedoLinks(s, n, d) => RedoLinks(Front(s), Pred(n), Last(s).after)
<1> DEFINE t == Front(s)
<1>1. /\ Len(s) \in Nat \ {0} /\ Len(t) = Len(s) - 1 /\ Last(s) = s[Len(s)]
      /\ \A i \in 1 .. Len(s) - 1 : t[i] = s[i]
  BY PopType DEF Last
<1> HIDE DEF t
<1>2. \A i \in 1 .. Len(t) - 1 : /\ i \in 1 .. Len(s) - 1
                                 /\ t[i] = s[i] /\ t[i + 1] = s[i + 1]
  BY <1>1
<1>3. Len(t) > 0 => /\ Len(t) \in 1 .. Len(s) - 1 /\ Len(t) + 1 = Len(s)
                    /\ t[Len(t)] = s[Len(t)]
  BY <1>1
<1>4. Pred(n) \in Nat /\ (Pred(n) > 0 => n > 1)
  BY DEF Pred
<1>5. ASSUME UndoLinks(s, n, d) PROVE UndoLinks(t, Pred(n), Last(s).before)
  <2>1. Pred(n) <= Len(t)
    BY <1>1, <1>4, <1>5 DEF UndoLinks, Pred
  <2>2. Pred(n) > 0 => t[Len(t)].after = Last(s).before
    <3>1. CASE Pred(n) > 0
      <4>1. Len(t) > 0 /\ Len(t) > Len(s) - n
        BY <1>1, <1>4, <2>1, <3>1
      <4> QED BY <1>1, <1>3, <1>5, <4>1 DEF UndoLinks
    <3> QED BY <3>1
  <2>3. ASSUME NEW i \in 1 .. Len(t) - 1, i > Len(t) - Pred(n)
        PROVE  t[i].after = t[i + 1].before
    <3>1. i > Len(s) - n
      BY <1>1, <2>3 DEF Pred
    <3> QED BY <1>2, <1>5, <2>3, <3>1 DEF UndoLinks
  <2> QED BY <2>1, <2>2, <2>3 DEF UndoLinks
<1>6. ASSUME RedoLinks(s, n, d) PROVE RedoLinks(t, Pred(n), Last(s).after)
  <2>1. Pred(n) <= Len(t)
    BY <1>1, <1>4, <1>6 DEF RedoLinks, Pred
  <2>2. Pred(n) > 0 => t[Len(t)].before = Last(s).after
    <3>1. CASE Pred(n) > 0
      <4>1. Len(t) > 0 /\ Len(t) > Len(s) - n
        BY <1>1, <1>4, <2>1, <3>1
      <4> QED BY <1>1, <1>3, <1>6, <4>1 DEF RedoLinks
    <3> QED BY <3>1
  <2>3. ASSUME NEW i \in 1 .. Len(t) - 1, i > Len(t) - Pred(n)
        PROVE  t[i].before = t[i + 1].after
    <3>1. i > Len(s) - n
      BY <1>1, <2>3 DEF Pred
    <3> QED BY <1>2, <1>6, <2>3, <3>1 DEF RedoLinks
  <2> QED BY <2>1, <2>2, <2>3 DEF RedoLinks
<1> QED BY <1>5, <1>6 DEF t

\* Trimming takes the oldest entries, those linked last.
LEMMA TrimLinks ==
  ASSUME NEW s \in Seq(Entries), NEW n \in Nat, NEW d, UndoLinks(s, n, d)
  PROVE  UndoLinks(Trim(s), Min2(n, UndoLimit), d)
<1> USE UndoLimitAssumption
<1>1. Len(s) \in Nat
  OBVIOUS
<1>2. CASE Len(s) <= UndoLimit
  <2>1. Trim(s) = s /\ n <= UndoLimit
    BY <1>1, <1>2 DEF Trim, UndoLinks
  <2>2. Min2(n, UndoLimit) = n
    BY <2>1 DEF Min2
  <2> QED BY <2>1, <2>2
<1>3. CASE Len(s) > UndoLimit
  <2> DEFINE t == Trim(s)
             k == Len(s) - UndoLimit
             m == Min2(n, UndoLimit)
  <2>1. k + 1 \in 1 .. Len(s) /\ k \in Nat /\ Len(s) = k + UndoLimit
    BY <1>1, <1>3
  <2>2. Trim(s) = SubSeq(s, k + 1, Len(s))
    BY <1>3 DEF Trim
  <2>3. Len(t) = UndoLimit /\ \A i \in 1 .. UndoLimit : t[i] = s[i + k]
    BY <2>1, <2>2
  <2>4. m \in Nat /\ m <= n /\ m <= UndoLimit
    BY DEF Min2
  <2> HIDE DEF t, k, m
  <2>5. t[Len(t)] = s[Len(s)]
    BY <2>1, <2>3
  <2>6. ASSUME NEW i \in 1 .. Len(t) - 1, i > Len(t) - m PROVE t[i].after = t[i + 1].before
    <3>1. /\ i + k \in 1 .. Len(s) - 1 /\ i + k > Len(s) - n
          /\ t[i] = s[i + k] /\ t[i + 1] = s[(i + k) + 1]
      BY <2>1, <2>3, <2>4, <2>6
    <3> QED BY <3>1 DEF UndoLinks
  <2>7. UndoLinks(t, m, d)
    BY <2>3, <2>4, <2>5, <2>6 DEF UndoLinks
  <2> QED BY <2>7 DEF t, m
<1> QED BY <1>1, <1>2, <1>3

\* Nothing is asked of a timeline of no steps.
LEMMA NoLinks ==
  ASSUME NEW j \in Journals2, NEW d
  PROVE  Links(j, d, 0, 0)
<1>1. j.undo \in Seq(Entries) /\ j.redo \in Seq(Entries)
  BY DEF Journals2
<1>2. Len(j.undo) \in Nat /\ Len(j.redo) \in Nat
  BY <1>1
<1>3. UndoLinks(j.undo, 0, d)
  BY <1>2 DEF UndoLinks
<1>4. RedoLinks(j.redo, 0, d)
  BY <1>2 DEF RedoLinks
<1> QED BY <1>3, <1>4 DEF Links

LEMMA FreshLinks ==
  ASSUME NEW d
  PROVE  Links(EmptyJournal, d, 0, 0)
<1>1. EmptyJournal \in Journals2
  BY DEF EmptyJournal, Journals2
<1> QED BY <1>1, NoLinks

\* The steps that are open when an operation has written all it planned.
Planned(kind, from) ==
  IF kind = "undo" THEN <<Pred(back), fwd + 1>>
  ELSE IF kind = "redo" THEN <<back + 1, Pred(fwd)>>
  ELSE IF kind # "merge" /\ from # Missing THEN <<Min2(back + 1, UndoLimit), 0>>
  ELSE <<0, 0>>

\* A plan that changes nothing, or leaves a linked journal.
LinkPlan(kind, from, was, out, jout) ==
  \/ out = from /\ jout = was
  \/ Links(jout, out, Planned(kind, from)[1], Planned(kind, from)[2])

\* The journal write is still to come.
PendsJournal(t) == \E i \in 1..Len(t) : t[i] = "journal"

Underway ==
  /\ Links(job.journal0, job.board0, back, fwd)
  /\ LinkPlan(job.kind, job.board0, job.journal0, job.out, job.jout)
  /\ IF Pends(job.todo) THEN board = job.board0 ELSE job.whole => board = job.out
  /\ IF PendsJournal(job.todo) THEN journal = job.journal0 ELSE job.whole => journal = job.jout

Linked == IF lock = NoProc THEN Links(journal, board, back, fwd) ELSE Underway

\* What an edit records is linked to what is there.
LEMMA JournaledLinks ==
  ASSUME IInv, Links(journal, board, back, fwd), NEW out \in Content,
         NEW kind \in {"edit", "save", "rebase"}
  PROVE  LinkPlan(kind, board, journal, out, Journaled(out))
<1>1. /\ journal \in Journals2 /\ journal.undo \in Seq(Entries) /\ board \in Disk
      /\ back \in Nat
  BY DEF IInv, TypeOK, Journals2
<1>2. CASE board = Missing
  BY <1>1, <1>2, NoLinks DEF Journaled, LinkPlan, Planned
<1>3. CASE board = out
  BY <1>3 DEF Journaled, LinkPlan, Record
<1>4. CASE board # Missing /\ board # out
  <2> DEFINE e == Entry(board, out)
             u == Append(journal.undo, e)
  <2>1. e \in Entries /\ e.before = board /\ e.after = out
    BY <1>1, <1>4 DEF Entry, Entries, Disk
  <2> HIDE DEF e
  <2>2. u \in Seq(Entries) /\ UndoLinks(u, back + 1, out)
    BY <1>1, <2>1, PushType, PushLinks DEF Links
  <2> HIDE DEF u
  <2>3. UndoLinks(Trim(u), Min2(back + 1, UndoLimit), out)
    BY <1>1, <2>2, TrimLinks
  <2>4. Journaled(out) = [undo |-> Trim(u), redo |-> <<>>]
    BY <1>4 DEF Journaled, Record, u, e
  <2>5. RedoLinks(<<>>, 0, out)
    BY DEF RedoLinks
  <2>6. Planned(kind, board) = <<Min2(back + 1, UndoLimit), 0>>
    BY <1>4 DEF Planned
  <2> QED BY <2>3, <2>4, <2>5, <2>6 DEF LinkPlan, Links
<1> QED BY <1>2, <1>3, <1>4

\* The entry that undo moves to the redo stack starts where undo leads, and the one
\* that redo moves back likewise.
LEMMA UndoneLinks ==
  ASSUME IInv, Links(journal, board, back, fwd), CanUndo(journal, board)
  PROVE  LinkPlan("undo", board, journal, Last(journal.undo).before, Undone(journal))
<1>1. /\ journal.undo \in Seq(Entries) /\ journal.redo \in Seq(Entries)
      /\ back \in Nat /\ fwd \in Nat
  BY DEF IInv, TypeOK, Journals2
<1> DEFINE e == Last(journal.undo)
<1>2. journal.undo # <<>> /\ e.after = board /\ e \in Entries
  BY <1>1, PopType DEF CanUndo
<1>3. UndoLinks(Front(journal.undo), Pred(back), e.before)
  BY <1>1, <1>2, PopLinks DEF Links
<1>4. RedoLinks(Append(journal.redo, e), fwd + 1, e.before)
  BY <1>1, <1>2, PushLinks DEF Links
<1> QED BY <1>3, <1>4 DEF LinkPlan, Planned, Links, Undone

LEMMA RedoneLinks ==
  ASSUME IInv, Links(journal, board, back, fwd), CanRedo(journal, board)
  PROVE  LinkPlan("redo", board, journal, Last(journal.redo).after, Redone(journal))
<1>1. /\ journal.undo \in Seq(Entries) /\ journal.redo \in Seq(Entries)
      /\ back \in Nat /\ fwd \in Nat
  BY DEF IInv, TypeOK, Journals2
<1> DEFINE e == Last(journal.redo)
<1>2. journal.redo # <<>> /\ e.before = board /\ e \in Entries
  BY <1>1, PopType DEF CanRedo
<1>3. RedoLinks(Front(journal.redo), Pred(fwd), e.after)
  BY <1>1, <1>2, PopLinks DEF Links
<1>4. UndoLinks(Append(journal.undo, e), back + 1, e.after)
  BY <1>1, <1>2, PushLinks DEF Links
<1> QED BY <1>3, <1>4 DEF LinkPlan, Planned, Links, Redone

\* An operation takes the lock with such a plan, all of which is to come.
LEMMA BeginLinks ==
  ASSUME IInv, Linked, NEW p \in Proc, NEW kind, NEW op, NEW out, NEW jout, NEW order,
         Begin(p, kind, op, out, jout, order),
         jout = journal \/ order \in {<<"journal", "board">>, <<"board", "journal">>},
         LinkPlan(kind, board, journal, out, jout)
  PROVE  Linked'
<1>1. /\ lock = NoProc /\ lock' # NoProc
      /\ UNCHANGED <<board, journal, back, fwd>>
      /\ job' = [kind |-> kind, op |-> op, out |-> out, jout |-> jout,
                 todo |-> IF jout = journal THEN <<"board">> ELSE order,
                 ok |-> TRUE, whole |-> TRUE, board0 |-> board, journal0 |-> journal]
  BY BoardFileAssumption DEF Begin, files
<1>2. Links(journal, board, back, fwd)
  BY <1>1 DEF Linked
<1>3. /\ job'.kind = kind /\ job'.out = out /\ job'.jout = jout
      /\ job'.board0 = board /\ job'.journal0 = journal
      /\ job'.todo = IF jout = journal THEN <<"board">> ELSE order
  BY <1>1
<1>4. Pends(job.todo)' /\ (jout = journal \/ PendsJournal(job.todo)')
  <2>1. CASE jout = journal
    BY <1>3, <2>1 DEF Pends
  <2>2. CASE jout # journal
    BY <1>3, <2>2 DEF Pends, PendsJournal
  <2> QED BY <2>1, <2>2
<1>5. Links(job.journal0, job.board0, back, fwd)'
  BY <1>1, <1>2, <1>3 DEF Links, UndoLinks, RedoLinks
<1>6. LinkPlan(job.kind, job.board0, job.journal0, job.out, job.jout)'
  BY <1>1, <1>3 DEF LinkPlan, Planned, Links, UndoLinks, RedoLinks
<1> QED BY <1>1, <1>3, <1>4, <1>5, <1>6 DEF Linked, Underway

\* The same of the journal's write as of the board's.
LEMMA PendsJournalTail ==
  ASSUME NEW t \in Plans, t # <<>>
  PROVE  /\ Head(t) = "journal" => PendsJournal(t) /\ ~PendsJournal(Tail(t))
         /\ Head(t) = "board" => (PendsJournal(Tail(t)) <=> PendsJournal(t))
<1>1. CASE t = <<"board">>
  BY <1>1 DEF PendsJournal
<1>2. CASE t = <<"journal">>
  BY <1>2 DEF PendsJournal
<1>3. CASE t = <<"journal", "board">>
  BY <1>3 DEF PendsJournal
<1>4. CASE t = <<"board", "journal">>
  BY <1>4 DEF PendsJournal
<1> QED
  BY <1>1, <1>2, <1>3, <1>4 DEF Plans

\* A write, or one that fails, brings the files nearer to the plan or gives it up.
LEMMA WritesLink ==
  ASSUME IInv, Linked, WriteBoard \/ WriteJournal \/ FailWrite
  PROVE  Linked'
<1>1. /\ lock # NoProc /\ lock' = lock /\ UNCHANGED <<back, fwd>>
      /\ job.todo \in Plans /\ job.todo # <<>> /\ job \in Jobs
  BY DEF IInv, TypeOK, Jobs, WriteBoard, WriteJournal, FailWrite, Owes
<1>2. /\ job'.kind = job.kind /\ job'.out = job.out /\ job'.jout = job.jout
      /\ job'.board0 = job.board0 /\ job'.journal0 = job.journal0
  BY <1>1 DEF WriteBoard, WriteJournal, FailWrite, Jobs
<1>3. Links(job.journal0, job.board0, back, fwd)'
  BY <1>1, <1>2 DEF Linked, Underway, Links, UndoLinks, RedoLinks
<1>4. LinkPlan(job.kind, job.board0, job.journal0, job.out, job.jout)'
  BY <1>1, <1>2 DEF Linked, Underway, LinkPlan, Planned, Links, UndoLinks, RedoLinks
<1>5. /\ IF Pends(job.todo) THEN board = job.board0 ELSE job.whole => board = job.out
      /\ IF PendsJournal(job.todo) THEN journal = job.journal0 ELSE job.whole => journal = job.jout
  BY <1>1 DEF Linked, Underway
<1>6. /\ Pends(job.todo)' <=> Pends(job'.todo)
      /\ PendsJournal(job.todo)' <=> PendsJournal(job'.todo)
  BY DEF Pends, PendsJournal
<1>7. (IF Pends(job.todo) THEN board = job.board0 ELSE job.whole => board = job.out)'
  <2>1. CASE WriteBoard
    <3>1. /\ Head(job.todo) = "board" /\ board' = job.out /\ job'.todo = Tail(job.todo)
      BY <1>1, <2>1 DEF WriteBoard, Owes, Jobs
    <3> QED BY <1>1, <1>2, <1>6, <3>1, PendsTail
  <2>2. CASE WriteJournal
    <3>1. /\ Head(job.todo) = "journal" /\ board' = board /\ job'.todo = Tail(job.todo)
          /\ job'.whole = job.whole
      BY <1>1, <2>2 DEF WriteJournal, Owes, Jobs
    <3> QED BY <1>1, <1>2, <1>5, <1>6, <3>1, PendsTail
  <2>3. CASE FailWrite
    <3>1. /\ board' = board /\ job'.todo = FailedTodo /\ job'.whole = FALSE
      BY <1>1, <2>3 DEF FailWrite, Jobs, files
    <3>2. ~Pends(<<>>)
      BY DEF Pends
    <3> QED BY <1>1, <1>2, <1>5, <1>6, <3>1, <3>2, PendsTail DEF FailedTodo
  <2> QED BY <2>1, <2>2, <2>3
<1>8. (IF PendsJournal(job.todo) THEN journal = job.journal0 ELSE job.whole => journal = job.jout)'
  <2>1. CASE WriteBoard
    <3>1. /\ Head(job.todo) = "board" /\ journal' = journal /\ job'.todo = Tail(job.todo)
          /\ job'.whole = job.whole
      BY <1>1, <2>1 DEF WriteBoard, Owes, Jobs
    <3> QED BY <1>1, <1>2, <1>5, <1>6, <3>1, PendsJournalTail
  <2>2. CASE WriteJournal
    <3>1. /\ Head(job.todo) = "journal" /\ journal' = job.jout /\ job'.todo = Tail(job.todo)
      BY <1>1, <2>2 DEF WriteJournal, Owes, Jobs
    <3> QED BY <1>1, <1>2, <1>6, <3>1, PendsJournalTail
  <2>3. CASE FailWrite
    <3>1. /\ journal' = journal /\ job'.todo = FailedTodo /\ job'.whole = FALSE
      BY <1>1, <2>3 DEF FailWrite, Jobs, files
    <3>2. ~PendsJournal(<<>>)
      BY DEF PendsJournal
    <3>3. FailedTodo = Tail(job.todo) => Head(job.todo) = "journal" \/ FailedTodo = <<>>
      BY <1>1, PendsTail DEF FailedTodo
    <3> QED BY <1>1, <1>2, <1>5, <1>6, <3>1, <3>2, <3>3, PendsJournalTail DEF FailedTodo
  <2> QED BY <2>1, <2>2, <2>3
<1> QED BY <1>1, <1>3, <1>4, <1>7, <1>8 DEF Linked, Underway

\* The lock is given up after all that was planned, after nothing, or in between.
LEMMA ReleaseLinks ==
  ASSUME IInv, Linked, lock # NoProc, NEW complete \in BOOLEAN, Release(complete),
         complete => job.todo = <<>> /\ job.whole
  PROVE  Linked'
<1>1. /\ lock' = NoProc /\ UNCHANGED <<board, journal>>
      /\ back' = Walkable(complete)[1] /\ fwd' = Walkable(complete)[2]
  BY DEF Release, files
<1>2. Underway
  BY DEF Linked
<1>3. journal \in Journals2
  BY DEF IInv, TypeOK
<1>4. Links(journal, board, Walkable(complete)[1], Walkable(complete)[2])
  <2>1. CASE files = <<job.board0, job.journal0>>
    <3>1. board = job.board0 /\ journal = job.journal0
      BY <2>1 DEF files
    <3> QED BY <1>2, <2>1, <3>1 DEF Underway, Walkable
  <2>2. CASE files # <<job.board0, job.journal0>> /\ complete
    <3>1. board = job.out /\ journal = job.jout
      BY <1>2, <2>2 DEF Underway, Pends, PendsJournal
    <3>2. Links(journal, board, Planned(job.kind, job.board0)[1], Planned(job.kind, job.board0)[2])
      BY <1>2, <2>2, <3>1 DEF Underway, LinkPlan, files
    <3>3. Walkable(complete) = Planned(job.kind, job.board0)
      BY <2>2 DEF Walkable, Planned
    <3> QED BY <3>2, <3>3
  <2>3. CASE files # <<job.board0, job.journal0>> /\ ~complete
    <3>1. Walkable(complete) = <<0, 0>>
      BY <2>3 DEF Walkable
    <3> QED BY <1>3, <3>1, NoLinks
  <2> QED BY <2>1, <2>2, <2>3
<1>5. Links(journal, board, back, fwd)'
  BY <1>1, <1>4 DEF Links, UndoLinks, RedoLinks
<1> QED BY <1>1, <1>5 DEF Linked

LEMMA NextLinks ==
  ASSUME IInv, Linked, [Next]_vars
  PROVE  Linked'
<1>1. ASSUME UNCHANGED <<board, journal, lock, job, back, fwd>> PROVE Linked'
  BY <1>1 DEF Linked, Underway, Links, UndoLinks, RedoLinks, LinkPlan, Planned, Pends, PendsJournal
<1>2. board \in Disk /\ journal \in Journals2 /\ (lock = NoProc => Links(journal, board, back, fwd))
  BY DEF IInv, TypeOK, Linked
<1>3. ASSUME NEW p \in Viewer, NEW op \in Ops, Save(p, op) \/ Rebase(p, op) PROVE Linked'
  <2>1. p \in Proc
    BY BoardFileAssumption
  <2>2. PICK kind \in {"save", "rebase"}, out \in Content : BeginSave(p, kind, op, out)
    <3>1. Apply(view[p].tree, op) \in Content /\ Apply(board, op) \in Content
      BY <1>2, <2>1, ViewType, ApplyType
    <3> QED BY <1>3, <3>1 DEF Save, Rebase, Rebased
  <2>3. Begin(p, kind, op, out, Journaled(out), <<"board", "journal">>)
    BY <2>2 DEF BeginSave
  <2>4. LinkPlan(kind, board, journal, out, Journaled(out))
    BY <1>2, <2>3, JournaledLinks DEF Begin
  <2> QED BY <2>1, <2>3, <2>4, BeginLinks
<1>4. ASSUME NEW p \in Viewer, NEW op \in Ops, Merge(p, op) PROVE Linked'
  <2>1. PICK out : Begin(p, "merge", op, out, journal, <<"board">>)
    BY <1>4 DEF Merge
  <2>2. LinkPlan("merge", board, journal, out, journal)
    BY <1>2, NoLinks DEF LinkPlan, Planned
  <2> QED BY <1>4, <2>1, <2>2, BeginLinks, BoardFileAssumption
<1>5. ASSUME NEW p \in Proc, Undo(p) PROVE Linked'
  <2>1. PICK op : Begin(p, "undo", op, Last(journal.undo).before, Undone(journal),
                        <<"board", "journal">>)
    BY <1>5 DEF Undo
  <2>2. LinkPlan("undo", board, journal, Last(journal.undo).before, Undone(journal))
    BY <1>2, <1>5, <2>1, UndoneLinks DEF Undo, Begin
  <2> QED BY <1>5, <2>1, <2>2, BeginLinks
<1>6. ASSUME NEW p \in Proc, Redo(p) PROVE Linked'
  <2>1. PICK op : Begin(p, "redo", op, Last(journal.redo).after, Redone(journal),
                        <<"board", "journal">>)
    BY <1>6 DEF Redo
  <2>2. LinkPlan("redo", board, journal, Last(journal.redo).after, Redone(journal))
    BY <1>2, <1>6, <2>1, RedoneLinks DEF Redo, Begin
  <2> QED BY <1>6, <2>1, <2>2, BeginLinks
<1>7. ASSUME NEW p \in Proc, NEW op \in Ops, Edit(p, op) PROVE Linked'
  <2> DEFINE out == Apply(board, op)
  <2>1. out \in Content
    BY <1>2, ApplyType
  <2>2. Begin(p, "edit", op, out, Journaled(out), <<"journal", "board">>)
    BY <1>7 DEF Edit
  <2> HIDE DEF out
  <2>3. LinkPlan("edit", board, journal, out, Journaled(out))
    BY <1>2, <2>1, <2>2, JournaledLinks DEF Begin
  <2> QED BY <1>7, <2>2, <2>3, BeginLinks
<1>8. CASE Unlock \/ Crash
  <2>1. lock # NoProc /\ \E complete \in BOOLEAN :
          Release(complete) /\ (complete => job.todo = <<>> /\ job.whole)
    <3>1. job.whole \in BOOLEAN
      BY DEF IInv, TypeOK, Jobs
    <3> QED BY <1>8, <3>1 DEF Unlock, Crash
  <2> QED BY <2>1, ReleaseLinks
<1>9. CASE LoseJournal
  <2>1. /\ lock' = NoProc /\ journal' = EmptyJournal /\ back' = 0 /\ fwd' = 0
    BY <1>9 DEF LoseJournal
  <2>2. Links(EmptyJournal, board', 0, 0)
    BY FreshLinks
  <2>3. Links(journal, board, back, fwd)'
    BY <2>1, <2>2 DEF Links, UndoLinks, RedoLinks
  <2> QED BY <2>1, <2>3 DEF Linked
<1>10. CASE \/ \E p \in Viewer : Load(p) \/ ReadLast(p) \/ Reload(p) \/ OpenEditor(p) \/ Forget(p)
            \/ UNCHANGED vars
  BY <1>1, <1>10 DEF Load, ReadLast, Reload, OpenEditor, Forget, See, vars, files
<1> QED
  BY <1>3, <1>4, <1>5, <1>6, <1>7, <1>8, <1>9, <1>10, WritesLink DEF Next

\* One shared timeline: whoever made them, the last `back` edits can be undone and the
\* last `fwd` undone ones redone, with crashes, failed writes and lost journals.
THEOREM TimelineIsShared == Spec => []Reversible
<1>1. Init => Linked
  <2>1. Init => Links(EmptyJournal, board, 0, 0)
    BY FreshLinks
  <2> QED BY <2>1 DEF Init, Linked
<1>2. IInv /\ Linked /\ [Next]_vars => Linked'
  BY NextLinks
<1>3. IInv /\ Linked => Reversible
  <2> SUFFICES ASSUME IInv, Linked, lock = NoProc
               PROVE  /\ back > 0 => CanUndo(journal, board)
                      /\ fwd > 0 => CanRedo(journal, board)
    BY DEF Reversible
  <2>1. /\ UndoLinks(journal.undo, back, board) /\ RedoLinks(journal.redo, fwd, board)
        /\ back \in Nat /\ fwd \in Nat
        /\ journal.undo \in Seq(Entries) /\ journal.redo \in Seq(Entries)
    BY DEF Linked, Links, IInv, TypeOK, Journals2
  <2>2. back > 0 => CanUndo(journal, board)
    BY <2>1 DEF UndoLinks, CanUndo, Last
  <2>3. fwd > 0 => CanRedo(journal, board)
    BY <2>1 DEF RedoLinks, CanRedo, Last
  <2> QED BY <2>2, <2>3
<1> QED BY <1>1, <1>2, <1>3, Invariance, PTL DEF Spec

-----------------------------------------------------------------------------
(* The implementation of the history.                                      *)
(*                                                                         *)
(* The argument: the history sees the two files as they were when the lock *)
(* was taken, so it moves when the lock is given up.  Without faults all   *)
(* that was planned is on disk then, and what is planned is a change, one  *)
(* step back or one forth of what was read.                                *)

Befores(s) == [i \in DOMAIN s |-> s[i].before]
Afters(s) == [i \in DOMAIN s |-> s[i].after]

\* What the history sees of a stack.
LEMMA SeenType ==
  ASSUME NEW s \in Seq(Entries)
  PROVE  /\ Befores(s) \in Seq(Content) /\ Len(Befores(s)) = Len(s)
         /\ Afters(s) \in Seq(Content) /\ Len(Afters(s)) = Len(s)
         /\ \A i \in 1 .. Len(s) : Befores(s)[i] = s[i].before /\ Afters(s)[i] = s[i].after
<1>1. /\ DOMAIN s = 1 .. Len(s) /\ Len(s) \in Nat
      /\ \A i \in 1 .. Len(s) : s[i].before \in Content /\ s[i].after \in Content
  BY DEF Entries
<1> QED BY <1>1 DEF Befores, Afters

LEMMA SeenPush ==
  ASSUME NEW s \in Seq(Entries), NEW e \in Entries
  PROVE  /\ Befores(Append(s, e)) = Append(Befores(s), e.before)
         /\ Afters(Append(s, e)) = Append(Afters(s), e.after)
<1> DEFINE t == Append(s, e)
<1>1. /\ t \in Seq(Entries) /\ Len(t) = Len(s) + 1 /\ Len(s) \in Nat
      /\ \A i \in 1 .. Len(s) + 1 : t[i] = IF i = Len(s) + 1 THEN e ELSE s[i]
  BY PushType
<1> HIDE DEF t
<1>2. e.before \in Content /\ e.after \in Content
  BY DEF Entries
<1>3. Befores(t) = Append(Befores(s), e.before)
  <2> DEFINE u == Append(Befores(s), e.before)
  <2>1. /\ u \in Seq(Content) /\ Len(u) = Len(s) + 1
        /\ \A i \in 1 .. Len(s) + 1 : u[i] = IF i = Len(s) + 1 THEN e.before ELSE Befores(s)[i]
    BY <1>2, SeenType, PushType
  <2> HIDE DEF u
  <2>2. ASSUME NEW i \in 1 .. Len(s) + 1 PROVE Befores(t)[i] = u[i]
    <3>1. Befores(t)[i] = t[i].before
      BY <1>1, SeenType
    <3>2. CASE i = Len(s) + 1
      BY <1>1, <2>1, <3>1, <3>2
    <3>3. CASE i # Len(s) + 1
      <4>1. i \in 1 .. Len(s)
        BY <1>1, <3>3
      <4>2. Befores(s)[i] = s[i].before
        BY <4>1, SeenType
      <4> QED BY <1>1, <2>1, <3>1, <3>3, <4>2
    <3> QED BY <3>2, <3>3
  <2>3. Befores(t) = u
    BY <1>1, <2>1, <2>2, SeenType, SeqEqual
  <2> QED BY <2>3 DEF u
<1>4. Afters(t) = Append(Afters(s), e.after)
  <2> DEFINE u == Append(Afters(s), e.after)
  <2>1. /\ u \in Seq(Content) /\ Len(u) = Len(s) + 1
        /\ \A i \in 1 .. Len(s) + 1 : u[i] = IF i = Len(s) + 1 THEN e.after ELSE Afters(s)[i]
    BY <1>2, SeenType, PushType
  <2> HIDE DEF u
  <2>2. ASSUME NEW i \in 1 .. Len(s) + 1 PROVE Afters(t)[i] = u[i]
    <3>1. Afters(t)[i] = t[i].after
      BY <1>1, SeenType
    <3>2. CASE i = Len(s) + 1
      BY <1>1, <2>1, <3>1, <3>2
    <3>3. CASE i # Len(s) + 1
      <4>1. i \in 1 .. Len(s)
        BY <1>1, <3>3
      <4>2. Afters(s)[i] = s[i].after
        BY <4>1, SeenType
      <4> QED BY <1>1, <2>1, <3>1, <3>3, <4>2
    <3> QED BY <3>2, <3>3
  <2>3. Afters(t) = u
    BY <1>1, <2>1, <2>2, SeenType, SeqEqual
  <2> QED BY <2>3 DEF u
<1> QED BY <1>3, <1>4 DEF t

LEMMA SeenPop ==
  ASSUME NEW s \in Seq(Entries), s # <<>>
  PROVE  /\ Befores(s) # <<>> /\ Afters(s) # <<>>
         /\ Last(Befores(s)) = Last(s).before /\ Last(Afters(s)) = Last(s).after
         /\ Befores(Front(s)) = Front(Befores(s)) /\ Afters(Front(s)) = Front(Afters(s))
<1>1. /\ Front(s) \in Seq(Entries) /\ Len(Front(s)) = Len(s) - 1 /\ Len(s) \in Nat \ {0}
      /\ \A i \in 1 .. Len(s) - 1 : Front(s)[i] = s[i]
  BY PopType
<1>2. Befores(s) # <<>> /\ Afters(s) # <<>>
  BY <1>1, SeenType
<1>3. Last(Befores(s)) = Last(s).before /\ Last(Afters(s)) = Last(s).after
  BY <1>1, SeenType DEF Last
<1>4. Befores(Front(s)) = Front(Befores(s))
  <2>1. /\ Front(Befores(s)) \in Seq(Content) /\ Len(Front(Befores(s))) = Len(s) - 1
        /\ \A i \in 1 .. Len(s) - 1 : Front(Befores(s))[i] = Befores(s)[i]
    BY <1>2, SeenType, PopType
  <2>2. ASSUME NEW i \in 1 .. Len(s) - 1 PROVE Befores(Front(s))[i] = Front(Befores(s))[i]
    <3>1. Befores(Front(s))[i] = Front(s)[i].before
      BY <1>1, SeenType
    <3>2. i \in 1 .. Len(s)
      BY <1>1
    <3>3. Befores(s)[i] = s[i].before
      BY <3>2, SeenType
    <3> QED BY <1>1, <2>1, <3>1, <3>3
  <2> QED BY <1>1, <2>1, <2>2, SeenType, SeqEqual
<1>5. Afters(Front(s)) = Front(Afters(s))
  <2>1. /\ Front(Afters(s)) \in Seq(Content) /\ Len(Front(Afters(s))) = Len(s) - 1
        /\ \A i \in 1 .. Len(s) - 1 : Front(Afters(s))[i] = Afters(s)[i]
    BY <1>2, SeenType, PopType
  <2>2. ASSUME NEW i \in 1 .. Len(s) - 1 PROVE Afters(Front(s))[i] = Front(Afters(s))[i]
    <3>1. Afters(Front(s))[i] = Front(s)[i].after
      BY <1>1, SeenType
    <3>2. i \in 1 .. Len(s)
      BY <1>1
    <3>3. Afters(s)[i] = s[i].after
      BY <3>2, SeenType
    <3> QED BY <1>1, <2>1, <3>1, <3>3
  <2> QED BY <1>1, <2>1, <2>2, SeenType, SeqEqual
<1> QED BY <1>2, <1>3, <1>4, <1>5

\* One entry too many is trimmed by dropping the oldest.
LEMMA SeenTrim ==
  ASSUME NEW s \in Seq(Entries), Len(s) <= UndoLimit + 1
  PROVE  Befores(Trim(s)) = IF Len(s) > UndoLimit THEN Tail(Befores(s)) ELSE Befores(s)
<1> USE UndoLimitAssumption
<1>1. CASE ~(Len(s) > UndoLimit)
  BY <1>1 DEF Trim
<1>2. CASE Len(s) > UndoLimit
  <2>1. Len(s) = UndoLimit + 1 /\ Len(s) \in Nat /\ s # <<>>
    BY <1>2
  <2>2. Trim(s) = SubSeq(s, 2, Len(s))
    BY <1>2, <2>1 DEF Trim
  <2> DEFINE t == Trim(s)
             u == Tail(Befores(s))
  <2>3. /\ t \in Seq(Entries) /\ Len(t) = UndoLimit
        /\ \A i \in 1 .. UndoLimit : t[i] = s[i + 1]
    BY <2>1, <2>2
  <2>4. /\ u \in Seq(Content) /\ Len(u) = UndoLimit
        /\ \A i \in 1 .. UndoLimit : u[i] = Befores(s)[i + 1]
    BY <2>1, SeenType
  <2> HIDE DEF t, u
  <2>5. \A i \in 1 .. UndoLimit : Befores(t)[i] = u[i]
    <3> TAKE i \in 1 .. UndoLimit
    <3>1. i + 1 \in 1 .. Len(s)
      BY <2>1
    <3>2. Befores(s)[i + 1] = s[i + 1].before
      BY <3>1, SeenType
    <3>3. Befores(t)[i] = t[i].before
      BY <2>3, SeenType
    <3> QED BY <2>3, <2>4, <3>2, <3>3
  <2>6. Befores(t) = u
    BY <2>3, <2>4, <2>5, SeenType, SeqEqual
  <2> QED BY <1>2, <2>6 DEF t, u
<1> QED BY <1>1, <1>2

\* The operation in progress plans one change, or one step of what it has read.
StepPlan(kind, from, was, out, jout) ==
  \/ /\ kind \in {"edit", "save", "rebase"}
     /\ jout = IF from = Missing THEN was ELSE Record(was, from, out)
  \/ /\ kind = "undo" /\ CanUndo(was, from)
     /\ out = Last(was.undo).before /\ jout = Undone(was)
  \/ /\ kind = "redo" /\ CanRedo(was, from)
     /\ out = Last(was.redo).after /\ jout = Redone(was)

Stepping ==
  lock # NoProc =>
    /\ job.whole
    /\ Steps(job.journal0) <= UndoLimit
    /\ StepPlan(job.kind, job.board0, job.journal0, job.out, job.jout)

Faultless == ~Faults /\ "merge" \notin Kinds

LEMMA BeginSteps ==
  ASSUME IInv, NEW p, NEW kind, NEW op, NEW out, NEW jout, NEW order,
         Begin(p, kind, op, out, jout, order), StepPlan(kind, board, journal, out, jout)
  PROVE  Stepping' /\ Settled' = Settled
<1>1. /\ lock = NoProc /\ lock' = p /\ UNCHANGED <<board, journal>>
      /\ job'.whole = TRUE /\ job'.board0 = board /\ job'.journal0 = journal
      /\ job'.kind = kind /\ job'.out = out /\ job'.jout = jout
  BY DEF Begin, files
<1>2. Steps(journal) <= UndoLimit
  BY DEF IInv, Bounded
<1>3. Settled' = Settled
  BY <1>1 DEF Settled
<1>4. Stepping'
  BY <1>1, <1>2 DEF Stepping, StepPlan, Steps
<1> QED BY <1>3, <1>4

\* Without faults each step leaves the settled files alone, or settles what was planned.
LEMMA OneStep ==
  ASSUME IInv, Linked, Stepping, Faultless, [Next]_vars
  PROVE  /\ Stepping'
         /\ \/ Settled' = Settled
            \/ lock # NoProc /\ Settled' = [board |-> job.out, journal |-> job.jout]
<1>1. CASE UNCHANGED <<board, journal, lock, job>>
  BY <1>1 DEF Stepping, StepPlan, Steps, Settled
<1>2. ASSUME NEW p \in Viewer, NEW op \in Ops, Save(p, op) \/ Rebase(p, op)
      PROVE  Stepping' /\ Settled' = Settled
  <2>1. PICK kind, out : /\ kind \in {"save", "rebase"}
                         /\ Begin(p, kind, op, out, Journaled(out), <<"board", "journal">>)
    BY <1>2 DEF Save, Rebase, BeginSave
  <2>2. StepPlan(kind, board, journal, out, Journaled(out))
    BY <2>1 DEF StepPlan, Journaled
  <2> QED BY <2>1, <2>2, BeginSteps
<1>3. ASSUME NEW p \in Proc, NEW op \in Ops, Edit(p, op) PROVE Stepping' /\ Settled' = Settled
  <2>1. PICK out : Begin(p, "edit", op, out, Journaled(out), <<"journal", "board">>)
    BY <1>3 DEF Edit
  <2>2. StepPlan("edit", board, journal, out, Journaled(out))
    BY DEF StepPlan, Journaled
  <2> QED BY <2>1, <2>2, BeginSteps
<1>4. ASSUME NEW p \in Proc, Undo(p) PROVE Stepping' /\ Settled' = Settled
  <2>1. PICK op : Begin(p, "undo", op, Last(journal.undo).before, Undone(journal),
                        <<"board", "journal">>)
    BY <1>4 DEF Undo
  <2>2. StepPlan("undo", board, journal, Last(journal.undo).before, Undone(journal))
    BY <1>4 DEF Undo, StepPlan
  <2> QED BY <2>1, <2>2, BeginSteps
<1>5. ASSUME NEW p \in Proc, Redo(p) PROVE Stepping' /\ Settled' = Settled
  <2>1. PICK op : Begin(p, "redo", op, Last(journal.redo).after, Redone(journal),
                        <<"board", "journal">>)
    BY <1>5 DEF Redo
  <2>2. StepPlan("redo", board, journal, Last(journal.redo).after, Redone(journal))
    BY <1>5 DEF Redo, StepPlan
  <2> QED BY <2>1, <2>2, BeginSteps
<1>6. CASE WriteBoard \/ WriteJournal
  <2>1. /\ lock # NoProc /\ lock' = lock /\ job \in Jobs
        /\ job' = [job EXCEPT !.todo = Tail(@)]
    BY <1>6 DEF IInv, TypeOK, WriteBoard, WriteJournal, Owes
  <2>2. /\ job'.kind = job.kind /\ job'.out = job.out /\ job'.jout = job.jout
        /\ job'.board0 = job.board0 /\ job'.journal0 = job.journal0 /\ job'.whole = job.whole
    BY <2>1 DEF Jobs
  <2> QED BY <2>1, <2>2 DEF Stepping, StepPlan, Steps, Settled
<1>7. CASE Unlock
  <2>1. lock # NoProc /\ job.todo = <<>> /\ lock' = NoProc /\ UNCHANGED <<board, journal>>
    BY <1>7 DEF Unlock, Release, files
  <2>2. board = job.out /\ journal = job.jout
    BY <2>1 DEF Stepping, Linked, Underway, Pends, PendsJournal
  <2> QED BY <2>1, <2>2 DEF Stepping, Settled
<1>8. ASSUME NEW p \in Viewer, NEW op \in Ops, Merge(p, op) PROVE FALSE
  BY <1>8 DEF Merge, Begin, Faultless
<1>9. CASE FailWrite \/ Crash \/ LoseJournal
  BY <1>9 DEF FailWrite, Crash, LoseJournal, Faultless
<1>10. ASSUME NEW p \in Viewer,
              Load(p) \/ ReadLast(p) \/ Reload(p) \/ OpenEditor(p) \/ Forget(p)
       PROVE  UNCHANGED <<board, journal, lock, job>>
  BY <1>10 DEF Load, ReadLast, Reload, OpenEditor, Forget, See, files
<1> QED
  BY <1>1, <1>2, <1>3, <1>4, <1>5, <1>6, <1>7, <1>8, <1>9, <1>10 DEF Next, vars

\* What was planned is a step of the history, or nothing.
LEMMA PlanIsStep ==
  ASSUME NEW from \in Disk, NEW was \in Journals2, NEW out \in Content, NEW jout, NEW kind,
         Steps(was) <= UndoLimit, StepPlan(kind, from, was, out, jout)
  PROVE  LET past == Befores(was.undo)
             future == Afters(was.redo) IN
         \/ out = from /\ jout = was
         \/ from = Missing /\ out # Missing /\ jout = was
         \/ /\ from # Missing /\ out # from
            /\ Befores(jout.undo) = IF Len(Append(past, from)) > UndoLimit
                                    THEN Tail(Append(past, from)) ELSE Append(past, from)
            /\ Afters(jout.redo) = <<>>
         \/ /\ past # <<>> /\ out = Last(past)
            /\ Befores(jout.undo) = Front(past)
            /\ Afters(jout.redo) = Append(future, from)
         \/ /\ future # <<>> /\ out = Last(future)
            /\ Befores(jout.undo) = Append(past, from)
            /\ Afters(jout.redo) = Front(future)
<1> DEFINE past == Befores(was.undo)
           future == Afters(was.redo)
<1>1. was.undo \in Seq(Entries) /\ was.redo \in Seq(Entries)
  BY DEF Journals2
<1>2. CASE kind \in {"edit", "save", "rebase"} /\ from = Missing
  BY <1>2, BoardFileAssumption DEF StepPlan, Content
<1>3. CASE kind \in {"edit", "save", "rebase"} /\ from # Missing /\ out = from
  BY <1>3 DEF StepPlan, Record
<1>4. CASE kind \in {"edit", "save", "rebase"} /\ from # Missing /\ out # from
  <2> DEFINE e == Entry(from, out)
             u == Append(was.undo, e)
  <2>1. e \in Entries /\ e.before = from
    BY <1>4 DEF Entry, Entries, Disk
  <2>2. jout = [undo |-> Trim(u), redo |-> <<>>]
    BY <1>4 DEF StepPlan, Record
  <2> HIDE DEF e
  <2>3. u \in Seq(Entries) /\ Len(u) = Len(was.undo) + 1 /\ Len(u) <= UndoLimit + 1
    <3>1. Len(was.undo) \in Nat /\ Len(was.redo) \in Nat
      BY <1>1
    <3>2. u \in Seq(Entries) /\ Len(u) = Len(was.undo) + 1
      BY <1>1, <2>1, PushType
    <3>3. Len(was.undo) <= UndoLimit
      <4>1. Len(was.undo) + Len(was.redo) <= UndoLimit
        BY DEF Steps
      <4>2. \A m, n, k \in Nat : m + n <= k => m <= k
        OBVIOUS
      <4> QED BY <3>1, <4>1, <4>2, UndoLimitAssumption, Zenon
    <3> HIDE DEF u
    <3> QED BY <3>1, <3>2, <3>3, UndoLimitAssumption
  <2>4. Befores(u) = Append(past, from) /\ Len(Append(past, from)) = Len(u)
    <3>1. Befores(u) = Append(past, from)
      BY <1>1, <2>1, SeenPush
    <3> QED BY <2>3, <3>1, SeenType
  <2> HIDE DEF u
  <2>5. Befores(Trim(u)) = IF Len(Append(past, from)) > UndoLimit
                           THEN Tail(Append(past, from)) ELSE Append(past, from)
    BY <2>3, <2>4, SeenTrim
  <2>6. Afters(<<>>) = <<>>
    BY DEF Afters
  <2> QED BY <1>4, <2>2, <2>5, <2>6
<1>5. CASE kind = "undo"
  <2>1. /\ was.undo # <<>> /\ Last(was.undo).after = from
        /\ out = Last(was.undo).before /\ jout = Undone(was)
    BY <1>5 DEF StepPlan, CanUndo
  <2>2. Last(was.undo) \in Entries
    BY <1>1, <2>1, PopType
  <2>3. past # <<>> /\ out = Last(past) /\ Befores(Front(was.undo)) = Front(past)
    BY <1>1, <2>1, SeenPop
  <2>4. Afters(Append(was.redo, Last(was.undo))) = Append(future, from)
    BY <1>1, <2>1, <2>2, SeenPush
  <2> QED BY <2>1, <2>3, <2>4 DEF Undone
<1>6. CASE kind = "redo"
  <2>1. /\ was.redo # <<>> /\ Last(was.redo).before = from
        /\ out = Last(was.redo).after /\ jout = Redone(was)
    BY <1>6 DEF StepPlan, CanRedo
  <2>2. Last(was.redo) \in Entries
    BY <1>1, <2>1, PopType
  <2>3. future # <<>> /\ out = Last(future) /\ Afters(Front(was.redo)) = Front(future)
    BY <1>1, <2>1, SeenPop
  <2>4. Befores(Append(was.undo, Last(was.redo))) = Append(past, from)
    BY <1>1, <2>1, <2>2, SeenPush
  <2> QED BY <2>1, <2>3, <2>4 DEF Redone
<1> QED BY <1>2, <1>3, <1>4, <1>5, <1>6 DEF StepPlan

\* A step of the files is a step of the history, or none.
LEMMA StepOfHistory ==
  ASSUME IInv, Linked, Stepping, Faultless, [Next]_vars
  PROVE  [History!Next]_(History!vars)
<1> DEFINE past == Befores(Settled.journal.undo)
           future == Afters(Settled.journal.redo)
<1>1. CASE Settled' = Settled
  BY <1>1 DEF History!vars
<1>2. CASE lock # NoProc /\ Settled' = [board |-> job.out, journal |-> job.jout]
  <2>1. /\ Settled = [board |-> job.board0, journal |-> job.journal0]
        /\ job.board0 \in Disk /\ job.journal0 \in Journals2 /\ job.out \in Content
        /\ Steps(job.journal0) <= UndoLimit
        /\ StepPlan(job.kind, job.board0, job.journal0, job.out, job.jout)
    BY <1>2 DEF Settled, IInv, TypeOK, Jobs, Stepping
  <2>2. \/ job.out = job.board0 /\ job.jout = job.journal0
        \/ job.board0 = Missing /\ job.out # Missing /\ job.jout = job.journal0
        \/ /\ job.board0 # Missing /\ job.out # job.board0
           /\ Befores(job.jout.undo) = IF Len(Append(past, job.board0)) > UndoLimit
                                       THEN Tail(Append(past, job.board0))
                                       ELSE Append(past, job.board0)
           /\ Afters(job.jout.redo) = <<>>
        \/ /\ past # <<>> /\ job.out = Last(past)
           /\ Befores(job.jout.undo) = Front(past)
           /\ Afters(job.jout.redo) = Append(future, job.board0)
        \/ /\ future # <<>> /\ job.out = Last(future)
           /\ Befores(job.jout.undo) = Append(past, job.board0)
           /\ Afters(job.jout.redo) = Front(future)
    BY <2>1, PlanIsStep, SMTT(30)
  <2>3. /\ Settled.board = job.board0 /\ Settled'.board = job.out
        /\ Settled'.journal = job.jout
    BY <1>2, <2>1
  <2>4. CASE job.out = job.board0 /\ job.jout = job.journal0
    BY <1>1, <1>2, <2>1, <2>4
  <2>5. CASE job.board0 = Missing /\ job.out # Missing /\ job.jout = job.journal0
    <3>1. Settled'.journal = Settled.journal
      BY <2>1, <2>3, <2>5
    <3> QED BY <2>1, <2>3, <2>5, <3>1 DEF History!Next, History!Create
  <2>6. CASE /\ job.board0 # Missing /\ job.out # job.board0
             /\ Befores(job.jout.undo) = IF Len(Append(past, job.board0)) > UndoLimit
                                         THEN Tail(Append(past, job.board0))
                                         ELSE Append(past, job.board0)
             /\ Afters(job.jout.redo) = <<>>
    BY <2>1, <2>3, <2>6 DEF History!Next, History!Change, History!Latest, Befores, Afters
  <2>7. CASE /\ past # <<>> /\ job.out = Last(past)
             /\ Befores(job.jout.undo) = Front(past)
             /\ Afters(job.jout.redo) = Append(future, job.board0)
    BY <2>3, <2>7 DEF History!Next, History!Back, History!Last, History!Front, Last, Front,
                      Befores, Afters
  <2>8. CASE /\ future # <<>> /\ job.out = Last(future)
             /\ Befores(job.jout.undo) = Append(past, job.board0)
             /\ Afters(job.jout.redo) = Front(future)
    BY <2>3, <2>8 DEF History!Next, History!Forth, History!Last, History!Front, Last, Front,
                      Befores, Afters
  <2> QED BY <2>2, <2>4, <2>5, <2>6, <2>7, <2>8
<1> QED BY <1>1, <1>2, OneStep

\* The board, its journal and the lock implement one history with a cursor, as long as
\* nothing fails and every writer journals.
THEOREM HistoryIsImplemented ==
  ASSUME Faultless
  PROVE  Spec => ImplementsHistory
<1>1. Init => Stepping /\ Linked /\ History!Init
  <2>1. Init => Links(EmptyJournal, board, 0, 0)
    BY FreshLinks
  <2>2. Init => Stepping /\ Linked
    BY <2>1 DEF Init, Linked, Stepping
  <2>3. Init => History!Init
    BY DEF Init, History!Init, Settled, EmptyJournal, Content
  <2> QED BY <2>2, <2>3
<1>2. IInv /\ Linked /\ Stepping /\ [Next]_vars => Linked' /\ Stepping'
  BY NextLinks, OneStep
<1>3. IInv /\ Linked /\ Stepping /\ [Next]_vars => [History!Next]_(History!vars)
  BY StepOfHistory
<1> QED BY <1>1, <1>2, <1>3, Invariance, PTL DEF Spec, ImplementsHistory, History!Spec
=============================================================================
