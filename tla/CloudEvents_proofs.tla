--------------------------- MODULE CloudEvents_proofs ---------------------------
(***************************************************************************)
(* What TLAPS proves of the cloud store and of the change streams on it,   *)
(* for any lines, authors and streams, any retention and pruning interval, *)
(* with failed transactions and restarts: the store's history is true and  *)
(* bounded; the streams implement its specification, lose no wake-up, and  *)
(* their suppression drops nothing but the ignored author's writes while   *)
(* the journal still has them.                                             *)
(***************************************************************************)
EXTENDS CloudEvents, SequenceTheorems, TLAPS

-----------------------------------------------------------------------------
(* Remainders: what SMT does not know of a divisor that is a constant.     *)

\* Division with remainder.
LEMMA Division ==
  ASSUME NEW p \in Nat \ {0}, NEW n \in Nat
  PROVE  /\ n % p \in 0 .. p - 1
         /\ n \div p \in Nat
         /\ n = (p * (n \div p)) + (n % p)
<1>1. n % p \in 0 .. p - 1
  OBVIOUS
<1>2. n = (p * (n \div p)) + (n % p)
  OBVIOUS
<1>3. n \div p \in Nat
  OBVIOUS
<1> QED BY <1>1, <1>2, <1>3

\* ... has one result.
LEMMA Remainder ==
  ASSUME NEW p \in Nat \ {0}, NEW q \in Nat, NEW r \in 0 .. p - 1
  PROVE  ((p * q) + r) % p = r
<1> DEFINE n == (p * q) + r
<1>1. n \in Nat
  OBVIOUS
<1>2. /\ n % p \in 0 .. p - 1
      /\ n \div p \in Nat
      /\ (p * (n \div p)) + (n % p) = (p * q) + r
  BY <1>1, Division
<1>3. ASSUME NEW x \in Nat, NEW y \in Nat, x < y
      PROVE  (p * x) + p <= p * y
  <2>1. y - x - 1 \in Nat
    BY <1>3
  <2>2. p * y = ((p * x) + p) + (p * (y - x - 1))
    OBVIOUS
  <2>3. p * (y - x - 1) >= 0
    BY <2>1
  <2> QED BY <2>2, <2>3
<1>4. n \div p = q
  <2> DEFINE x == n \div p
  <2> DEFINE s == n % p
  <2>1. x \in Nat /\ s \in 0 .. p - 1 /\ (p * x) + s = (p * q) + r
    BY <1>2
  <2> HIDE DEF x, s, n
  <2>2. CASE x < q
    <3>1. (p * x) + p <= p * q BY <2>1, <2>2, <1>3
    <3> DEFINE px == p * x
    <3> DEFINE pq == p * q
    <3>2. px \in Nat /\ pq \in Nat BY <2>1
    <3> HIDE DEF px, pq
    <3>3. px + s = pq + r /\ px + p <= pq BY <2>1, <3>1 DEF px, pq
    <3> QED BY <3>2, <3>3, <2>1
  <2>3. CASE q < x
    <3>1. (p * q) + p <= p * x BY <2>1, <2>3, <1>3
    <3> DEFINE px == p * x
    <3> DEFINE pq == p * q
    <3>2. px \in Nat /\ pq \in Nat BY <2>1
    <3> HIDE DEF px, pq
    <3>3. px + s = pq + r /\ pq + p <= px BY <2>1, <3>1 DEF px, pq
    <3> QED BY <3>2, <3>3, <2>1
  <2> QED BY <2>1, <2>2, <2>3 DEF x
<1> QED
  <2>1. (p * q) + (n % p) = (p * q) + r
    BY <1>2, <1>4
  <2>2. p * q \in Nat
    OBVIOUS
  <2> QED BY <2>1, <2>2, <1>2

\* Counting goes up by one or starts again at 0.
LEMMA ModSucc ==
  ASSUME NEW p \in Nat \ {0}, NEW v \in Nat
  PROVE  /\ v % p \in 0 .. p - 1
         /\ (v + 1) % p \in {0, (v % p) + 1}
<1> DEFINE q == v \div p
<1> DEFINE r == v % p
<1>1. q \in Nat /\ r \in 0 .. p - 1 /\ v = (p * q) + r
  BY Division
<1> HIDE DEF q, r
<1>2. CASE r = p - 1
  <2>1. v + 1 = (p * (q + 1)) + 0
    BY <1>1, <1>2
  <2>2. (v + 1) % p = 0
    BY <2>1, <1>1, Remainder
  <2> QED BY <2>2, <1>1 DEF r
<1>3. CASE r + 1 \in 0 .. p - 1
  <2>1. v + 1 = (p * q) + (r + 1)
    BY <1>1
  <2>2. (v + 1) % p = r + 1
    BY <2>1, <1>1, <1>3, Remainder
  <2> QED BY <2>2, <1>1 DEF r
<1> QED BY <1>1, <1>2, <1>3

-----------------------------------------------------------------------------
(* The operators of the journal.                                           *)

\* Pruning keeps the newest rows, at most JournalKeep and no fewer than it must.
LEMMA NewestRows ==
  ASSUME NEW S, NEW s \in Seq(S)
  PROVE  /\ Newest(s) \in Seq(S)
         /\ Len(Newest(s)) <= JournalKeep
         /\ Len(Newest(s)) <= Len(s)
         /\ Len(Newest(s)) \in {Len(s), JournalKeep}
         /\ \A i \in 1 .. Len(Newest(s)) :
              Newest(s)[i] = s[Len(s) - Len(Newest(s)) + i]
<1> USE CloudStoreAssumption
<1>1. CASE Len(s) <= JournalKeep
  <2>1. Newest(s) = s /\ Len(s) \in Nat
    BY <1>1 DEF Newest
  <2>2. \A i \in 1 .. Len(s) : Len(s) - Len(s) + i = i
    BY <2>1
  <2> QED BY <1>1, <2>1, <2>2
<1>2. CASE Len(s) > JournalKeep
  <2> DEFINE m == Len(s) - JournalKeep + 1
  <2>1. m \in 1 .. Len(s) /\ Len(s) \in Nat
    BY <1>2
  <2>2. Newest(s) = SubSeq(s, m, Len(s))
    BY <1>2 DEF Newest
  <2>3. /\ SubSeq(s, m, Len(s)) \in Seq(S)
        /\ Len(SubSeq(s, m, Len(s))) = JournalKeep
        /\ \A i \in 1 .. JournalKeep : SubSeq(s, m, Len(s))[i] = s[m + i - 1]
    BY <2>1
  <2>4. \A i \in 1 .. JournalKeep : m + i - 1 = Len(s) - JournalKeep + i
    BY <2>1
  <2>5. Len(Newest(s)) = JournalKeep /\ JournalKeep < Len(s)
    BY <1>2, <2>2, <2>3
  <2>6. \A i \in 1 .. JournalKeep : Newest(s)[i] = s[Len(s) - JournalKeep + i]
    BY <2>2, <2>3, <2>4
  <2> HIDE DEF m
  <2> QED
    BY <2>1, <2>2, <2>3, <2>5, <2>6
<1> QED
  BY <1>1, <1>2

-----------------------------------------------------------------------------
(* The inductive invariant.                                                *)

\* How many rows there are, counted from the last prune.
Window ==
  /\ Len(db.rows) <= db.version
  /\ Len(db.rows) <= JournalKeep + (db.version % PruneEvery)
  /\ Len(db.rows) >= db.version - 1 \/ Len(db.rows) >= JournalKeep

\* A board that does not exist has nothing, and a write that found none will
\* make version 1.
Fresh ==
  /\ db.version = 0 => db.content = {}
  /\ job.step = "commit" => job.base < MaxVersion
  /\ job.step = "commit" /\ job.base = 0 => job.from = {}

StoreInv == StoreTypeOK /\ VersionsCount /\ JournalExplains /\ Window /\ Fresh

LEMMA StoreInitially == StoreInit => StoreInv
<1> SUFFICES ASSUME StoreInit PROVE StoreInv
  OBVIOUS
<1> USE CloudStoreAssumption DEF StoreInit, NoBoard, NoJob
<1>1. StoreTypeOK
  BY DEF StoreTypeOK, DB, Rows, Jobs, Content
<1>2. Window
  <2>1. 0 % PruneEvery \in 0 .. PruneEvery - 1
    BY Division
  <2> QED BY <2>1 DEF Window
<1>3. VersionsCount /\ JournalExplains /\ Fresh
  BY DEF VersionsCount, JournalExplains, Fresh
<1> QED
  BY <1>1, <1>2, <1>3 DEF StoreInv

\* Steps that leave the database alone keep what is said of it.
LEMMA SameDatabase ==
  ASSUME StoreInv, db' = db, past' = past
  PROVE  JournalExplains' /\ Window'
BY DEF StoreInv, JournalExplains, Tells, Before, Window

\* A board made outside the mutex is version 1, with no row.
LEMMA CreateKeeps ==
  ASSUME StoreInv, NEW c \in Content, CreateBoard(c)
  PROVE  StoreInv'
<1> USE CloudStoreAssumption DEF StoreInv, CreateBoard
<1>1. 1 % PruneEvery \in 0 .. PruneEvery - 1
  BY Division
<1>2. past' \in Seq([content : Content, by : Author \cup {Nobody}])
  OBVIOUS
<1>3. StoreTypeOK'
  BY <1>2 DEF StoreTypeOK, DB, Rows
<1>4. VersionsCount'
  BY DEF VersionsCount, StoreTypeOK, Jobs
<1>5. JournalExplains' /\ Window' /\ Fresh'
  BY <1>1 DEF JournalExplains, Window, Fresh
<1> QED
  BY <1>3, <1>4, <1>5

\* A write that begins holds the mutex on the content and version stored.
LEMMA BeginKeeps ==
  ASSUME StoreInv, NEW a \in Author, NEW to \in Content, BeginWrite(a, to)
  PROVE  StoreInv'
<1> USE CloudStoreAssumption DEF StoreInv, BeginWrite
<1>1. StoreTypeOK'
  BY DEF StoreTypeOK, DB, Jobs
<1>2. VersionsCount' /\ Fresh'
  BY DEF VersionsCount, Fresh, StoreTypeOK, DB
<1> QED
  BY <1>1, <1>2, SameDatabase

\* The transaction: one version more, explained by its row.
LEMMA CommitKeeps ==
  ASSUME StoreInv, Commit
  PROVE  StoreInv'
<1> USE CloudStoreAssumption DEF StoreInv
<1> DEFINE v == job.base + 1
<1> DEFINE row == [version |-> v, author |-> mutex,
                   added |-> job.to \ job.from, removed |-> job.from \ job.to]
<1> DEFINE all == Append(db.rows, row)
<1> DEFINE entry == [content |-> job.to, by |-> mutex]
<1>1. /\ job.step = "commit" /\ mutex \in Author
      /\ job.base = db.version /\ job.from = db.content
      /\ v = db.version + 1 /\ v \in 1 .. MaxVersion
      /\ job.to \in Content /\ job.from \in Content
      /\ Len(past) = db.version /\ db.version \in Nat
  <2>1. /\ job.step = "commit"
        /\ job.base = 0 => db.version = 0
        /\ job \in Jobs /\ db \in DB /\ mutex \in Author
    BY DEF Commit, InsertIsNew, StoreTypeOK
  <2>2. /\ job.base \in 0 .. MaxVersion /\ db.version \in 0 .. MaxVersion
        /\ job.to \in Content /\ job.from \in Content
    BY <2>1 DEF Jobs, DB
  <2>3. job.base < MaxVersion /\ (job.base = 0 => job.from = {})
    BY <2>1 DEF Fresh
  <2>4. job.base = db.version /\ job.from = db.content
    <3>1. CASE job.base = 0
      BY <2>1, <2>3, <3>1 DEF Fresh
    <3>2. CASE job.base > 0
      BY <2>1, <3>2 DEF VersionsCount
    <3> QED BY <2>2, <3>1, <3>2
  <2>5. db.version = Len(past) /\ mutex \in Author
    BY <2>1 DEF VersionsCount, StoreTypeOK
  <2>6. MaxVersion \in Nat
    OBVIOUS
  <2> QED
    BY <2>1, <2>2, <2>3, <2>4, <2>5, <2>6
<1>2. /\ db.rows \in Seq(Rows) /\ Len(db.rows) \in Nat
      /\ past \in Seq([content : Content, by : Author \cup {Nobody}])
      /\ row \in Rows /\ entry \in [content : Content, by : Author \cup {Nobody}]
  BY <1>1 DEF StoreTypeOK, DB, Rows, Content
<1>3. /\ db'.content = job.to /\ db'.version = v
      /\ db'.rows = IF v % PruneEvery = 0 THEN Newest(all) ELSE all
      /\ db' = [content |-> db'.content, version |-> db'.version, rows |-> db'.rows]
      /\ past' = Append(past, entry)
      /\ job' = [job EXCEPT !.step = "notify"]
      /\ mutex' = mutex /\ subs' = subs /\ ch' = ch
  BY DEF Commit, Journaled
<1> HIDE DEF row, v, entry
<1>4. /\ all \in Seq(Rows) /\ Len(all) = Len(db.rows) + 1
      /\ \A i \in 1 .. Len(db.rows) : all[i] = db.rows[i]
      /\ all[Len(db.rows) + 1] = row
  BY <1>2, AppendProperties
<1>5. /\ past' \in Seq([content : Content, by : Author \cup {Nobody}])
      /\ Len(past') = v
      /\ \A i \in 1 .. db.version : past'[i] = past[i]
      /\ past'[v] = entry
  BY <1>1, <1>2, <1>3, AppendProperties
<1> HIDE DEF all
<1>6. /\ db'.rows \in Seq(Rows)
      /\ Len(db'.rows) <= Len(all)
      /\ Len(db'.rows) \in {Len(all), JournalKeep}
      /\ \A i \in 1 .. Len(db'.rows) : db'.rows[i] = all[Len(all) - Len(db'.rows) + i]
      /\ v % PruneEvery = 0 => Len(db'.rows) <= JournalKeep
      /\ v % PruneEvery # 0 => Len(db'.rows) = Len(all)
  <2>1. CASE v % PruneEvery = 0
    BY <1>3, <1>4, <2>1, NewestRows, SMTT(30)
  <2>2. CASE v % PruneEvery # 0
    <3>1. db'.rows = all /\ Len(all) \in Nat
      BY <1>3, <1>4, <2>2
    <3>2. \A i \in 1 .. Len(all) : Len(all) - Len(all) + i = i
      BY <3>1
    <3> QED BY <1>4, <2>2, <3>1, <3>2
  <2> QED BY <2>1, <2>2
<1>7. StoreTypeOK'
  <2>1. db' \in DB
    BY <1>1, <1>3, <1>6 DEF DB
  <2>2. job' \in Jobs /\ job'.step = "notify" /\ job'.targets = job.targets
    BY <1>3 DEF StoreTypeOK, Jobs
  <2> QED
    BY <1>1, <1>3, <1>5, <2>1, <2>2 DEF StoreTypeOK
<1>8. VersionsCount' /\ Fresh'
  BY <1>1, <1>3, <1>5 DEF VersionsCount, Fresh, entry
<1>9. Window'
  <2>1. v % PruneEvery \in {0, (db.version % PruneEvery) + 1}
        /\ db.version % PruneEvery \in 0 .. PruneEvery - 1
    BY <1>1, ModSucc
  <2>2. /\ Len(db'.rows) \in Nat /\ Len(db'.rows) <= Len(db.rows) + 1
        /\ db'.version = db.version + 1
    BY <1>1, <1>3, <1>4, <1>6
  <2>3. /\ Len(db.rows) <= db.version
        /\ Len(db.rows) <= JournalKeep + (db.version % PruneEvery)
        /\ Len(db.rows) >= db.version - 1 \/ Len(db.rows) >= JournalKeep
    BY DEF Window
  <2>4. Len(db'.rows) <= JournalKeep + (v % PruneEvery)
    <3>1. CASE v % PruneEvery = 0
      BY <1>6, <2>2, <3>1
    <3>2. CASE v % PruneEvery # 0
      BY <1>2, <1>4, <1>6, <2>1, <2>3, <3>2
    <3> QED BY <3>1, <3>2
  <2>5. Len(db'.rows) >= db'.version - 1 \/ Len(db'.rows) >= JournalKeep
    <3>1. CASE Len(db'.rows) = JournalKeep
      BY <3>1
    <3>2. CASE Len(db'.rows) = Len(all)
      <4>1. Len(db'.rows) = Len(db.rows) + 1
        BY <1>4, <3>2
      <4> QED BY <1>1, <1>2, <2>2, <2>3, <4>1
    <3> QED BY <1>6, <3>1, <3>2
  <2> QED
    BY <1>1, <1>3, <2>2, <2>3, <2>4, <2>5 DEF Window
<1>10. JournalExplains'
  <2>1. ASSUME NEW i \in 1 .. Len(all)
        PROVE  Tells(past', all[i], v - Len(all) + i)
    <3> DEFINE w == v - Len(all) + i
    <3>1. CASE i = Len(all)
      <4>1. w = v /\ all[i] = row
        BY <1>1, <1>2, <1>4, <3>1
      <4>2. Before(past', v) = job.from
        <5>1. CASE v = 1
          <6>1. db.version = 0
            BY <1>1, <5>1
          <6>2. job.from = {}
            BY <1>1, <6>1 DEF Fresh
          <6> QED BY <5>1, <6>2 DEF Before
        <5>2. CASE v # 1
          <6>1. v - 1 = db.version /\ db.version \in 1 .. db.version
            BY <1>1, <5>2
          <6>2. past'[v - 1].content = db.content
            BY <1>1, <1>5, <6>1 DEF VersionsCount
          <6> QED BY <1>1, <5>2, <6>2 DEF Before
        <5> QED BY <5>1, <5>2
      <4>3. Tells(past', row, v)
        BY <1>1, <1>5, <4>2 DEF Tells, row, entry
      <4> QED BY <4>1, <4>3
    <3>2. CASE i < Len(all)
      <4>1. i \in 1 .. Len(db.rows) /\ all[i] = db.rows[i]
        <5>1. Len(all) = Len(db.rows) + 1 /\ Len(db.rows) \in Nat
          BY <1>2, <1>4
        <5>2. i \in 1 .. Len(db.rows)
          BY <5>1, <3>2
        <5> QED BY <1>4, <5>2
      <4>2. w = db.version - Len(db.rows) + i
        <5>1. /\ Len(all) = Len(db.rows) + 1 /\ Len(db.rows) \in Nat
              /\ v = db.version + 1 /\ db.version \in Nat
          BY <1>1, <1>2, <1>4
        <5> QED BY <5>1
      <4>3. w \in 1 .. db.version
        <5>1. Len(db.rows) \in Nat /\ Len(db.rows) <= db.version /\ db.version \in Nat
          BY <1>1, <1>2 DEF Window
        <5> QED BY <5>1, <4>1, <4>2
      <4>4. Tells(past, db.rows[i], w)
        BY <1>2, <4>1, <4>2 DEF JournalExplains
      <4> HIDE DEF w
      <4>5. past'[w] = past[w] /\ (w # 1 => past'[w - 1] = past[w - 1])
        BY <1>1, <1>5, <4>3
      <4>6. Before(past', w) = Before(past, w)
        BY <4>5 DEF Before
      <4>7. Tells(past', db.rows[i], w)
        BY <4>4, <4>5, <4>6 DEF Tells
      <4> QED BY <4>1, <4>7 DEF w
    <3>3. i = Len(all) \/ i < Len(all)
      BY <1>2, <1>4
    <3> QED BY <3>1, <3>2, <3>3
  <2>2. ASSUME NEW i \in 1 .. Len(db'.rows)
        PROVE  Tells(past', db'.rows[i], db'.version - Len(db'.rows) + i)
    <3> DEFINE k == Len(all) - Len(db'.rows) + i
    <3>0. Len(all) \in Nat /\ Len(db'.rows) \in Nat
      BY <1>2, <1>4, <1>6
    <3>1. k \in 1 .. Len(all) /\ db'.rows[i] = all[k]
      <4>1. Len(db'.rows) <= Len(all)
        BY <1>6
      <4>2. k \in 1 .. Len(all)
        BY <3>0, <4>1
      <4>3. db'.rows[i] = all[k]
        BY <1>6
      <4> QED BY <4>2, <4>3
    <3>2. db'.version - Len(db'.rows) + i = v - Len(all) + k
      BY <1>1, <1>3, <3>0
    <3> HIDE DEF k
    <3>3. Tells(past', all[k], v - Len(all) + k)
      BY <2>1, <3>1
    <3> QED BY <3>1, <3>2, <3>3
  <2> QED
    BY <1>6, <2>2 DEF JournalExplains
<1> QED
  BY <1>7, <1>8, <1>9, <1>10

\* The mutex is given up, or the server dies: the database is what it was.
LEMMA ReleaseKeeps ==
  ASSUME StoreInv, Rollback \/ Finish \/ ServerDies
  PROVE  StoreInv'
<1>1. /\ Unlock /\ db' = db /\ past' = past /\ subs' \subseteq subs
      /\ ch' \in [Stream -> BOOLEAN] /\ \A s \in Stream : ch'[s] => s \in subs'
  BY DEF StoreInv, StoreTypeOK, Rollback, Finish, ServerDies
<1> USE CloudStoreAssumption DEF StoreInv
<1>2. StoreTypeOK'
  BY <1>1 DEF StoreTypeOK, Unlock, NoJob, Jobs, Content, DB
<1>3. VersionsCount' /\ Fresh'
  BY <1>1 DEF VersionsCount, Fresh, Unlock, NoJob
<1> QED
  BY <1>1, <1>2, <1>3, SameDatabase

\* Waking streams, and streams that come, wake up and go, touch no board.
LEMMA StreamsKeep ==
  ASSUME StoreInv,
         \/ Notify
         \/ \E s \in Stream : Send(s) \/ Subscribe(s) \/ Cancel(s) \/ Receive(s)
  PROVE  StoreInv'
<1> USE DEF StoreInv
<1>1. CASE Notify
  <2>1. StoreTypeOK' /\ VersionsCount' /\ Fresh'
    BY <1>1 DEF Notify, Listeners, StoreTypeOK, Jobs, VersionsCount, Fresh
  <2> QED BY <1>1, <2>1, SameDatabase DEF Notify
<1>2. ASSUME NEW s \in Stream, Send(s)
      PROVE  StoreInv'
  <2>1. StoreTypeOK' /\ VersionsCount' /\ Fresh'
    BY <1>2 DEF Send, StoreTypeOK, Jobs, VersionsCount, Fresh
  <2> QED BY <1>2, <2>1, SameDatabase DEF Send
<1>3. ASSUME NEW s \in Stream, Subscribe(s)
      PROVE  StoreInv'
  <2>1. StoreTypeOK' /\ VersionsCount' /\ Fresh'
    BY <1>3 DEF Subscribe, StoreTypeOK, VersionsCount, Fresh
  <2> QED BY <1>3, <2>1, SameDatabase DEF Subscribe
<1>4. ASSUME NEW s \in Stream, Cancel(s)
      PROVE  StoreInv'
  <2>1. StoreTypeOK' /\ VersionsCount' /\ Fresh'
    BY <1>4 DEF Cancel, Unsubscribed, StoreTypeOK, Jobs, VersionsCount, Fresh
  <2> QED BY <1>4, <2>1, SameDatabase DEF Cancel
<1>5. ASSUME NEW s \in Stream, Receive(s)
      PROVE  StoreInv'
  <2>1. StoreTypeOK' /\ VersionsCount' /\ Fresh'
    BY <1>5 DEF Receive, StoreTypeOK, VersionsCount, Fresh
  <2> QED BY <1>5, <2>1, SameDatabase DEF Receive
<1> QED
  BY <1>1, <1>2, <1>3, <1>4, <1>5

LEMMA WriteKeeps ==
  ASSUME StoreInv, Write
  PROVE  StoreInv'
<1>1. ASSUME NEW c \in Content, CreateBoard(c)
      PROVE  StoreInv'
  BY <1>1, CreateKeeps
<1>2. ASSUME NEW a \in Author, NEW op \in Ops, NEW base, ApplyOp(a, op, base)
      PROVE  StoreInv'
  <2>1. (db.content \ op.del) \cup op.add \in Content
    BY DEF Ops, Content, StoreInv, StoreTypeOK, DB
  <2> QED BY <1>2, <2>1, BeginKeeps DEF ApplyOp
<1>3. ASSUME NEW a \in Author, NEW c \in Content, SetContent(a, c)
      PROVE  StoreInv'
  BY <1>3, BeginKeeps DEF SetContent
<1> QED
  BY <1>1, <1>2, <1>3, CommitKeeps, ReleaseKeeps, StreamsKeep DEF Write

LEMMA StoreStep ==
  ASSUME StoreInv, [StoreNext]_storeVars
  PROVE  StoreInv'
<1>1. CASE UNCHANGED storeVars
  <2>1. StoreTypeOK' /\ VersionsCount' /\ Fresh'
    BY <1>1 DEF storeVars, StoreInv, StoreTypeOK, VersionsCount, Fresh
  <2> QED BY <1>1, <2>1, SameDatabase DEF storeVars, StoreInv
<1>2. CASE StoreNext
  <2>1. subs \subseteq Stream
    BY DEF StoreInv, StoreTypeOK
  <2> QED BY <1>2, <2>1, WriteKeeps, ReleaseKeeps, StreamsKeep DEF StoreNext
<1> QED
  BY <1>1, <1>2

\* Every reachable state of the store satisfies the inductive invariant.
THEOREM StoreInvariance == StoreSpec => []StoreInv
BY StoreInitially, StoreStep, PTL DEF StoreSpec

\* The state keeps its shape: in particular only subscribed streams are woken.
THEOREM StoreTypes == StoreSpec => []StoreTypeOK
<1>1. StoreInv => StoreTypeOK
  BY DEF StoreInv
<1> QED
  BY <1>1, StoreInvariance, PTL

\* The history the server shows is what happened, version by version.
THEOREM HistoryIsTrue == StoreSpec => []JournalExplains
<1>1. StoreInv => JournalExplains
  BY DEF StoreInv
<1> QED
  BY <1>1, StoreInvariance, PTL

\* The journal never holds JournalKeep + PruneEvery rows, and never fewer than
\* JournalKeep of those there were.
THEOREM HistoryIsBounded == StoreSpec => []JournalWindow
<1>1. StoreInv => JournalWindow
  <2> SUFFICES ASSUME StoreInv PROVE JournalWindow
    OBVIOUS
  <2>1. db.version \in Nat /\ Len(db.rows) \in Nat
    BY CloudStoreAssumption DEF StoreInv, StoreTypeOK, DB
  <2>2. db.version % PruneEvery \in 0 .. PruneEvery - 1
    BY <2>1, Division, CloudStoreAssumption
  <2> QED BY <2>1, <2>2, CloudStoreAssumption DEF StoreInv, Window, JournalWindow
<1> QED
  BY <1>1, StoreInvariance, PTL

\* Writers are serialized: each write lands on the content it was computed from.
THEOREM WritesAreSerial == StoreSpec => []VersionsCount
<1>1. StoreInv => VersionsCount
  BY DEF StoreInv
<1> QED
  BY <1>1, StoreInvariance, PTL

-----------------------------------------------------------------------------
(* The streams: their inductive invariant.                                 *)

\* A wake-up is in the stream's channel, or on its way there.
Owed(s) == ch[s] \/ job.step = "notify" \/ s \in job.targets

\* A handler that waits on an old version, or is about to, is owed a wake-up.
HandlersOwed ==
  \A s \in Stream :
    /\ conn[s].at = "wait" /\ conn[s].prev < db.version => Owed(s)
    /\ conn[s].at = "judge" /\ conn[s].cur < db.version => Owed(s)

\* Only a write that has been committed and announced wakes streams, and a
\* handler has a board to read.
Quiescent ==
  /\ job.step # "send" => job.targets = {}
  /\ \A s \in Stream :
       /\ conn[s].at # "off" => db.version > 0
       /\ conn[s].at \in {"wait", "woken", "judge"} => conn[s].prev > 0
       /\ conn[s].at = "judge" => conn[s].cur > 0

EventsInv == StoreInv /\ TypeOK /\ Quiescent /\ HandlersOwed

LEMMA EventsInitially == Init => EventsInv
<1> SUFFICES ASSUME Init PROVE EventsInv
  OBVIOUS
<1> USE CloudStoreAssumption, CloudEventsAssumption DEF Init
<1>1. StoreInv
  BY StoreInitially
<1>2. TypeOK
  <2>1. StoreTypeOK
    BY <1>1 DEF StoreInv
  <2>2. db.version = 0 /\ subs = {}
    BY DEF StoreInit, NoBoard
  <2> QED
    BY <2>1, <2>2 DEF TypeOK, NoConn, NoClient, ConnPlaces, ClientPlaces
<1>3. Quiescent /\ HandlersOwed
  BY DEF StoreInit, NoBoard, NoJob, NoConn, Quiescent, HandlersOwed
<1> QED
  BY <1>1, <1>2, <1>3 DEF EventsInv

-----------------------------------------------------------------------------
(* The store underneath.                                                   *)

\* Every step of the streams is a step of the store, or none.
LEMMA StepOfStore ==
  ASSUME EventsInv, [Next]_vars
  PROVE  [StoreNext]_storeVars
<1> USE DEF EventsInv, TypeOK
<1>1. CASE Write /\ UNCHANGED eventVars
  BY <1>1 DEF StoreNext
<1>2. ASSUME NEW s \in Stream, Register(s)
      PROVE  StoreNext
  <2>1. s \notin subs
    BY <1>2 DEF Register
  <2> QED BY <1>2, <2>1 DEF Register, StoreNext
<1>3. ASSUME NEW s \in Stream, Wake(s)
      PROVE  StoreNext
  <2>1. s \in subs
    BY <1>3 DEF Wake, Receive, StoreTypeOK
  <2> QED BY <1>3, <2>1 DEF Wake, StoreNext
<1>4. ASSUME NEW s \in Stream, End(s)
      PROVE  [StoreNext]_storeVars
  <2>1. CASE s \in subs
    BY <1>4, <2>1 DEF End, StoreNext
  <2>2. CASE s \notin subs
    <3>1. ~ch[s] /\ s \notin job.targets /\ subs \ {s} = subs /\ job.targets \ {s} = job.targets
      BY <2>2 DEF StoreTypeOK
    <3>2. /\ ch \in [Stream -> BOOLEAN] /\ job \in Jobs
          /\ ch[s] = FALSE
      BY <3>1 DEF StoreTypeOK
    <3>3. ch' = ch
      BY <1>4, <3>2 DEF End, Cancel
    <3>4. job' = job
      BY <1>4, <3>1, <3>2 DEF End, Cancel, Jobs
    <3>5. UNCHANGED storeVars
      BY <1>4, <3>1, <3>3, <3>4 DEF End, Cancel, Unsubscribed, storeVars
    <3> QED BY <3>5
  <2> QED BY <2>1, <2>2
<1>5. ASSUME NEW s \in Stream,
             \/ Baseline(s) \/ Get(s) \/ Skip(s) \/ Emit(s) \/ Listen(s)
      PROVE  UNCHANGED storeVars
  BY <1>5 DEF Baseline, Get, Skip, Emit, Listen, ReadFirst, Connect, Take, Fetch, Stop
<1>6. CASE Restart
  BY <1>6 DEF Restart, StoreNext
<1>7. CASE UNCHANGED vars
  BY <1>7 DEF vars
<1> QED
  BY <1>1, <1>2, <1>3, <1>4, <1>5, <1>6, <1>7 DEF Next, Serve

\* A version is never taken back.
LEMMA VersionGrows ==
  ASSUME StoreInv, [StoreNext]_storeVars
  PROVE  /\ db.version \in Nat /\ db'.version \in Nat
         /\ db.version <= db'.version
<1>1. StoreInv'
  BY StoreStep
<1>2. db.version \in Nat /\ db'.version \in Nat
  BY <1>1, CloudStoreAssumption DEF StoreInv, StoreTypeOK, DB
<1>3. CASE Commit
  <2>1. job \in Jobs /\ job.step = "commit" /\ (job.base = 0 => db.version = 0)
    BY <1>3 DEF Commit, InsertIsNew, StoreInv, StoreTypeOK
  <2>2. job.base \in Nat
    BY <2>1, CloudStoreAssumption DEF Jobs
  <2>3. job.base = db.version
    <3>1. CASE job.base = 0
      BY <2>1, <3>1
    <3>2. CASE job.base > 0
      BY <2>1, <3>2 DEF StoreInv, VersionsCount
    <3> QED BY <2>2, <3>1, <3>2
  <2>4. db'.version = job.base + 1
    BY <1>3 DEF Commit
  <2> QED BY <1>2, <2>3, <2>4
<1>4. ASSUME NEW c \in Content, CreateBoard(c)
      PROVE  db.version <= db'.version
  BY <1>2, <1>4 DEF CreateBoard
<1>5. ASSUME db' = db
      PROVE  db.version <= db'.version
  BY <1>2, <1>5
<1>6. \/ Commit
      \/ \E c \in Content : CreateBoard(c)
      \/ db' = db
  BY DEF StoreNext, storeVars, Write, ApplyOp, SetContent, BeginWrite, Rollback, Notify,
     Finish, Send, Subscribe, Cancel, Receive, ServerDies
<1> QED
  BY <1>2, <1>3, <1>4, <1>5, <1>6

-----------------------------------------------------------------------------
(* The steps keep the invariant.                                           *)

\* What a step of the streams may rely on.
Grown == StoreInv' /\ db.version \in Nat /\ db'.version \in Nat /\ db.version <= db'.version

LEMMA StepGrows ==
  ASSUME EventsInv, [Next]_vars
  PROVE  Grown
BY StepOfStore, StoreStep, VersionGrows DEF EventsInv, Grown

\* A writer's step: what it commits it owes to every stream, then sends.
LEMMA WriteOwes ==
  ASSUME EventsInv, Grown, Write, UNCHANGED eventVars
  PROVE  EventsInv'
<1> USE DEF EventsInv, Grown
<1>1. TypeOK'
  <2>1. subs' = subs
    BY DEF Write, CreateBoard, ApplyOp, SetContent, BeginWrite, Commit, Rollback, Notify,
       Finish, Send
  <2>2. StoreTypeOK'
    BY DEF StoreInv
  <2>3. 0 .. db.version \subseteq 0 .. db'.version
    OBVIOUS
  <2> QED BY <2>1, <2>2, <2>3 DEF TypeOK, eventVars
<1>2. Quiescent' /\ HandlersOwed'
  <2> USE DEF Quiescent, HandlersOwed, Owed, eventVars
  <2>0. job \in Jobs /\ ch \in [Stream -> BOOLEAN] /\ ((mutex = Nobody) = (job.step = "none"))
    BY DEF StoreInv, StoreTypeOK
  <2>1. ASSUME NEW c \in Content, CreateBoard(c)
        PROVE  Quiescent' /\ HandlersOwed'
    <3>1. \A s \in Stream : conn[s].at = "off"
      BY <2>1 DEF CreateBoard
    <3> QED BY <2>1, <3>1 DEF CreateBoard
  <2>2. ASSUME NEW a \in Author, NEW to, BeginWrite(a, to)
        PROVE  Quiescent' /\ HandlersOwed'
    BY <2>0, <2>2 DEF BeginWrite
  <2>3. CASE Commit
    <3>1. job'.step = "notify" /\ job'.targets = job.targets /\ job.step = "commit"
      BY <2>0, <2>3 DEF Commit, Jobs
    <3>2. db'.version > 0
      BY <2>0, <2>3, CloudStoreAssumption DEF Commit, Jobs
    <3> QED BY <2>3, <3>1, <3>2 DEF Commit
  <2>4. CASE Rollback
    BY <2>4 DEF Rollback, Unlock, NoJob
  <2>5. CASE Notify
    <3>1. job'.step = "send" /\ job'.targets = subs
      BY <2>0, <2>5 DEF Notify, Listeners, Jobs
    <3> QED BY <2>5, <3>1 DEF Notify, TypeOK
  <2>6. CASE Finish
    BY <2>6 DEF Finish, Unlock, NoJob
  <2>7. ASSUME NEW s \in Stream, Send(s)
        PROVE  Quiescent' /\ HandlersOwed'
    <3>1. /\ job'.step = "send" /\ job'.targets = job.targets \ {s} /\ job.step = "send"
          /\ ch'[s] /\ \A t \in Stream \ {s} : ch'[t] = ch[t]
          /\ db' = db
      BY <2>0, <2>7 DEF Send, Jobs
    <3> QED BY <3>1
  <2> QED
    BY <2>1, <2>2, <2>3, <2>4, <2>5, <2>6, <2>7 DEF Write, ApplyOp, SetContent
<1> QED
  BY <1>1, <1>2

\* The fields of a handler's record.
LEMMA Fields ==
  ASSUME NEW n, NEW r \in [at : ConnPlaces, prev : 0 .. n, cur : 0 .. n], NEW v
  PROVE  /\ [[r EXCEPT !.at = "wait"] EXCEPT !.prev = v] = [at |-> "wait", prev |-> v, cur |-> r.cur]
         /\ [[r EXCEPT !.at = "judge"] EXCEPT !.cur = v] = [at |-> "judge", prev |-> r.prev, cur |-> v]
<1>1. /\ [r EXCEPT !.at = "wait"] = [at |-> "wait", prev |-> r.prev, cur |-> r.cur]
      /\ [r EXCEPT !.at = "judge"] = [at |-> "judge", prev |-> r.prev, cur |-> r.cur]
  BY DEF ConnPlaces
<1>2. [[at |-> "wait", prev |-> r.prev, cur |-> r.cur] EXCEPT !.prev = v]
        = [at |-> "wait", prev |-> v, cur |-> r.cur]
  OBVIOUS
<1>3. [[at |-> "judge", prev |-> r.prev, cur |-> r.cur] EXCEPT !.cur = v]
        = [at |-> "judge", prev |-> r.prev, cur |-> v]
  OBVIOUS
<1> QED
  BY <1>1, <1>2, <1>3

\* A handler's step: it compares with what is stored, or goes on to a version for
\* which it is owed a wake-up.
LEMMA ServeOwes ==
  ASSUME EventsInv, Grown, NEW s \in Stream, Serve(s)
  PROVE  EventsInv'
<1> USE DEF EventsInv, Grown
<1>0. /\ conn \in [Stream -> [at : ConnPlaces, prev : 0 .. db.version, cur : 0 .. db.version]]
      /\ client \in [Stream -> [at : ClientPlaces, shown : 0 .. db.version, inbox : 0 .. InboxCap]]
      /\ ch \in [Stream -> BOOLEAN]
      /\ StoreTypeOK'
  BY DEF TypeOK, StoreTypeOK, StoreInv
<1> DEFINE Others == \A t \in Stream \ {s} : conn'[t] = conn[t] /\ ch'[t] = ch[t]
<1>1. CASE Register(s)
  <2>1. /\ conn'[s] = [conn[s] EXCEPT !.at = "subscribed"] /\ conn[s].at = "open" /\ Others
        /\ subs' = subs \cup {s} /\ db' = db /\ job' = job
    BY <1>0, <1>1 DEF Register, Subscribe
  <2>2. conn' \in [Stream -> [at : ConnPlaces, prev : 0 .. db'.version, cur : 0 .. db'.version]]
    BY <1>0, <1>1, <2>1 DEF Register, ConnPlaces
  <2>3. TypeOK'
    BY <1>0, <1>1, <2>1, <2>2 DEF TypeOK, Register
  <2>4. Quiescent' /\ HandlersOwed'
    BY <1>0, <2>1 DEF Quiescent, HandlersOwed, Owed
  <2> QED BY <2>3, <2>4
<1>2. CASE Baseline(s)
  <2> DEFINE new == [at |-> "wait", prev |-> db.version, cur |-> conn[s].cur]
  <2>0. conn' = [conn EXCEPT ![s] = new]
    <3>1. conn' = [conn EXCEPT ![s] = [[conn[s] EXCEPT !.at = "wait"] EXCEPT !.prev = db.version]]
      BY <1>0, <1>2 DEF Baseline
    <3>2. [[conn[s] EXCEPT !.at = "wait"] EXCEPT !.prev = db.version] = new
      <4>1. conn[s] \in [at : ConnPlaces, prev : 0 .. db.version, cur : 0 .. db.version]
        BY <1>0
      <4> QED BY <4>1, Fields, ZenonT(30)
    <3> QED BY <3>1, <3>2
  <2>1. /\ conn'[s] = [at |-> "wait", prev |-> db.version, cur |-> conn[s].cur]
        /\ conn[s].at = "subscribed" /\ Others
        /\ subs' = subs /\ db' = db /\ job' = job
    BY <1>0, <1>2, <2>0 DEF Baseline, storeVars
  <2>2. conn' \in [Stream -> [at : ConnPlaces, prev : 0 .. db'.version, cur : 0 .. db'.version]]
    BY <1>0, <2>0, <2>1 DEF ConnPlaces
  <2>3. TypeOK'
    BY <1>0, <1>2, <2>1, <2>2 DEF TypeOK, Baseline
  <2>4. Quiescent'
    BY <1>0, <2>1 DEF Quiescent
  <2>5. HandlersOwed'
    <3> SUFFICES ASSUME NEW t \in Stream
                 PROVE  /\ conn'[t].at = "wait" /\ conn'[t].prev < db'.version => Owed(t)'
                        /\ conn'[t].at = "judge" /\ conn'[t].cur < db'.version => Owed(t)'
      BY DEF HandlersOwed
    <3>1. CASE t = s
      BY <1>0, <2>1, <3>1 DEF HandlersOwed, Owed
    <3>2. CASE t # s
      <4>1. conn'[t] = conn[t] /\ ch'[t] = ch[t] /\ db' = db /\ job' = job
        BY <2>1, <3>2
      <4> QED BY <4>1 DEF HandlersOwed, Owed
    <3> QED BY <3>1, <3>2
  <2> QED BY <2>3, <2>4, <2>5
<1>3. CASE Wake(s)
  <2>1. /\ conn'[s] = [conn[s] EXCEPT !.at = "woken"] /\ conn[s].at = "wait" /\ Others
        /\ subs' = subs /\ db' = db /\ job' = job
    BY <1>0, <1>3 DEF Wake, Receive
  <2>2. conn' \in [Stream -> [at : ConnPlaces, prev : 0 .. db'.version, cur : 0 .. db'.version]]
    BY <1>0, <1>3, <2>1 DEF Wake, ConnPlaces
  <2>3. TypeOK'
    BY <1>0, <1>3, <2>1, <2>2 DEF TypeOK, Wake
  <2>4. Quiescent'
    BY <1>0, <2>1 DEF Quiescent
  <2>5. HandlersOwed'
    <3> SUFFICES ASSUME NEW t \in Stream
                 PROVE  /\ conn'[t].at = "wait" /\ conn'[t].prev < db'.version => Owed(t)'
                        /\ conn'[t].at = "judge" /\ conn'[t].cur < db'.version => Owed(t)'
      BY DEF HandlersOwed
    <3>1. CASE t = s
      BY <1>0, <2>1, <3>1 DEF HandlersOwed, Owed
    <3>2. CASE t # s
      <4>1. conn'[t] = conn[t] /\ ch'[t] = ch[t] /\ db' = db /\ job' = job
        BY <2>1, <3>2
      <4> QED BY <4>1 DEF HandlersOwed, Owed
    <3> QED BY <3>1, <3>2
  <2> QED BY <2>3, <2>4, <2>5
<1>4. CASE Get(s)
  <2> DEFINE new == [at |-> "judge", prev |-> conn[s].prev, cur |-> db.version]
  <2>0. conn' = [conn EXCEPT ![s] = new]
    <3>1. conn' = [conn EXCEPT ![s] = [[conn[s] EXCEPT !.at = "judge"] EXCEPT !.cur = db.version]]
      BY <1>0, <1>4 DEF Get
    <3>2. [[conn[s] EXCEPT !.at = "judge"] EXCEPT !.cur = db.version] = new
      <4>1. conn[s] \in [at : ConnPlaces, prev : 0 .. db.version, cur : 0 .. db.version]
        BY <1>0
      <4> QED BY <4>1, Fields
    <3> QED BY <3>1, <3>2
  <2>1. /\ conn'[s] = [at |-> "judge", prev |-> conn[s].prev, cur |-> db.version]
        /\ conn[s].at = "woken" /\ Others
        /\ subs' = subs /\ db' = db /\ job' = job
    BY <1>0, <1>4, <2>0 DEF Get, storeVars
  <2>2. conn' \in [Stream -> [at : ConnPlaces, prev : 0 .. db'.version, cur : 0 .. db'.version]]
    BY <1>0, <2>0, <2>1 DEF ConnPlaces
  <2>3. TypeOK'
    BY <1>0, <1>4, <2>1, <2>2 DEF TypeOK, Get
  <2>4. Quiescent'
    BY <1>0, <2>1 DEF Quiescent
  <2>5. HandlersOwed'
    <3> SUFFICES ASSUME NEW t \in Stream
                 PROVE  /\ conn'[t].at = "wait" /\ conn'[t].prev < db'.version => Owed(t)'
                        /\ conn'[t].at = "judge" /\ conn'[t].cur < db'.version => Owed(t)'
      BY DEF HandlersOwed
    <3>1. CASE t = s
      BY <1>0, <2>1, <3>1 DEF HandlersOwed, Owed
    <3>2. CASE t # s
      <4>1. conn'[t] = conn[t] /\ ch'[t] = ch[t] /\ db' = db /\ job' = job
        BY <2>1, <3>2
      <4> QED BY <4>1 DEF HandlersOwed, Owed
    <3> QED BY <3>1, <3>2
  <2> QED BY <2>3, <2>4, <2>5
<1>5. CASE Skip(s) \/ Emit(s)
  <2>0. conn' = [conn EXCEPT ![s] = [at |-> "wait", prev |-> conn[s].cur, cur |-> conn[s].cur]]
    BY <1>0, <1>5 DEF Skip, Emit, Compared
  <2>1. /\ conn'[s] = [at |-> "wait", prev |-> conn[s].cur, cur |-> conn[s].cur]
        /\ conn[s].at = "judge" /\ Others
        /\ subs' = subs /\ db' = db /\ job' = job /\ ch' = ch
    BY <1>0, <1>5, <2>0 DEF Skip, Emit, storeVars
  <2>2. conn' \in [Stream -> [at : ConnPlaces, prev : 0 .. db'.version, cur : 0 .. db'.version]]
    BY <1>0, <2>0, <2>1 DEF ConnPlaces
  <2>3. client' \in [Stream -> [at : ClientPlaces, shown : 0 .. db'.version, inbox : 0 .. InboxCap]]
    <3>1. CASE Skip(s)
      BY <1>0, <2>1, <3>1 DEF Skip
    <3>2. CASE Emit(s)
      <4>1. client[s].inbox \in 0 .. InboxCap /\ InboxCap \in Nat
        BY <1>0, CloudEventsAssumption
      <4>2. Queued(client[s].inbox) \in 0 .. InboxCap
        BY <4>1 DEF Queued
      <4>3. client' = [client EXCEPT ![s].inbox = Queued(client[s].inbox)]
        BY <3>2 DEF Emit
      <4> QED BY <1>0, <2>1, <4>2, <4>3
    <3> QED BY <1>5, <3>1, <3>2
  <2>4. TypeOK'
    BY <1>0, <2>1, <2>2, <2>3 DEF TypeOK
  <2>5. Quiescent'
    BY <1>0, <2>1, SMTT(30) DEF Quiescent
  <2>6. HandlersOwed'
    <3> SUFFICES ASSUME NEW t \in Stream
                 PROVE  /\ conn'[t].at = "wait" /\ conn'[t].prev < db'.version => Owed(t)'
                        /\ conn'[t].at = "judge" /\ conn'[t].cur < db'.version => Owed(t)'
      BY DEF HandlersOwed
    <3>1. CASE t = s
      BY <1>0, <2>1, <3>1 DEF HandlersOwed, Owed
    <3>2. CASE t # s
      <4>1. conn'[t] = conn[t] /\ ch'[t] = ch[t] /\ db' = db /\ job' = job
        BY <2>1, <3>2
      <4> QED BY <4>1 DEF HandlersOwed, Owed
    <3> QED BY <3>1, <3>2
  <2> QED BY <2>4, <2>5, <2>6
<1> QED
  BY <1>1, <1>2, <1>3, <1>4, <1>5 DEF Serve

\* A queue never holds more than InboxCap events.
LEMMA QueueFits ==
  ASSUME NEW n \in 0 .. InboxCap
  PROVE  Queued(n) \in 0 .. InboxCap
<1>1. InboxCap \in Nat
  BY CloudEventsAssumption
<1> QED
  BY <1>1 DEF Queued

\* The fields of a client's record.
LEMMA Shows ==
  ASSUME NEW n, NEW r \in [at : ClientPlaces, shown : 0 .. n, inbox : 0 .. InboxCap], NEW v
  PROVE  [[r EXCEPT !.at = "listen"] EXCEPT !.shown = v]
           = [at |-> "listen", shown |-> v, inbox |-> r.inbox]
<1>1. [r EXCEPT !.at = "listen"] = [at |-> "listen", shown |-> r.shown, inbox |-> r.inbox]
  BY DEF ClientPlaces
<1>2. [[at |-> "listen", shown |-> r.shown, inbox |-> r.inbox] EXCEPT !.shown = v]
        = [at |-> "listen", shown |-> v, inbox |-> r.inbox]
  OBVIOUS
<1> QED
  BY <1>1, <1>2

\* A client's step leaves the server alone, but for the handler of a new stream,
\* which has not subscribed.
LEMMA ListenOwes ==
  ASSUME EventsInv, Grown, NEW s \in Stream, Listen(s)
  PROVE  EventsInv'
<1> USE DEF EventsInv, Grown
<1>0. /\ conn \in [Stream -> [at : ConnPlaces, prev : 0 .. db.version, cur : 0 .. db.version]]
      /\ client \in [Stream -> [at : ClientPlaces, shown : 0 .. db.version, inbox : 0 .. InboxCap]]
      /\ StoreTypeOK' /\ UNCHANGED storeVars
      /\ InboxCap \in Nat \ {0}
  BY CloudEventsAssumption
  DEF TypeOK, StoreInv, Listen, ReadFirst, Connect, Take, Fetch, Stop
<1>1. /\ conn' \in [Stream -> [at : ConnPlaces, prev : 0 .. db'.version, cur : 0 .. db'.version]]
      /\ \A t \in Stream :
           \/ conn'[t] = conn[t]
           \/ /\ conn[t].at = "off" /\ conn'[t].at = "open" /\ db.version > 0
  BY <1>0 DEF storeVars, Listen, ReadFirst, Connect, Take, Fetch, Stop, ConnPlaces
<1>2. client' \in [Stream -> [at : ClientPlaces, shown : 0 .. db'.version, inbox : 0 .. InboxCap]]
  <2>1. CASE ReadFirst(s)
    <3>1. [[NoClient EXCEPT !.at = "read"] EXCEPT !.shown = db.version]
            = [at |-> "read", shown |-> db.version, inbox |-> 0]
      <4>1. [NoClient EXCEPT !.at = "read"] = [at |-> "read", shown |-> 0, inbox |-> 0]
        BY DEF NoClient
      <4>2. [[at |-> "read", shown |-> 0, inbox |-> 0] EXCEPT !.shown = db.version]
              = [at |-> "read", shown |-> db.version, inbox |-> 0]
        OBVIOUS
      <4> QED BY <4>1, <4>2
    <3>2. client' = [client EXCEPT ![s] = [at |-> "read", shown |-> db.version, inbox |-> 0]]
      BY <2>1, <3>1 DEF ReadFirst
    <3> QED BY <1>0, <3>2 DEF ClientPlaces, storeVars
  <2>2. CASE Connect(s)
    <3>1. client[s].inbox \in 0 .. InboxCap
      BY <1>0
    <3>2. CatchUp(s) \in 0 .. InboxCap
      <4>1. Queued(client[s].inbox) \in 0 .. InboxCap
        BY <3>1, QueueFits
      <4> QED BY <3>1, <4>1 DEF CatchUp
    <3> HIDE DEF CatchUp
    <3> QED BY <1>0, <2>2, <3>2 DEF Connect, ClientPlaces, storeVars
  <2>3. CASE Take(s)
    <3>1. client[s].inbox - 1 \in 0 .. InboxCap
      BY <1>0, <2>3 DEF Take
    <3> QED BY <1>0, <2>3, <3>1 DEF Take, ClientPlaces, storeVars
  <2>4. CASE Fetch(s)
    <3>1. client[s] \in [at : ClientPlaces, shown : 0 .. db.version, inbox : 0 .. InboxCap]
      BY <1>0
    <3>2. client' = [client EXCEPT ![s] = [[client[s] EXCEPT !.at = "listen"] EXCEPT !.shown = db.version]]
      BY <1>0, <2>4 DEF Fetch
    <3>3. [[client[s] EXCEPT !.at = "listen"] EXCEPT !.shown = db.version]
            = [at |-> "listen", shown |-> db.version, inbox |-> client[s].inbox]
      BY <3>1, Shows
    <3> QED BY <1>0, <3>1, <3>2, <3>3 DEF ClientPlaces, storeVars
  <2>5. CASE Stop(s)
    BY <1>0, <2>5 DEF Stop, NoClient, ClientPlaces, storeVars
  <2> QED BY <2>1, <2>2, <2>3, <2>4, <2>5 DEF Listen
<1>3. TypeOK'
  BY <1>0, <1>1, <1>2 DEF TypeOK, storeVars
<1>4. Quiescent'
  BY <1>0, <1>1 DEF Quiescent, storeVars
<1>5. HandlersOwed'
  BY <1>0, <1>1 DEF HandlersOwed, Owed, storeVars
<1> QED
  BY <1>3, <1>4, <1>5

\* A stream that ends owes and is owed nothing.
LEMMA EndOwes ==
  ASSUME EventsInv, Grown, NEW s \in Stream, End(s)
  PROVE  EventsInv'
<1> USE DEF EventsInv, Grown
<1>0. /\ conn \in [Stream -> [at : ConnPlaces, prev : 0 .. db.version, cur : 0 .. db.version]]
      /\ ch \in [Stream -> BOOLEAN] /\ job \in Jobs
      /\ StoreTypeOK'
  BY DEF TypeOK, StoreTypeOK, StoreInv
<1>1. /\ conn' = [conn EXCEPT ![s] = NoConn] /\ client' = client
      /\ db' = db /\ subs' = subs \ {s}
      /\ ch' = [ch EXCEPT ![s] = FALSE]
      /\ job'.step = job.step /\ job'.targets = job.targets \ {s}
  BY <1>0 DEF End, Cancel, Unsubscribed, Jobs
<1>2. /\ conn' \in [Stream -> [at : ConnPlaces, prev : 0 .. db'.version, cur : 0 .. db'.version]]
      /\ conn'[s].at = "off"
      /\ \A t \in Stream \ {s} : conn'[t] = conn[t] /\ ch'[t] = ch[t]
  BY <1>0, <1>1 DEF NoConn, ConnPlaces
<1>3. TypeOK'
  BY <1>0, <1>1, <1>2 DEF TypeOK
<1>4. Quiescent'
  BY <1>0, <1>1, <1>2 DEF Quiescent
<1>5. HandlersOwed'
  <2> SUFFICES ASSUME NEW t \in Stream, conn'[t].at # "off"
               PROVE  /\ conn'[t].at = "wait" /\ conn'[t].prev < db'.version => Owed(t)'
                      /\ conn'[t].at = "judge" /\ conn'[t].cur < db'.version => Owed(t)'
    BY DEF HandlersOwed
  <2>1. t # s
    BY <1>2
  <2>2. conn'[t] = conn[t] /\ ch'[t] = ch[t] /\ (t \in job'.targets <=> t \in job.targets)
    BY <1>1, <1>2, <2>1
  <2> QED BY <1>1, <2>2 DEF HandlersOwed, Owed
<1> QED
  BY <1>3, <1>4, <1>5

\* A restart ends every stream.
LEMMA RestartOwes ==
  ASSUME EventsInv, Grown, Restart
  PROVE  EventsInv'
<1> USE DEF EventsInv, Grown
<1>1. TypeOK'
  BY DEF TypeOK, StoreInv, Restart, ServerDies, NoConn, ConnPlaces
<1>2. Quiescent' /\ HandlersOwed'
  BY DEF Quiescent, HandlersOwed, Restart, ServerDies, Unlock, NoJob, NoConn
<1> QED
  BY <1>1, <1>2

LEMMA EventsStep ==
  ASSUME EventsInv, [Next]_vars
  PROVE  EventsInv'
<1>1. Grown
  BY StepGrows
<1>2. CASE UNCHANGED vars
  BY <1>1, <1>2
  DEF vars, storeVars, eventVars, Grown, EventsInv, TypeOK, StoreInv, Quiescent, HandlersOwed, Owed
<1>3. CASE Next
  BY <1>1, <1>3, WriteOwes, ServeOwes, ListenOwes, EndOwes, RestartOwes DEF Next
<1> QED
  BY <1>2, <1>3

-----------------------------------------------------------------------------
(* What follows.                                                           *)

THEOREM EventsInvariance == Spec => []EventsInv
<1>1. EventsInv /\ [Next]_vars => EventsInv'
  BY EventsStep
<1> QED
  BY <1>1, EventsInitially, PTL DEF Spec

\* The server with its streams implements the store's specification, so whatever
\* is proved of the store holds under its streams.
THEOREM StreamsKeepTheStore == Spec => StoreSpec
<1>1. Init => StoreInit
  BY DEF Init
<1>2. EventsInv /\ [Next]_vars => [StoreNext]_storeVars
  BY StepOfStore
<1> QED
  BY <1>1, <1>2, EventsInvariance, PTL DEF Spec, StoreSpec

\* The state keeps its shape: a handler that has subscribed is on the store's
\* list until it ends, and nobody has read a version that is not stored.
THEOREM EventTypes == Spec => []TypeOK
<1>1. EventsInv => TypeOK
  BY DEF EventsInv
<1> QED
  BY <1>1, EventsInvariance, PTL

\* No wake-up is lost: channels of capacity one that a writer never waits on are
\* enough, however writes, streams and restarts interleave.
THEOREM NoLostWakeUp == Spec => []WakeUpOwed
<1>1. EventsInv => WakeUpOwed
  BY DEF EventsInv, HandlersOwed, Owed, WakeUpOwed
<1> QED
  BY <1>1, EventsInvariance, PTL

\* What suppression passes over is the ignored author's as far as the journal
\* still has it, and the journal has every version since the oldest of its rows.
LEMMA SuppressedAreOwn ==
  ASSUME EventsInv, NEW s \in Stream, conn[s].at = "judge", AllOwn(s),
         NEW v \in conn[s].prev + 1 .. conn[s].cur, ~Pruned(v)
  PROVE  past[v].by = IgnoredBy(s)
<1> DEFINE n == Len(db.rows)
<1> DEFINE i == v - db.version + n
<1>1. /\ conn[s].prev \in 1 .. db.version /\ conn[s].cur \in 0 .. db.version
      /\ db.version \in 0 .. MaxVersion /\ n \in Nat
      /\ MaxVersion \in Nat
  BY CloudStoreAssumption DEF EventsInv, TypeOK, Quiescent, StoreTypeOK, DB
<1>2. v > db.version - n
  BY <1>1 DEF Pruned
<1> HIDE DEF n
<1>3. v \in Nat /\ v > conn[s].prev /\ v <= db.version
  BY <1>1
<1>4. i \in 1 .. n /\ db.version - n + i = v
  BY <1>1, <1>2, <1>3
<1> HIDE DEF i
<1>5. i \in DOMAIN db.rows
  BY <1>4 DEF n, EventsInv, StoreInv, StoreTypeOK, DB
<1>6. Tells(past, db.rows[i], db.version - n + i)
  BY <1>5 DEF n, EventsInv, StoreInv, JournalExplains
<1>7. db.rows[i].version = v /\ db.rows[i].author = past[v].by
  BY <1>4, <1>6 DEF Tells
<1>8. db.rows[i].author \in AuthorsSince(conn[s].prev)
  BY <1>3, <1>5, <1>7 DEF AuthorsSince
<1> QED
  BY <1>7, <1>8 DEF AllOwn

\* Suppression passes over no write but the ignored author's, of all those the
\* journal still has when the handler asks, for any retention and pruning interval.
THEOREM SuppressionIsExact == Spec => DropsOnlyOwn
<1>1. ASSUME EventsInv, Next, NEW s \in Stream, PassesOver(s),
             NEW v \in conn[s].prev + 1 .. conn[s].cur, ~Pruned(v)
      PROVE  past[v].by = IgnoredBy(s)
  <2>1. /\ conn \in [Stream -> [at : ConnPlaces, prev : 0 .. db.version, cur : 0 .. db.version]]
        /\ client \in [Stream -> [at : ClientPlaces, shown : 0 .. db.version, inbox : 0 .. InboxCap]]
    BY <1>1 DEF EventsInv, TypeOK
  <2> USE DEF PassesOver
  <2>2. Skip(s) \/ Emit(s)
    <3>1. CASE Write /\ UNCHANGED eventVars
      BY <1>1, <3>1 DEF eventVars
    <3>2. ASSUME NEW t \in Stream, Serve(t) \/ Listen(t) \/ End(t), t # s
          PROVE  conn'[s] = conn[s]
      BY <2>1, <3>2 DEF Serve, Listen, Register, Baseline, Wake, Get, Skip, Emit, Compared,
         ReadFirst, Connect, Take, Fetch, Stop, End
    <3>3. CASE Serve(s) \/ Listen(s) \/ End(s)
      <4>1. conn[s].at = "judge" /\ conn'[s].at = "wait"
        BY <1>1
      <4>2. ~Register(s) /\ ~Baseline(s) /\ ~Wake(s) /\ ~Get(s)
        BY <4>1 DEF Register, Baseline, Wake, Get
      <4>3. ~Listen(s)
        BY <2>1, <4>1 DEF Listen, ReadFirst, Connect, Take, Fetch, Stop
      <4>4. ~End(s)
        BY <2>1, <4>1 DEF End, NoConn
      <4> QED BY <3>3, <4>2, <4>3, <4>4 DEF Serve
    <3>4. CASE Restart
      BY <1>1, <3>4 DEF Restart, NoConn
    <3> QED BY <1>1, <3>1, <3>2, <3>3, <3>4 DEF Next
  <2>3. ~Emit(s)
    <3> SUFFICES ASSUME Emit(s) PROVE FALSE
      OBVIOUS
    <3>1. client[s].inbox \in 0 .. InboxCap /\ InboxCap \in Nat
      BY <2>1, CloudEventsAssumption
    <3>2. client'[s].inbox = Queued(client[s].inbox)
      BY <2>1 DEF Emit
    <3> QED BY <1>1, <3>1, <3>2 DEF Queued
  <2>4. AllOwn(s)
    BY <1>1, <2>2, <2>3 DEF Skip, Unchanged
  <2> QED BY <1>1, <2>4, SuppressedAreOwn
<1>2. EventsInv /\ [Next]_vars =>
        [ \A s \in Stream : PassesOver(s)
            => \A v \in conn[s].prev + 1 .. conn[s].cur :
                 past[v].by = IgnoredBy(s) \/ Pruned(v) ]_vars
  BY <1>1
<1> QED
  BY <1>2, EventsInvariance, PTL DEF Spec, DropsOnlyOwn
=============================================================================
