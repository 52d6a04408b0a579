------------------------------ MODULE CloudStore ------------------------------
(***************************************************************************)
(* One board of the cloud server (internal/cloud/store.go): its row in the *)
(* boards table, its rows in the ops journal, the mutex that serializes    *)
(* its writers, and the wake-up channels of its event streams.             *)
(*                                                                         *)
(* A content is a set of lines and a journal row holds the line difference *)
(* of its write.  A transaction is one step.  Everything else a writer     *)
(* does under the mutex is its own step: creating a board takes no mutex,  *)
(* readers take none, and a stream may come or go in the middle of a       *)
(* notification.                                                           *)
(***************************************************************************)
EXTENDS Integers, SequencesExt

CONSTANTS
  Line,         \* the lines a board may hold
  Author,       \* the subjects that write it
  Stream,       \* the event streams it may have
  JournalKeep,  \* journalKeep, 500 in the code
  PruneEvery,   \* pruneEvery, 64
  MaxVersion,   \* bound of the model on the board's version
  Faults,       \* TRUE: transactions fail, the server restarts
  Nobody        \* the holder of a free mutex

ASSUME CloudStoreAssumption ==
  /\ JournalKeep \in Nat \ {0}
  /\ PruneEvery \in Nat \ {0}
  /\ MaxVersion \in Nat
  /\ Faults \in BOOLEAN
  /\ Nobody \notin Author

VARIABLES
  db,      \* the database: the board's content and version, its journal rows
  mutex,   \* the author of the write that holds the board's mutex
  job,     \* that write
  subs,    \* the streams that are subscribed
  ch,      \* [Stream -> whether its channel, of capacity one, holds a wake-up]
  past     \* history variable: the content and the author of each version, in order

storeVars == <<db, mutex, job, subs, ch, past>>

Content == SUBSET Line

\* The board does not exist while its version is 0.
NoBoard == [content |-> {}, version |-> 0, rows |-> <<>>]
NoJob == [step |-> "none", base |-> 0, from |-> {}, to |-> {}, targets |-> {}]

StoreInit ==
  /\ db = NoBoard
  /\ mutex = Nobody
  /\ job = NoJob
  /\ subs = {}
  /\ ch = [s \in Stream |-> FALSE]
  /\ past = <<>>

-----------------------------------------------------------------------------
(* The journal.                                                            *)

\* pruneSQL: the JournalKeep newest rows.
Newest(rows) ==
  IF Len(rows) > JournalKeep
  THEN SubSeq(rows, Len(rows) - JournalKeep + 1, Len(rows)) ELSE rows

\* journalTx: the write's row, and every PruneEvery-th version the prune.
Journaled(rows, version, author, from, to) ==
  LET all == Append(rows, [version |-> version, author |-> author,
                           added |-> to \ from, removed |-> from \ to])
  IN IF version % PruneEvery = 0 THEN Newest(all) ELSE all

\* AuthorsSince.
AuthorsSince(version) ==
  {db.rows[i].author : i \in {j \in DOMAIN db.rows : db.rows[j].version > version}}

-----------------------------------------------------------------------------
(* Writers.                                                                *)

\* CreateBoard: one INSERT, outside the mutex and the journal, and nobody is
\* told; it fails on a board that exists.
CreateBoard(c) ==
  /\ db.version = 0
  /\ MaxVersion > 0
  /\ db' = [content |-> c, version |-> 1, rows |-> <<>>]
  /\ past' = <<[content |-> c, by |-> Nobody]>>
  /\ UNCHANGED <<mutex, job, subs, ch>>

BeginWrite(a, to) ==
  /\ mutex = Nobody
  /\ db.version < MaxVersion
  /\ mutex' = a
  /\ job' = [step |-> "commit", base |-> db.version, from |-> db.content,
             to |-> to, targets |-> {}]
  /\ UNCHANGED <<db, subs, ch, past>>

\* ApplyOp's optimistic check: a negative base asks for none.
BaseFits(base) == base < 0 \/ base = db.version

\* ApplyOp: an op that adds lines and takes some away, on the content read under
\* the mutex.  No board, a stale base, or an op that addresses a line that is not
\* there, is refused before anything changes.
ApplyOp(a, op, base) ==
  /\ db.version > 0
  /\ BaseFits(base)
  /\ op.del \subseteq db.content
  /\ BeginWrite(a, (db.content \ op.del) \cup op.add)

\* SetContent: the whole content, creating the board when there is none.
SetContent(a, c) == BeginWrite(a, c)

InsertOrReplace == TRUE

\* The primary key of the boards table: an INSERT needs a board that is not there.
InsertIsNew == job.base = 0 => db.version = 0

\* The transaction, the row of the board and the journal's together; an INSERT
\* that CreateBoard overtook fails.
Commit ==
  /\ job.step = "commit"
  /\ InsertIsNew
  /\ LET v == job.base + 1 IN
     db' = [content |-> job.to, version |-> v,
            rows |-> Journaled(db.rows, v, mutex, job.from, job.to)]
  /\ past' = Append(past, [content |-> job.to, by |-> mutex])
  /\ job' = [job EXCEPT !.step = "notify"]
  /\ UNCHANGED <<mutex, subs, ch>>

Unlock == mutex' = Nobody /\ job' = NoJob

\* The transaction is rolled back: no row of either table changes.
Rollback ==
  /\ job.step = "commit"
  /\ Faults \/ ~InsertIsNew
  /\ Unlock
  /\ UNCHANGED <<db, subs, ch, past>>

EveryStream == Stream

\* s.subs[id].
Listeners == subs

\* notify: the list of streams is copied, then each is woken unless its channel
\* is full.
Notify ==
  /\ job.step = "notify"
  /\ job' = [job EXCEPT !.step = "send", !.targets = Listeners]
  /\ UNCHANGED <<db, mutex, subs, ch, past>>

Send(s) ==
  /\ job.step = "send"
  /\ s \in job.targets
  /\ ch' = [ch EXCEPT ![s] = TRUE]
  /\ job' = [job EXCEPT !.targets = @ \ {s}]
  /\ UNCHANGED <<db, mutex, subs, past>>

Finish ==
  /\ job.step = "send"
  /\ job.targets = {}
  /\ Unlock
  /\ UNCHANGED <<db, subs, ch, past>>

-----------------------------------------------------------------------------
(* What streams and restarts do to the store.                              *)

\* Subscribe makes a new, empty channel.
Subscribe(s) ==
  /\ subs' = subs \cup {s}
  /\ ch' = [ch EXCEPT ![s] = FALSE]
  /\ UNCHANGED <<db, mutex, job, past>>

Unsubscribed(s) == subs \ {s}

\* A wake-up on its way to a stream that has cancelled reaches nobody.
Cancel(s) ==
  /\ subs' = Unsubscribed(s)
  /\ ch' = [ch EXCEPT ![s] = FALSE]
  /\ job' = [job EXCEPT !.targets = @ \ {s}]
  /\ UNCHANGED <<db, mutex, past>>

Receive(s) ==
  /\ ch[s]
  /\ ch' = [ch EXCEPT ![s] = FALSE]
  /\ UNCHANGED <<db, mutex, job, subs, past>>

\* Only the database survives.
ServerDies ==
  /\ Unlock
  /\ subs' = {}
  /\ ch' = [s \in Stream |-> FALSE]
  /\ UNCHANGED <<db, past>>

Ops == {op \in [add : Content, del : Content] :
          op.add \cap op.del = {} /\ op.add \cup op.del # {}}

Write ==
  \/ \E c \in Content : CreateBoard(c)
  \/ \E a \in Author, op \in Ops, base \in -1 .. MaxVersion : ApplyOp(a, op, base)
  \/ \E a \in Author, c \in Content : SetContent(a, c)
  \/ Commit \/ Rollback \/ Notify \/ Finish
  \/ \E s \in Stream : Send(s)

\* Streams come, go and wake up as they like.
StoreNext ==
  \/ Write
  \/ \E s \in Stream \ subs : Subscribe(s)
  \/ \E s \in subs : Cancel(s) \/ Receive(s)
  \/ Faults /\ ServerDies

StoreSpec == StoreInit /\ [][StoreNext]_storeVars

-----------------------------------------------------------------------------
(* What the store promises.                                                *)

Rows == [version : 1 .. MaxVersion, author : Author, added : Content, removed : Content]
DB == [content : Content, version : 0 .. MaxVersion, rows : Seq(Rows)]
Jobs == [step : {"none", "commit", "notify", "send"}, base : 0 .. MaxVersion,
         from : Content, to : Content, targets : SUBSET Stream]

\* The shape of the state; the mutex is held exactly while a write is under way,
\* and only subscribed streams are being woken or have a wake-up.
StoreTypeOK ==
  /\ db \in DB
  /\ mutex \in Author \cup {Nobody}
  /\ job \in Jobs
  /\ (mutex = Nobody) = (job.step = "none")
  /\ subs \subseteq Stream
  /\ job.targets \subseteq subs
  /\ ch \in [Stream -> BOOLEAN]
  /\ \A s \in Stream : ch[s] => s \in subs
  /\ past \in Seq([content : Content, by : Author \cup {Nobody}])

Before(all, v) == IF v = 1 THEN {} ELSE all[v - 1].content

\* A row tells the truth about a version.
Tells(all, row, v) ==
  /\ row.version = v
  /\ row.author = all[v].by
  /\ all[v].content = (Before(all, v) \ row.removed) \cup row.added

\* The history of a board is what happened: the journal's rows are the last
\* versions without a gap, each with its author and the lines its write really
\* added and removed, whatever creations, failed transactions and restarts came
\* between.
JournalExplains ==
  \A i \in DOMAIN db.rows : Tells(past, db.rows[i], db.version - Len(db.rows) + i)

\* The journal holds the last JournalKeep writes and, because it is pruned only
\* every PruneEvery-th version, fewer than PruneEvery rows more.
JournalWindow ==
  /\ Len(db.rows) < JournalKeep + PruneEvery
  /\ Len(db.rows) >= db.version - 1 \/ Len(db.rows) >= JournalKeep

\* The version counts the contents the board has had, and the mutex makes every
\* write land on the content it was computed from.
VersionsCount ==
  /\ db.version = Len(past)
  /\ db.version > 0 => db.content = past[db.version].content
  /\ job.step = "commit" /\ job.base > 0
       => job.base = db.version /\ job.from = db.content

=============================================================================
