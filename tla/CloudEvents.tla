------------------------------ MODULE CloudEvents ------------------------------
(***************************************************************************)
(* The change stream of a cloud board: the server's handler of GET events  *)
(* (handleEvents) over the store of CloudStore, and the two clients that   *)
(* listen to it, `watch` on a remote board (runWatchRemote) and the TUI    *)
(* (remoteStore.watchLoop).  An event says only that something changed:    *)
(* the client reads the board again and shows the difference.              *)
(*                                                                         *)
(* A content is named by its version; past has the contents.               *)
(***************************************************************************)
EXTENDS CloudStore

CONSTANTS
  Tui,       \* the streams whose client is the TUI
  Ignore,    \* ?ignoreAuthor of the streams of `watch`; Nobody for none
  InNode,    \* the lines of the node the streams are for; all of them for no node
  InboxCap   \* how many events a client queues, 8 in the code

ASSUME CloudEventsAssumption ==
  /\ Tui \subseteq Stream
  /\ Ignore \in Author \cup {Nobody}
  /\ InNode \subseteq Line
  /\ InboxCap \in Nat \ {0}

VARIABLES
  conn,     \* [Stream -> where its handler is, the version it last compared
            \* with, the version it has just read]
  client    \* [Stream -> where the client is, the version it shows, its events]

eventVars == <<conn, client>>
vars == <<storeVars, eventVars>>

NoConn == [at |-> "off", prev |-> 0, cur |-> 0]
NoClient == [at |-> "off", shown |-> 0, inbox |-> 0]

Init ==
  /\ StoreInit
  /\ conn = [s \in Stream |-> NoConn]
  /\ client = [s \in Stream |-> NoClient]

\* The watched subtree of a version.
Subtree(v) == IF v = 0 THEN {} ELSE past[v].content \cap InNode
WholeBoard == InNode = Line
IgnoredBy(s) == IF s \in Tui THEN Nobody ELSE Ignore

\* A client's queue takes an event unless it is full.
Queued(n) == IF n = InboxCap THEN n ELSE n + 1

-----------------------------------------------------------------------------
(* The client opens the stream.                                            *)

\* runWatchRemote reads the board first: what it prints is compared with that.
ReadFirst(s) ==
  /\ s \notin Tui
  /\ client[s].at = "off"
  /\ db.version > 0
  /\ client' = [client EXCEPT ![s] = [NoClient EXCEPT !.at = "read", !.shown = db.version]]
  /\ UNCHANGED <<storeVars, conn>>

NoCatchUp(s) == client[s].inbox

\* A client that has its answer listens; the TUI gives itself an event, to load
\* what it missed.
CatchUp(s) == IF s \in Tui THEN Queued(client[s].inbox) ELSE client[s].inbox

\* The handler's answer reaches the client before the handler subscribes.
Connect(s) ==
  /\ client[s].at = IF s \in Tui THEN "off" ELSE "read"
  /\ conn[s].at = "off"
  /\ db.version > 0
  /\ conn' = [conn EXCEPT ![s].at = "open"]
  /\ client' = [client EXCEPT ![s].at = "listen", ![s].inbox = CatchUp(s)]
  /\ UNCHANGED storeVars

-----------------------------------------------------------------------------
(* handleEvents.                                                           *)

Register(s) ==
  /\ conn[s].at = "open"
  /\ Subscribe(s)
  /\ conn' = [conn EXCEPT ![s].at = "subscribed"]
  /\ UNCHANGED client

Baseline(s) ==
  /\ conn[s].at = "subscribed"
  /\ conn' = [conn EXCEPT ![s].at = "wait", ![s].prev = db.version]
  /\ UNCHANGED <<storeVars, client>>

Wake(s) ==
  /\ conn[s].at = "wait"
  /\ Receive(s)
  /\ conn' = [conn EXCEPT ![s].at = "woken"]
  /\ UNCHANGED client

Get(s) ==
  /\ conn[s].at = "woken"
  /\ conn' = [conn EXCEPT ![s].at = "judge", ![s].cur = db.version]
  /\ UNCHANGED <<storeVars, client>>

OwnAmongThem(s) == IgnoredBy(s) \in AuthorsSince(conn[s].prev)

\* authorsAllEqual: there is a journaled write after the version last compared
\* with, and all of them are of the ignored author; the journal is read when this
\* is asked, after the board was.
AllOwn(s) == AuthorsSince(conn[s].prev) = {IgnoredBy(s)}

\* subtreeChanged asks nothing of a stream for the whole board.
Unchanged(s) == ~WholeBoard /\ Subtree(conn[s].prev) = Subtree(conn[s].cur)

Compared(s, at) == [conn EXCEPT ![s].at = at, ![s].prev = conn[s].cur]

SkipDraining(s) ==
  /\ conn[s].at = "judge"
  /\ Unchanged(s) \/ AllOwn(s)
  /\ conn' = Compared(s, "wait")
  /\ ch' = [ch EXCEPT ![s] = FALSE]
  /\ UNCHANGED <<db, mutex, job, subs, past, client>>

Skip(s) ==
  /\ conn[s].at = "judge"
  /\ Unchanged(s) \/ AllOwn(s)
  /\ conn' = Compared(s, "wait")
  /\ UNCHANGED <<storeVars, client>>

\* The event is written, and the client queues it.
Emit(s) ==
  /\ conn[s].at = "judge"
  /\ ~Unchanged(s) /\ ~AllOwn(s)
  /\ conn' = Compared(s, "wait")
  /\ client' = [client EXCEPT ![s].inbox = Queued(@)]
  /\ UNCHANGED storeVars

-----------------------------------------------------------------------------
(* The client reads the board on each event.                               *)

Take(s) ==
  /\ client[s].at = "listen"
  /\ client[s].inbox > 0
  /\ client' = [client EXCEPT ![s].at = "fetch", ![s].inbox = @ - 1]
  /\ UNCHANGED <<storeVars, conn>>

Fetch(s) ==
  /\ client[s].at = "fetch"
  /\ client' = [client EXCEPT ![s].at = "listen", ![s].shown = db.version]
  /\ UNCHANGED <<storeVars, conn>>

\* The stream ends: the client's 30 s are over, the connection breaks, or `watch
\* --once` has printed and goes.  The handler returns and cancels.
End(s) ==
  /\ conn[s].at # "off"
  /\ Cancel(s)
  /\ conn' = [conn EXCEPT ![s] = NoConn]
  /\ UNCHANGED client

\* Then the client stops listening, `watch` after the events it has: it exits,
\* and what it had printed from is forgotten; the TUI connects again.
Stop(s) ==
  /\ client[s].at = "listen"
  /\ conn[s].at = "off"
  /\ s \in Tui \/ client[s].inbox = 0
  /\ client' = [client EXCEPT ![s] = IF s \in Tui THEN [@ EXCEPT !.at = "off"] ELSE NoClient]
  /\ UNCHANGED <<storeVars, conn>>

\* The server restarts: its streams break.
Restart ==
  /\ Faults
  /\ ServerDies
  /\ conn' = [s \in Stream |-> NoConn]
  /\ UNCHANGED client

Serve(s) == Register(s) \/ Baseline(s) \/ Wake(s) \/ Get(s) \/ Skip(s) \/ Emit(s)
Listen(s) == ReadFirst(s) \/ Connect(s) \/ Take(s) \/ Fetch(s) \/ Stop(s)

Next ==
  \/ Write /\ UNCHANGED eventVars
  \/ \E s \in Stream : Serve(s) \/ Listen(s) \/ End(s)
  \/ Restart

\* A write that holds the mutex goes on and its handler wakes the streams; a
\* handler runs when it can and a client that listens reads (the TUI's event loop
\* does not wait for its stream, so not each of its connections ends before it
\* reads); the TUI's request times out in the end, and it connects again.
Fairness ==
  /\ WF_vars((Commit \/ Rollback \/ Notify \/ Finish \/ \E s \in Stream : Send(s))
             /\ UNCHANGED eventVars)
  /\ \A s \in Stream :
       /\ WF_vars(Serve(s))
       /\ WF_vars(Connect(s) \/ Stop(s)) /\ SF_vars(Take(s)) /\ WF_vars(Fetch(s))
  /\ \A s \in Tui : WF_vars(End(s))

Spec == Init /\ [][Next]_vars /\ Fairness

-----------------------------------------------------------------------------
(* What the streams promise.                                               *)

ConnPlaces == {"off", "open", "subscribed", "wait", "woken", "judge"}
ClientPlaces == {"off", "read", "listen", "fetch"}

\* The shape of the state; nobody has read a version that is not stored, and a
\* handler that has subscribed is on the list.
TypeOK ==
  /\ StoreTypeOK
  /\ conn \in [Stream -> [at : ConnPlaces, prev : 0 .. db.version, cur : 0 .. db.version]]
  /\ client \in [Stream -> [at : ClientPlaces, shown : 0 .. db.version, inbox : 0 .. InboxCap]]
  /\ \A s \in Stream : s \in subs <=> conn[s].at \notin {"off", "open"}

\* No wake-up is lost although a channel holds one and a writer never waits: a
\* handler that waits on an older version than the one stored has a wake-up in
\* its channel, or the write under way still owes it one.
WakeUpOwed ==
  \A s \in Stream :
    conn[s].at = "wait" /\ conn[s].prev < db.version
    => ch[s] \/ job.step = "notify" \/ s \in job.targets

\* A handler passes over a change of its subtree without an event, and not because
\* the client's queue is full.
PassesOver(s) ==
  /\ conn[s].at = "judge" /\ conn'[s].at = "wait"
  /\ client'[s].inbox = client[s].inbox /\ client[s].inbox < InboxCap
  /\ Subtree(conn[s].prev) # Subtree(conn[s].cur)

\* The row of this version is gone from the journal.
Pruned(v) == v <= db.version - Len(db.rows)

\* Self-edit suppression and subtree filtering drop nothing else: what a handler
\* passes over without an event is the ignored author's, or outside the node.  One
\* exception: a write whose row is pruned when the handler asks for the authors, of
\* which it knows nothing any more (a handler that lags journalKeep versions behind).
DropsOnlyOwn ==
  [][ \A s \in Stream : PassesOver(s)
        => \A v \in conn[s].prev + 1 .. conn[s].cur :
             past[v].by = IgnoredBy(s) \/ Pruned(v) ]_vars

\* store.go:559 says it without the exception: when every author of the ops that
\* produced a change equals the ignored name, no event is delivered.  (Somebody
\* else's change is passed over once its row is pruned.)
PassesOverOwnAlone ==
  [][ \A s \in Stream : PassesOver(s)
        => \A v \in conn[s].prev + 1 .. conn[s].cur : past[v].by = IgnoredBy(s) ]_vars

\* Every write by somebody else that a handler of the whole board has not yet
\* compared with is in the end read by its client, unless the stream ends first,
\* or the write's row is pruned before the handler has compared with it.
OthersAreRead ==
  \A s \in Stream, v \in 1 .. MaxVersion :
    (/\ conn[s].at \in {"wait", "woken", "judge"}
     /\ conn[s].prev < v /\ v <= db.version
     /\ past[v].by # IgnoredBy(s))
    ~> (client[s].shown >= v \/ conn[s].at = "off" \/ (conn[s].prev < v /\ Pruned(v)))

\* The TUI's screen keeps catching up with the stored board: a change that falls
\* between its load and the handler's subscription is read when the request has
\* timed out and the TUI connects again.
ScreenCatchesUp ==
  \A s \in Tui : []<>(Subtree(client[s].shown) = Subtree(db.version))

\* docs.go: an agent that ignores its own author is not woken by its own edits.
OnlyOthersWake ==
  [][ \A s \in Stream \ Tui :
        client'[s].inbox > client[s].inbox /\ Ignore # Nobody
        => \E v \in conn[s].prev + 1 .. db.version : past[v].by # Ignore ]_vars

\* SPEC-TREE: the reload after a successful reconnect catches up on what changed.
\* When nothing is under way, the TUI shows what is stored.
QuietIsCurrent ==
  \A s \in Tui :
    /\ client[s].at = "listen" /\ client[s].inbox = 0
    /\ conn[s].at = "wait" /\ ~ch[s]
    /\ mutex = Nobody
    => Subtree(client[s].shown) = Subtree(db.version)
=============================================================================
