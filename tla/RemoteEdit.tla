------------------------------- MODULE RemoteEdit -------------------------------
(***************************************************************************)
(* Edits of a cloud board over HTTP: the callers (RemoteTree.Apply for the *)
(* edit CLI and the TUI, remoteReplace with PushContent for `edit          *)
(* replace`), the requests under way, and the server's handlers from the   *)
(* token to the store (authWrap, authorize, handleRaw, handleEdit,         *)
(* handlePutRaw, ApplyOp, SetContent).                                     *)
(*                                                                         *)
(* The board is a flat set of items, each with the call that wrote it last.*)
(* A write of the store is one step here: CloudStore has what happens      *)
(* inside it.  A token is looked up in one step, a grant in another and    *)
(* the board is written in a third: access may change between.             *)
(***************************************************************************)
EXTENDS Integers, FiniteSets

CONSTANTS
  Caller,      \* the subjects with a token, one process each
  Admin,       \* those whose token is an admin's
  Tui,         \* those whose process is a TUI; the others' are one CLI run a call
  Item,        \* the items of the board, nodes a grant may be confined to
  Whole,       \* the root of a grant on the whole board, or of an unscoped op
  Original,    \* an item as it was created
  Gone,        \* an item that is not on the board
  Ops,         \* the ops that are asked for
  Start,       \* what access the callers have at first
  Grants,      \* the grants that are given later
  MaxTries,    \* how often a stale base is fetched again, 8 in the code
  MaxCalls,    \* bound of the model on a caller's calls
  MaxChanges,  \* bound of the model on changes of access
  Faults       \* TRUE: connections break, time out, and writes fail

ASSUME RemoteEditAssumption ==
  /\ Admin \subseteq Caller /\ Tui \subseteq Caller
  /\ Whole \notin Item
  /\ MaxTries \in Nat /\ MaxCalls \in Nat /\ MaxChanges \in Nat
  /\ Faults \in BOOLEAN

\* permRank; 0 is the absence of a grant.
Read == 1
Write == 2
Perm == 0 .. 3

Scope == Item \cup {Whole}
Access == [token : BOOLEAN, perm : Perm, root : Scope]
Op == [name : {"edit", "delete", "replace"}, item : Item, root : Scope]

ASSUME RemoteEditData ==
  /\ Ops \subseteq Op
  /\ Start \in [Caller -> Access]
  /\ Grants \subseteq [perm : Perm \ {0}, root : Scope]

VARIABLES
  board,    \* [Item -> the call that wrote it last, Original or Gone]
  version,  \* the board's version
  access,   \* [Caller -> its token's and its grant's state]
  changes,  \* how often access has been changed
  me,       \* [Caller -> where it is in its call, and the version it has seen]
  net,      \* the requests under way
  told,     \* history variable: [Call -> what its caller has been told]
  landed    \* history variable: [Call -> how many times it has changed the board]

vars == <<board, version, access, changes, me, net, told, landed>>

Call == Caller \X (1 .. MaxCalls)
Board == [Item -> Call \cup {Original, Gone}]

Covers(root, i) == root \in {Whole, i}

\* A board rendered for a grant: what is outside its root is not there.
Scoped(root, b) == [i \in Item |-> IF Covers(root, i) THEN b[i] ELSE Gone]
RootExists(root) == root \in Item => board[root] # Gone

Idle == [at |-> "idle", call |-> 0, tries |-> 0, seen |-> 0]

Init ==
  /\ board = [i \in Item |-> Original]
  /\ version = 1
  /\ access = Start
  /\ changes = 0
  /\ me = [c \in Caller |-> Idle]
  /\ net = {}
  /\ told = [x \in Call |-> "none"]
  /\ landed = [x \in Call |-> 0]

-----------------------------------------------------------------------------
(* Requests.  held is a history variable: the access the caller has had    *)
(* since it sent the request.                                              *)

NoBase == -1
NoBody == [i \in Item |-> Gone]

Answer(status, v, b) == [status |-> status, version |-> v, board |-> b]
NoAnswer == Answer("none", 0, NoBody)

Request(c, k, kind, op, base, body) ==
  [from |-> c, call |-> k, kind |-> kind, op |-> op, base |-> base, body |-> body,
   at |-> "sent", root |-> Whole, answer |-> NoAnswer, held |-> {access[c]}]

CallOf(r) == <<r.from, r.call>>

\* postEdit: a base of 0, a version never seen, asks for no check.
Post(c, k, op, base) ==
  Request(c, k, "edit", op, IF base = 0 THEN NoBase ELSE base, NoBody)
Raw(c, k, op) == Request(c, k, "raw", op, NoBase, NoBody)
Put(c, k, op, b) == Request(c, k, "put", op, NoBase, [b EXCEPT ![op.item] = <<c, k>>])

Waiting(r) == me[r.from].at = "wait" /\ me[r.from].call = r.call

\* The server has answered; nobody hears it when the caller has given up.
Answered(r, answer) ==
  net' = (net \ {r}) \cup
         IF Waiting(r) THEN {[r EXCEPT !.at = "answered", !.answer = answer]} ELSE {}

Refuse(r) == Answered(r, Answer("refused", 0, NoBody))
Conflict(r) == Answered(r, Answer("conflict", 0, NoBody))

-----------------------------------------------------------------------------
(* The server.                                                             *)

\* authorize: an admin token has the whole board, another what its grant says.
Grant(c, a) == IF c \in Admin THEN [perm |-> 3, root |-> Whole] ELSE [perm |-> a.perm, root |-> a.root]

MayRead(r) == Grant(r.from, access[r.from]).perm >= Read
MayWrite(r) == Grant(r.from, access[r.from]).perm >= Write

\* handlePutRaw takes no scoped grant; handleEdit forces the op's root to the
\* grant's and refuses an op that names another.
RootFits(r) ==
  LET root == Grant(r.from, access[r.from]).root IN
  CASE r.kind = "raw"  -> TRUE
    [] r.kind = "put"  -> root = Whole
    [] r.kind = "edit" -> root = Whole \/ r.op.root \in {Whole, root}

Allowed(r) == (IF r.kind = "raw" THEN MayRead(r) ELSE MayWrite(r)) /\ RootFits(r)

ClientRoot(r) == r.op.root

ForcedRoot(r) ==
  LET root == Grant(r.from, access[r.from]).root IN IF root = Whole THEN r.op.root ELSE root

\* A read is scoped by the grant only: a client's root does not travel with it.
GrantedRoot(r) == IF r.kind = "raw" THEN Grant(r.from, access[r.from]).root ELSE ForcedRoot(r)

Admit(r) ==
  /\ r.at = "sent"
  /\ IF access[r.from].token
     THEN net' = (net \ {r}) \cup {[r EXCEPT !.at = "admitted"]}
     ELSE Refuse(r)
  /\ UNCHANGED <<board, version, access, changes, me, told, landed>>

Authorize(r) ==
  /\ r.at = "admitted"
  /\ IF Allowed(r)
     THEN net' = (net \ {r}) \cup {[r EXCEPT !.at = "authorized", !.root = GrantedRoot(r)]}
     ELSE Refuse(r)
  /\ UNCHANGED <<board, version, access, changes, me, told, landed>>

\* handleRaw.
Show(r) ==
  /\ r.at = "authorized" /\ r.kind = "raw"
  /\ IF RootExists(r.root)
     THEN Answered(r, Answer("ok", version, Scoped(r.root, board)))
     ELSE Refuse(r)
  /\ UNCHANGED <<board, version, access, changes, me, told, landed>>

Land(r, b) ==
  /\ board' = b
  /\ version' = version + 1
  /\ landed' = [landed EXCEPT ![CallOf(r)] = @ + 1]
  /\ Answered(r, Answer("ok", version + 1, NoBody))
  /\ UNCHANGED <<access, changes, me, told>>

Stale(r) == r.base # NoBase /\ r.base # version
Missing(r) == ~RootExists(r.root) \/ board[r.op.item] = Gone

\* handleEdit answers 409 to a stale base, and to an op whose target is gone.
ApplyConflict(r) ==
  /\ r.at = "authorized" /\ r.kind = "edit"
  /\ Stale(r) \/ Missing(r)
  /\ Conflict(r)
  /\ UNCHANGED <<board, version, access, changes, me, told, landed>>

ApplyInvalid(r) ==
  /\ r.at = "authorized" /\ r.kind = "edit"
  /\ ~Stale(r) /\ ~Missing(r) /\ ~Covers(r.root, r.op.item)
  /\ Refuse(r)
  /\ UNCHANGED <<board, version, access, changes, me, told, landed>>

ApplyOp(r) ==
  /\ r.at = "authorized" /\ r.kind = "edit"
  /\ ~Stale(r) /\ ~Missing(r) /\ Covers(r.root, r.op.item)
  /\ Land(r, [board EXCEPT ![r.op.item] = IF r.op.name = "delete" THEN Gone ELSE CallOf(r)])

\* handlePutRaw: the content sent, whatever the board is now.
SetContent(r) ==
  /\ r.at = "authorized" /\ r.kind = "put"
  /\ Land(r, r.body)

\* The transaction is rolled back: 500.
WriteFails(r) ==
  /\ Faults
  /\ r.at = "authorized" /\ r.kind # "raw"
  /\ Refuse(r)
  /\ UNCHANGED <<board, version, access, changes, me, told, landed>>

Serve(r) ==
  \/ Admit(r) \/ Authorize(r) \/ Show(r)
  \/ ApplyConflict(r) \/ ApplyInvalid(r) \/ ApplyOp(r) \/ SetContent(r) \/ WriteFails(r)

-----------------------------------------------------------------------------
(* Access changes while requests are under way.                            *)

ChangeAccess(c, a) ==
  /\ changes < MaxChanges
  /\ changes' = changes + 1
  /\ access' = [access EXCEPT ![c] = a]
  /\ net' = {IF r.from = c THEN [r EXCEPT !.held = @ \cup {a}] ELSE r : r \in net}
  /\ UNCHANGED <<board, version, me, told, landed>>

\* AddGrant updates root and permission in place.
AddGrant(c, g) ==
  ChangeAccess(c, [token |-> access[c].token, perm |-> g.perm, root |-> g.root])

RemoveGrant(c) == ChangeAccess(c, [token |-> access[c].token, perm |-> 0, root |-> Whole])

RevokeToken(c) ==
  /\ access[c].token
  /\ ChangeAccess(c, [access[c] EXCEPT !.token = FALSE])

-----------------------------------------------------------------------------
(* The callers.                                                            *)

\* A TUI has no `edit replace`; a delete or an edit goes through Apply.
MayAsk(c, op) == op.name = "replace" => c \notin Tui /\ op.root = Whole

\* RemoteTree.lastSeen lives as long as the process: a CLI run starts without.
SeenBy(c) == IF c \in Tui THEN me[c].seen ELSE 0

Begin(c, op) ==
  LET k == me[c].call + 1 IN
  /\ me[c].at = "idle"
  /\ k <= MaxCalls
  /\ MayAsk(c, op)
  /\ me' = [me EXCEPT ![c] = [at |-> "wait", call |-> k, tries |-> 0, seen |-> SeenBy(c)]]
  /\ net' = net \cup {IF op.name = "replace" THEN Raw(c, k, op) ELSE Post(c, k, op, SeenBy(c))}
  /\ told' = [told EXCEPT ![<<c, k>>] = "asked"]
  /\ UNCHANGED <<board, version, access, changes, landed>>

\* The TUI loads the board, at its start and on every event.
Load(c) ==
  /\ c \in Tui
  /\ me[c].at = "idle"
  /\ access[c].token /\ Grant(c, access[c]).perm >= Read /\ RootExists(Grant(c, access[c]).root)
  /\ me' = [me EXCEPT ![c].seen = version]
  /\ UNCHANGED <<board, version, access, changes, net, told, landed>>

Heard(r) == r.at = "answered" /\ Waiting(r)

\* setSeen.
Sees(r) == IF r.answer.version > me[r.from].seen THEN r.answer.version ELSE me[r.from].seen

\* The call is over.
Finish(r, outcome) ==
  /\ me' = [me EXCEPT ![r.from] = [at |-> "idle", call |-> r.call, tries |-> 0, seen |-> Sees(r)]]
  /\ net' = net \ {r}
  /\ told' = [told EXCEPT ![CallOf(r)] = outcome]
  /\ UNCHANGED <<board, version, access, changes, landed>>

\* The call goes on with request q.
Proceed(r, q, tries) ==
  /\ me' = [me EXCEPT ![r.from] = [at |-> "wait", call |-> r.call, tries |-> tries, seen |-> Sees(r)]]
  /\ net' = (net \ {r}) \cup {q}
  /\ UNCHANGED <<board, version, access, changes, told, landed>>

HearDone(r) ==
  /\ Heard(r) /\ r.kind # "raw" /\ r.answer.status = "ok"
  /\ Finish(r, "done")

HearRefused(r) ==
  /\ Heard(r) /\ r.answer.status = "refused"
  /\ Finish(r, "refused")

Uncounted(tries) == tries

Again(tries) == tries + 1

\* Apply fetches the version and posts the op again, MaxTries times, then once
\* with no base; it takes one more 409 for an op whose target is gone.
HearConflict(r) ==
  LET c == r.from
      n == me[c].tries
  IN /\ Heard(r) /\ r.answer.status = "conflict"
     /\ \/ n < MaxTries /\ Proceed(r, Raw(c, r.call, r.op), Again(n))
        \/ n = MaxTries /\ Proceed(r, Post(c, r.call, r.op, NoBase), Again(n))
        \/ n > MaxTries /\ Finish(r, "refused")

HearVersion(r) ==
  /\ Heard(r) /\ r.kind = "raw" /\ r.answer.status = "ok" /\ r.op.name # "replace"
  /\ Proceed(r, Post(r.from, r.call, r.op, r.answer.version), me[r.from].tries)

\* remoteReplace puts the board it was shown, with its substitution made.
HearBoard(r) ==
  /\ Heard(r) /\ r.kind = "raw" /\ r.answer.status = "ok" /\ r.op.name = "replace"
  /\ IF r.answer.board[r.op.item] = Gone
     THEN Finish(r, "refused")
     ELSE Proceed(r, Put(r.from, r.call, r.op, r.answer.board), 0)

Hear(r) == HearDone(r) \/ HearRefused(r) \/ HearConflict(r) \/ HearVersion(r) \/ HearBoard(r)

RequestOf(c) == {r \in net : r.from = c /\ r.call = me[c].call}

SendAgain(c) ==
  /\ Faults
  /\ me[c].at = "wait"
  /\ RequestOf(c) # {}
  /\ net' = net \cup {[r EXCEPT !.at = "sent", !.answer = NoAnswer] : r \in RequestOf(c)}
  /\ UNCHANGED <<board, version, access, changes, me, told, landed>>

\* The connection breaks or the 30 s of the client are over: the call ends with an
\* error, and the request may still be served.
GiveUp(c) ==
  /\ Faults
  /\ me[c].at = "wait"
  /\ me' = [me EXCEPT ![c].at = "idle"]
  /\ net' = net \ {r \in RequestOf(c) : r.at = "answered"}
  /\ told' = [told EXCEPT ![<<c, me[c].call>>] = "failed"]
  /\ UNCHANGED <<board, version, access, changes, landed>>

\* A request or its answer is lost, or the server dies with it.
Lose(r) ==
  /\ Faults
  /\ net' = net \ {r}
  /\ UNCHANGED <<board, version, access, changes, me, told, landed>>

-----------------------------------------------------------------------------

AccessChanges ==
  \E c \in Caller :
    \/ \E g \in Grants : AddGrant(c, g)
    \/ RemoveGrant(c) \/ RevokeToken(c)

Ask(c) == Load(c) \/ \E op \in Ops : Begin(c, op)

Next ==
  \/ \E c \in Caller : Ask(c) \/ GiveUp(c)
  \/ \E r \in net : Serve(r) \/ Hear(r) \/ Lose(r)
  \/ AccessChanges

\* The server serves what reaches it, a caller reads its answer, and one whose
\* request is lost finds its connection dead in the end (its client's time is
\* over; PushContent's client has no limit, but TCP's keep-alive probes).
Fairness ==
  \A c \in Caller :
    /\ WF_vars(\E r \in net : r.from = c /\ (Serve(r) \/ Hear(r)))
    /\ WF_vars(RequestOf(c) = {} /\ GiveUp(c))

Spec == Init /\ [][Next]_vars /\ Fairness

-----------------------------------------------------------------------------
(* What a call may do.                                                     *)

Kinds == {"raw", "edit", "put"}
Places == {"sent", "admitted", "authorized", "answered"}
Statuses == {"none", "ok", "refused", "conflict"}

Requests ==
  [from : Caller, call : 1 .. MaxCalls, kind : Kinds, op : Op, base : Int, body : Board,
   at : Places, root : Scope, held : SUBSET Access,
   answer : [status : Statuses, version : Nat, board : Board]]

\* The shape of the state; a caller has at most one request of a call under way, and
\* nobody has seen a version that is not stored.
TypeOK ==
  /\ board \in Board /\ version \in Nat \ {0}
  /\ access \in [Caller -> Access] /\ changes \in 0 .. MaxChanges
  /\ me \in [Caller -> [at : {"idle", "wait"}, call : 0 .. MaxCalls,
                        tries : 0 .. MaxTries + 1, seen : 0 .. version]]
  /\ net \in SUBSET Requests
  /\ \A r \in net : r.base <= version /\ r.answer.version <= version
  /\ \A q, r \in net : CallOf(q) = CallOf(r) => q = r

\* An edit lands at most once although its caller posts it up to MaxTries + 2
\* times and connections break; a caller that is told it is done or refused is
\* told the truth, for ever (remote.go: "the op still lands exactly once").
CallOutcome == INSTANCE RemoteCall
ImplementsRemoteCall == CallOutcome!Spec

\* The items a request that lands is allowed to write under an access.
Allows(c, a, r) ==
  LET g == Grant(c, a) IN
  /\ g.perm >= Write
  /\ IF r.kind = "put" THEN g.root = Whole ELSE Covers(g.root, r.op.item)

\* Whoever changes the board had a token, and a grant to write what he writes, at
\* some moment between his request and its effect, although token, grant and board
\* are read in three steps and access changes between them.
WritesAreGranted ==
  [][ \A r \in net :
        landed'[CallOf(r)] > landed[CallOf(r)]
        => /\ \E a \in r.held : a.token
           /\ \E a \in r.held : Allows(r.from, a, r) ]_vars

\* Every call ends, although a 409 to an op whose target is gone is taken for a
\* stale base and the op is posted again.
EveryCallEnds ==
  \A c \in Caller : me[c].at = "wait" ~> me[c].at = "idle"

\* README: concurrent editors never clobber each other.  A replace changes nothing but
\* the item it was asked to change.
ReplaceKeepsTheRest ==
  [][ \A r \in net :
        r.kind = "put" /\ landed'[CallOf(r)] > landed[CallOf(r)]
        => \A i \in Item \ {r.op.item} : board'[i] = board[i] ]_vars
=============================================================================
