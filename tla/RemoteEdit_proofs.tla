--------------------------- MODULE RemoteEdit_proofs ---------------------------
(***************************************************************************)
(* What TLAPS proves of edits of a cloud board: a call is as RemoteCall    *)
(* says, landing at most once and reported truly, and whoever writes was   *)
(* granted it; for any callers, items, ops, grants and changes of access.  *)
(***************************************************************************)
EXTENDS RemoteEdit, TLAPS

-----------------------------------------------------------------------------
(* The inductive invariant.                                                *)

\* The answer to a write that has landed.
Done(r) == r.at = "answered" /\ r.kind # "raw" /\ r.answer.status = "ok"

\* The grant a write was authorized by, among those its caller has held.
Authorizes(g, r) ==
  /\ g.perm >= Write
  /\ IF r.kind = "put" THEN g.root = Whole ELSE g.root \in {Whole, r.root}

\* A request whose write has not been answered has not landed, and the access it
\* was let in by is one its caller held.
RequestOK(r) ==
  /\ told[CallOf(r)] \in {"asked", "failed"}
  /\ landed[CallOf(r)] = IF Done(r) THEN 1 ELSE 0
  /\ access[r.from] \in r.held
  /\ r.at \in {"admitted", "authorized"} => \E a \in r.held : a.token
  /\ r.at = "authorized" /\ r.kind # "raw" => \E a \in r.held : Authorizes(Grant(r.from, a), r)

\* Only the call its caller waits for is open, and those to come have done nothing.
CallsOK ==
  /\ told \in [Call -> {"none", "asked"} \cup CallOutcome!Answers]
  /\ landed \in [Call -> {0, 1}]
  /\ \A c \in Caller : me[c].at = "wait" => me[c].call > 0
  /\ \A c \in Caller, k \in 1 .. MaxCalls :
       /\ told[<<c, k>>] = "asked" <=> me[c].at = "wait" /\ k = me[c].call
       /\ k > me[c].call => told[<<c, k>>] = "none"
       /\ told[<<c, k>>] = "none" => landed[<<c, k>>] = 0

EditInv == TypeOK /\ CallsOK /\ \A r \in net : RequestOK(r)

LEMMA EditInitially == Init => EditInv
BY RemoteEditAssumption, RemoteEditData
   DEF Init, EditInv, TypeOK, CallsOK, Board, Idle, Call, CallOutcome!Answers

-----------------------------------------------------------------------------
(* Requests.                                                               *)

\* A request that is sent is well-formed, and lets nobody in yet.
LEMMA Sent ==
  ASSUME EditInv,
         NEW c \in Caller, NEW k \in 1 .. MaxCalls, NEW kind \in Kinds, NEW op \in Op,
         NEW base \in Int, NEW body \in Board
  PROVE  LET q == Request(c, k, kind, op, base, body) IN
         /\ q \in Requests /\ CallOf(q) = <<c, k>> /\ ~Done(q)
         /\ q.base = base /\ q.answer.version = 0 /\ q.at = "sent"
         /\ q.from = c /\ q.held = {access[c]}
<1>1. NoAnswer \in [status : Statuses, version : Nat, board : Board] /\ NoAnswer.version = 0
  BY DEF NoAnswer, Answer, NoBody, Statuses, Board
<1>2. {access[c]} \in SUBSET Access
  BY DEF EditInv, TypeOK
<1> QED
  BY <1>1, <1>2 DEF Request, Requests, Places, CallOf, Done, Scope

\* A step that only takes one request further, or ends it, keeps the invariant if
\* the request is left in order.
LEMMA NetStep ==
  ASSUME EditInv, NEW r \in net, NEW Q \in SUBSET Requests,
         net' = (net \ {r}) \cup Q,
         \A q \in Q : CallOf(q) = CallOf(r) /\ RequestOK(q),
         \A q \in Q : q.base <= version /\ q.answer.version <= version,
         \A p, q \in Q : p = q,
         UNCHANGED <<board, version, access, changes, me, told, landed>>
  PROVE  EditInv'
<1> USE DEF EditInv
<1>1. net' \in SUBSET Requests
  BY DEF TypeOK
<1>2. TypeOK'
  BY <1>1 DEF TypeOK, CallOf
<1>3. CallsOK'
  BY DEF CallsOK
<1>4. \A q \in net' : RequestOK(q)'
  <2> SUFFICES ASSUME NEW q \in net' PROVE RequestOK(q)'
    OBVIOUS
  <2>1. RequestOK(q)
    OBVIOUS
  <2> QED BY <2>1 DEF RequestOK, CallOf, Done, Authorizes, Grant
<1> QED BY <1>2, <1>3, <1>4

LEMMA OneForOne ==
  ASSUME EditInv, NEW r \in net, NEW q \in Requests,
         net' = (net \ {r}) \cup {q},
         CallOf(q) = CallOf(r), RequestOK(q), q.base <= version, q.answer.version <= version,
         UNCHANGED <<board, version, access, changes, me, told, landed>>
  PROVE  EditInv'
<1> DEFINE Q == {q}
<1>1. Q \in SUBSET Requests /\ \A p \in Q : p = q
  OBVIOUS
<1>2. net' = (net \ {r}) \cup Q
  OBVIOUS
<1> HIDE DEF Q
<1> QED BY <1>1, <1>2, NetStep

\* An answer that is not that of a write.
LEMMA AnswerStep ==
  ASSUME EditInv, NEW r \in net,
         NEW answer \in [status : Statuses, version : Nat, board : Board],
         answer.version <= version, Answered(r, answer),
         ~Done(r), r.kind = "raw" \/ answer.status # "ok",
         UNCHANGED <<board, version, access, changes, me, told, landed>>
  PROVE  EditInv'
<1> DEFINE q == [r EXCEPT !.at = "answered", !.answer = answer]
           Q == IF Waiting(r) THEN {q} ELSE {}
<1>1. r \in Requests /\ RequestOK(r) /\ r.base <= version
  BY DEF EditInv, TypeOK
<1>2. q \in Requests /\ CallOf(q) = CallOf(r) /\ q.base = r.base /\ q.answer = answer
  BY <1>1 DEF Requests, Places, CallOf
<1>3. RequestOK(q)
  BY <1>1 DEF RequestOK, Requests, CallOf, Done, Authorizes
<1>4. net' = (net \ {r}) \cup Q
  BY DEF Answered
<1>5. Q \in SUBSET Requests /\ \A p \in Q : p = q
  BY <1>2
<1> HIDE DEF q, Q
<1> QED
  BY <1>1, <1>2, <1>3, <1>4, <1>5, NetStep

LEMMA AnswerType ==
  ASSUME NEW status \in Statuses, NEW v \in Nat, NEW b \in Board
  PROVE  /\ Answer(status, v, b) \in [status : Statuses, version : Nat, board : Board]
         /\ Answer(status, v, b).status = status
         /\ Answer(status, v, b).version = v
BY DEF Answer

LEMMA EmptyBody == NoBody \in Board
BY DEF NoBody, Board

LEMMA RefuseStep ==
  ASSUME EditInv, NEW r \in net, ~Done(r), Refuse(r) \/ Conflict(r),
         UNCHANGED <<board, version, access, changes, me, told, landed>>
  PROVE  EditInv'
<1>1. "refused" \in Statuses /\ "conflict" \in Statuses /\ 0 <= version /\ 0 \in Nat
  BY DEF Statuses, EditInv, TypeOK
<1>2. CASE Refuse(r)
  BY <1>1, <1>2, EmptyBody, AnswerType, AnswerStep DEF Refuse
<1>3. CASE Conflict(r)
  BY <1>1, <1>3, EmptyBody, AnswerType, AnswerStep DEF Conflict
<1> QED BY <1>2, <1>3

-----------------------------------------------------------------------------
(* The server's steps.                                                     *)

LEMMA AdmitStep ==
  ASSUME EditInv, NEW r \in net, Admit(r)
  PROVE  EditInv'
<1> DEFINE q == [r EXCEPT !.at = "admitted"]
<1>1. r \in Requests /\ RequestOK(r) /\ r.base <= version /\ r.answer.version <= version
  BY DEF EditInv, TypeOK
<1>2. CASE access[r.from].token
  <2>1. q \in Requests /\ CallOf(q) = CallOf(r) /\ q.base = r.base /\ q.answer = r.answer
    BY <1>1 DEF Requests, Places, CallOf
  <2>2. RequestOK(q)
    BY <1>1, <1>2 DEF RequestOK, Requests, CallOf, Done, Admit
  <2>3. net' = (net \ {r}) \cup {q}
    BY <1>2 DEF Admit
  <2>4. UNCHANGED <<board, version, access, changes, me, told, landed>>
    BY DEF Admit
  <2> HIDE DEF q
  <2> QED BY <1>1, <2>1, <2>2, <2>3, <2>4, OneForOne
<1>3. CASE ~access[r.from].token
  BY <1>3, RefuseStep DEF Admit, Done
<1> QED BY <1>2, <1>3

LEMMA GrantType ==
  ASSUME EditInv, NEW c \in Caller
  PROVE  /\ Grant(c, access[c]) \in [perm : Perm, root : Scope]
         /\ access[c] \in Access
BY DEF EditInv, TypeOK, Grant, Access, Perm, Scope

LEMMA AuthorizeStep ==
  ASSUME EditInv, NEW r \in net, Authorize(r)
  PROVE  EditInv'
<1> DEFINE s == [r EXCEPT !.at = "authorized"]
           q == [s EXCEPT !.root = GrantedRoot(r)]
<1>1. r \in Requests /\ RequestOK(r) /\ r.base <= version /\ r.answer.version <= version
  BY DEF EditInv, TypeOK
<1>2. CASE Allowed(r)
  <2>1. Grant(r.from, access[r.from]).root \in Scope
    BY <1>1, GrantType DEF Requests
  <2>2. GrantedRoot(r) \in Scope
    BY <1>1, <2>1 DEF GrantedRoot, ForcedRoot, Requests, Op
  <2>3. /\ s \in Requests /\ s.from = r.from /\ s.call = r.call /\ s.base = r.base
        /\ s.answer = r.answer /\ s.kind = r.kind /\ s.held = r.held /\ s.at = "authorized"
    BY <1>1 DEF Requests, Places
  <2>4. /\ q \in Requests /\ q.from = s.from /\ q.call = s.call /\ q.base = s.base
        /\ q.answer = s.answer /\ q.kind = s.kind /\ q.held = s.held /\ q.at = s.at
        /\ q.root = GrantedRoot(r)
    BY <2>2, <2>3 DEF Requests
  <2>5. net' = (net \ {r}) \cup {q}
    BY <1>2 DEF Authorize
  <2>6. UNCHANGED <<board, version, access, changes, me, told, landed>> /\ r.at = "admitted"
    BY DEF Authorize
  <2> HIDE DEF s, q
  <2>7. ASSUME q.kind # "raw" PROVE Authorizes(Grant(q.from, access[q.from]), q)
    BY <1>1, <1>2, <2>3, <2>4, <2>7
       DEF Authorizes, Allowed, MayWrite, RootFits, GrantedRoot, ForcedRoot, Requests, Kinds
  <2>8. RequestOK(q)
    BY <1>1, <2>3, <2>4, <2>6, <2>7 DEF RequestOK, CallOf, Done
  <2>9. CallOf(q) = CallOf(r) /\ q.base <= version /\ q.answer.version <= version
    BY <1>1, <2>3, <2>4 DEF CallOf
  <2> QED BY <2>4, <2>5, <2>6, <2>8, <2>9, OneForOne
<1>3. CASE ~Allowed(r)
  BY <1>3, RefuseStep DEF Authorize, Done
<1> QED BY <1>2, <1>3

LEMMA ShowStep ==
  ASSUME EditInv, NEW r \in net, Show(r)
  PROVE  EditInv'
<1>1. CASE RootExists(r.root)
  <2>1. Scoped(r.root, board) \in Board /\ "ok" \in Statuses /\ version \in Nat
    BY DEF EditInv, TypeOK, Scoped, Board, Statuses
  <2>2. version <= version
    BY <2>1
  <2> QED BY <1>1, <2>1, <2>2, AnswerType, AnswerStep DEF Show, Done
<1>2. CASE ~RootExists(r.root)
  BY <1>2, RefuseStep DEF Show, Done
<1> QED BY <1>1, <1>2

\* A write lands.
LEMMA LandStep ==
  ASSUME EditInv, NEW r \in net, NEW b \in Board, r.at = "authorized", r.kind # "raw", Land(r, b)
  PROVE  EditInv'
<1> DEFINE answer == Answer("ok", version + 1, NoBody)
           s == [r EXCEPT !.at = "answered"]
           q == [s EXCEPT !.answer = answer]
           Q == IF Waiting(r) THEN {q} ELSE {}
           x == CallOf(r)
<1>1. /\ r \in Requests /\ RequestOK(r) /\ r.base <= version /\ version \in Nat
      /\ x \in Call /\ landed \in [Call -> {0, 1}] /\ landed[x] = 0
  <2>1. r \in Requests /\ RequestOK(r) /\ r.base <= version /\ version \in Nat
        /\ landed \in [Call -> {0, 1}]
    BY DEF EditInv, TypeOK, CallsOK
  <2>2. x \in Call
    BY <2>1 DEF Requests, CallOf, Call
  <2> QED BY <2>1, <2>2 DEF RequestOK, Done
<1>2. answer \in [status : Statuses, version : Nat, board : Board]
      /\ answer.status = "ok" /\ answer.version = version + 1
  <2>1. "ok" \in Statuses /\ version + 1 \in Nat
    BY <1>1 DEF Statuses
  <2> QED BY <2>1, EmptyBody, AnswerType
<1> HIDE DEF answer
<1>3. /\ s \in Requests /\ s.from = r.from /\ s.call = r.call /\ s.base = r.base
      /\ s.kind = r.kind /\ s.held = r.held /\ s.at = "answered"
  BY <1>1 DEF Requests, Places
<1>4. /\ q \in Requests /\ q.from = s.from /\ q.call = s.call /\ q.base = s.base
      /\ q.answer = answer /\ q.kind = s.kind /\ q.held = s.held /\ q.at = s.at
  BY <1>2, <1>3 DEF Requests
<1>5. net' = (net \ {r}) \cup Q
  BY DEF Land, Answered, answer
<1>6. /\ board' = b /\ version' = version + 1 /\ landed' = [landed EXCEPT ![x] = 1]
      /\ UNCHANGED <<access, changes, me, told>>
  BY <1>1 DEF Land
<1> HIDE DEF s, q
<1>7. /\ Q \in SUBSET Requests /\ \A p \in Q : p = q
      /\ CallOf(q) = x
  BY <1>3, <1>4 DEF CallOf
<1> HIDE DEF Q
<1>8. TypeOK'
  <2>1. net' \in SUBSET Requests
    BY <1>5, <1>7 DEF EditInv, TypeOK
  <2>2. version' \in Nat \ {0} /\ version < version'
    BY <1>1, <1>6
  <2>3. \A p \in net' : p.base <= version' /\ p.answer.version <= version'
    <3> SUFFICES ASSUME NEW p \in net' PROVE p.base <= version' /\ p.answer.version <= version'
      OBVIOUS
    <3>1. CASE p \in net
      <4>1. p \in Requests /\ p.base <= version /\ p.answer.version <= version
        BY <3>1 DEF EditInv, TypeOK
      <4>2. p.base \in Int /\ p.answer.version \in Nat
        BY <4>1 DEF Requests
      <4> QED BY <1>1, <2>2, <4>1, <4>2
    <3>2. CASE p \in Q
      <4>1. p = q /\ r.base \in Int
        BY <1>1, <1>7, <3>2 DEF Requests
      <4> QED BY <1>1, <1>2, <1>3, <1>4, <1>6, <4>1
    <3> QED BY <1>5, <3>1, <3>2
  <2>4. \A p, o \in net' : CallOf(p) = CallOf(o) => p = o
    BY <1>5, <1>7 DEF EditInv, TypeOK
  <2>5. me' \in [Caller -> [at : {"idle", "wait"}, call : 0 .. MaxCalls,
                          tries : 0 .. MaxTries + 1, seen : 0 .. version']]
    BY <1>1, <1>6 DEF EditInv, TypeOK
  <2> QED BY <1>6, <2>1, <2>2, <2>3, <2>4, <2>5 DEF EditInv, TypeOK
<1>9. CallsOK'
  <2>1. landed' \in [Call -> {0, 1}] /\ told[x] # "none"
    BY <1>1, <1>6 DEF RequestOK
  <2> QED BY <1>1, <1>6, <2>1 DEF EditInv, CallsOK, Call
<1>10. \A p \in net' : RequestOK(p)'
  <2> SUFFICES ASSUME NEW p \in net' PROVE RequestOK(p)'
    OBVIOUS
  <2>1. CASE p \in net /\ p # r
    <3>1. CallOf(p) # x /\ CallOf(p) \in Call /\ RequestOK(p)
      BY <2>1 DEF EditInv, TypeOK, Requests, CallOf, Call
    <3>2. landed'[CallOf(p)] = landed[CallOf(p)]
      BY <1>1, <1>6, <3>1
    <3> QED BY <1>6, <3>1, <3>2 DEF RequestOK, CallOf, Done, Authorizes, Grant
  <2>2. CASE p \in Q
    <3>1. p = q /\ landed'[x] = 1
      BY <1>1, <1>6, <1>7, <2>2
    <3>2. Done(q)
      BY <1>2, <1>3, <1>4 DEF Done
    <3>3. told'[x] \in {"asked", "failed"} /\ access'[q.from] \in q.held
      BY <1>1, <1>3, <1>4, <1>6 DEF RequestOK
    <3> QED BY <1>3, <1>4, <1>7, <3>1, <3>2, <3>3 DEF RequestOK, CallOf, Done
  <2> QED BY <1>5, <2>1, <2>2
<1> QED BY <1>8, <1>9, <1>10 DEF EditInv

LEMMA ServeStep ==
  ASSUME EditInv, NEW r \in net, Serve(r)
  PROVE  EditInv'
<1>1. r \in Requests /\ board \in Board
  BY DEF EditInv, TypeOK
<1>2. CASE Admit(r) \/ Authorize(r) \/ Show(r)
  BY <1>2, AdmitStep, AuthorizeStep, ShowStep
<1>3. CASE ApplyConflict(r) \/ ApplyInvalid(r) \/ WriteFails(r)
  <2>1. ~Done(r)
    BY <1>3 DEF ApplyConflict, ApplyInvalid, WriteFails, Done
  <2> QED BY <1>3, <2>1, RefuseStep DEF ApplyConflict, ApplyInvalid, WriteFails
<1>4. CASE ApplyOp(r)
  <2>1. CallOf(r) \in Call
    BY <1>1 DEF CallOf, Call, Requests
  <2>2. [board EXCEPT ![r.op.item] = IF r.op.name = "delete" THEN Gone ELSE CallOf(r)] \in Board
    BY <1>1, <2>1 DEF Board
  <2> QED BY <1>4, <2>2, LandStep DEF ApplyOp
<1>5. CASE SetContent(r)
  <2>1. r.body \in Board
    BY <1>1 DEF Requests
  <2> QED BY <1>5, <2>1, LandStep DEF SetContent
<1> QED BY <1>2, <1>3, <1>4, <1>5 DEF Serve

-----------------------------------------------------------------------------
(* Access changes, and requests are lost.                                  *)

LEMMA ChangeStep ==
  ASSUME EditInv, NEW c \in Caller, NEW a \in Access, ChangeAccess(c, a)
  PROVE  EditInv'
<1> DEFINE Kept(r) == IF r.from = c THEN [r EXCEPT !.held = @ \cup {a}] ELSE r
<1>1. net' = {Kept(r) : r \in net}
  BY DEF ChangeAccess
<1>2. access' = [access EXCEPT ![c] = a] /\ access \in [Caller -> Access]
  BY DEF ChangeAccess, EditInv, TypeOK
<1>3. UNCHANGED <<board, version, me, told, landed>> /\ changes' \in 0 .. MaxChanges
  BY RemoteEditAssumption DEF ChangeAccess, EditInv, TypeOK
<1>4. ASSUME NEW r \in net
      PROVE  /\ Kept(r) \in Requests /\ r \in Requests
             /\ Kept(r).from = r.from /\ Kept(r).call = r.call /\ Kept(r).kind = r.kind
             /\ Kept(r).base = r.base /\ Kept(r).answer = r.answer /\ Kept(r).at = r.at
             /\ Kept(r).root = r.root /\ r.held \subseteq Kept(r).held
             /\ r.from = c => a \in Kept(r).held
  <2>1. r \in Requests
    BY DEF EditInv, TypeOK
  <2> QED BY <2>1 DEF Requests
<1> HIDE DEF Kept
<1>5. TypeOK'
  <2>1. net' \in SUBSET Requests /\ access' \in [Caller -> Access]
    BY <1>1, <1>2, <1>4
  <2>2. \A p \in net' : p.base <= version' /\ p.answer.version <= version'
    BY <1>1, <1>3, <1>4 DEF EditInv, TypeOK
  <2>3. \A p, q \in net' : CallOf(p) = CallOf(q) => p = q
    <3> SUFFICES ASSUME NEW r \in net, NEW s \in net, CallOf(Kept(r)) = CallOf(Kept(s))
                 PROVE  Kept(r) = Kept(s)
      BY <1>1
    <3>1. CallOf(r) = CallOf(s)
      BY <1>4 DEF CallOf
    <3> QED BY <3>1 DEF EditInv, TypeOK
  <2> QED BY <1>3, <2>1, <2>2, <2>3 DEF EditInv, TypeOK
<1>6. CallsOK'
  BY <1>3 DEF EditInv, CallsOK
<1>7. ASSUME NEW r \in net PROVE RequestOK(Kept(r))'
  <2>1. RequestOK(r)
    BY DEF EditInv
  <2>2. access'[r.from] \in Kept(r).held
    BY <1>2, <1>4, <2>1 DEF RequestOK, Requests
  <2> QED BY <1>3, <1>4, <2>1, <2>2 DEF RequestOK, CallOf, Done, Authorizes, Grant
<1> QED BY <1>1, <1>5, <1>6, <1>7 DEF EditInv

LEMMA AccessStep ==
  ASSUME EditInv, AccessChanges
  PROVE  EditInv'
<1>1. ASSUME NEW c \in Caller, NEW g \in Grants, AddGrant(c, g)
      PROVE  EditInv'
  <2>1. [token |-> access[c].token, perm |-> g.perm, root |-> g.root] \in Access
    BY RemoteEditData, GrantType DEF Access, Perm
  <2> QED BY <1>1, <2>1, ChangeStep DEF AddGrant
<1>2. ASSUME NEW c \in Caller, RemoveGrant(c)
      PROVE  EditInv'
  <2>1. [token |-> access[c].token, perm |-> 0, root |-> Whole] \in Access
    BY GrantType DEF Access, Perm, Scope
  <2> QED BY <1>2, <2>1, ChangeStep DEF RemoveGrant
<1>3. ASSUME NEW c \in Caller, RevokeToken(c)
      PROVE  EditInv'
  <2>1. [access[c] EXCEPT !.token = FALSE] \in Access
    BY GrantType DEF Access
  <2> QED BY <1>3, <2>1, ChangeStep DEF RevokeToken
<1> QED BY <1>1, <1>2, <1>3 DEF AccessChanges

LEMMA LoseStep ==
  ASSUME EditInv, NEW r \in net, Lose(r)
  PROVE  EditInv'
<1> DEFINE Q == {}
<1>1. Q \in SUBSET Requests /\ net' = (net \ {r}) \cup Q
  BY DEF Lose
<1> QED BY <1>1, NetStep DEF Lose

-----------------------------------------------------------------------------
(* The callers' steps.                                                     *)

\* The caller that waits has asked, and knows nothing yet.
LEMMA HeardFacts ==
  ASSUME EditInv, NEW r \in net, Heard(r)
  PROVE  /\ r \in Requests /\ CallOf(r) \in Call /\ RequestOK(r)
         /\ me[r.from].at = "wait" /\ me[r.from].call = r.call
         /\ told[CallOf(r)] = "asked" /\ Sees(r) \in 0 .. version
<1>1. r \in Requests /\ RequestOK(r) /\ r.answer.version <= version
  BY DEF EditInv, TypeOK
<1>2. r.from \in Caller /\ r.call \in 1 .. MaxCalls /\ r.answer.version \in Nat
  BY <1>1 DEF Requests
<1>3. me[r.from].at = "wait" /\ me[r.from].call = r.call
  BY DEF Heard, Waiting
<1>4. told[CallOf(r)] = "asked"
  BY <1>2, <1>3 DEF EditInv, CallsOK, CallOf
<1>5. me[r.from].seen \in 0 .. version /\ version \in Nat
  BY <1>2 DEF EditInv, TypeOK
<1>6. Sees(r) \in 0 .. version
  BY <1>1, <1>2, <1>5 DEF Sees
<1> QED BY <1>1, <1>2, <1>3, <1>4, <1>6 DEF CallOf, Call

LEMMA FinishStep ==
  ASSUME EditInv, NEW r \in net, NEW outcome \in {"done", "refused"}, Heard(r), Finish(r, outcome)
  PROVE  EditInv'
<1> USE DEF EditInv
<1> DEFINE m == [at |-> "idle", call |-> r.call, tries |-> 0, seen |-> Sees(r)]
           x == CallOf(r)
<1>1. /\ r \in Requests /\ r.from \in Caller /\ r.call \in 1 .. MaxCalls /\ x \in Call
      /\ told[x] = "asked" /\ Sees(r) \in 0 .. version
      /\ me[r.from].at = "wait" /\ me[r.from].call = r.call
  BY HeardFacts DEF Requests
<1>2. /\ me' = [me EXCEPT ![r.from] = m] /\ net' = net \ {r} /\ told' = [told EXCEPT ![x] = outcome]
      /\ UNCHANGED <<board, version, access, changes, landed>>
  BY DEF Finish
<1>3. m \in [at : {"idle", "wait"}, call : 0 .. MaxCalls,
             tries : 0 .. MaxTries + 1, seen : 0 .. version]
  BY <1>1, RemoteEditAssumption
<1>4. TypeOK'
  <2>1. me' \in [Caller -> [at : {"idle", "wait"}, call : 0 .. MaxCalls,
                          tries : 0 .. MaxTries + 1, seen : 0 .. version']]
    BY <1>2, <1>3 DEF TypeOK
  <2> QED BY <1>2, <2>1 DEF TypeOK
<1>5. CallsOK'
  <2>1. told' \in [Call -> {"none", "asked"} \cup CallOutcome!Answers]
    BY <1>2 DEF CallsOK, CallOutcome!Answers
  <2>2. ASSUME NEW c \in Caller, NEW k \in 1 .. MaxCalls
        PROVE  /\ told'[<<c, k>>] = "asked" <=> me'[c].at = "wait" /\ k = me'[c].call
               /\ k > me'[c].call => told'[<<c, k>>] = "none"
               /\ told'[<<c, k>>] = "none" => landed'[<<c, k>>] = 0
    <3>1. CASE <<c, k>> = x
      <4>1. c = r.from /\ k = r.call
        BY <3>1 DEF CallOf
      <4>2. told'[x] = outcome
        BY <1>1, <1>2 DEF CallsOK
      <4>3. me'[c] = m
        BY <1>1, <1>2, <4>1 DEF TypeOK
      <4> QED BY <1>1, <3>1, <4>1, <4>2, <4>3
    <3>2. CASE <<c, k>> # x /\ c = r.from
      <4>1. k # r.call /\ me'[c] = m
        BY <1>1, <1>2, <3>2 DEF CallOf, TypeOK
      <4>2. told'[<<c, k>>] = told[<<c, k>>]
        BY <1>1, <1>2, <3>2 DEF CallsOK, Call
      <4> QED BY <1>1, <1>2, <3>2, <4>1, <4>2 DEF CallsOK
    <3>3. CASE c # r.from
      <4>1. me'[c] = me[c] /\ <<c, k>> # x
        BY <1>1, <1>2, <3>3 DEF CallOf, TypeOK
      <4>2. told'[<<c, k>>] = told[<<c, k>>]
        BY <1>1, <1>2, <4>1 DEF CallsOK, Call
      <4> QED BY <1>2, <4>1, <4>2 DEF CallsOK
    <3> QED BY <3>1, <3>2, <3>3
  <2>3. \A c \in Caller : me'[c].at = "wait" => me'[c].call > 0
    BY <1>2, <1>1 DEF CallsOK, TypeOK
  <2> QED BY <1>2, <2>1, <2>2, <2>3 DEF CallsOK
<1>6. ASSUME NEW q \in net' PROVE RequestOK(q)'
  <2>1. q \in net /\ q # r /\ q \in Requests /\ RequestOK(q)
    BY <1>2 DEF TypeOK
  <2>2. CallOf(q) # x /\ CallOf(q) \in Call
    BY <2>1 DEF TypeOK, Requests, CallOf, Call
  <2>3. told'[CallOf(q)] = told[CallOf(q)]
    BY <1>2, <2>2 DEF CallsOK
  <2> QED BY <1>2, <2>1, <2>3 DEF RequestOK, CallOf, Done, Authorizes, Grant
<1> QED BY <1>4, <1>5, <1>6

LEMMA ProceedStep ==
  ASSUME EditInv, NEW r \in net, NEW q \in Requests, NEW tries \in 0 .. MaxTries + 1,
         Heard(r), Proceed(r, q, tries), ~Done(r),
         CallOf(q) = CallOf(r), ~Done(q), q.at = "sent", q.held = {access[r.from]},
         q.base <= version, q.answer.version <= version
  PROVE  EditInv'
<1> USE DEF EditInv
<1> DEFINE m == [at |-> "wait", call |-> r.call, tries |-> tries, seen |-> Sees(r)]
<1>1. /\ r \in Requests /\ r.from \in Caller /\ r.call \in 1 .. MaxCalls /\ RequestOK(r)
      /\ me[r.from].at = "wait" /\ me[r.from].call = r.call /\ Sees(r) \in 0 .. version
  BY HeardFacts DEF Requests
<1>2. /\ me' = [me EXCEPT ![r.from] = m] /\ net' = (net \ {r}) \cup {q}
      /\ UNCHANGED <<board, version, access, changes, told, landed>>
  BY DEF Proceed
<1>3. m \in [at : {"idle", "wait"}, call : 0 .. MaxCalls,
             tries : 0 .. MaxTries + 1, seen : 0 .. version]
  BY <1>1
<1>4. TypeOK'
  <2>1. me' \in [Caller -> [at : {"idle", "wait"}, call : 0 .. MaxCalls,
                          tries : 0 .. MaxTries + 1, seen : 0 .. version']]
    BY <1>2, <1>3 DEF TypeOK
  <2>2. net' \in SUBSET Requests
    BY <1>2 DEF TypeOK
  <2>3. \A p, o \in net' : CallOf(p) = CallOf(o) => p = o
    BY <1>2 DEF TypeOK
  <2> QED BY <1>2, <2>1, <2>2, <2>3 DEF TypeOK
<1>5. CallsOK'
  <2>1. \A c \in Caller : me'[c].at = me[c].at /\ me'[c].call = me[c].call
    BY <1>1, <1>2 DEF TypeOK
  <2> QED BY <1>2, <2>1 DEF CallsOK
<1>6. ASSUME NEW p \in net' PROVE RequestOK(p)'
  <2>1. q.from = r.from /\ landed[CallOf(q)] = 0
    BY <1>1 DEF CallOf, RequestOK
  <2>2. RequestOK(q)
    BY <1>1, <2>1 DEF RequestOK
  <2>3. RequestOK(p)
    BY <1>2, <2>2
  <2> QED BY <1>2, <2>3 DEF RequestOK, CallOf, Done, Authorizes, Grant
<1> QED BY <1>4, <1>5, <1>6

LEMMA HearStep ==
  ASSUME EditInv, NEW r \in net, Hear(r)
  PROVE  EditInv'
<1>1. Heard(r)
  BY DEF Hear, HearDone, HearRefused, HearConflict, HearVersion, HearBoard
<1>2. /\ r \in Requests /\ r.from \in Caller /\ r.call \in 1 .. MaxCalls /\ r.op \in Op
      /\ r.answer \in [status : Statuses, version : Nat, board : Board]
      /\ r.answer.version <= version /\ version \in Nat \ {0}
      /\ me[r.from].tries \in 0 .. MaxTries + 1 /\ MaxTries \in Nat
  BY RemoteEditAssumption DEF EditInv, TypeOK, Requests
<1>3. NoBase \in Int /\ NoBase <= version /\ {"raw", "edit", "put"} = Kinds /\ CallOf(r) = <<r.from, r.call>>
  BY <1>2 DEF NoBase, Kinds, CallOf
<1>4. CASE HearDone(r)
  BY <1>1, <1>4, FinishStep DEF HearDone
<1>5. CASE HearRefused(r)
  BY <1>1, <1>5, FinishStep DEF HearRefused
<1>6. CASE HearConflict(r)
  <2> DEFINE n == me[r.from].tries
  <2>1. ~Done(r)
    BY <1>6 DEF HearConflict, Done
  <2>2. CASE n < MaxTries /\ Proceed(r, Raw(r.from, r.call, r.op), Again(n))
    <3> DEFINE q == Raw(r.from, r.call, r.op)
    <3>1. /\ q \in Requests /\ CallOf(q) = CallOf(r) /\ ~Done(q) /\ q.at = "sent"
          /\ q.held = {access[r.from]} /\ q.base <= version /\ q.answer.version <= version
      BY <1>2, <1>3, EmptyBody, Sent DEF Raw
    <3>2. Again(n) \in 0 .. MaxTries + 1
      BY <1>2, <2>2 DEF Again
    <3> HIDE DEF q
    <3> QED BY <1>1, <2>1, <2>2, <3>1, <3>2, ProceedStep DEF q
  <2>3. CASE n = MaxTries /\ Proceed(r, Post(r.from, r.call, r.op, NoBase), Again(n))
    <3> DEFINE q == Post(r.from, r.call, r.op, NoBase)
    <3>1. q = Request(r.from, r.call, "edit", r.op, NoBase, NoBody)
      BY DEF Post, NoBase
    <3>2. /\ q \in Requests /\ CallOf(q) = CallOf(r) /\ ~Done(q) /\ q.at = "sent"
          /\ q.held = {access[r.from]} /\ q.base <= version /\ q.answer.version <= version
      BY <1>2, <1>3, <3>1, EmptyBody, Sent
    <3>3. Again(n) \in 0 .. MaxTries + 1
      BY <1>2, <2>3 DEF Again
    <3> HIDE DEF q
    <3> QED BY <1>1, <2>1, <2>3, <3>2, <3>3, ProceedStep DEF q
  <2>4. CASE n > MaxTries /\ Finish(r, "refused")
    BY <1>1, <2>4, FinishStep
  <2> QED BY <1>6, <2>2, <2>3, <2>4 DEF HearConflict
<1>7. CASE HearVersion(r)
  <2> DEFINE v == r.answer.version
             q == Post(r.from, r.call, r.op, v)
  <2>1. q = Request(r.from, r.call, "edit", r.op, IF v = 0 THEN NoBase ELSE v, NoBody)
    BY DEF Post
  <2>2. (IF v = 0 THEN NoBase ELSE v) \in Int /\ (IF v = 0 THEN NoBase ELSE v) <= version
    BY <1>2, <1>3
  <2>3. /\ q \in Requests /\ CallOf(q) = CallOf(r) /\ ~Done(q) /\ q.at = "sent"
        /\ q.held = {access[r.from]} /\ q.base <= version /\ q.answer.version <= version
    BY <1>2, <1>3, <2>1, <2>2, EmptyBody, Sent
  <2>4. ~Done(r) /\ Proceed(r, q, me[r.from].tries)
    BY <1>7 DEF HearVersion, Done
  <2> HIDE DEF q
  <2> QED BY <1>1, <1>2, <2>3, <2>4, ProceedStep
<1>8. CASE HearBoard(r)
  <2>1. ~Done(r) /\ 0 \in 0 .. MaxTries + 1
    BY <1>2, <1>8 DEF HearBoard, Done
  <2>2. CASE r.answer.board[r.op.item] = Gone
    BY <1>1, <1>8, <2>2, FinishStep DEF HearBoard
  <2>3. CASE r.answer.board[r.op.item] # Gone
    <3> DEFINE b == [r.answer.board EXCEPT ![r.op.item] = <<r.from, r.call>>]
               q == Put(r.from, r.call, r.op, r.answer.board)
    <3>1. b \in Board
      BY <1>2 DEF Board, Call, Op
    <3>2. q = Request(r.from, r.call, "put", r.op, NoBase, b)
      BY DEF Put
    <3>3. /\ q \in Requests /\ CallOf(q) = CallOf(r) /\ ~Done(q) /\ q.at = "sent"
          /\ q.held = {access[r.from]} /\ q.base <= version /\ q.answer.version <= version
      BY <1>2, <1>3, <3>1, <3>2, Sent
    <3>4. Proceed(r, q, 0)
      BY <1>8, <2>3 DEF HearBoard
    <3> HIDE DEF q
    <3> QED BY <1>1, <2>1, <3>3, <3>4, ProceedStep
  <2> QED BY <2>2, <2>3
<1> QED BY <1>4, <1>5, <1>6, <1>7, <1>8 DEF Hear

LEMMA GiveUpStep ==
  ASSUME EditInv, NEW c \in Caller, GiveUp(c)
  PROVE  EditInv'
<1> USE DEF EditInv
<1> DEFINE k == me[c].call
           x == <<c, k>>
<1>1. /\ k \in 1 .. MaxCalls /\ x \in Call /\ me[c].at = "wait" /\ told[x] = "asked"
      /\ me[c] \in [at : {"idle", "wait"}, call : 0 .. MaxCalls,
                    tries : 0 .. MaxTries + 1, seen : 0 .. version]
  BY RemoteEditAssumption DEF GiveUp, CallsOK, TypeOK, Call
<1>2. /\ me' = [me EXCEPT ![c].at = "idle"] /\ net' \subseteq net
      /\ told' = [told EXCEPT ![x] = "failed"]
      /\ UNCHANGED <<board, version, access, changes, landed>>
  BY DEF GiveUp
<1>3. /\ me' \in [Caller -> [at : {"idle", "wait"}, call : 0 .. MaxCalls,
                           tries : 0 .. MaxTries + 1, seen : 0 .. version]]
      /\ \A d \in Caller : me'[d].call = me[d].call
      /\ \A d \in Caller : me'[d].at = IF d = c THEN "idle" ELSE me[d].at
  BY <1>2 DEF TypeOK
<1>4. TypeOK'
  BY <1>2, <1>3 DEF TypeOK
<1>5. CallsOK'
  <2>1. told' \in [Call -> {"none", "asked"} \cup CallOutcome!Answers]
    BY <1>2 DEF CallsOK, CallOutcome!Answers
  <2>2. ASSUME NEW d \in Caller, NEW j \in 1 .. MaxCalls
        PROVE  /\ told'[<<d, j>>] = "asked" <=> me'[d].at = "wait" /\ j = me'[d].call
               /\ j > me'[d].call => told'[<<d, j>>] = "none"
               /\ told'[<<d, j>>] = "none" => landed'[<<d, j>>] = 0
    <3>1. CASE d = c /\ j = k
      <4>1. told'[<<d, j>>] = "failed"
        BY <1>1, <1>2, <3>1 DEF CallsOK
      <4> QED BY <1>1, <1>3, <3>1, <4>1
    <3>2. CASE ~(d = c /\ j = k)
      <4>1. told'[<<d, j>>] = told[<<d, j>>]
        BY <1>1, <1>2, <3>2 DEF CallsOK, Call
      <4> QED BY <1>1, <1>2, <1>3, <3>2, <4>1 DEF CallsOK
    <3> QED BY <3>1, <3>2
  <2>3. \A d \in Caller : me'[d].at = "wait" => me'[d].call > 0
    BY <1>3 DEF CallsOK
  <2> QED BY <1>2, <2>1, <2>2, <2>3 DEF CallsOK
<1>6. ASSUME NEW q \in net' PROVE RequestOK(q)'
  <2>1. q \in net /\ q \in Requests /\ RequestOK(q)
    BY <1>2 DEF TypeOK
  <2>2. CallOf(q) \in Call
    BY <2>1 DEF Requests, CallOf, Call
  <2>3. told'[CallOf(q)] \in {told[CallOf(q)], "failed"}
    BY <1>2, <2>2 DEF CallsOK
  <2> QED BY <1>2, <2>1, <2>3 DEF RequestOK, CallOf, Done, Authorizes, Grant
<1> QED BY <1>4, <1>5, <1>6

LEMMA LoadStep ==
  ASSUME EditInv, NEW c \in Caller, Load(c)
  PROVE  EditInv'
<1> USE DEF EditInv
<1>1. /\ me' = [me EXCEPT ![c].seen = version]
      /\ UNCHANGED <<board, version, access, changes, net, told, landed>>
  BY DEF Load
<1>2. /\ me' \in [Caller -> [at : {"idle", "wait"}, call : 0 .. MaxCalls,
                           tries : 0 .. MaxTries + 1, seen : 0 .. version]]
      /\ \A d \in Caller : me'[d].call = me[d].call /\ me'[d].at = me[d].at
  BY <1>1 DEF TypeOK
<1>3. TypeOK'
  BY <1>1, <1>2 DEF TypeOK
<1>4. CallsOK'
  BY <1>1, <1>2 DEF CallsOK
<1>5. \A q \in net' : RequestOK(q)'
  BY <1>1 DEF RequestOK, CallOf, Done, Authorizes, Grant
<1> QED BY <1>3, <1>4, <1>5

LEMMA BeginStep ==
  ASSUME EditInv, NEW c \in Caller, NEW op \in Ops, Begin(c, op)
  PROVE  EditInv'
<1> USE DEF EditInv
<1> DEFINE k == me[c].call + 1
           x == <<c, k>>
           m == [at |-> "wait", call |-> k, tries |-> 0, seen |-> SeenBy(c)]
           q == IF op.name = "replace" THEN Raw(c, k, op) ELSE Post(c, k, op, SeenBy(c))
<1>1. /\ me[c].call \in 0 .. MaxCalls /\ me[c].seen \in 0 .. version /\ me[c].at = "idle"
      /\ version \in Nat \ {0} /\ MaxCalls \in Nat /\ MaxTries \in Nat /\ op \in Op
  BY RemoteEditAssumption, RemoteEditData DEF TypeOK, Begin
<1>2. k \in 1 .. MaxCalls /\ x \in Call /\ SeenBy(c) \in 0 .. version
  BY <1>1 DEF Begin, SeenBy, Call
<1>3. told[x] = "none" /\ landed[x] = 0
  BY <1>1, <1>2 DEF CallsOK
<1>4. /\ me' = [me EXCEPT ![c] = m] /\ net' = net \cup {q} /\ told' = [told EXCEPT ![x] = "asked"]
      /\ UNCHANGED <<board, version, access, changes, landed>>
  BY DEF Begin
<1>5. /\ q \in Requests /\ CallOf(q) = x /\ ~Done(q) /\ q.at = "sent" /\ q.from = c
      /\ q.held = {access[c]} /\ q.base <= version /\ q.answer.version <= version
  <2>1. NoBase \in Int /\ NoBase <= version /\ "raw" \in Kinds /\ "edit" \in Kinds
    BY <1>1 DEF NoBase, Kinds
  <2>2. CASE op.name = "replace"
    <3>1. q = Request(c, k, "raw", op, NoBase, NoBody)
      BY <2>2 DEF Raw
    <3> QED BY <1>1, <1>2, <2>1, <3>1, EmptyBody, Sent
  <2>3. CASE op.name # "replace"
    <3> DEFINE base == IF SeenBy(c) = 0 THEN NoBase ELSE SeenBy(c)
    <3>1. q = Request(c, k, "edit", op, base, NoBody)
      BY <2>3 DEF Post
    <3>2. base \in Int /\ base <= version
      BY <1>1, <1>2, <2>1
    <3> HIDE DEF base
    <3> QED BY <1>1, <1>2, <2>1, <3>1, <3>2, EmptyBody, Sent
  <2> QED BY <2>2, <2>3
<1> HIDE DEF q
<1>6. \A r \in net : r \in Requests /\ RequestOK(r) /\ CallOf(r) # x /\ CallOf(r) \in Call
  BY <1>3 DEF TypeOK, Requests, CallOf, Call, RequestOK
<1>7. TypeOK'
  <2>1. m \in [at : {"idle", "wait"}, call : 0 .. MaxCalls,
               tries : 0 .. MaxTries + 1, seen : 0 .. version]
    BY <1>1, <1>2
  <2>2. me' \in [Caller -> [at : {"idle", "wait"}, call : 0 .. MaxCalls,
                          tries : 0 .. MaxTries + 1, seen : 0 .. version']]
    BY <1>4, <2>1 DEF TypeOK
  <2>3. net' \in SUBSET Requests
    BY <1>4, <1>5 DEF TypeOK
  <2>4. \A p, o \in net' : CallOf(p) = CallOf(o) => p = o
    BY <1>4, <1>5, <1>6 DEF TypeOK
  <2>5. \A p \in net' : p.base <= version /\ p.answer.version <= version
    BY <1>4, <1>5 DEF TypeOK
  <2> QED BY <1>4, <2>2, <2>3, <2>4, <2>5 DEF TypeOK
<1>8. CallsOK'
  <2>1. told' \in [Call -> {"none", "asked"} \cup CallOutcome!Answers]
    BY <1>4 DEF CallsOK
  <2>2. ASSUME NEW d \in Caller, NEW j \in 1 .. MaxCalls
        PROVE  /\ told'[<<d, j>>] = "asked" <=> me'[d].at = "wait" /\ j = me'[d].call
               /\ j > me'[d].call => told'[<<d, j>>] = "none"
               /\ told'[<<d, j>>] = "none" => landed'[<<d, j>>] = 0
    <3>1. CASE d = c /\ j = k
      <4>1. told'[x] = "asked"
        BY <1>2, <1>4 DEF CallsOK
      <4>2. me'[c] = m
        BY <1>4 DEF TypeOK
      <4> QED BY <1>2, <3>1, <4>1, <4>2
    <3>2. CASE d = c /\ j # k
      <4>1. told'[<<d, j>>] = told[<<d, j>>]
        BY <1>2, <1>4, <3>2 DEF CallsOK, Call
      <4>2. me'[c] = m
        BY <1>4 DEF TypeOK
      <4> QED BY <1>1, <1>2, <1>4, <3>2, <4>1, <4>2 DEF CallsOK
    <3>3. CASE d # c
      <4>1. told'[<<d, j>>] = told[<<d, j>>]
        BY <1>2, <1>4, <3>3 DEF CallsOK, Call
      <4>2. me'[d] = me[d]
        BY <1>4, <3>3 DEF TypeOK
      <4> QED BY <1>4, <4>1, <4>2 DEF CallsOK
    <3> QED BY <3>1, <3>2, <3>3
  <2>3. \A d \in Caller : me'[d].at = "wait" => me'[d].call > 0
    BY <1>2, <1>4 DEF CallsOK, TypeOK
  <2> QED BY <1>4, <2>1, <2>2, <2>3 DEF CallsOK
<1>9. ASSUME NEW r \in net' PROVE RequestOK(r)'
  <2>1. CASE r \in net
    <3>1. told'[CallOf(r)] = told[CallOf(r)]
      BY <1>4, <1>6, <2>1 DEF CallsOK
    <3> QED BY <1>4, <1>6, <2>1, <3>1 DEF RequestOK, CallOf, Done, Authorizes, Grant
  <2>2. CASE r = q
    <3>1. told'[x] = "asked" /\ landed'[x] = 0 /\ access'[q.from] \in q.held
      BY <1>2, <1>3, <1>4, <1>5 DEF CallsOK
    <3> QED BY <1>5, <2>2, <3>1 DEF RequestOK, CallOf, Done
  <2> QED BY <1>4, <2>1, <2>2
<1> QED BY <1>7, <1>8, <1>9

-----------------------------------------------------------------------------
(* The theorems.                                                           *)

LEMMA EditStep == EditInv /\ [Next]_vars => EditInv'
<1> SUFFICES ASSUME EditInv, [Next]_vars PROVE EditInv'
  OBVIOUS
<1>1. ASSUME NEW c \in Caller, Ask(c) \/ GiveUp(c)
      PROVE  EditInv'
  BY <1>1, LoadStep, BeginStep, GiveUpStep DEF Ask
<1>2. ASSUME NEW r \in net, Serve(r) \/ Hear(r) \/ Lose(r)
      PROVE  EditInv'
  BY <1>2, ServeStep, HearStep, LoseStep
<1>3. CASE AccessChanges
  BY <1>3, AccessStep
<1>4. CASE UNCHANGED vars
  BY <1>4 DEF vars, EditInv, TypeOK, CallsOK, RequestOK, CallOf, Done, Authorizes, Grant
<1> QED BY <1>1, <1>2, <1>3, <1>4 DEF Next

\* The invariant the theorems below rest on.
LEMMA EditInvHolds == Spec => []EditInv
BY EditInitially, EditStep, PTL DEF Spec

\* A caller has at most one request of a call under way, and nobody has seen a
\* version that is not stored.
THEOREM EditTypes == Spec => []TypeOK
<1>1. EditInv => TypeOK
  BY DEF EditInv
<1> QED BY <1>1, EditInvHolds, PTL

LEMMA OnlyWritesLand ==
  ASSUME EditInv, NEW r \in net, Serve(r)
  PROVE  \/ ApplyOp(r) \/ SetContent(r)
         \/ UNCHANGED <<told, landed>>
BY DEF Serve, Admit, Authorize, Show, ApplyConflict, ApplyInvalid, WriteFails

\* A write that lands was authorized by a token and a grant that its caller had at
\* some moment since the request was sent, and the grant covers what it writes: an
\* op under a scoped grant stays in its subtree, and only a grant on the whole
\* board replaces it.
THEOREM WritesWereGranted == Spec => WritesAreGranted
<1> DEFINE Good == \A r \in net :
                     landed'[CallOf(r)] > landed[CallOf(r)]
                     => /\ \E a \in r.held : a.token
                        /\ \E a \in r.held : Allows(r.from, a, r)
<1>1. EditInv /\ [Next]_vars => [Good]_vars
  <2> SUFFICES ASSUME EditInv, [Next]_vars, NEW r \in net,
                      landed'[CallOf(r)] > landed[CallOf(r)]
               PROVE  /\ \E a \in r.held : a.token
                      /\ \E a \in r.held : Allows(r.from, a, r)
    OBVIOUS
  <2> USE DEF EditInv
  <2>1. r \in Requests /\ CallOf(r) \in Call /\ landed \in [Call -> {0, 1}] /\ RequestOK(r)
    BY DEF TypeOK, CallsOK, Requests, CallOf, Call
  <2>2. landed' # landed
    BY <2>1
  <2>3. PICK s \in net : ApplyOp(s) \/ SetContent(s)
    <3>1. ASSUME NEW c \in Caller, Ask(c) \/ GiveUp(c)
          PROVE  FALSE
      BY <2>2, <3>1 DEF Ask, Load, Begin, GiveUp
    <3>2. ASSUME NEW s \in net, Hear(s) \/ Lose(s)
          PROVE  FALSE
      BY <2>2, <3>2 DEF Hear, HearDone, HearRefused, HearConflict, HearVersion, HearBoard,
                        Finish, Proceed, Lose
    <3>3. ~AccessChanges
      BY <2>2 DEF AccessChanges, AddGrant, RemoveGrant, RevokeToken, ChangeAccess
    <3>4. ~UNCHANGED vars
      BY <2>2 DEF vars
    <3>5. PICK s \in net : Serve(s)
      BY <3>1, <3>2, <3>3, <3>4 DEF Next
    <3> QED BY <2>2, <3>5, OnlyWritesLand
  <2>4. s.at = "authorized" /\ landed' = [landed EXCEPT ![CallOf(s)] = @ + 1] /\ s \in Requests
    BY <2>3 DEF ApplyOp, SetContent, Land, TypeOK
  <2>5. CallOf(s) = CallOf(r)
    BY <2>1, <2>4
  <2>6. r = s
    BY <2>5 DEF TypeOK
  <2>7. r.at = "authorized" /\ (ApplyOp(r) \/ SetContent(r)) /\ r.kind # "raw"
    BY <2>3, <2>4, <2>6 DEF ApplyOp, SetContent
  <2>8. PICK a \in r.held : Authorizes(Grant(r.from, a), r)
    BY <2>1, <2>7 DEF RequestOK
  <2>9. CASE ApplyOp(r)
    <3>1. Covers(r.root, r.op.item) /\ r.kind # "put"
      BY <2>9 DEF ApplyOp
    <3>2. Allows(r.from, a, r)
      BY <2>8, <3>1 DEF Allows, Authorizes, Covers
    <3> QED BY <2>1, <2>7, <3>2 DEF RequestOK
  <2>10. CASE SetContent(r)
    <3>1. r.kind = "put"
      BY <2>10 DEF SetContent
    <3>2. Allows(r.from, a, r)
      BY <2>8, <3>1 DEF Allows, Authorizes
    <3> QED BY <2>1, <2>7, <3>2 DEF RequestOK
  <2> QED BY <2>7, <2>9, <2>10
<1> QED BY <1>1, EditInvHolds, PTL DEF Spec, WritesAreGranted

\* Every step is a step of some call as RemoteCall has it, or none.
LEMMA CallStep ==
  ASSUME EditInv, [Next]_vars
  PROVE  [CallOutcome!Next]_(CallOutcome!callVars)
<1> USE DEF EditInv, CallOutcome!callVars
<1>0. told \in [Call -> {"none", "asked"} \cup CallOutcome!Answers] /\ landed \in [Call -> {0, 1}]
  BY DEF CallsOK
<1>1. ASSUME NEW c \in Caller, NEW op \in Ops, Begin(c, op)
      PROVE  CallOutcome!Next
  <2> DEFINE x == <<c, me[c].call + 1>>
  <2>1. x \in Call /\ told[x] = "none"
    <3>1. me[c].call \in 0 .. MaxCalls /\ me[c].call + 1 <= MaxCalls /\ MaxCalls \in Nat
      BY <1>1, RemoteEditAssumption DEF Begin, TypeOK
    <3>2. me[c].call + 1 \in 1 .. MaxCalls /\ me[c].call + 1 > me[c].call
      BY <3>1
    <3> QED BY <3>2 DEF CallsOK, Call
  <2>2. CallOutcome!Ask(x)
    BY <1>1, <2>1 DEF Begin, CallOutcome!Ask
  <2> QED BY <2>1, <2>2 DEF CallOutcome!Next
<1>2. ASSUME NEW c \in Caller, GiveUp(c)
      PROVE  CallOutcome!Next
  <2> DEFINE x == <<c, me[c].call>>
  <2>1. x \in Call /\ told[x] = "asked"
    BY <1>2, RemoteEditAssumption DEF GiveUp, TypeOK, CallsOK, Call
  <2>2. CallOutcome!Tell(x, "failed")
    BY <1>2, <2>1 DEF GiveUp, CallOutcome!Tell
  <2> QED BY <2>1, <2>2 DEF CallOutcome!Next, CallOutcome!Answers
<1>3. ASSUME NEW r \in net, NEW b, Land(r, b), r.at = "authorized"
      PROVE  CallOutcome!Next
  <2>1. CallOf(r) \in Call /\ RequestOK(r)
    BY DEF TypeOK, Requests, CallOf, Call
  <2>2. CallOutcome!Land(CallOf(r))
    BY <1>0, <1>3, <2>1 DEF Land, RequestOK, Done, CallOutcome!Land
  <2> QED BY <2>1, <2>2 DEF CallOutcome!Next
<1>4. ASSUME NEW r \in net, NEW outcome \in {"done", "refused"}, Heard(r), Finish(r, outcome),
             outcome = "done" <=> Done(r)
      PROVE  CallOutcome!Next
  <2>1. CallOf(r) \in Call /\ RequestOK(r) /\ told[CallOf(r)] = "asked"
    BY <1>4, HeardFacts
  <2>2. CallOutcome!Tell(CallOf(r), outcome)
    BY <1>4, <2>1 DEF Finish, RequestOK, CallOutcome!Tell
  <2> QED BY <2>1, <2>2 DEF CallOutcome!Next, CallOutcome!Answers
<1>5. ASSUME NEW r \in net, Hear(r)
      PROVE  CallOutcome!Next \/ UNCHANGED <<told, landed>>
  <2>1. Heard(r)
    BY <1>5 DEF Hear, HearDone, HearRefused, HearConflict, HearVersion, HearBoard
  <2>2. CASE HearDone(r)
    BY <1>4, <2>1, <2>2 DEF HearDone, Done, Heard
  <2>3. CASE HearRefused(r)
    BY <1>4, <2>1, <2>3 DEF HearRefused, Done
  <2>4. CASE HearConflict(r)
    <3>1. ~Done(r)
      BY <2>4 DEF HearConflict, Done
    <3> QED BY <1>4, <2>1, <2>4, <3>1 DEF HearConflict, Proceed
  <2>5. CASE HearVersion(r)
    BY <2>5 DEF HearVersion, Proceed
  <2>6. CASE HearBoard(r)
    <3>1. ~Done(r)
      BY <2>6 DEF HearBoard, Done
    <3> QED BY <1>4, <2>1, <2>6, <3>1 DEF HearBoard, Proceed
  <2> QED BY <1>5, <2>2, <2>3, <2>4, <2>5, <2>6 DEF Hear
<1>6. ASSUME NEW r \in net, Serve(r)
      PROVE  CallOutcome!Next \/ UNCHANGED <<told, landed>>
  BY <1>3, <1>6, OnlyWritesLand DEF ApplyOp, SetContent
<1>7. ASSUME NEW r \in net, Lose(r)
      PROVE  UNCHANGED <<told, landed>>
  BY <1>7 DEF Lose
<1>8. ASSUME NEW c \in Caller, Load(c)
      PROVE  UNCHANGED <<told, landed>>
  BY <1>8 DEF Load
<1>9. CASE AccessChanges
  BY <1>9 DEF AccessChanges, AddGrant, RemoveGrant, RevokeToken, ChangeAccess
<1>10. CASE UNCHANGED vars
  BY <1>10 DEF vars
<1> QED
  BY <1>1, <1>2, <1>5, <1>6, <1>7, <1>8, <1>9, <1>10 DEF Next, Ask

\* A call lands at most once over all its retries, and what its caller is told of it
\* is true and stays true: after "done" it has landed, after "refused" it never will.
THEOREM CallsLandOnce == Spec => ImplementsRemoteCall
<1>1. Init => CallOutcome!Init
  BY DEF Init, CallOutcome!Init
<1>2. EditInv /\ [Next]_vars => [CallOutcome!Next]_(CallOutcome!callVars)
  BY CallStep
<1> QED
  BY <1>1, <1>2, EditInvHolds, PTL DEF Spec, ImplementsRemoteCall, CallOutcome!Spec
=============================================================================
