------------------------------- MODULE RemoteCall -------------------------------
(***************************************************************************)
(* What a call on a cloud board may do, as its caller sees it: it lands at *)
(* most once, "done" is said only of a call that has landed, and one that  *)
(* was refused never lands.  A caller that is told of a failed connection  *)
(* knows nothing: the call has landed, or has not, or will.                *)
(***************************************************************************)
CONSTANT Call

VARIABLES
  told,    \* [Call -> what its caller has been told]
  landed   \* [Call -> how many times it has changed the board]

callVars == <<told, landed>>

Answers == {"done", "refused", "failed"}

Init ==
  /\ told = [x \in Call |-> "none"]
  /\ landed = [x \in Call |-> 0]

Ask(x) ==
  /\ told[x] = "none"
  /\ told' = [told EXCEPT ![x] = "asked"]
  /\ UNCHANGED landed

Land(x) ==
  /\ told[x] \in {"asked", "failed"}
  /\ landed[x] = 0
  /\ landed' = [landed EXCEPT ![x] = 1]
  /\ UNCHANGED told

Tell(x, answer) ==
  /\ told[x] = "asked"
  /\ answer = "done" => landed[x] = 1
  /\ answer = "refused" => landed[x] = 0
  /\ told' = [told EXCEPT ![x] = answer]
  /\ UNCHANGED landed

Next == \E x \in Call : Ask(x) \/ Land(x) \/ \E answer \in Answers : Tell(x, answer)

Spec == Init /\ [][Next]_callVars
=============================================================================
