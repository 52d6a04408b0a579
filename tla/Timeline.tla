------------------------------ MODULE Timeline ------------------------------
(***************************************************************************)
(* What the shared undo journal promises when every writer journals and    *)
(* nothing fails: one editing history per board, with a cursor.  An edit   *)
(* drops what was undone, undo and redo move the cursor, and no two of     *)
(* these steps ever mix.                                                   *)
(***************************************************************************)
EXTENDS Naturals, SequencesExt

CONSTANTS Content,  \* what a board may read
          Missing,  \* a board that does not exist yet
          Depth     \* how many steps back the history goes

VARIABLES past, now, future

vars == <<past, now, future>>

Init == now \in {Missing} \cup Content /\ past = <<>> /\ future = <<>>

Create == /\ now = Missing
          /\ now' # Missing /\ now' \in Content
          /\ UNCHANGED <<past, future>>

Latest(s) == IF Len(s) > Depth THEN Tail(s) ELSE s

Change == /\ now # Missing
          /\ now' \in Content \ {now}
          /\ past' = Latest(Append(past, now))
          /\ future' = <<>>

Back == /\ past # <<>>
        /\ now' = Last(past)
        /\ past' = Front(past)
        /\ future' = Append(future, now)

Forth == /\ future # <<>>
         /\ now' = Last(future)
         /\ future' = Front(future)
         /\ past' = Append(past, now)

Next == Create \/ Change \/ Back \/ Forth

Spec == Init /\ [][Next]_vars
=============================================================================
