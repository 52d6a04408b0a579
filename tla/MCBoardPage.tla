----------------------------- MODULE MCBoardPage -----------------------------
(* BoardPage on two sessions and one pane: each start lets some things happen. *)
EXTENDS BoardPage, TLC

CONSTANTS s, t, p, q

Things == {s, t, "prompt", "line", "edit", "pin", "tick", "kill", "page", "drop"}
Often(f) == [x \in Things |-> IF x \in DOMAIN f THEN f[x] ELSE 0]

Status == Often(s :> 1 @@ "prompt" :> 1 @@ "line" :> 2 @@ "kill" :> 1)
Inject == Often(s :> 1 @@ "prompt" :> 2 @@ "edit" :> 1 @@ "pin" :> 1 @@ "tick" :> 2 @@ "kill" :> 1)
News == Often(s :> 1 @@ "prompt" :> 2 @@ "edit" :> 2 @@ "kill" :> 1)
Panes == Often(s :> 2 @@ t :> 1 @@ "kill" :> 1)
Paged == Often(s :> 1 @@ "edit" :> 2 @@ "page" :> 1 @@ "drop" :> 1)
AllStarts == {Status, Inject, News, Panes, Paged}
=============================================================================
