------------------------------ MODULE MCOutline ------------------------------
(* Outline on a thread two deep, and on a board with an archive.           *)
EXTENDS Outline

Titles == {"Plan", "Log", "Archive"}
Items == {"a", "b", "r", "n"}

Holds(f) == [x \in Thing |-> IF x \in DOMAIN f THEN f[x] ELSE <<>>]

Thread == [kids |-> Holds("Plan" :> <<"a", "b">> @@ "a" :> <<"r">> @@ Title :> <<"Plan", "Log">>),
           reply |-> {"r"}, marked |-> {}, ids |-> {}]
Kept == Numbered([kids |-> Holds("Archive" :> <<"b">> @@ "Plan" :> <<"a">> @@ "a" :> <<"r">>
                                 @@ Title :> <<"Archive", "Plan">>),
                  reply |-> {}, marked |-> {}, ids |-> {}])

Starts == {Thread, Kept}
Steps == [b \in Starts |-> IF b = Kept THEN 3 ELSE 2]
=============================================================================
