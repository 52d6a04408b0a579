------------------------------ MODULE MCMapView ------------------------------
(* MapView on three boards: a thread with a reply among its items, a       *)
(* second section, a log or an archive; one item is not on the board yet.  *)
EXTENDS MapView

Titles == {"Plan", "Log", "Archive"}
Items == {"a", "b", "c", "r", "n"}

Holds(f) == [x \in Thing |-> IF x \in DOMAIN f THEN f[x] ELSE <<>>]

\* nothing numbered yet, no archive
Fresh == [kids |-> Holds("Plan" :> <<"b", "a">> @@ "a" :> <<"r", "c">>
                         @@ Title :> <<"Plan", "Log">>),
          reply |-> {"r"}, marked |-> {}, ids |-> {}]
\* all numbered, an empty section, a thread of replies only
Kept == Numbered([kids |-> Holds("Plan" :> <<"a", "b">> @@ "a" :> <<"r">> @@ "b" :> <<"c">>
                         @@ Title :> <<"Archive", "Plan">>),
          reply |-> {"r"}, marked |-> {}, ids |-> {}])

\* more looks at less; its section comes after the log
Small == [kids |-> Holds("Plan" :> <<"a">> @@ "a" :> <<"r">> @@ Title :> <<"Log", "Plan">>),
          reply |-> {"r"}, marked |-> {}, ids |-> {"a"}]

Starts == {Fresh, Kept, Small}
Looking == [b \in Starts |-> IF b = Small THEN 2 ELSE 1]
Wraps == [x \in Thing |-> IF x = "a" THEN 3 ELSE IF x \in {"b", "Plan"} THEN 2 ELSE 1]
=============================================================================
