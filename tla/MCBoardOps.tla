----------------------------- MODULE MCBoardOps -----------------------------
(* BoardOps on boards that are short but have what people write by hand:   *)
(* replies, text under an item, blank lines between replies, other         *)
(* indentation, headings and items without ids.                            *)
EXTENDS BoardOps

Texts == {"x", "y"}
Marks == {"none", "open", "done"}
Titles == {"Plan", "Log", "Archive", "Ideas"}

Item(depth, text, id) == [Line("item", depth, text, "open") EXCEPT !.id = id]
Words(depth, text) == Line("text", depth, text, "none")
Section(title, id, lines) == [title |-> title, id |-> id, lines |-> lines]

\* Two threads, a text below an item, and a log.
TidyDoc == <<Section("Plan", 1, <<Blank, Item(0, "x", 2), Words(2, "y"), Item(2, "y", 3), Item(4, "x", 4),
                                  Item(0, "x", 5), Blank>>),
             Section("Log", 6, <<Item(0, "y", 7)>>)>>

\* A blank line above a reply, and an archive.
BlankDoc == <<Section("Plan", 1, <<Item(0, "x", 2), Blank, Item(2, "y", 3)>>),
              Section("Archive", 4, <<Item(0, "y", 5), Blank>>)>>

\* Replies with a tab, items under indented text, nothing numbered yet.
HandDoc == <<Section("Plan", NoId, <<Item(0, "x", 1), Item(1, "y", NoId), Words(4, "y"), Item(6, "x", 2),
                                     Item(4, "y", 3)>>),
             Section("Ideas", NoId, <<>>)>>

Boards == {TidyDoc, BlankDoc, HandDoc}
=============================================================================
