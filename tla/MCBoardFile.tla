---- MODULE MCBoardFile ----
EXTENDS BoardFile

\* Lines are alike; the processes are not.
LineSymmetry == Permutations(Line)

\* Every kind of writer.
AllKinds == {"edit", "save", "rebase", "merge", "undo", "redo"}

\* Every writer but the editor merge, which does not journal.
JournalingKinds == AllKinds \ {"merge"}
====
