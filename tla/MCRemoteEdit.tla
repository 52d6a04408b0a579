---- MODULE MCRemoteEdit ----
EXTENDS RemoteEdit, TLC

CONSTANTS cli, tui, x, y

\* The TUI edits the whole board, the CLI may have a grant on x only.
MCStart ==
  cli :> [token |-> TRUE, perm |-> Write, root |-> x] @@
  tui :> [token |-> TRUE, perm |-> Write, root |-> Whole]

MCGrants == {[perm |-> Write, root |-> Whole], [perm |-> Read, root |-> Whole]}

\* Ops in and out of that grant, a delete, and a replace of the other item.
MCOps ==
  {[name |-> "edit", item |-> x, root |-> Whole],
   [name |-> "edit", item |-> y, root |-> Whole],
   [name |-> "delete", item |-> x, root |-> x],
   [name |-> "replace", item |-> y, root |-> Whole]}
====
