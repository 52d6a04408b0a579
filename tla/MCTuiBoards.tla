---------------------------- MODULE MCTuiBoards ----------------------------
(* TuiBoards on two boards and a cloud board, one line each.               *)
EXTENDS TuiBoards

CONSTANTS A, B

OneLineEach == [b \in {A, B, Cloud} |-> {b}]
BothBoards == {A, B}
AnyStart == {"file", "picker", "dash", "remote"}
=============================================================================
