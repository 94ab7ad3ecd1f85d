------------------------------ MODULE MCPlayer ------------------------------
(* A small instance of Player for TLC: two process ids, so that one can be  *)
(* reused and a second process could be seen beside the first; three files, *)
(* so that the playlist has a middle.  The stream and the server thread     *)
(* stop the player by themselves; a handler of SIGINT, which calls the same *)
(* function, comes on top of them only in the runs that end at a violation. *)
EXTENDS Player

MCPids == {1, 2}
=============================================================================
