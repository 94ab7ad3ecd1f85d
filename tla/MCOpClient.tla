---------------------------- MODULE MCOpClient ------------------------------
(* OpClient with the bounds of MCOpClient.cfg: two commands, so that the    *)
(* answer to one can be late for the other, or a command and an event of    *)
(* the server; one reconnect; and queues of two, so that an event can wait  *)
(* behind the notice of the connection it came on.                          *)
EXTENDS OpClient
=============================================================================
