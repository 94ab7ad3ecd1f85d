----------------------------- MODULE MCStreams ------------------------------
(* Streams with the bounds of MCStreams.cfg: two clients and two requests   *)
(* between them; one of the clients may leave at any time, so that the      *)
(* descriptor of its stream may be used for that of the other.              *)
EXTENDS Streams
=============================================================================
