---------------------------- MODULE MCRequests ------------------------------
(* Requests with two clients and, besides the server and the response      *)
(* thread, the play thread for safety and the stream thread for liveness.  *)
EXTENDS Requests

MCNobody == {}
MCStoppers == {"strm"}

\* For safety: client 1 sends two requests, client 2 sends one.
MCRequestsSent == <<2, 1>>

\* For liveness, where the state space must be smaller: one request each.
MCOneEach == <<1, 1>>
=============================================================================
