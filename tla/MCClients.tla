----------------------------- MODULE MCClients -----------------------------
(* Clients with a pool of two slots: room for one thread to drop a client  *)
(* while the other works on another.  Four clients connect: two fill the   *)
(* pool, one is too many, and one comes back to a freed slot and number.   *)
(* The second and third send messages: both can be in the pool, so one   *)
(* request waits behind another, next to a first and a fourth that only    *)
(* come, listen and go.                                                    *)
EXTENDS Clients

MCTalkers == {2, 3}
=============================================================================
