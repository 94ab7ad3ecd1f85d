------------------------------- MODULE MCStop -------------------------------
(* Stop with one of the three threads that are created before the watchdog *)
(* (they are alike here), two interrupts, and a watchdog of two waits.     *)
EXTENDS Stop

MCEarly == <<"resp">>
=============================================================================
