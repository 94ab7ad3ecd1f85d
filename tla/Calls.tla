------------------------------- MODULE Calls --------------------------------
(***************************************************************************)
(* What the client library promises to the program that uses it, with no   *)
(* socket, thread or queue in it.  Commands are numbered.  A command is    *)
(* executed at most once and in its turn, perhaps after its call has       *)
(* failed.  A call that succeeds returns the answer to its own command,    *)
(* which has been executed; any other call fails.  OpClient implements     *)
(* this module.                                                            *)
(***************************************************************************)
EXTENDS Integers

VARIABLES
  call,     \* number of the last command asked for
  active,   \* is its call still in progress?
  done,     \* number of the last command the server executed
  got       \* number of the answer the last call returned, 0 if none

vars == <<call, active, done, got>>

Init == call = 0 /\ active = FALSE /\ done = 0 /\ got = 0

Begin ==
  /\ ~active
  /\ call' = call + 1
  /\ active' = TRUE
  /\ got' = 0
  /\ UNCHANGED done

\* Commands may be lost on the way, those that are not keep their order.
Execute ==
  /\ \E k \in (done + 1)..call : done' = k
  /\ UNCHANGED <<call, active, got>>

Succeed ==
  /\ active /\ done = call
  /\ active' = FALSE
  /\ got' = call
  /\ UNCHANGED <<call, done>>

Fail ==
  /\ active
  /\ active' = FALSE
  /\ got' = 0
  /\ UNCHANGED <<call, done>>

Next == Begin \/ Execute \/ Succeed \/ Fail

Spec == Init /\ [][Next]_vars
=============================================================================
