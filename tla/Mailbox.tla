------------------------------- MODULE Mailbox ------------------------------
(***************************************************************************)
(* What the server promises about requests, with no threads, locks or      *)
(* sockets in it.  Requests that were accepted wait in line.  They are     *)
(* served one at a time and in the order in which they were accepted; each *)
(* one is answered at most once, and a client's answers come in the order  *)
(* of its requests.  The line is never longer than QUEUE_SIZE + 1.         *)
(* Requests implements this module.                                        *)
(***************************************************************************)
EXTENDS Integers, Sequences

CONSTANTS
  Clients,      \* the connected clients
  Numbers,      \* the numbers clients give to their requests
  QUEUE_SIZE,   \* length of line beyond which nobody joins it
  NoRequest     \* nothing is being served

VARIABLES
  line,       \* accepted requests, each a record with a client and an idx
  serving,    \* the request being served, or NoRequest
  answered    \* the idx of the last answer each client got

vars == <<line, serving, answered>>

Init ==
  /\ line = <<>>
  /\ serving = NoRequest
  /\ answered = [c \in Clients |-> 0]

\* A client's requests are accepted in the order in which it sent them.
Accept ==
  /\ Len(line) <= QUEUE_SIZE
  /\ \E r \in [client : Clients, idx : Numbers] :
       /\ \A i \in 1..Len(line) :
            line[i].client = r.client => line[i].idx < r.idx
       /\ line' = Append(line, r)
  /\ UNCHANGED <<serving, answered>>

Serve ==
  /\ serving = NoRequest /\ line # <<>>
  /\ serving' = Head(line)
  /\ line' = Tail(line)
  /\ UNCHANGED answered

Answer ==
  /\ serving # NoRequest
  /\ serving.idx > answered[serving.client]
  /\ answered' = [answered EXCEPT ![serving.client] = serving.idx]
  /\ serving' = NoRequest
  /\ UNCHANGED line

\* The request could not be executed, or the client does not take the answer.
GiveUp ==
  /\ serving # NoRequest
  /\ serving' = NoRequest
  /\ UNCHANGED <<line, answered>>

Next == Accept \/ Serve \/ Answer \/ GiveUp

Spec == Init /\ [][Next]_vars
=============================================================================
