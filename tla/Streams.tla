------------------------------ MODULE Streams -------------------------------
(***************************************************************************)
(* The streams of the server.  run_response creates a stream, a datagram   *)
(* socket of its own, for a client that asks for one; run_stream sends the *)
(* position on every stream again and again, and removes a stream on which *)
(* it cannot; run_server and run_response remove a stream together with    *)
(* the client that they drop.  All three look a stream up under one lock   *)
(* of the pool and act on it under the next, and change strm_set under     *)
(* none.                                                                   *)
(*                                                                         *)
(* Each client keeps the slot it has from the start: how clients come, and *)
(* the descriptors of their connections, are a matter of Clients.  What a  *)
(* client asks for is the time, as the client library does.                *)
(***************************************************************************)
EXTENDS Integers, FiniteSetsExt

CONSTANTS
  MAX_CLIENTS,  \* slots of client_arr, one for each client
  MaxAsks,      \* bound: requests for a stream
  MaxStreams,   \* bound: streams that can be open at a time
  Leavers       \* bound: clients that may leave; the others stay

ASSUME StreamsAssumption ==
  /\ MAX_CLIENTS \in Nat \ {0}
  /\ MaxAsks \in Nat /\ MaxStreams \in Nat \ {0}
  /\ Leavers \subseteq 1..MAX_CLIENTS

VARIABLES
  running,     \* player->running
  signalled,   \* is SIGUSR1 pending for the stream thread?
  peer,        \* "open", or "left": hung up, or sent what is no message
  box,         \* the client's end of its stream
  waiting,     \* clients whose request is in the queue
  asked,       \* how many requests there were
  client_arr,  \* the slots
  fds,         \* streams the process has open: descriptor, number of stream
  made,        \* streams created so far
  strm_set,    \* descriptors that the stream thread selects on
  pc,          \* where the three threads are
  whom,        \* client that the thread serves or drops, or 0
  stream_fd,   \* descriptor in the thread's hand, or 0
  which,       \* number of the stream it meant by that (history)
  idx,         \* slot it found
  word,        \* strm_set as the thread read it to change one bit
  write_set,   \* the stream thread's copy of strm_set
  turn,        \* its loop over the slots
  promised,    \* clients answered that they have a stream (history)
  excused,     \* clients that did not take what was sent, or whose stream was
               \*   looked at before its function was set (history)
  impatient,   \* has a client left with its request unanswered? (history)
  doubled,     \* has a thread acted on a descriptor that by then stood for
               \*   another stream, or for none, or begun to remove one that
               \*   was still being added? (history)
  raced,       \* was an update of strm_set lost? (history)
  caught,      \* was a stream closed between the copy of strm_set and the
               \*   pselect on that copy? (history)
  leaked       \* sockets that were made and not bound to their path (history)

peers   == <<peer, box, waiting, asked>>
pool    == <<client_arr, fds, made>>
hands   == <<whom, stream_fd, which, idx>>
loop    == <<write_set, turn>>
history == <<promised, excused, impatient>>
marks   == <<doubled, raced, caught, leaked>>
vars == <<running, signalled, peers, pool, strm_set, pc, hands, word, loop,
          history, marks>>

Slots   == 1..MAX_CLIENTS
Fds     == 1..MaxStreams
Threads == {"server", "response", "stream"}
Droppers == {"server", "response"}

\* paths: the names of both ends, which come and go together.
Slot == [here : BOOLEAN, stream_fd : Fds \cup {0}, paths : BOOLEAN,
         func : BOOLEAN]
Zeroed == [here |-> FALSE, stream_fd |-> 0, paths |-> FALSE, func |-> FALSE]

StreamOf(s) == client_arr[s].stream_fd
SlotOf(f) == {s \in Slots : StreamOf(s) = f}
FreeFds == {f \in Fds : fds[f] = 0}

\* check_stream_alive, check_stream_is_set.
Alive(s) == client_arr[s].paths /\ StreamOf(s) > 0

\* The new stream, until it is in strm_set.
BeingAdded ==
  IF pc["response"] \in {"get_fd", "add", "adding"}
  THEN {StreamOf(whom["response"])} ELSE {}

Goto(t, l) == pc' = [pc EXCEPT ![t] = l]

\* With FreeHand, the thread forgets the descriptor that it had.
FreeHand(t) == /\ stream_fd' = [stream_fd EXCEPT ![t] = 0]
               /\ which' = [which EXCEPT ![t] = 0]
               /\ idx' = [idx EXCEPT ![t] = 0]

Take(t, f) == /\ stream_fd' = [stream_fd EXCEPT ![t] = f]
              /\ which' = [which EXCEPT ![t] = IF f = 0 THEN 0 ELSE fds[f]]

Init ==
  /\ running = TRUE /\ signalled = FALSE
  /\ peer = [s \in Slots |-> "open"] /\ box = [s \in Slots |-> "unbound"]
  /\ waiting = {} /\ asked = 0
  /\ client_arr = [s \in Slots |-> [Zeroed EXCEPT !.here = TRUE]]
  /\ fds = [f \in Fds |-> 0] /\ made = 0 /\ strm_set = {}
  /\ pc = [t \in Threads |-> IF t = "stream" THEN "head" ELSE "idle"]
  /\ whom = [t \in Droppers |-> 0] /\ stream_fd = [t \in Threads |-> 0]
  /\ which = [t \in Threads |-> 0] /\ idx = [t \in Threads |-> 0]
  /\ word = [t \in Threads |-> {}] /\ write_set = {} /\ turn = 1
  /\ promised = {} /\ excused = {} /\ impatient = FALSE
  /\ doubled = FALSE /\ raced = FALSE /\ caught = FALSE /\ leaked = {}

-----------------------------------------------------------------------------
(* The clients (external to the server).                                   *)

Unanswered(s) == s \in waiting \/ whom["response"] = s

Ask(s) ==
  /\ peer[s] = "open" /\ ~Unanswered(s) /\ running /\ asked < MaxAsks
  /\ waiting' = waiting \cup {s} /\ asked' = asked + 1
  /\ UNCHANGED <<running, signalled, peer, box, pool, strm_set, pc, hands,
                 word, loop, history, marks>>

\* It binds its end to the path of the answer.
Bind(s) ==
  /\ peer[s] = "open" /\ s \in promised /\ box[s] = "unbound"
  /\ box' = [box EXCEPT ![s] = "bound"]
  /\ UNCHANGED <<running, signalled, peer, waiting, asked, pool, strm_set, pc,
                 hands, word, loop, history, marks>>

\* It has seen enough of the time, and stays.
Unbind(s) ==
  /\ peer[s] = "open" /\ box[s] = "bound"
  /\ box' = [box EXCEPT ![s] = "closed"]
  /\ UNCHANGED <<running, signalled, peer, waiting, asked, pool, strm_set, pc,
                 hands, word, loop, history, marks>>

\* The end that it has bound is closed with it; a path that nobody has bound
\* stays so.
Leave(s) ==
  /\ s \in Leavers /\ peer[s] = "open"
  /\ peer' = [peer EXCEPT ![s] = "left"]
  /\ box' = [box EXCEPT ![s] = IF @ = "bound" THEN "closed" ELSE @]
  /\ impatient' = (impatient \/ Unanswered(s))
  /\ promised' = promised \ {s}
  /\ UNCHANGED <<running, signalled, waiting, asked, pool, strm_set, pc, hands,
                 word, loop, excused, marks>>

\* Mutant: no SIGUSR1 for the stream thread.
Stop_Silent ==
  /\ running
  /\ running' = FALSE /\ signalled' = signalled
  /\ UNCHANGED <<peers, pool, strm_set, pc, hands, word, loop, history, marks>>

\* set_player_running(player, false), by any other thread.
Stop ==
  /\ running
  /\ running' = FALSE /\ signalled' = TRUE
  /\ UNCHANGED <<peers, pool, strm_set, pc, hands, word, loop, history, marks>>

-----------------------------------------------------------------------------
(* update_fd_set: a word is read, and written with one bit changed.        *)

ReadWord(t, from, to) ==
  /\ pc[t] = from
  /\ word' = [word EXCEPT ![t] = strm_set]
  /\ Goto(t, to)
  /\ UNCHANGED <<running, signalled, peers, pool, strm_set, hands, loop,
                 history, marks>>

WriteWord(t, from, to, new) ==
  /\ pc[t] = from
  /\ strm_set' = new
  /\ word' = [word EXCEPT ![t] = {}]
  /\ raced' = (raced \/ strm_set # word[t])
  /\ doubled' = \/ doubled \/ fds[stream_fd[t]] # which[t]
                \/ t # "response" /\ stream_fd[t] \in BeingAdded
  /\ Goto(t, to)
  /\ UNCHANGED <<running, signalled, peers, pool, hands, loop, history, caught,
                 leaked>>

FdSet ==
  \/ ReadWord("response", "add", "adding")
  \/ WriteWord("response", "adding", "paths",
               word["response"] \cup {stream_fd["response"]})

\* Mutant: the bit is not cleared.
FdClear_Forgotten(t) ==
  \/ ReadWord(t, "clear", "clearing")
  \/ WriteWord(t, "clearing", IF t = "stream" THEN "lookup" ELSE "remove",
               word[t])

FdClear(t) ==
  \/ ReadWord(t, "clear", "clearing")
  \/ WriteWord(t, "clearing", IF t = "stream" THEN "lookup" ELSE "remove",
               word[t] \ {stream_fd[t]})

-----------------------------------------------------------------------------
(* remove_client_stream, by all three threads.                             *)

\* Where it goes on: in remove_client, or in the loop over the slots.
After(t) == IF t = "stream" THEN "scan" ELSE "zero"

\* It finds the slot of the stream.  remove_client asks for the descriptor
\* once more.
FindStream(t) ==
  /\ pc[t] = "lookup"
  /\ LET f == IF t = "stream" THEN stream_fd[t] ELSE StreamOf(idx[t])
         found == IF f = 0 THEN {} ELSE {s \in SlotOf(f) : Alive(s)}
     IN IF found = {}
        THEN Goto(t, After(t)) /\ FreeHand(t)
        ELSE /\ idx' = [idx EXCEPT ![t] = Min(found)]
             /\ IF t = "stream" THEN UNCHANGED <<stream_fd, which>>
                                ELSE Take(t, f)
             /\ Goto(t, "close")
  /\ UNCHANGED <<running, signalled, peers, pool, strm_set, whom, word, loop,
                 history, marks>>

\* It closes the descriptor, whatever that is by now, and removes the paths.
CloseStream(t) ==
  /\ pc[t] = "close"
  /\ fds' = [fds EXCEPT ![stream_fd[t]] = 0]
  /\ client_arr' = [client_arr EXCEPT ![idx[t]].stream_fd = 0,
                                      ![idx[t]].paths = FALSE]
  /\ doubled' = (doubled \/ fds[stream_fd[t]] # which[t])
  /\ caught' = \/ caught
               \/ pc["stream"] = "pselect" /\ stream_fd[t] \in write_set
  /\ Goto(t, After(t)) /\ FreeHand(t)
  /\ UNCHANGED <<running, signalled, peers, made, strm_set, whom, word, loop,
                 history, raced, leaked>>

-----------------------------------------------------------------------------
(* disconnect_client and remove_client, by run_server and run_response.    *)

\* The server thread finds that a client has left.
ServerDrops(s) ==
  /\ pc["server"] = "idle" /\ running
  /\ peer[s] = "left" /\ client_arr[s].here
  /\ whom' = [whom EXCEPT !["server"] = s]
  /\ Goto("server", "drop")
  /\ UNCHANGED <<running, signalled, peers, pool, strm_set, stream_fd, which,
                 idx, word, loop, history, marks>>

Drop(t) ==
  /\ pc[t] = "drop"
  /\ LET f == StreamOf(whom[t])
     IN /\ Take(t, f)
        /\ Goto(t, IF f > 0 THEN "clear" ELSE "remove")
  /\ UNCHANGED <<running, signalled, peers, pool, strm_set, whom, idx, word,
                 loop, history, marks>>

\* A thread is done with a client.
Done(t) ==
  /\ whom' = [whom EXCEPT ![t] = 0] /\ FreeHand(t)
  /\ Goto(t, "idle")

\* Mutant: without remove_client_stream.
RemoveClient_KeepsStream(t) ==
  /\ pc[t] = "remove"
  /\ IF client_arr[whom[t]].here
     THEN /\ idx' = [idx EXCEPT ![t] = whom[t]]
          /\ Goto(t, "zero")
          /\ UNCHANGED <<whom, stream_fd, which>>
     ELSE Done(t)
  /\ UNCHANGED <<running, signalled, peers, pool, strm_set, word, loop, history,
                 marks>>

RemoveClient(t) ==
  /\ pc[t] = "remove"
  /\ IF client_arr[whom[t]].here
     THEN /\ idx' = [idx EXCEPT ![t] = whom[t]]
          /\ Goto(t, "lookup")
          /\ UNCHANGED <<whom, stream_fd, which>>
     ELSE Done(t)
  /\ UNCHANGED <<running, signalled, peers, pool, strm_set, word, loop, history,
                 marks>>

\* The slot is cleared, a stream that it may hold by now included.
ZeroSlot(t) ==
  /\ pc[t] = "zero"
  /\ client_arr' = [client_arr EXCEPT ![whom[t]] = Zeroed]
  /\ Done(t)
  /\ UNCHANGED <<running, signalled, peers, fds, made, strm_set, word, loop,
                 history, marks>>

Disconnect(t) == Drop(t) \/ FdClear(t) \/ RemoveClient(t) \/ FindStream(t)
                 \/ CloseStream(t) \/ ZeroSlot(t)

-----------------------------------------------------------------------------
(* run_response: execute_command with a request for a stream, and its      *)
(* answer.  It is taken without the broadcast that comes first.            *)

\* dequeue returns nothing once the player stops.
Dequeue(s) ==
  /\ pc["response"] = "idle" /\ running /\ s \in waiting
  /\ waiting' = waiting \ {s}
  /\ whom' = [whom EXCEPT !["response"] = s]
  /\ Goto("response", IF client_arr[s].here /\ Alive(s) THEN "paths"
                                                        ELSE "create")
  /\ UNCHANGED <<running, signalled, peer, box, asked, pool, strm_set, stream_fd,
                 which, idx, word, loop, history, marks>>

Asker == whom["response"]

\* set_new_stream: what it returns is not looked at.
FindClient ==
  /\ pc["response"] = "create"
  /\ Goto("response", IF client_arr[Asker].here THEN "socket" ELSE "paths")
  /\ UNCHANGED <<running, signalled, peers, pool, strm_set, hands, word, loop,
                 history, marks>>

\* The new stream has no function yet.  create_socket_uds may fail before it
\* has a socket, or leave the one it has open when the bind fails.
CreateStream ==
  /\ pc["response"] = "socket"
  /\ \/ /\ FreeFds # {}
        /\ made' = made + 1
        /\ fds' = [fds EXCEPT ![Min(FreeFds)] = made + 1]
        /\ client_arr' = [client_arr EXCEPT
             ![Asker].stream_fd = Min(FreeFds),
             ![Asker].paths = TRUE, ![Asker].func = FALSE]
        /\ box' = [box EXCEPT ![Asker] = "unbound"]
        /\ promised' = promised \ {Asker} /\ excused' = excused \ {Asker}
        /\ Goto("response", "get_fd")
        /\ UNCHANGED leaked
     \/ /\ FreeFds # {}
        /\ made' = made + 1
        /\ fds' = [fds EXCEPT ![Min(FreeFds)] = made + 1]
        /\ leaked' = leaked \cup {Min(FreeFds)}
        /\ Goto("response", "paths")
        /\ UNCHANGED <<client_arr, box, promised, excused>>
     \/ /\ Goto("response", "paths")
        /\ UNCHANGED <<pool, box, promised, excused, leaked>>
  /\ UNCHANGED <<running, signalled, peer, waiting, asked, strm_set, hands, word,
                 loop, impatient, doubled, raced, caught>>

GetStreamFd ==
  /\ pc["response"] = "get_fd"
  /\ LET f == IF client_arr[Asker].here THEN StreamOf(Asker) ELSE 0
     IN /\ Take("response", f)
        /\ Goto("response", IF f > 0 THEN "add" ELSE "paths")
  /\ UNCHANGED <<running, signalled, peers, pool, strm_set, whom, idx, word,
                 loop, history, marks>>

\* Without paths to tell, the answer has status ESERVER.
GetPaths ==
  /\ pc["response"] = "paths"
  /\ Goto("response", IF client_arr[Asker].here /\ client_arr[Asker].paths
                      THEN "trigger" ELSE "deny")
  /\ UNCHANGED <<running, signalled, peers, pool, strm_set, hands, word, loop,
                 history, marks>>

TriggerStream ==
  /\ pc["response"] = "trigger"
  /\ client_arr' = [client_arr EXCEPT ![Asker].func = @ \/ client_arr[Asker].here]
  /\ signalled' = TRUE
  /\ Goto("response", "answer")
  /\ UNCHANGED <<running, peers, fds, made, strm_set, hands, word, loop,
                 history, marks>>

\* A client that cannot be answered is dropped.
Answer ==
  /\ pc["response"] \in {"answer", "deny"}
  /\ IF peer[Asker] = "open"
     THEN /\ Done("response")
          /\ promised' = IF pc["response"] = "answer"
                         THEN promised \cup {Asker} ELSE promised
     ELSE Goto("response", "drop") /\ UNCHANGED <<hands, promised>>
  /\ UNCHANGED <<running, signalled, peers, pool, strm_set, word, loop, excused,
                 impatient, marks>>

-----------------------------------------------------------------------------
(* run_stream.                                                             *)

CopySet ==
  /\ pc["stream"] = "head"
  /\ IF running
     THEN Goto("stream", "pselect") /\ write_set' = strm_set
     ELSE Goto("stream", "stop") /\ UNCHANGED write_set
  /\ UNCHANGED <<running, signalled, peers, pool, strm_set, hands, word, turn,
                 history, marks>>

\* pselect fails at once if a descriptor is closed, and returns at once if
\* there is a descriptor at all: a datagram socket without a peer is always
\* writable.  A signal, which may also be SIGCHLD or SIGINT, ends it without
\* a change of the set.
Select ==
  /\ pc["stream"] = "pselect"
  /\ IF \E f \in write_set : fds[f] = 0
     THEN Goto("stream", "stop") /\ UNCHANGED signalled
     ELSE \/ Goto("stream", "check") /\ signalled' = FALSE
          \/ write_set # {} /\ Goto("stream", "check") /\ UNCHANGED signalled
  /\ UNCHANGED <<running, peers, pool, strm_set, hands, word, loop, history,
                 marks>>

\* The end of wait_fd.
CheckStop ==
  /\ pc["stream"] = "check"
  /\ Goto("stream", IF running THEN "scan" ELSE "stop")
  /\ turn' = 1
  /\ UNCHANGED <<running, signalled, peers, pool, strm_set, hands, word,
                 write_set, history, marks>>

\* Mutant: the loop runs to i <= MAX_CLIENTS.
Scan_TooFar ==
  /\ pc["stream"] = "scan"
  /\ IF turn > MAX_CLIENTS + 1
     THEN /\ Goto("stream", "head") /\ write_set' = {} /\ turn' = 1
          /\ UNCHANGED <<stream_fd, which>>
     ELSE /\ turn' = turn + 1 /\ UNCHANGED write_set
          /\ IF turn \in Slots /\ StreamOf(turn) \in write_set
             THEN Goto("stream", "prepare") /\ Take("stream", StreamOf(turn))
             ELSE UNCHANGED <<pc, stream_fd, which>>
  /\ UNCHANGED <<running, signalled, peers, pool, strm_set, whom, idx, word,
                 history, marks>>

\* One turn of the loop over the slots.
Scan ==
  /\ pc["stream"] = "scan"
  /\ IF turn > MAX_CLIENTS
     THEN /\ Goto("stream", "head") /\ write_set' = {} /\ turn' = 1
          /\ UNCHANGED <<stream_fd, which>>
     ELSE /\ turn' = turn + 1 /\ UNCHANGED write_set
          /\ IF StreamOf(turn) \in write_set
             THEN Goto("stream", "prepare") /\ Take("stream", StreamOf(turn))
             ELSE UNCHANGED <<pc, stream_fd, which>>
  /\ UNCHANGED <<running, signalled, peers, pool, strm_set, whom, idx, word,
                 history, marks>>

Fails == Goto("stream", "clear")

\* prepare_stream, get_stream_data, check_stream_alive.
PrepareStream ==
  /\ pc["stream"] = "prepare"
  /\ LET found == {s \in SlotOf(stream_fd["stream"]) : client_arr[s].here}
     IN IF found = {}
        THEN Fails /\ UNCHANGED <<idx, excused>>
        ELSE LET s == Min(found)
             IN /\ excused' = IF client_arr[s].func THEN excused
                                                    ELSE excused \cup {s}
                /\ idx' = [idx EXCEPT !["stream"] = s]
                /\ IF client_arr[s].func /\ Alive(s)
                   THEN Goto("stream", "sendto") ELSE Fails
  /\ UNCHANGED <<running, signalled, peers, pool, strm_set, whom, stream_fd,
                 which, word, loop, promised, impatient, marks>>

Target == idx["stream"]

\* Mutant: ENOENT is an error like any other.
SendTo_Strict ==
  /\ pc["stream"] = "sendto"
  /\ fds[stream_fd["stream"]] # 0
  /\ box[Target] # "closed"
  /\ IF box[Target] = "unbound" THEN Fails /\ UNCHANGED <<stream_fd, which, idx>>
     ELSE Goto("stream", "scan") /\ FreeHand("stream")
  /\ UNCHANGED <<running, signalled, peers, pool, strm_set, whom, word, loop,
                 history, marks>>

\* A client that has not bound its end yet has missed this, and that is all.
SendTo ==
  /\ pc["stream"] = "sendto"
  /\ fds[stream_fd["stream"]] # 0
  /\ box[Target] # "closed"
  /\ Goto("stream", "scan") /\ FreeHand("stream")
  /\ UNCHANGED <<running, signalled, peers, pool, strm_set, whom, word, loop,
                 history, marks>>

\* While the client does not read, sendto blocks, and SIGUSR1 stays blocked
\* too.  What ends it is that the client reads or leaves, SIGCHLD or SIGINT.
Blocks ==
  /\ pc["stream"] = "sendto"
  /\ fds[stream_fd["stream"]] # 0
  /\ box[Target] = "bound"
  /\ Goto("stream", "blocked")
  /\ UNCHANGED <<running, signalled, peers, pool, strm_set, hands, word, loop,
                 history, marks>>

Unblocks ==
  /\ pc["stream"] = "blocked"
  /\ Goto("stream", "scan") /\ FreeHand("stream")
  /\ UNCHANGED <<running, signalled, peers, pool, strm_set, whom, word, loop,
                 history, marks>>

SendToFails ==
  /\ \/ pc["stream"] = "blocked" /\ excused' = excused \cup {Target}
     \/ /\ pc["stream"] = "sendto" /\ box[Target] = "closed"
        /\ excused' = excused \cup {Target}
     \/ /\ pc["stream"] = "sendto" /\ fds[stream_fd["stream"]] = 0
        /\ UNCHANGED excused
  /\ Fails
  /\ UNCHANGED <<running, signalled, peers, pool, strm_set, hands, word, loop,
                 promised, impatient, marks>>

\* set_player_running(player, false)
StreamEnds ==
  /\ pc["stream"] = "stop"
  /\ running' = FALSE
  /\ Goto("stream", "ended")
  /\ UNCHANGED <<signalled, peers, pool, strm_set, hands, word, loop, history,
                 marks>>

-----------------------------------------------------------------------------
Server == (\E s \in Slots : ServerDrops(s)) \/ Disconnect("server")

Response ==
  \/ \E s \in Slots : Dequeue(s)
  \/ FindClient \/ CreateStream \/ GetStreamFd \/ FdSet \/ GetPaths
  \/ TriggerStream \/ Answer \/ Disconnect("response")

StreamThread ==
  \/ CopySet \/ Select \/ CheckStop \/ Scan \/ PrepareStream
  \/ SendTo \/ Blocks \/ Unblocks \/ SendToFails \/ FdClear("stream") \/ FindStream("stream")
  \/ CloseStream("stream") \/ StreamEnds

Next ==
  \/ \E s \in Slots : Ask(s) \/ Bind(s) \/ Unbind(s) \/ Leave(s)
  \/ Stop \/ Server \/ Response \/ StreamThread

Spec == Init /\ [][Next]_vars

\* The stream thread runs, except while it sleeps in pselect with nothing to
\* wake it, or in sendto.
FairSpec ==
  /\ Spec
  /\ WF_vars(StreamThread /\ pc["stream"] # "blocked"
               /\ (pc["stream"] = "pselect" => signalled \/ write_set # {}))

-----------------------------------------------------------------------------
(* Properties.                                                             *)

DropperPcs == {"idle", "drop", "clear", "clearing", "remove", "lookup", "close",
               "zero"}
ResponsePcs == {"create", "socket", "get_fd", "add", "adding", "paths",
                "trigger", "answer", "deny"}
StreamPcs == {"head", "pselect", "check", "scan", "prepare", "sendto",
              "blocked", "clear", "clearing", "lookup", "close", "stop", "ended"}

TypeOK ==
  /\ running \in BOOLEAN /\ signalled \in BOOLEAN
  /\ peer \in [Slots -> {"open", "left"}]
  /\ box \in [Slots -> {"unbound", "bound", "closed"}]
  /\ waiting \subseteq Slots /\ asked \in 0..MaxAsks
  /\ client_arr \in [Slots -> Slot]
  /\ fds \in [Fds -> Nat] /\ made \in Nat
  /\ strm_set \subseteq Fds /\ write_set \subseteq Fds
  /\ pc \in [Threads -> DropperPcs \cup ResponsePcs \cup StreamPcs]
  /\ pc["server"] \in DropperPcs
  /\ pc["response"] \in DropperPcs \cup ResponsePcs
  /\ pc["stream"] \in StreamPcs
  /\ whom \in [Droppers -> Slots \cup {0}]
  /\ stream_fd \in [Threads -> Fds \cup {0}]
  /\ which \in [Threads -> Nat] /\ idx \in [Threads -> Slots \cup {0}]
  /\ word \in [Threads -> SUBSET Fds] /\ turn \in 1..MAX_CLIENTS + 1
  /\ promised \subseteq Slots /\ excused \subseteq Slots
  /\ impatient \in BOOLEAN /\ doubled \in BOOLEAN /\ raced \in BOOLEAN
  /\ caught \in BOOLEAN /\ leaked \subseteq Fds

\* A client that was answered that it has a stream, and is still there, is
\* served: the stream is open, in its slot, with paths and function, and
\* selected on.  The exceptions are the accidents of this code: the client did
\* not take the data in time; the stream thread came between set_new_stream
\* and trigger_stream; an update of strm_set was lost; a thread acted on a
\* descriptor that had come to stand for another stream.
Served(s) ==
  /\ client_arr[s].here /\ Alive(s) /\ client_arr[s].func
  /\ fds[StreamOf(s)] # 0 /\ StreamOf(s) \in strm_set

PromiseIsKept ==
  ~raced /\ ~doubled =>
    \A s \in promised \ excused : Served(s)

\* The stream thread ends, and the player with it, only because the player is
\* stopped, unless a descriptor was closed under it: by a thread that dropped
\* a client between the copy of strm_set and the call of pselect, or because
\* a client left with its request unanswered, or an update of strm_set was
\* lost (wait_fd).
StreamThreadStopsForCause ==
  pc["stream"] = "stop" /\ running =>
    caught \/ impatient \/ raced \/ doubled

\* Every slot with a stream has an open descriptor of its own, and each
\* stream that is open is in a slot, from which it will be closed, but for the
\* socket of a bind that failed; strm_set holds the streams of the slots, but
\* for those being added or removed, and no socket of a failed bind.  Under the
\* same exceptions (create_client_stream, create_socket_uds, remove_client).
Owned == {StreamOf(s) : s \in Slots} \ {0}
BeingRemoved == {stream_fd[t] : t \in {u \in Threads :
                   pc[u] \in {"clearing", "remove", "lookup", "close"}}}

StreamsAreAccounted ==
  ~impatient /\ ~doubled =>
    /\ \A s \in Slots : StreamOf(s) # 0 =>
         fds[StreamOf(s)] # 0 /\ SlotOf(StreamOf(s)) = {s}
    /\ {f \in Fds : fds[f] # 0} \ Owned = leaked
    /\ ~raced => /\ strm_set \subseteq Owned \cup BeingRemoved
                 /\ Owned \subseteq strm_set \cup BeingAdded \cup BeingRemoved

\* Once the player stops, the stream thread ends, unless it is stuck on a
\* client that does not read its stream (set_player_running, wait_fd).
StreamThreadEnds == ~running ~> pc["stream"] \in {"ended", "blocked"}
=============================================================================
