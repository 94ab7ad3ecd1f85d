------------------------------ MODULE OpClient ------------------------------
(***************************************************************************)
(* The client library opc: a program's main thread sends numbered commands *)
(* and waits for their answers under an alarm, the receive thread          *)
(* (run_receiver) sorts what comes from the server into two queues and     *)
(* reconnects when the server goes away, and a listener                    *)
(* (my_async_receiver) takes notices from the second queue.                *)
(*                                                                         *)
(* The main thread is the one that calls opc_prepare, issues one command   *)
(* after another under client_mutex, and calls opc_destroy.  The alarm is  *)
(* delivered to it; its handler jumps out of whatever the call was doing,  *)
(* critical sections included.  The server is external: it executes whole  *)
(* commands in order, may say things of its own, and may go away.          *)
(***************************************************************************)
EXTENDS Integers, Sequences

CONSTANTS
  QUEUE_SIZE,      \* length of a queue beyond which enqueue refuses
  MaxConnections,  \* bound: connections the server accepts
  MaxActs          \* bound: commands the program sends and messages the
                   \*   server sends of its own accord, together

ASSUME BoundAssumption ==
  /\ QUEUE_SIZE \in Nat /\ MaxActs \in Nat
  /\ MaxConnections \in Nat \ {0}

VARIABLES
  play,          \* monitor->play
  wedged,        \* was monitor_mutex left locked by a call that timed out?
  msg_idx,       \* client->msg_idx
  mainPc, node,  \* main thread: where it is, number of the node in its hand
  started,       \*   connection on which it sent the length
  got,           \*   number of the answer the last call returned, or 0
  left,          \*   did it jump out of pthread_cond_wait?
  cmdQueue, cmdSize, cmdRunning,  \* cmd_queue: numbers of answers
  cmdOwner,      \*   who is inside its mutex
  freed,         \*   has an alarm freed that mutex inside enqueue? (history)
  msgQueue,      \* msg_queue
  recvPc, msg,   \* receive thread: where it is, the message in its hand
  tail, seen,    \*   last node when it walked cmd_queue, or 0; size when it
                 \*     linked its node
  err,           \*   what makes it give up: opc_connect, or a recv that fails
                 \*     other than at a time-out or the end of the connection
  listenPc,      \* listener: where it is
  heard,         \*   last connection of whose beginning it was told
  link, epoch,   \* state and number of the connection client_fd stands for
  inbox,         \* parts of commands that the server has not read
  outbox, wire,  \* parts of messages: still to be sent, not yet received
  done,          \* last command executed
  notices,       \* messages the server sent of its own accord
  garbled,       \* on this connection, did a payload come too late or out of
                 \*   place? (history)
  cut,           \* on this connection, was a command sent in part? (history)
  skipped        \* connections whose notice was not queued or flushed (history)

monitor == <<play, wedged>>
caller == <<msg_idx, mainPc, node, started, got, left>>
cmdq == <<cmdQueue, cmdSize, cmdRunning, cmdOwner, freed>>
msgq == <<msgQueue, skipped>>
receiver == <<recvPc, msg, tail, seen, err>>
listener == <<listenPc, heard>>
server == <<outbox, done, notices>>
net == <<link, epoch, inbox, wire, garbled, cut>>
vars == <<monitor, caller, cmdq, msgq, receiver, listener, server, net>>

ArmedPcs == {"check", "dequeue", "wait", "woken", "taken"}
CallPcs == {"send_length", "send_payload"} \cup ArmedPcs
MainPcs == CallPcs \cup {"idle", "quit_play", "quit_queues", "join",
                         "remove", "destroyed", "exited"}
RecvPcs == {"head", "length", "payload", "handle", "link", "count", "closed",
            "flush", "connect", "connecting", "connected", "flush_connected",
            "stop_play", "stop_queues", "ended"}
ListenPcs == {"listening", "undone"}

NoMsg == [kind |-> "none", num |-> 0]
Answer(k) == [kind |-> "answer", num |-> k]
Broadcast(e) == [kind |-> "broadcast", num |-> e]
TooMany(e) == [kind |-> "toomany", num |-> e]
Closed(e) == [kind |-> "closed", num |-> e]
Reconnected(e) == [kind |-> "reconnected", num |-> e]
Kinds == {"none", "answer", "broadcast", "toomany", "closed", "reconnected"}

\* A message, and a command, is sent by two calls of send.
Parts(m) == <<[part |-> "length", msg |-> m], [part |-> "payload", msg |-> m]>>

-----------------------------------------------------------------------------
\* opc_init, opc_connect and opc_prepare have succeeded.
Init ==
  /\ play = TRUE /\ wedged = FALSE
  /\ msg_idx = 0 /\ mainPc = "idle" /\ node = 0 /\ started = 0
  /\ got = 0 /\ left = FALSE
  /\ cmdQueue = <<>> /\ cmdSize = 0 /\ cmdRunning = TRUE /\ cmdOwner = "none"
  /\ freed = FALSE
  /\ msgQueue = <<>> /\ skipped = {}
  /\ recvPc = "head" /\ msg = NoMsg /\ tail = 0 /\ seen = 0
  /\ err = "none"
  /\ listenPc = "listening" /\ heard = 1
  /\ link = "up" /\ epoch = 1 /\ inbox = <<>> /\ wire = <<>>
  /\ garbled = FALSE /\ cut = FALSE
  /\ outbox = <<>> /\ done = 0 /\ notices = 0

-----------------------------------------------------------------------------
(* The main thread: one command at a time.                                 *)

Call ==
  /\ mainPc = "idle" /\ play /\ ~wedged
  /\ msg_idx + notices < MaxActs
  /\ msg_idx' = msg_idx + 1
  /\ mainPc' = "send_length"
  /\ got' = 0
  /\ UNCHANGED <<monitor, node, started, left, cmdq, msgq, receiver, listener,
                 server, net>>

Return(k) == mainPc' = "idle" /\ got' = k

\* Mutant: a send that may have timed out is tried once more.
SendLength_Retried ==
  /\ mainPc = "send_length"
  /\ \/ /\ link = "up"
        /\ inbox' = Append(inbox, [part |-> "length", num |-> msg_idx])
        /\ started' = epoch
        /\ mainPc' = IF started = epoch THEN "send_payload" ELSE mainPc
        /\ UNCHANGED got
     \/ Return(0) /\ UNCHANGED <<inbox, started>>
  /\ UNCHANGED <<monitor, msg_idx, node, left, cmdq, msgq, receiver,
                 listener, server, link, epoch, wire, garbled, cut>>

\* send fails after SERVER_TIMEOUT, or at once without a connected peer.
SendLength ==
  /\ mainPc = "send_length"
  /\ \/ /\ link = "up"
        /\ inbox' = Append(inbox, [part |-> "length", num |-> msg_idx])
        /\ started' = epoch
        /\ mainPc' = "send_payload"
        /\ UNCHANGED got
     \/ Return(0) /\ UNCHANGED <<inbox, started>>
  /\ UNCHANGED <<monitor, msg_idx, node, left, cmdq, msgq, receiver,
                 listener, server, link, epoch, wire, garbled, cut>>

\* client_fd may stand for another connection by now.
SendPayload ==
  /\ mainPc = "send_payload"
  /\ \/ /\ link = "up"
        /\ inbox' = Append(inbox, [part |-> "payload", num |-> msg_idx])
        /\ cut' = (cut \/ started # epoch)
        /\ mainPc' = "check"
        /\ UNCHANGED got
     \/ /\ Return(0) /\ UNCHANGED inbox
        /\ cut' = (cut \/ (started = epoch /\ link = "up"))
  /\ started' = 0
  /\ UNCHANGED <<monitor, msg_idx, node, left, cmdq, msgq, receiver, listener,
                 server, link, epoch, wire, garbled>>

\* From here to Take the alarm is set.
CheckPlay ==
  /\ mainPc = "check" /\ ~wedged
  /\ IF play THEN mainPc' = "dequeue" /\ UNCHANGED got ELSE Return(0)
  /\ UNCHANGED <<monitor, msg_idx, node, started, left, cmdq, msgq, receiver,
                 listener, server, net>>

\* dequeue_conditional leaves an answer where it is if the one behind it
\* belongs to a later command.
DequeueConditional ==
  /\ \/ mainPc = "dequeue"
     \/ mainPc = "woken" /\ cmdRunning
  /\ cmdOwner = "none"
  /\ \/ /\ cmdQueue = <<>>
        /\ mainPc' = "wait"
        /\ UNCHANGED <<got, node, cmdq>>
     \/ /\ Len(cmdQueue) > 1 /\ cmdQueue[2] > msg_idx
        /\ Return(0)
        /\ UNCHANGED <<node, cmdq>>
     \/ /\ cmdQueue # <<>>
        /\ Len(cmdQueue) > 1 => cmdQueue[2] <= msg_idx
        /\ node' = Head(cmdQueue)
        /\ cmdQueue' = Tail(cmdQueue)
        /\ cmdSize' = cmdSize - 1
        /\ mainPc' = "taken"
        /\ UNCHANGED <<got, cmdRunning, cmdOwner, freed>>
  /\ UNCHANGED <<monitor, msg_idx, started, left, msgq, receiver, listener,
                 server, net>>

\* Mutant: the number of the answer is not compared.
Take_Any ==
  /\ mainPc = "taken"
  /\ Return(node)
  /\ node' = 0
  /\ UNCHANGED <<monitor, msg_idx, started, left, cmdq, msgq, receiver,
                 listener, server, net>>

\* An answer to an earlier command is dropped.
Take ==
  /\ mainPc = "taken"
  /\ IF node = msg_idx THEN Return(node) ELSE mainPc' = "check" /\ UNCHANGED got
  /\ node' = 0
  /\ UNCHANGED <<monitor, msg_idx, started, left, cmdq, msgq, receiver,
                 listener, server, net>>

WokenToStop ==
  /\ mainPc = "woken" /\ ~cmdRunning /\ cmdOwner = "none"
  /\ Return(0)
  /\ UNCHANGED <<monitor, msg_idx, node, started, left, cmdq, msgq, receiver,
                 listener, server, net>>

\* pthread_cond_wait may return for no reason.
WakeSpuriously ==
  /\ mainPc = "wait"
  /\ mainPc' = "woken"
  /\ UNCHANGED <<monitor, msg_idx, node, started, got, left, cmdq, msgq,
                 receiver, listener, server, net>>

\* Mutant: the alarm is set only around the dequeue itself.
Alarm_NotWaiting ==
  /\ mainPc \in ArmedPcs \ {"wait"}
  /\ Return(0)
  /\ node' = 0
  /\ cmdOwner' = "none" /\ freed' = (freed \/ cmdOwner = "recv")
  /\ \/ left' = (left \/ mainPc = "wait")
     \/ mainPc = "woken" /\ left' = TRUE
  /\ \/ UNCHANGED <<wedged, cmdQueue>>
     \/ mainPc = "check" /\ wedged' = TRUE /\ UNCHANGED cmdQueue
     \/ /\ mainPc \in {"dequeue", "woken"} /\ cmdOwner = "none"
        /\ cmdQueue # <<>> /\ cmdQueue' = Tail(cmdQueue)
        /\ UNCHANGED wedged
  /\ UNCHANGED <<play, msg_idx, started, cmdSize, cmdRunning, msgq, receiver,
                 listener, server, net>>

\* SIGALRM after EXECUTE_TIMEOUT seconds: the handler jumps back to
\* opc_set_timeout, which frees the mutex of cmd_queue, whoever holds it: the
\* receive thread may then be inside enqueue without it.
\* A jump out of get_monitor_play leaves monitor_mutex locked; one out of
\* dequeue_conditional may come between the two assignments.
Alarm ==
  /\ mainPc \in ArmedPcs
  /\ Return(0)
  /\ node' = 0
  /\ cmdOwner' = "none" /\ freed' = (freed \/ cmdOwner = "recv")
  /\ \/ left' = (left \/ mainPc = "wait")
     \/ mainPc = "woken" /\ left' = TRUE
  /\ \/ UNCHANGED <<wedged, cmdQueue>>
     \/ mainPc = "check" /\ wedged' = TRUE /\ UNCHANGED cmdQueue
     \/ /\ mainPc \in {"dequeue", "woken"} /\ cmdOwner = "none"
        /\ cmdQueue # <<>> /\ cmdQueue' = Tail(cmdQueue)
        /\ UNCHANGED wedged
  /\ UNCHANGED <<play, msg_idx, started, cmdSize, cmdRunning, msgq, receiver,
                 listener, server, net>>

-----------------------------------------------------------------------------
(* set_monitor(client, false, ...), by main and by the receive thread: two *)
(* critical sections here, as that of msg_queue concerns the listener      *)
(* only; the end of the program.                                           *)

\* pthread_cond_signal for cmd_queue.  It may go to a wait that a jump has left.
SignalCmd ==
  \/ mainPc' = IF mainPc = "wait" THEN "woken" ELSE mainPc
  \/ left /\ UNCHANGED mainPc

\* The user quits, or an answer has status ESERVER.
Quit ==
  /\ mainPc = "idle" /\ play /\ ~wedged
  /\ mainPc' = "quit_play"
  /\ UNCHANGED <<monitor, msg_idx, node, started, got, left, cmdq, msgq,
                 receiver, listener, server, net>>

MainSetsMonitor ==
  /\ \/ /\ mainPc = "quit_play" /\ ~wedged
        /\ play' = FALSE /\ mainPc' = "quit_queues"
        /\ UNCHANGED cmdRunning
     \/ /\ mainPc = "quit_queues" /\ cmdOwner = "none"
        /\ cmdRunning' = FALSE /\ mainPc' = "idle"
        /\ UNCHANGED play
  /\ UNCHANGED <<wedged, msg_idx, node, started, got, left, cmdQueue, cmdSize,
                 cmdOwner, freed, msgQueue, skipped, receiver, listener, server,
                 net>>

Leave ==
  /\ mainPc = "idle" /\ ~play /\ ~wedged
  /\ mainPc' = "join"
  /\ UNCHANGED <<monitor, msg_idx, node, started, got, left, cmdq, msgq,
                 receiver, listener, server, net>>

\* opc_destroy: join the receive thread, with an alarm.  After the alarm
\* opc_thread_timeout returns errno, which may be 0.
Join ==
  /\ mainPc = "join"
  /\ mainPc' \in IF recvPc = "ended" THEN {"remove"} ELSE {"remove", "exited"}
  /\ UNCHANGED <<monitor, msg_idx, node, started, got, left, cmdq, msgq,
                 receiver, listener, server, net>>

\* remove_queue for both queues, remove_monitor, close, free.  A condition
\* variable that a waiter left by a jump cannot be destroyed.
Remove ==
  /\ mainPc = "remove" /\ ~left
  /\ cmdRunning' = FALSE
  /\ mainPc' = "destroyed"
  /\ UNCHANGED <<monitor, msg_idx, node, started, got, left, cmdQueue, cmdSize,
                 cmdOwner, freed, msgq, receiver, listener, server, net>>

-----------------------------------------------------------------------------
(* The receive thread.                                                     *)

Running == mainPc \notin {"destroyed", "exited"}

Goto(pc) == recvPc' = pc

RecvHead ==
  /\ recvPc = "head" /\ Running /\ ~wedged
  /\ Goto(IF play THEN "length" ELSE "stop_play")
  /\ UNCHANGED <<monitor, caller, cmdq, msgq, msg, tail, seen, err, listener,
                 server, net>>

\* Mutant: the end of the connection is an error like any other.
ReceiveLength_GivesUp ==
  /\ recvPc = "length" /\ Running
  /\ \/ /\ wire = <<>>
        /\ \/ link = "hungup" /\ Goto("stop_play")
           \/ link # "hungup" /\ ~play /\ ~wedged /\ Goto("stop_play")
        /\ UNCHANGED <<wire, msg>>
     \/ /\ wire # <<>> /\ Head(wire).part = "length"
        /\ wire' = Tail(wire)
        /\ msg' = Head(wire).msg
        /\ Goto("payload")
     \/ /\ wire # <<>> /\ Head(wire).part = "payload"
        /\ wire' = Tail(wire)
        /\ Goto("stop_play") /\ UNCHANGED msg
  /\ UNCHANGED <<monitor, caller, cmdq, msgq, tail, seen, err, listener,
                 server, link, epoch, inbox, garbled, cut>>

\* A time-out leads back to get_monitor_play.  A payload where a length
\* should be is more than MESSAGE_MAX_BYTE.
ReceiveLength ==
  /\ recvPc = "length" /\ Running
  /\ \/ /\ wire = <<>>
        /\ \/ link = "hungup" /\ Goto("closed")
           \/ link # "hungup" /\ ~play /\ ~wedged /\ Goto("stop_play")
        /\ UNCHANGED <<wire, msg>>
     \/ /\ wire # <<>> /\ Head(wire).part = "length"
        /\ wire' = Tail(wire)
        /\ msg' = Head(wire).msg
        /\ Goto("payload")
     \/ /\ wire # <<>> /\ Head(wire).part = "payload"
        /\ wire' = Tail(wire)
        /\ Goto("stop_play") /\ UNCHANGED msg
  /\ UNCHANGED <<monitor, caller, cmdq, msgq, tail, seen, err, listener,
                 server, link, epoch, inbox, garbled, cut>>

\* A payload that does not come within SERVER_TIMEOUT is waited for no more.
ReceivePayload ==
  /\ recvPc = "payload" /\ Running
  /\ \/ /\ wire = <<>> /\ link = "hungup"
        /\ Goto("closed") /\ msg' = NoMsg
        /\ UNCHANGED <<wire, garbled>>
     \/ /\ wire = <<>> /\ link # "hungup"
        /\ Goto("head") /\ msg' = NoMsg /\ garbled' = TRUE
        /\ UNCHANGED wire
     \/ /\ wire # <<>> /\ Head(wire) = [part |-> "payload", msg |-> msg]
        /\ wire' = Tail(wire)
        /\ Goto("handle") /\ UNCHANGED <<msg, garbled>>
     \/ /\ wire # <<>> /\ Head(wire) # [part |-> "payload", msg |-> msg]
        /\ wire' = Tail(wire)
        /\ Goto("stop_play") /\ msg' = NoMsg /\ UNCHANGED garbled
  /\ UNCHANGED <<monitor, caller, cmdq, msgq, tail, seen, err, listener,
                 server, link, epoch, inbox, cut>>

\* recv fails with neither a time-out nor ECONNRESET: when a stop of the whole
\* program ends, say, recv with a time-out has failed with EINTR.
ReceiveFails ==
  /\ recvPc \in {"length", "payload"} /\ Running
  /\ err' = "recv"
  /\ Goto("stop_play") /\ msg' = NoMsg
  /\ UNCHANGED <<monitor, caller, cmdq, msgq, tail, seen, listener, server,
                 net>>

\* The test of a size_t: below 0 is above every limit.
CmdFull == cmdSize < 0 \/ cmdSize > QUEUE_SIZE

\* handle_message and the first part of enqueue for cmd_queue: it looks at
\* the size, takes the mutex and walks to the last node.
HandleAnswer ==
  /\ recvPc = "handle" /\ Running /\ msg.kind = "answer"
  /\ IF CmdFull
     THEN Goto("head") /\ msg' = NoMsg /\ UNCHANGED <<tail, cmdOwner>>
     ELSE /\ cmdOwner = "none" /\ cmdOwner' = "recv"
          /\ tail' = IF cmdQueue = <<>> THEN 0 ELSE cmdQueue[Len(cmdQueue)]
          /\ Goto("link") /\ UNCHANGED msg
  /\ UNCHANGED <<monitor, caller, cmdQueue, cmdSize, cmdRunning, freed, msgq,
                 seen, err, listener, server, net>>

\* The second part.  The last node is gone if the mutex was freed meanwhile
\* and another call took it: then the new node is lost.
LinkAnswer ==
  /\ recvPc = "link" /\ Running
  /\ cmdQueue' = IF tail = 0 THEN <<msg.num>>
                 ELSE IF cmdQueue # <<>> THEN Append(cmdQueue, msg.num)
                 ELSE cmdQueue
  /\ seen' = cmdSize
  /\ Goto("count") /\ msg' = NoMsg
  /\ UNCHANGED <<monitor, caller, cmdSize, cmdRunning, cmdOwner, freed, msgq,
                 tail, err, listener, server, net>>

\* What size can be after enqueue has counted its node.  Where a call took
\* nodes meanwhile, its decrements and this change come in any order, and one
\* may be lost.
Counted ==
  IF cmdSize = seen THEN {IF tail = 0 THEN 1 ELSE seen + 1}
  ELSE IF tail = 0 THEN {0, 1, cmdSize}
  ELSE cmdSize..(seen + 1)

\* Mutant: the first node is not counted.
CountAnswer_First ==
  /\ recvPc = "count" /\ Running
  /\ cmdSize' \in IF tail = 0 THEN {0} ELSE Counted
  /\ cmdOwner' = "none"
  /\ SignalCmd
  /\ Goto("head") /\ tail' = 0 /\ seen' = 0
  /\ UNCHANGED <<monitor, msg_idx, node, started, got, left, cmdQueue,
                 cmdRunning, freed, msgq, msg, err, listener, server, net>>

\* Mutant: the mutex is not freed.
CountAnswer_KeepsMutex ==
  /\ recvPc = "count" /\ Running
  /\ cmdSize' \in Counted
  /\ cmdOwner' = cmdOwner
  /\ SignalCmd
  /\ Goto("head") /\ tail' = 0 /\ seen' = 0
  /\ UNCHANGED <<monitor, msg_idx, node, started, got, left, cmdQueue,
                 cmdRunning, freed, msgq, msg, err, listener, server, net>>

\* The last part.
CountAnswer ==
  /\ recvPc = "count" /\ Running
  /\ cmdSize' \in Counted
  /\ cmdOwner' = "none"
  /\ SignalCmd
  /\ Goto("head") /\ tail' = 0 /\ seen' = 0
  /\ UNCHANGED <<monitor, msg_idx, node, started, got, left, cmdQueue,
                 cmdRunning, freed, msgq, msg, err, listener, server, net>>

\* enqueue for msg_queue.
Enqueue(m, full) ==
  IF Len(msgQueue) > QUEUE_SIZE
  THEN Goto(full) /\ UNCHANGED msgQueue
  ELSE /\ msgQueue' = Append(msgQueue, m)
       /\ Goto(IF m.kind = "closed" THEN "connect" ELSE "head")

\* A server that has too many clients ends this one.
HandleNotice ==
  /\ recvPc = "handle" /\ Running /\ msg.kind # "answer"
  /\ IF msg.kind = "toomany"
     THEN Goto("stop_play") /\ UNCHANGED <<msg, msgQueue>>
     ELSE Enqueue(msg, "head") /\ msg' = NoMsg
  /\ UNCHANGED <<monitor, caller, cmdq, skipped, tail, seen, err,
                 listener, server, net>>

\* notice_reconnect: told of the end and of the beginning of a connection.
\* Where there is no room, the queue is emptied and the notice dropped.
NoticeClosed ==
  /\ recvPc = "closed" /\ Running
  /\ Enqueue(Closed(epoch), "flush")
  /\ UNCHANGED <<monitor, caller, cmdq, skipped, msg, tail, seen,
                 err, listener, server, net>>

NoticeReconnected ==
  /\ recvPc = "connected" /\ Running
  /\ Enqueue(Reconnected(epoch), "flush_connected")
  /\ UNCHANGED <<monitor, caller, cmdq, skipped, msg, tail, seen,
                 err, listener, server, net>>

Flushed == {msgQueue[i].num : i \in {j \in 1..Len(msgQueue) :
                                       msgQueue[j].kind = "reconnected"}}

FlushQueue ==
  /\ recvPc \in {"flush", "flush_connected"} /\ Running
  /\ msgQueue' = <<>>
  /\ skipped' = skipped \cup Flushed
                  \cup (IF recvPc = "flush_connected" THEN {epoch} ELSE {})
  /\ Goto(IF recvPc = "flush" THEN "connect" ELSE "head")
  /\ UNCHANGED <<monitor, caller, cmdq, msg, tail, seen, err,
                 listener, server, net>>

\* opc_connect: from here on client_fd is a socket without a peer.
Reopen ==
  /\ recvPc = "connect" /\ Running
  /\ link' = "fresh" /\ garbled' = FALSE /\ cut' = FALSE
  /\ Goto("connecting")
  /\ UNCHANGED <<monitor, caller, cmdq, msgq, msg, tail, seen, err, listener,
                 server, epoch, inbox, wire>>

\* Mutant: no notice of the reconnect.
Connect_Untold ==
  /\ recvPc = "connecting" /\ Running
  /\ epoch < MaxConnections
  /\ link' = "up" /\ epoch' = epoch + 1
  /\ inbox' = <<>> /\ wire' = <<>>
  /\ outbox' \in {<<>>, Parts(TooMany(epoch'))}
  /\ Goto("head")
  /\ UNCHANGED <<monitor, caller, cmdq, msgq, msg, tail, seen, err, listener,
                 done, notices, garbled, cut>>

\* The server may accept the connection only to say that it is full.
Connect ==
  /\ recvPc = "connecting" /\ Running
  /\ epoch < MaxConnections
  /\ link' = "up" /\ epoch' = epoch + 1
  /\ inbox' = <<>> /\ wire' = <<>>
  /\ outbox' \in {<<>>, Parts(TooMany(epoch'))}
  /\ Goto("connected")
  /\ UNCHANGED <<monitor, caller, cmdq, msgq, msg, tail, seen, err, listener,
                 done, notices, garbled, cut>>

\* No server within MAX_CONNECT_WAIT seconds, or another error.
ConnectFails ==
  /\ recvPc = "connecting" /\ Running
  /\ err' = "connect"
  /\ Goto("stop_play")
  /\ UNCHANGED <<monitor, caller, cmdq, msgq, msg, tail, seen, listener,
                 server, net>>

\* From here on what was in the hand of the thread means nothing.
RecvSetsMonitor ==
  /\ Running
  /\ \/ /\ recvPc = "stop_play" /\ ~wedged
        /\ play' = FALSE /\ Goto("stop_queues")
        /\ msg' = NoMsg /\ err' = "none"
        /\ UNCHANGED <<cmdRunning, mainPc>>
     \/ /\ recvPc = "stop_queues" /\ cmdOwner = "none"
        /\ cmdRunning' = FALSE /\ SignalCmd
        /\ Goto("ended")
        /\ UNCHANGED <<play, msg, err>>
  /\ UNCHANGED <<wedged, msg_idx, node, started, got, left, cmdQueue, cmdSize,
                 cmdOwner, freed, msgQueue, skipped, tail, seen, listener,
                 server, net>>

-----------------------------------------------------------------------------
(* The listener takes notices as long as the client plays.  How it sleeps  *)
(* in between is left out, and so is its end: one that has ended is one    *)
(* that takes no more.  If it has not when opc_destroy frees the client,   *)
(* what it does next is undefined.                                         *)

Listen ==
  /\ listenPc = "listening" /\ Running
  /\ msgQueue # <<>>
  /\ msgQueue' = Tail(msgQueue)
  /\ heard' = IF Head(msgQueue).kind = "reconnected"
              THEN Head(msgQueue).num ELSE heard
  /\ UNCHANGED <<monitor, caller, cmdq, skipped, receiver,
                 listenPc, server, net>>

ListenerLate ==
  /\ mainPc = "destroyed"
  /\ listenPc = "listening"
  /\ listenPc' = "undone"
  /\ UNCHANGED <<monitor, caller, cmdq, msgq, receiver, heard, server, net>>

-----------------------------------------------------------------------------
(* The server (external).                                                  *)

\* It reads a command that came whole, executes it and answers it.  The
\* announcement of another thread may get between length and payload.
ServerExecutes ==
  /\ Running /\ link = "up" /\ outbox = <<>>
  /\ Len(inbox) > 1
  /\ inbox[1].part = "length" /\ inbox[2].part = "payload"
  /\ inbox' = Tail(Tail(inbox))
  /\ done' = inbox[2].num
  /\ \/ outbox' = Parts(Answer(done')) /\ UNCHANGED <<notices, garbled>>
     \/ /\ msg_idx + notices < MaxActs /\ notices' = notices + 1
        /\ outbox' = <<Parts(Answer(done'))[1], Parts(Broadcast(epoch))[1],
                       Parts(Answer(done'))[2], Parts(Broadcast(epoch))[2]>>
        /\ garbled' = TRUE
  /\ UNCHANGED <<monitor, caller, cmdq, msgq, receiver, listener, link, epoch,
                 wire, cut>>

ServerSpeaks ==
  /\ Running /\ link = "up" /\ outbox = <<>>
  /\ msg_idx + notices < MaxActs /\ notices' = notices + 1
  /\ outbox' = Parts(Broadcast(epoch))
  /\ UNCHANGED <<monitor, caller, cmdq, msgq, receiver, listener, done, net>>

ServerSends ==
  /\ Running /\ link = "up" /\ outbox # <<>>
  /\ wire' = Append(wire, Head(outbox))
  /\ outbox' = Tail(outbox)
  /\ UNCHANGED <<monitor, caller, cmdq, msgq, receiver, listener, done, notices,
                 link, epoch, inbox, garbled, cut>>

\* It ends, is stopped, or drops a client it does not understand.
ServerHangsUp ==
  /\ Running /\ link = "up"
  /\ link' = "hungup"
  /\ inbox' = <<>> /\ outbox' = <<>>
  /\ UNCHANGED <<monitor, caller, cmdq, msgq, receiver, listener, done, notices,
                 epoch, wire, garbled, cut>>

-----------------------------------------------------------------------------
MainStep ==
  \/ SendLength \/ SendPayload \/ CheckPlay \/ DequeueConditional \/ Take
  \/ WokenToStop \/ MainSetsMonitor \/ Leave \/ Join \/ Remove

RecvStep ==
  \/ RecvHead \/ ReceiveLength \/ ReceivePayload \/ HandleAnswer \/ LinkAnswer
  \/ CountAnswer \/ HandleNotice \/ NoticeClosed \/ NoticeReconnected
  \/ FlushQueue \/ Reopen \/ Connect \/ ConnectFails \/ RecvSetsMonitor

ListenStep == Listen \/ ListenerLate

ServerStep == ServerExecutes \/ ServerSpeaks \/ ServerSends \/ ServerHangsUp

Next ==
  \/ Call \/ Quit \/ MainStep \/ WakeSpuriously \/ Alarm
  \/ RecvStep \/ ReceiveFails \/ ListenStep \/ ServerStep

Spec == Init /\ [][Next]_vars

\* The threads run, and an alarm that is set goes off some day.  Nothing is
\* assumed of the user, the listener, the server or failures of recv.
FairSpec == Spec /\ WF_vars(MainStep) /\ WF_vars(Alarm) /\ WF_vars(RecvStep)

-----------------------------------------------------------------------------
(* Properties.                                                             *)

Messages == [kind : Kinds, num : Nat]
CommandParts == [part : {"length", "payload"}, num : Nat]
MessageParts == [part : {"length", "payload"}, msg : Messages]

TypeOK ==
  /\ play \in BOOLEAN /\ wedged \in BOOLEAN
  /\ msg_idx \in Nat /\ mainPc \in MainPcs /\ node \in Nat
  /\ started \in Nat /\ got \in Nat /\ left \in BOOLEAN
  /\ cmdQueue \in Seq(Nat) /\ cmdRunning \in BOOLEAN
  /\ cmdOwner \in {"none", "recv"} /\ freed \in BOOLEAN
  /\ cmdSize \in Int /\ (~freed => cmdSize \in Nat)
  /\ msgQueue \in Seq(Messages)
  /\ skipped \subseteq Nat
  /\ recvPc \in RecvPcs /\ msg \in Messages
  /\ tail \in Nat /\ seen \in Int
  /\ err \in {"none", "connect", "recv"}
  /\ listenPc \in ListenPcs /\ heard \in Nat
  /\ link \in {"up", "hungup", "fresh"} /\ epoch \in Nat
  /\ inbox \in Seq(CommandParts)
  /\ wire \in Seq(MessageParts) /\ outbox \in Seq(MessageParts)
  /\ done \in Nat /\ notices \in Nat
  /\ garbled \in BOOLEAN /\ cut \in BOOLEAN

\* A call returns the answer to its own command, which the server executed,
\* or fails; no command is executed twice, or out of turn, however late its
\* answer is and however often the connection is lost: OpClient implements
\* Calls (msg_idx, get_command_response).
Promise == INSTANCE Calls WITH call <- msg_idx, active <- mainPc \in CallPcs

ImplementsCalls == Promise!Spec

\* The stream of commands on a connection is a sequence of whole commands,
\* the last of which may lack its payload still, unless a send failed half
\* way or the receive thread put a new connection in place of the old one in
\* the middle of a command (send_command, opc_connect).
CommandsInStep ==
  ~cut => \A i \in 1..Len(inbox) :
            IF i % 2 = 1 THEN inbox[i].part = "length"
            ELSE inbox[i] = [part |-> "payload", num |-> inbox[i - 1].num]

\* The receive thread gives the client up only where the monitor was told to
\* stop, no server could be reached, the server is full, recv failed in
\* another way, or the messages of the server were garbled: a payload that came
\* later than its time-out, or that of another message (run_receiver,
\* receive_message).
ReceiverEndsForCause ==
  recvPc = "stop_play" =>
    ~play \/ err # "none" \/ garbled \/ msg.kind = "toomany"

\* Nothing the server said on a new connection reaches the listener before
\* the notice of the reconnect, unless that notice found the queue full or
\* was flushed with it (notice_reconnect, flush_queue).
ReconnectIsToldFirst ==
  \A i \in 1..Len(msgQueue) :
    LET e == msgQueue[i].num IN
      msgQueue[i].kind = "broadcast" =>
        \/ e <= heard \/ e \in skipped
        \/ \E j \in 1..(i - 1) : msgQueue[j] = Reconnected(e)

\* Every call returns, whatever the server and the connection do: the alarm
\* ends it even where a lost signal or a locked monitor would keep it.
CallReturns == mainPc \in CallPcs ~> mainPc \notin CallPcs

\* Once the monitor says stop the program ends, unless an alarm hit one of
\* two places: inside get_monitor_play, which leaves the monitor locked, or
\* in pthread_cond_wait, which leaves the condition variable in use
\* (opc_set_timeout, opc_destroy).
ClientEnds == ~play ~> mainPc \in {"destroyed", "exited"} \/ wedged \/ left
=============================================================================
