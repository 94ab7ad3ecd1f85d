------------------------------ MODULE Requests ------------------------------
(***************************************************************************)
(* The way of a request through the server: the server thread              *)
(* (run_server) reads it from its client's socket and puts it into the     *)
(* queue; the response thread (run_response) takes it out, executes it,    *)
(* tells every client what was executed and answers the one that asked.    *)
(* Any thread may stop the player meanwhile (set_player_running(false)).   *)
(*                                                                         *)
(* The play thread tells every client, too, whenever it turns to another   *)
(* track.                                                                  *)
(*                                                                         *)
(* The clients are connected throughout, in the first slots of the pool;   *)
(* connecting and disconnecting are modelled elsewhere.  One action is one *)
(* critical section, one send or one pselect, with the thread's own code   *)
(* around it.                                                              *)
(***************************************************************************)
EXTENDS Integers, Sequences

CONSTANTS
  N,             \* number of clients; client i is in slot i of the pool
  QUEUE_SIZE,    \* queue length beyond which enqueue refuses
  RESEND_COUNT,  \* how often run_response sends an answer that times out
  Stoppers,      \* the other threads that call set_player_running(false)
  TrackChanges,  \* does the play thread turn to other tracks?
  MaxRequests,   \* bound: the number of requests each client sends
  NoRequest

ASSUME NAssumption == N \in Nat \ {0}
ASSUME QueueAssumption == QUEUE_SIZE \in Nat /\ RESEND_COUNT \in Nat \ {0}
ASSUME RequestAssumption ==
  MaxRequests \in [1..N -> Nat] /\ NoRequest \notin [client : 1..N, idx : Nat]
ASSUME TrackAssumption == TrackChanges \in BOOLEAN
ASSUME StopperAssumption == Stoppers \cap {"serv", "resp"} = {}

Clients == 1..N
Threads == Stoppers \cup {"serv", "resp"}
Requests == [client : Clients, idx : Nat]
Numbers == UNION {1..MaxRequests[c] : c \in Clients}

VARIABLES
  running,           \* player->running
  queueRunning,      \* queue->running
  queue, size,       \* queue->head and what follows it; queue->size
  sent, read,        \* how many requests each client sent, the server read
  servPc, ready,     \* server thread: where it is, clients left in this scan
  node,              \*   the request it has in hand
  known,             \*   queue->size when it last held queue_mutex
  usr1,              \*   is SIGUSR1 pending for it?
  respPc, serving,   \* response thread: where it is, the request it took
  target, count,     \*   client the broadcast is at; sends that timed out
  playPc,            \* play thread: where it is in its announcement of a track
  playTarget,        \*   and the client that is at
  stopPc,            \* where each thread is in set_player_running(false)
  half,              \* the message of which a client got the length only
  torn,              \* clients that got a length or a payload out of place
  troubled,          \* clients refused a request, too slow, or told of a
                     \*   track while a request was served (history)
  answered           \* idx of the last answer sent to each client

queues == <<queueRunning, queue, size>>
server == <<read, servPc, ready, node, known>>
response == <<respPc, serving, target, count>>
play == <<playPc, playTarget>>
wire == <<half, torn, troubled, answered>>
vars == <<running, play, queues, sent, server, usr1, response, stopPc, wire>>

ServPcs == {"head", "select", "scan", "check", "enqueue",
            "refuse_length", "refuse_payload", "stop"}
RespPcs == {"head", "dequeue", "wait", "woken", "execute",
            "broadcast_length", "broadcast_payload",
            "answer_length", "answer_payload",
            "notice_length", "notice_payload", "resend", "stop"}
PlayPcs == {"idle", "announce_length", "announce_payload"}
Messages == {"refusal", "broadcast", "answer", "notice", "announcement"}

-----------------------------------------------------------------------------
Init ==
  /\ running = TRUE
  /\ queueRunning = TRUE
  /\ queue = <<>>
  /\ size = 0
  /\ sent = [c \in Clients |-> 0]
  /\ read = [c \in Clients |-> 0]
  /\ servPc = "head"
  /\ ready = {}
  /\ node = NoRequest
  /\ known = 0
  /\ usr1 = FALSE
  /\ respPc = "head"
  /\ serving = NoRequest
  /\ target = 1
  /\ count = 0
  /\ playPc = "idle"
  /\ playTarget = 1
  /\ stopPc = [t \in Threads |-> "idle"]
  /\ half = [c \in Clients |-> "none"]
  /\ torn = {}
  /\ troubled = {}
  /\ answered = [c \in Clients |-> 0]

\* A client sends a request; the server has no say in when.
Ask(c) ==
  /\ sent[c] < MaxRequests[c]
  /\ sent' = [sent EXCEPT ![c] = @ + 1]
  /\ UNCHANGED <<running, play, queues, server, usr1, response, stopPc, wire>>

-----------------------------------------------------------------------------
(* A message is sent in two parts, its length and its payload, by two      *)
(* calls of send with no lock around them.  A send to a client that does   *)
(* not read fails after CLIENT_TIMEOUT seconds with nothing sent.          *)

Trouble(c) == troubled' = troubled \cup {c}

SendLength(c, m) ==
  /\ half' = [half EXCEPT ![c] = m]
  /\ torn' = IF half[c] # "none" THEN torn \cup {c} ELSE torn

SendPayload(c, m) ==
  /\ half' = [half EXCEPT ![c] = "none"]
  /\ torn' = IF half[c] # m THEN torn \cup {c} ELSE torn

SendTimesOut(c) ==
  /\ Trouble(c)
  /\ UNCHANGED <<half, torn>>

-----------------------------------------------------------------------------
(* The server thread.                                                      *)

ServHead ==
  /\ servPc = "head"
  /\ servPc' = IF running THEN "select" ELSE "stop"
  /\ UNCHANGED <<running, play, queues, sent, read, ready, node, known, usr1,
                 response, stopPc, wire>>

\* wait_fd: pselect returns with the sockets that hold data, or because
\* SIGUSR1, blocked everywhere else, is pending; then running is looked at.
ServSelect ==
  /\ servPc = "select"
  /\ \/ /\ \E c \in Clients : read[c] < sent[c]
        /\ servPc' = IF running THEN "scan" ELSE "stop"
        /\ ready' = {c \in Clients : read[c] < sent[c]}
        /\ UNCHANGED usr1
     \/ /\ usr1
        /\ usr1' = FALSE
        /\ servPc' = IF running THEN "head" ELSE "stop"
        /\ UNCHANGED ready
  /\ UNCHANGED <<running, play, queues, sent, read, node, known, response,
                 stopPc, wire>>

\* pselect is interrupted by another signal: its mask is empty, and SIGCHLD
\* and SIGINT go to any thread.
SelectInterrupted ==
  /\ servPc = "select"
  /\ servPc' = IF running THEN "head" ELSE "stop"
  /\ UNCHANGED <<running, play, queues, sent, read, ready, node, known, usr1,
                 response, stopPc, wire>>

\* The loop over the slots: receive_message and create_node for the next
\* client whose socket pselect reported.
ServReceive ==
  /\ servPc = "scan"
  /\ \E c \in ready :
       /\ \A d \in ready : c <= d
       /\ read' = [read EXCEPT ![c] = @ + 1]
       /\ node' = [client |-> c, idx |-> read[c] + 1]
       /\ ready' = ready \ {c}
  /\ servPc' = "check"
  /\ UNCHANGED <<running, play, queues, sent, known, usr1, response, stopPc,
                 wire>>

ServScanned ==
  /\ servPc = "scan" /\ ready = {}
  /\ servPc' = "head"
  /\ UNCHANGED <<running, play, queues, sent, read, ready, node, known, usr1,
                 response, stopPc, wire>>

\* Mutant of EnqueueCheck: the queue's size is not looked at.
EnqueueCheck_Unlimited ==
  /\ servPc = "check"
  /\ servPc' = "enqueue"
  /\ UNCHANGED <<running, play, queues, sent, read, ready, node, known, usr1,
                 response, stopPc, wire>>

\* enqueue looks at size before it locks queue_mutex.  What it sees may be
\* as old as its own last critical section.
EnqueueCheck ==
  /\ servPc = "check"
  /\ \E seen \in size..known :
       servPc' = IF seen > QUEUE_SIZE THEN "refuse_length" ELSE "enqueue"
  /\ UNCHANGED <<running, play, queues, sent, read, ready, node, known, usr1,
                 response, stopPc, wire>>

\* Mutant of QueueSignalled: the signal is forgotten.
QueueSignalled_Forgotten == respPc

\* pthread_cond_signal(&queue_cond): only the response thread waits on it.
QueueSignalled == IF respPc = "wait" THEN "woken" ELSE respPc

\* Mutant of Enqueue: the node is put at the head of the list.
Enqueue_AtHead ==
  /\ servPc = "enqueue"
  /\ queue' = <<node>> \o queue
  /\ size' = IF queue = <<>> THEN 1 ELSE size + 1
  /\ known' = size'
  /\ node' = NoRequest
  /\ respPc' = QueueSignalled
  /\ servPc' = "scan"
  /\ UNCHANGED <<running, play, queueRunning, sent, read, ready, usr1, serving,
                 target, count, stopPc, wire>>

Enqueue ==
  /\ servPc = "enqueue"
  /\ queue' = Append(queue, node)
  /\ size' = IF queue = <<>> THEN 1 ELSE size + 1
  /\ known' = size'
  /\ node' = NoRequest
  /\ respPc' = QueueSignalled
  /\ servPc' = "scan"
  /\ UNCHANGED <<running, play, queueRunning, sent, read, ready, usr1, serving,
                 target, count, stopPc, wire>>

\* The notice that the request was refused; a send that fails ends it.
RefuseLength ==
  /\ servPc = "refuse_length"
  /\ \/ /\ SendLength(node.client, "refusal")
        /\ Trouble(node.client)
        /\ servPc' = "refuse_payload"
        /\ UNCHANGED node
     \/ /\ SendTimesOut(node.client)
        /\ servPc' = "scan"
        /\ node' = NoRequest
  /\ UNCHANGED <<running, play, queues, sent, read, ready, known, usr1,
                 response, stopPc, answered>>

RefusePayload ==
  /\ servPc = "refuse_payload"
  /\ \/ SendPayload(node.client, "refusal") /\ UNCHANGED troubled
     \/ SendTimesOut(node.client)
  /\ servPc' = "scan"
  /\ node' = NoRequest
  /\ UNCHANGED <<running, play, queues, sent, read, ready, known, usr1,
                 response, stopPc, answered>>

ServerThread ==
  \/ ServHead \/ ServSelect \/ ServReceive \/ ServScanned
  \/ EnqueueCheck \/ Enqueue \/ RefuseLength \/ RefusePayload

-----------------------------------------------------------------------------
(* The response thread.                                                    *)

RespHead ==
  /\ respPc = "head"
  /\ respPc' = IF running THEN "dequeue" ELSE "stop"
  /\ UNCHANGED <<running, play, queues, sent, server, usr1, serving, target,
                 count, stopPc, wire>>

\* Mutant of TakeHead: the head of the list stays where it is.
TakeHead_Kept ==
  /\ queue # <<>>
  /\ serving' = Head(queue)
  /\ respPc' = "execute"
  /\ UNCHANGED <<queue, size>>

\* The end of dequeue: the head of the list is taken off.
TakeHead ==
  /\ queue # <<>>
  /\ serving' = Head(queue)
  /\ queue' = Tail(queue)
  /\ size' = size - 1
  /\ respPc' = "execute"

\* The beginning of dequeue: running is not looked at before the wait.
Dequeue ==
  /\ respPc = "dequeue"
  /\ \/ TakeHead
     \/ /\ queue = <<>>
        /\ respPc' = "wait"
        /\ UNCHANGED <<queue, size, serving>>
  /\ UNCHANGED <<running, play, queueRunning, sent, server, usr1, target,
                 count, stopPc, wire>>

\* pthread_cond_wait may return without a signal.
WakeSpuriously ==
  /\ respPc = "wait"
  /\ respPc' = "woken"
  /\ UNCHANGED <<running, play, queues, sent, server, usr1, serving, target,
                 count, stopPc, wire>>

\* Mutant of DequeueWoken: running is looked at only if the list is empty,
\* and the wait goes on.
DequeueWoken_Deaf ==
  /\ respPc = "woken"
  /\ \/ TakeHead
     \/ /\ queue = <<>>
        /\ respPc' = "wait"
        /\ UNCHANGED <<queue, size, serving>>
  /\ UNCHANGED <<running, play, queueRunning, sent, server, usr1, target,
                 count, stopPc, wire>>

\* dequeue after its wait: NULL when the queue was stopped, even if it holds
\* something.
DequeueWoken ==
  /\ respPc = "woken"
  /\ \/ /\ ~queueRunning
        /\ respPc' = "stop"
        /\ UNCHANGED <<queue, size, serving>>
     \/ /\ queueRunning
        /\ TakeHead
     \/ /\ queueRunning /\ queue = <<>>
        /\ respPc' = "wait"
        /\ UNCHANGED <<queue, size, serving>>
  /\ UNCHANGED <<running, play, queueRunning, sent, server, usr1, target,
                 count, stopPc, wire>>

\* execute_command, whose effect on the player is modelled in Player.  It
\* returns NULL for a request of no known type or when memory is short, and
\* then nobody is told anything.
Execute ==
  /\ respPc = "execute"
  /\ \/ /\ respPc' = "broadcast_length"
        /\ target' = 1
        /\ troubled' = IF playPc = "idle" THEN troubled ELSE Clients
        /\ UNCHANGED serving
     \/ /\ respPc' = "head"
        /\ serving' = NoRequest
        /\ UNCHANGED <<target, troubled>>
  /\ UNCHANGED <<running, play, queues, sent, server, usr1, count, stopPc,
                 half, torn, answered>>

\* After the broadcast the answer is sent, with a fresh count.
ToAnswer == respPc' = "answer_length" /\ count' = 0 /\ target' = 1

\* Mutant of BroadcastLength: the payload is sent to the last client only.
BroadcastLength_Hasty ==
  /\ respPc = "broadcast_length"
  /\ SendLength(target, "broadcast")
  /\ IF target < N
        THEN target' = target + 1 /\ respPc' = respPc
        ELSE target' = target /\ respPc' = "broadcast_payload"
  /\ UNCHANGED <<running, play, queues, sent, server, usr1, serving, count,
                 stopPc, troubled, answered>>

\* send_broadcast_message; it ends at the first client that cannot be sent to.
BroadcastLength ==
  /\ respPc = "broadcast_length"
  /\ \/ /\ SendLength(target, "broadcast")
        /\ respPc' = "broadcast_payload"
        /\ UNCHANGED <<target, count, troubled>>
     \/ /\ SendTimesOut(target)
        /\ ToAnswer
  /\ UNCHANGED <<running, play, queues, sent, server, usr1, serving, stopPc,
                 answered>>

BroadcastPayload ==
  /\ respPc = "broadcast_payload"
  /\ \/ /\ SendPayload(target, "broadcast")
        /\ UNCHANGED troubled
        /\ \/ /\ target < N
              /\ target' = target + 1
              /\ respPc' = "broadcast_length"
              /\ UNCHANGED count
           \/ /\ target = N
              /\ ToAnswer
     \/ /\ SendTimesOut(target)
        /\ ToAnswer
  /\ UNCHANGED <<running, play, queues, sent, server, usr1, serving, stopPc,
                 answered>>

\* send_response: a timeout is followed by a notice of it to the same client.
AnswerLength ==
  /\ respPc = "answer_length"
  /\ \/ /\ SendLength(serving.client, "answer")
        /\ respPc' = "answer_payload"
        /\ UNCHANGED troubled
     \/ /\ SendTimesOut(serving.client)
        /\ respPc' = "notice_length"
  /\ UNCHANGED <<running, play, queues, sent, server, usr1, serving, target,
                 count, stopPc, answered>>

\* With the payload the request is answered: run_response leaves its loop.
AnswerPayload ==
  /\ respPc = "answer_payload"
  /\ \/ /\ SendPayload(serving.client, "answer")
        /\ answered' = [answered EXCEPT ![serving.client] = serving.idx]
        /\ respPc' = "head"
        /\ serving' = NoRequest
        /\ UNCHANGED troubled
     \/ /\ SendTimesOut(serving.client)
        /\ respPc' = "notice_length"
        /\ UNCHANGED <<serving, answered>>
  /\ UNCHANGED <<running, play, queues, sent, server, usr1, target, count,
                 stopPc>>

NoticeLength ==
  /\ respPc = "notice_length"
  /\ \/ /\ SendLength(serving.client, "notice")
        /\ respPc' = "notice_payload"
        /\ UNCHANGED troubled
     \/ /\ SendTimesOut(serving.client)
        /\ respPc' = "resend"
  /\ UNCHANGED <<running, play, queues, sent, server, usr1, serving, target,
                 count, stopPc, answered>>

NoticePayload ==
  /\ respPc = "notice_payload"
  /\ \/ SendPayload(serving.client, "notice") /\ UNCHANGED troubled
     \/ SendTimesOut(serving.client)
  /\ respPc' = "resend"
  /\ UNCHANGED <<running, play, queues, sent, server, usr1, serving, target,
                 count, stopPc, answered>>

\* Mutant of Resend: one time too often.
Resend_OneMore ==
  /\ respPc = "resend"
  /\ count' = count + 1
  /\ IF count < RESEND_COUNT
        THEN respPc' = "answer_length" /\ serving' = serving
        ELSE respPc' = "head" /\ serving' = NoRequest
  /\ UNCHANGED <<running, play, queues, sent, server, usr1, target, stopPc,
                 wire>>

\* The answer is sent again from its beginning, RESEND_COUNT times in all;
\* then run_response gives up and the client stays connected.
Resend ==
  /\ respPc = "resend"
  /\ \/ /\ count + 1 < RESEND_COUNT
        /\ count' = count + 1
        /\ respPc' = "answer_length"
        /\ UNCHANGED serving
     \/ /\ count + 1 = RESEND_COUNT
        /\ count' = 0
        /\ respPc' = "head"
        /\ serving' = NoRequest
  /\ UNCHANGED <<running, play, queues, sent, server, usr1, target, stopPc,
                 wire>>

ResponseThread ==
  \/ RespHead \/ Dequeue \/ DequeueWoken \/ Execute
  \/ BroadcastLength \/ BroadcastPayload \/ AnswerLength \/ AnswerPayload
  \/ NoticeLength \/ NoticePayload \/ Resend

-----------------------------------------------------------------------------
(* The play thread.  forward_playlist and backward_playlist, whose choice  *)
(* of a track is modelled in Player, broadcast the track's URI, in the     *)
(* same way and with the same two sends as the response thread.            *)

Announce ==
  /\ TrackChanges /\ running
  /\ playPc = "idle"
  /\ playPc' = "announce_length"
  /\ troubled' = IF serving = NoRequest THEN troubled ELSE Clients
  /\ UNCHANGED <<running, playTarget, queues, sent, server, usr1, response,
                 stopPc, half, torn, answered>>

\* The announcement is over.
Announced == playPc' = "idle" /\ playTarget' = 1

AnnounceLength ==
  /\ playPc = "announce_length"
  /\ \/ /\ SendLength(playTarget, "announcement")
        /\ playPc' = "announce_payload"
        /\ UNCHANGED <<playTarget, troubled>>
     \/ /\ SendTimesOut(playTarget)
        /\ Announced
  /\ UNCHANGED <<running, queues, sent, server, usr1, response, stopPc,
                 answered>>

AnnouncePayload ==
  /\ playPc = "announce_payload"
  /\ \/ /\ SendPayload(playTarget, "announcement")
        /\ UNCHANGED troubled
        /\ \/ /\ playTarget < N
              /\ playTarget' = playTarget + 1
              /\ playPc' = "announce_length"
           \/ /\ playTarget = N
              /\ Announced
     \/ /\ SendTimesOut(playTarget)
        /\ Announced
  /\ UNCHANGED <<running, queues, sent, server, usr1, response, stopPc,
                 answered>>

PlayThread == Announce \/ AnnounceLength \/ AnnouncePayload

-----------------------------------------------------------------------------
(* set_player_running(player, false), called by thread t.  The server and  *)
(* the response thread call it when they have left their loops, the others *)
(* when they please.                                                       *)

StopRunning(t) ==
  /\ stopPc[t] = "idle"
  /\ t = "serv" => servPc = "stop"
  /\ t = "resp" => respPc = "stop"
  /\ running' = FALSE
  /\ stopPc' = [stopPc EXCEPT ![t] = "queue"]
  /\ UNCHANGED <<play, queues, sent, server, usr1, response, wire>>

StopQueue(t) ==
  /\ stopPc[t] = "queue"
  /\ queueRunning' = FALSE
  /\ respPc' = QueueSignalled
  /\ stopPc' = [stopPc EXCEPT ![t] = "kill"]
  /\ UNCHANGED <<running, play, queue, size, sent, server, usr1, serving,
                 target, count, wire>>

\* pthread_kill(serv_thread_id, SIGUSR1)
StopKill(t) ==
  /\ stopPc[t] = "kill"
  /\ usr1' = TRUE
  /\ stopPc' = [stopPc EXCEPT ![t] = "done"]
  /\ UNCHANGED <<running, play, queues, sent, server, response, wire>>

Stop(t) == StopRunning(t) \/ StopQueue(t) \/ StopKill(t)

Next ==
  \/ \E c \in Clients : Ask(c)
  \/ ServerThread \/ ResponseThread \/ PlayThread
  \/ SelectInterrupted \/ WakeSpuriously
  \/ \E t \in Threads : Stop(t)

Spec == Init /\ [][Next]_vars

\* The two threads and every call of set_player_running go on as long as they
\* can: they are not starved and no lock is held for ever.  The threads that
\* remain when the player is stopped stop as well: SIGUSR1 is sent to them.
Fairness ==
  /\ WF_vars(ServerThread)
  /\ WF_vars(ResponseThread)
  /\ \A t \in Threads : WF_vars(~running /\ Stop(t))
  /\ \A t \in {"serv", "resp"} : WF_vars(Stop(t))

FairSpec == Spec /\ Fairness

-----------------------------------------------------------------------------
(* Properties.                                                             *)

\* Every variable has its type; in particular an answer is sent no more than
\* RESEND_COUNT times (the loop of run_response).
TypeOK ==
  /\ running \in BOOLEAN /\ queueRunning \in BOOLEAN /\ usr1 \in BOOLEAN
  /\ queue \in Seq(Requests) /\ size \in Nat /\ known \in Nat
  /\ node \in Requests \cup {NoRequest}
  /\ serving \in Requests \cup {NoRequest}
  /\ sent \in [Clients -> Nat] /\ read \in [Clients -> Nat]
  /\ answered \in [Clients -> Nat]
  /\ ready \subseteq Clients
  /\ target \in Clients /\ count \in 0..RESEND_COUNT - 1
  /\ servPc \in ServPcs /\ respPc \in RespPcs
  /\ stopPc \in [Threads -> {"idle", "queue", "kill", "done"}]
  /\ playPc \in PlayPcs /\ playTarget \in Clients
  /\ half \in [Clients -> Messages \cup {"none"}]
  /\ torn \subseteq Clients /\ troubled \subseteq Clients

\* Although enqueue compares size with its limit outside queue_mutex, and may
\* see an old value of it, the queue never holds more than QUEUE_SIZE + 1
\* requests, and size is their number whenever the lock is free.
QueueBounded == size = Len(queue) /\ size <= QUEUE_SIZE + 1

\* The response thread never sleeps on queue_cond while a request waits for
\* it: the check of the list and the wait are one step, and every enqueue
\* signals.
NoStrandedRequest == respPc = "wait" => queue = <<>>

\* As long as a client is not refused a request, not too slow to take a
\* message, and not told of a new track while a request is being served,
\* whatever it receives is whole: each length is followed by its own payload.
\* The sends of the three threads are not locked; this rests on the response
\* thread being the only one that sends to such a client meanwhile.
WholeUnlessTroubled == torn \subseteq troubled

\* A client is never answered twice, and never answered out of the order in
\* which it sent its requests: an answer is always later than the last one.
AnswersInOrder ==
  [][\A c \in Clients :
       answered'[c] # answered[c] => answered'[c] > answered[c]]_vars

\* The queue and its two threads are a line served first come, first served.
MB == INSTANCE Mailbox WITH line <- queue
ImplementsMailbox == MB!Spec

\* A request that the server thread has read is settled (answered, refused or
\* given up) in the end, unless the player is stopped first.
Held(r) ==
  node = r \/ serving = r \/ \E i \in 1..Len(queue) : queue[i] = r
RequestIsSettled ==
  \A r \in [client : Clients, idx : Numbers] :
    Held(r) ~> (~Held(r) \/ ~running)

\* A response thread that already waits when some thread comes to stop the
\* queue is woken and leaves its loop, whether the queue is empty or not.
StopReachesWaiter ==
  (respPc = "wait" /\ \E t \in Threads : stopPc[t] = "queue")
    ~> respPc = "stop"

-----------------------------------------------------------------------------
(* Claims of the comments in the code that the code does not keep.         *)

\* send.c:128-133 gives as the process of sending "3. Send protobuf message
\* length." and "4. Send protobuf message data.": a client to which a thread has
\* sent the one and not yet the other has got nothing else since.  Two threads
\* that send to one client break this, with no send timing out: the play
\* thread's announcement of a track, or a refusal by the server thread, comes
\* between the parts of a broadcast or an answer, or the other way round.
MessagesAreWhole ==
  /\ servPc = "refuse_payload" => half[node.client] = "refusal"
  /\ respPc = "broadcast_payload" => half[target] = "broadcast"
  /\ respPc = "answer_payload" => half[serving.client] = "answer"
  /\ respPc = "notice_payload" => half[serving.client] = "notice"
  /\ playPc = "announce_payload" => half[playTarget] = "announcement"
=============================================================================
