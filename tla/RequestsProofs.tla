--------------------------- MODULE RequestsProofs ---------------------------
(***************************************************************************)
(* Proofs about Requests, for every number of clients and of requests,     *)
(* every limit of the queue, every number of sends of an answer and every  *)
(* set of threads that stop the player.                                    *)
(***************************************************************************)
EXTENDS Requests, TLAPS

\* Where the server thread, and where the response thread, is at a request.
Holding == {"check", "enqueue", "refuse_length", "refuse_payload"}
Handling == {"execute", "broadcast_length", "broadcast_payload",
             "answer_length", "answer_payload", "notice_length",
             "notice_payload", "resend"}

\* Each thread has a request in hand exactly while it works on one.
HandInv ==
  /\ node # NoRequest <=> servPc \in Holding
  /\ serving # NoRequest <=> respPc \in Handling

\* The size the server thread knows is never too small, since it alone makes
\* the queue longer; a check it has passed stays passed.
SizeInv ==
  /\ size = Len(queue)
  /\ size <= known
  /\ size <= QUEUE_SIZE + 1
  /\ servPc = "enqueue" => size <= QUEUE_SIZE

\* The message of which client c should now have got the length only.
Expected(c) ==
  IF respPc = "broadcast_payload" /\ target = c THEN "broadcast"
  ELSE IF respPc = "answer_payload" /\ serving.client = c THEN "answer"
  ELSE IF playPc = "announce_payload" /\ playTarget = c THEN "announcement"
  ELSE "none"

\* Until a client is in trouble, it gets what the response thread sends, part
\* by part; refusals and notices go to clients in trouble.
FrameInv ==
  /\ \A c \in Clients :
       c \in troubled \/ (half[c] = Expected(c) /\ c \notin torn)
  /\ servPc = "refuse_payload" => node.client \in troubled
  /\ respPc \in {"notice_length", "notice_payload", "resend"} =>
       serving.client \in troubled
  /\ playPc # "idle" /\ respPc \in Handling \ {"execute"} =>
       Clients \subseteq troubled

\* The numbers of a client's requests in the order they must have: those that
\* are answered, being served, in the queue from its head on, in the server
\* thread's hand, read, sent.
CountsOrdered ==
  /\ \A c \in Clients :
       answered[c] <= read[c] /\ read[c] <= sent[c] /\ sent[c] <= MaxRequests[c]
  /\ \A c \in ready : read[c] < sent[c]

NodeIsLast ==
  node # NoRequest =>
    /\ node.idx = read[node.client] /\ answered[node.client] < node.idx
    /\ serving # NoRequest /\ serving.client = node.client =>
         serving.idx < node.idx

ServingIsFirst ==
  serving # NoRequest =>
    answered[serving.client] < serving.idx /\ serving.idx <= read[serving.client]

LineBetween ==
  \A i \in 1..Len(queue) :
    /\ answered[queue[i].client] < queue[i].idx
    /\ queue[i].idx <= read[queue[i].client]
    /\ node # NoRequest /\ node.client = queue[i].client =>
         queue[i].idx < node.idx
    /\ serving # NoRequest /\ serving.client = queue[i].client =>
         serving.idx < queue[i].idx

LineOrdered ==
  \A i, j \in 1..Len(queue) :
    i < j /\ queue[i].client = queue[j].client => queue[i].idx < queue[j].idx

OrderInv ==
  CountsOrdered /\ NodeIsLast /\ ServingIsFirst /\ LineBetween /\ LineOrdered

\* The three kinds of conjuncts of TypeOK, which are proved one by one.
FlagTypes ==
  running \in BOOLEAN /\ queueRunning \in BOOLEAN /\ usr1 \in BOOLEAN

DataTypes ==
  /\ queue \in Seq(Requests) /\ size \in Nat /\ known \in Nat
  /\ node \in Requests \cup {NoRequest}
  /\ serving \in Requests \cup {NoRequest}
  /\ sent \in [Clients -> Nat] /\ read \in [Clients -> Nat]
  /\ answered \in [Clients -> Nat]
  /\ ready \subseteq Clients
  /\ target \in Clients /\ count \in 0..RESEND_COUNT - 1

PlaceTypes ==
  /\ servPc \in ServPcs /\ respPc \in RespPcs
  /\ stopPc \in [Threads -> {"idle", "queue", "kill", "done"}]
  /\ playPc \in PlayPcs /\ playTarget \in Clients
  /\ half \in [Clients -> Messages \cup {"none"}]
  /\ torn \subseteq Clients /\ troubled \subseteq Clients

IInv ==
  TypeOK /\ HandInv /\ SizeInv /\ NoStrandedRequest /\ FrameInv /\ OrderInv

-----------------------------------------------------------------------------

\* What is left of a queue when its head is taken off.
LEMMA HeadAndTail ==
  ASSUME NEW q \in Seq(Requests), q # <<>>
  PROVE  /\ Len(q) > 0
         /\ Head(q) = q[1] /\ Head(q) \in Requests
         /\ Tail(q) \in Seq(Requests) /\ Len(Tail(q)) = Len(q) - 1
         /\ \A i \in 1..Len(Tail(q)) : Tail(q)[i] = q[i + 1]
  OBVIOUS

\* What a queue is after enqueue.
LEMMA Appended ==
  ASSUME NEW q \in Seq(Requests), NEW r \in Requests
  PROVE  /\ Append(q, r) \in Seq(Requests) /\ Len(Append(q, r)) = Len(q) + 1
         /\ \A i \in 1..Len(q) : Append(q, r)[i] = q[i]
         /\ Append(q, r)[Len(q) + 1] = r
         /\ q = <<>> <=> Len(q) = 0
  OBVIOUS

\* TypeOK is proved in three parts.
LEMMA TypeParts == TypeOK <=> FlagTypes /\ DataTypes /\ PlaceTypes
  BY DEF TypeOK, FlagTypes, DataTypes, PlaceTypes

\* Who works on a request has one.
LEMMA RequestInHand ==
  ASSUME TypeOK, HandInv
  PROVE  /\ servPc \in Holding =>
              /\ node \in Requests
              /\ node.client \in Clients /\ node.idx \in Nat
         /\ respPc \in Handling =>
              /\ serving \in Requests
              /\ serving.client \in Clients /\ serving.idx \in Nat
  BY DEF TypeOK, HandInv, Requests

\* The requests of the program have a client and a number.
LEMMA RequestFields ==
  /\ \A r \in Requests : r.client \in Clients /\ r.idx \in Nat
  /\ \A c \in Clients, k \in Nat : [client |-> c, idx |-> k] \in Requests
  BY DEF Requests

\* What TypeOK says of everything that holds a request or counts them.
LEMMA OrderTypes ==
  ASSUME TypeOK
  PROVE  /\ Len(queue) \in Nat
         /\ \A i \in 1..Len(queue) :
              queue[i].client \in Clients /\ queue[i].idx \in Nat
         /\ node # NoRequest => node.client \in Clients /\ node.idx \in Nat
         /\ serving # NoRequest =>
              serving.client \in Clients /\ serving.idx \in Nat
         /\ read \in [Clients -> Nat] /\ answered \in [Clients -> Nat]
         /\ sent \in [Clients -> Nat] /\ MaxRequests \in [Clients -> Nat]
         /\ ready \subseteq Clients
<1>1. queue \in Seq(Requests)
  BY DEF TypeOK
<1>2. \A i \in 1..Len(queue) : queue[i] \in Requests
  BY <1>1
<1>3. /\ node # NoRequest => node \in Requests
      /\ serving # NoRequest => serving \in Requests
  BY DEF TypeOK
<1>4. MaxRequests \in [Clients -> Nat]
  BY RequestAssumption DEF Clients
<1>5. Len(queue) \in Nat
  BY <1>1
<1>6. QED
  BY <1>2, <1>3, <1>4, <1>5, RequestFields DEF TypeOK

\* What dequeue does to the queue.
LEMMA Taking ==
  ASSUME TypeOK, SizeInv, TakeHead
  PROVE  /\ Len(queue) > 0
         /\ serving' = queue[1] /\ serving' \in Requests
         /\ queue' \in Seq(Requests) /\ Len(queue') = Len(queue) - 1
         /\ \A i \in 1..Len(queue') : queue'[i] = queue[i + 1]
         /\ size' = size - 1 /\ size' \in Nat /\ size' = Len(queue')
<1>1. queue \in Seq(Requests) /\ queue # <<>>
  BY DEF TypeOK, TakeHead
<1>2. /\ Head(queue) = queue[1] /\ Head(queue) \in Requests
      /\ Tail(queue) \in Seq(Requests) /\ Len(Tail(queue)) = Len(queue) - 1
      /\ \A i \in 1..Len(Tail(queue)) : Tail(queue)[i] = queue[i + 1]
      /\ Len(queue) > 0 /\ Len(queue) \in Nat
  BY <1>1, HeadAndTail
<1>3. QED
  BY <1>1, <1>2 DEF TakeHead, SizeInv

\* What enqueue does to it.
LEMMA Putting ==
  ASSUME TypeOK, HandInv, SizeInv, Enqueue
  PROVE  /\ node # NoRequest
         /\ queue' \in Seq(Requests) /\ Len(queue') = Len(queue) + 1
         /\ \A i \in 1..Len(queue) : queue'[i] = queue[i]
         /\ queue'[Len(queue) + 1] = node
         /\ size' = size + 1 /\ size' = Len(queue')
<1>1. queue \in Seq(Requests) /\ node \in Requests /\ node # NoRequest
  BY RequestInHand DEF TypeOK, Enqueue, HandInv, Holding
<1>2. /\ Append(queue, node) \in Seq(Requests)
      /\ Len(Append(queue, node)) = Len(queue) + 1
      /\ \A i \in 1..Len(queue) : Append(queue, node)[i] = queue[i]
      /\ Append(queue, node)[Len(queue) + 1] = node
      /\ queue = <<>> <=> Len(queue) = 0
  BY <1>1, Appended
<1>3. QED
  BY <1>1, <1>2 DEF Enqueue, SizeInv

\* The first client and the first send are in range.
LEMMA Firsts == 1 \in Clients /\ 0 \in 0..RESEND_COUNT - 1
  BY NAssumption, QueueAssumption DEF Clients

-----------------------------------------------------------------------------
(* Each part of IInv is kept by every step.                                *)

\* The flags stay Boolean.
LEMMA FlagStep ==
  ASSUME IInv, [Next]_vars
  PROVE  FlagTypes'
<1> USE TypeParts DEF IInv, FlagTypes
<1>1. ASSUME NEW c \in Clients, Ask(c) PROVE FlagTypes'
  BY <1>1 DEF Ask, play, queues, server, response, wire
<1>2. CASE ServHead
  BY <1>2 DEF ServHead, play, queues, server, response, wire
<1>3. CASE ServSelect
  BY <1>3 DEF ServSelect, play, queues, server, response, wire
<1>4. CASE ServReceive
  BY <1>4 DEF ServReceive, play, queues, server, response, wire
<1>5. CASE ServScanned
  BY <1>5 DEF ServScanned, play, queues, server, response, wire
<1>6. CASE EnqueueCheck
  BY <1>6 DEF EnqueueCheck, play, queues, server, response, wire
<1>7. CASE Enqueue
  BY <1>7 DEF Enqueue, play, queues, server, response, wire
<1>8. CASE RefuseLength
  BY <1>8 DEF RefuseLength, SendLength, SendTimesOut, Trouble, play, queues,
     server, response, wire
<1>9. CASE RefusePayload
  BY <1>9 DEF RefusePayload, SendPayload, SendTimesOut, Trouble, play, queues,
     server, response, wire
<1>10. CASE RespHead
  BY <1>10 DEF RespHead, play, queues, server, response, wire
<1>11. CASE Dequeue
  BY <1>11 DEF Dequeue, TakeHead, play, queues, server, response, wire
<1>12. CASE DequeueWoken
  BY <1>12 DEF DequeueWoken, TakeHead, play, queues, server, response, wire
<1>13. CASE Execute
  BY <1>13 DEF Execute, play, queues, server, response, wire
<1>14. CASE BroadcastLength
  BY <1>14 DEF BroadcastLength, SendLength, SendTimesOut, Trouble, ToAnswer,
     play, queues, server, response, wire
<1>15. CASE BroadcastPayload
  BY <1>15 DEF BroadcastPayload, SendPayload, SendTimesOut, Trouble, ToAnswer,
     play, queues, server, response, wire
<1>16. CASE AnswerLength
  BY <1>16 DEF AnswerLength, SendLength, SendTimesOut, Trouble, play, queues,
     server, response, wire
<1>17. CASE AnswerPayload
  BY <1>17 DEF AnswerPayload, SendPayload, SendTimesOut, Trouble, play, queues,
     server, response, wire
<1>18. CASE NoticeLength
  BY <1>18 DEF NoticeLength, SendLength, SendTimesOut, Trouble, play, queues,
     server, response, wire
<1>19. CASE NoticePayload
  BY <1>19 DEF NoticePayload, SendPayload, SendTimesOut, Trouble, play, queues,
     server, response, wire
<1>20. CASE Resend
  BY <1>20 DEF Resend, play, queues, server, response, wire
<1>21. CASE WakeSpuriously
  BY <1>21 DEF WakeSpuriously, play, queues, server, response, wire
<1>22. ASSUME NEW t \in Threads, StopRunning(t) PROVE FlagTypes'
  BY <1>22 DEF StopRunning, play, queues, server, response, wire
<1>23. ASSUME NEW t \in Threads, StopQueue(t) PROVE FlagTypes'
  BY <1>23 DEF StopQueue, play, queues, server, response, wire
<1>24. ASSUME NEW t \in Threads, StopKill(t) PROVE FlagTypes'
  BY <1>24 DEF StopKill, play, queues, server, response, wire
<1>25. CASE UNCHANGED vars
  BY <1>25 DEF vars, play, queues, server, response, wire
<1>26. CASE SelectInterrupted
  BY <1>26 DEF SelectInterrupted, play, queues, server, response, wire
<1>27. CASE Announce
  BY <1>27 DEF Announce, play, queues, server, response, wire
<1>28. CASE AnnounceLength
  BY <1>28 DEF AnnounceLength, Announced, SendLength, SendTimesOut, Trouble,
     play, queues, server, response, wire
<1>29. CASE AnnouncePayload
  BY <1>29 DEF AnnouncePayload, Announced, SendPayload, SendTimesOut, Trouble,
     play, queues, server, response, wire
<1>30. QED
  BY <1>1, <1>2, <1>3, <1>4, <1>5, <1>6, <1>7, <1>8, <1>9, <1>10, <1>11,
     <1>12, <1>13, <1>14, <1>15, <1>16, <1>17, <1>18, <1>19, <1>20, <1>21,
     <1>22, <1>23, <1>24, <1>25, <1>26, <1>27, <1>28, <1>29
     DEF Next, ServerThread, ResponseThread, PlayThread, Stop

\* Requests, numbers and sizes stay what they are.
LEMMA DataStep ==
  ASSUME IInv, [Next]_vars
  PROVE  DataTypes'
<1> USE TypeParts, NAssumption, QueueAssumption DEF IInv, DataTypes
<1>1. ASSUME NEW c \in Clients, Ask(c) PROVE DataTypes'
  BY <1>1 DEF Ask, play, queues, server, response, wire
<1>2. CASE ServHead
  BY <1>2, RequestInHand DEF ServHead, Holding, Handling, play, queues, server,
     response, wire
<1>3. CASE ServSelect
  BY <1>3, RequestInHand DEF ServSelect, Holding, Handling, play, queues,
     server, response, wire
<1>4. CASE ServReceive
  <2>1. PICK c \in Clients :
          /\ read' = [read EXCEPT ![c] = @ + 1]
          /\ node' = [client |-> c, idx |-> read[c] + 1]
          /\ ready' = ready \ {c}
    BY <1>4 DEF ServReceive
  <2>2. node' \in Requests
    BY <2>1, RequestFields
  <2>3. QED
    BY <1>4, <2>1, <2>2 DEF ServReceive, play, queues, server, response, wire
<1>5. CASE ServScanned
  BY <1>5, RequestInHand DEF ServScanned, Holding, Handling, play, queues,
     server, response, wire
<1>6. CASE EnqueueCheck
  BY <1>6, RequestInHand DEF EnqueueCheck, Holding, Handling, play, queues,
     server, response, wire
<1>7. CASE Enqueue
  BY <1>7, Putting DEF Enqueue, play, queues, server, response, wire
<1>8. CASE RefuseLength
  BY <1>8, RequestInHand DEF RefuseLength, SendLength, SendTimesOut, Trouble,
     Holding, Handling, play, queues, server, response, wire
<1>9. CASE RefusePayload
  BY <1>9, RequestInHand DEF RefusePayload, SendPayload, SendTimesOut,
     Trouble, Holding, Handling, play, queues, server, response, wire
<1>10. CASE RespHead
  BY <1>10, RequestInHand DEF RespHead, Holding, Handling, play, queues,
     server, response, wire
<1>11. CASE Dequeue
  <2>1. CASE TakeHead
    BY <1>11, <2>1, Taking DEF Dequeue, TakeHead, play, queues, server,
       response, wire
  <2>2. CASE ~TakeHead
    BY <1>11, <2>2 DEF Dequeue, play, queues, server, response, wire
  <2>3. QED
    BY <1>11, <2>1, <2>2 DEF Dequeue
<1>12. CASE DequeueWoken
  <2>1. CASE TakeHead
    BY <1>12, <2>1, Taking DEF DequeueWoken, TakeHead, play, queues, server,
       response, wire
  <2>2. CASE ~TakeHead
    BY <1>12, <2>2 DEF DequeueWoken, play, queues, server, response, wire
  <2>3. QED
    BY <1>12, <2>1, <2>2 DEF DequeueWoken
<1>13. CASE Execute
  BY <1>13, Firsts DEF Execute, play, queues, server, response, wire
<1>14. CASE BroadcastLength
  BY <1>14, Firsts DEF BroadcastLength, ToAnswer, play, queues, server,
     response, wire
<1>15. CASE BroadcastPayload
  <2>1. target < N => target + 1 \in Clients
    BY DEF Clients
  <2>2. target' \in Clients /\ count' \in 0..RESEND_COUNT - 1
    BY <1>15, <2>1, Firsts DEF BroadcastPayload, ToAnswer, play, queues,
       server, response, wire
  <2>3. QED
    BY <1>15, <2>2 DEF BroadcastPayload, play, queues, server, response, wire
<1>16. CASE AnswerLength
  BY <1>16, RequestInHand DEF AnswerLength, SendLength, SendTimesOut, Trouble,
     Holding, Handling, play, queues, server, response, wire
<1>17. CASE AnswerPayload
  BY <1>17, RequestInHand DEF AnswerPayload, SendPayload, SendTimesOut,
     Trouble, Holding, Handling, play, queues, server, response, wire
<1>18. CASE NoticeLength
  BY <1>18, RequestInHand DEF NoticeLength, SendLength, SendTimesOut, Trouble,
     Holding, Handling, play, queues, server, response, wire
<1>19. CASE NoticePayload
  BY <1>19, RequestInHand DEF NoticePayload, SendPayload, SendTimesOut,
     Trouble, Holding, Handling, play, queues, server, response, wire
<1>20. CASE Resend
  BY <1>20, RequestInHand DEF Resend, Holding, Handling, play, queues, server,
     response, wire
<1>21. CASE WakeSpuriously
  BY <1>21, RequestInHand DEF WakeSpuriously, Holding, Handling, play, queues,
     server, response, wire
<1>22. ASSUME NEW t \in Threads, StopRunning(t) PROVE DataTypes'
  BY <1>22 DEF StopRunning, play, queues, server, response, wire
<1>23. ASSUME NEW t \in Threads, StopQueue(t) PROVE DataTypes'
  BY <1>23 DEF StopQueue, QueueSignalled, play, queues, server, response, wire
<1>24. ASSUME NEW t \in Threads, StopKill(t) PROVE DataTypes'
  BY <1>24 DEF StopKill, play, queues, server, response, wire
<1>25. CASE UNCHANGED vars
  BY <1>25 DEF vars, play, queues, server, response, wire
<1>26. CASE SelectInterrupted
  BY <1>26, RequestInHand DEF SelectInterrupted, Holding, Handling, play,
     queues, server, response, wire
<1>27. CASE Announce
  BY <1>27, RequestInHand DEF Announce, Holding, Handling, play, queues,
     server, response, wire
<1>28. CASE AnnounceLength
  BY <1>28, RequestInHand DEF AnnounceLength, Announced, SendLength,
     SendTimesOut, Trouble, Holding, Handling, play, queues, server, response,
     wire
<1>29. CASE AnnouncePayload
  BY <1>29, RequestInHand DEF AnnouncePayload, Announced, SendPayload,
     SendTimesOut, Trouble, Holding, Handling, play, queues, server, response,
     wire
<1>30. QED
  BY <1>1, <1>2, <1>3, <1>4, <1>5, <1>6, <1>7, <1>8, <1>9, <1>10, <1>11,
     <1>12, <1>13, <1>14, <1>15, <1>16, <1>17, <1>18, <1>19, <1>20, <1>21,
     <1>22, <1>23, <1>24, <1>25, <1>26, <1>27, <1>28, <1>29
     DEF Next, ServerThread, ResponseThread, PlayThread, Stop

\* The threads stay in their code, and the messages are the known ones.
LEMMA PlaceStep ==
  ASSUME IInv, [Next]_vars
  PROVE  PlaceTypes'
<1> USE TypeParts DEF IInv, DataTypes, PlaceTypes, ServPcs, RespPcs, PlayPcs,
  Messages
<1>1. ASSUME NEW c \in Clients, Ask(c) PROVE PlaceTypes'
  BY <1>1 DEF Ask, play, queues, server, response, wire
<1>2. CASE ServHead
  BY <1>2 DEF ServHead, play, queues, server, response, wire
<1>3. CASE ServSelect
  BY <1>3 DEF ServSelect, play, queues, server, response, wire
<1>4. CASE ServReceive
  BY <1>4 DEF ServReceive, play, queues, server, response, wire
<1>5. CASE ServScanned
  BY <1>5 DEF ServScanned, play, queues, server, response, wire
<1>6. CASE EnqueueCheck
  BY <1>6 DEF EnqueueCheck, play, queues, server, response, wire
<1>7. CASE Enqueue
  BY <1>7 DEF Enqueue, QueueSignalled, play, queues, server, response, wire
<1>8. CASE RefuseLength
  BY <1>8, RequestInHand DEF RefuseLength, SendLength, SendTimesOut, Trouble,
     Holding, Handling, play, queues, server, response, wire
<1>9. CASE RefusePayload
  BY <1>9, RequestInHand DEF RefusePayload, SendPayload, SendTimesOut,
     Trouble, Holding, Handling, play, queues, server, response, wire
<1>10. CASE RespHead
  BY <1>10 DEF RespHead, play, queues, server, response, wire
<1>11. CASE Dequeue
  BY <1>11 DEF Dequeue, TakeHead, play, queues, server, response, wire
<1>12. CASE DequeueWoken
  BY <1>12 DEF DequeueWoken, TakeHead, play, queues, server, response, wire
<1>13. CASE Execute
  BY <1>13 DEF Execute, play, queues, server, response, wire
<1>14. CASE BroadcastLength
  BY <1>14 DEF BroadcastLength, SendLength, SendTimesOut, Trouble, ToAnswer,
     play, queues, server, response, wire
<1>15. CASE BroadcastPayload
  BY <1>15 DEF BroadcastPayload, SendPayload, SendTimesOut, Trouble, ToAnswer,
     play, queues, server, response, wire
<1>16. CASE AnswerLength
  BY <1>16, RequestInHand DEF AnswerLength, SendLength, SendTimesOut, Trouble,
     Holding, Handling, play, queues, server, response, wire
<1>17. CASE AnswerPayload
  BY <1>17, RequestInHand DEF AnswerPayload, SendPayload, SendTimesOut,
     Trouble, Holding, Handling, play, queues, server, response, wire
<1>18. CASE NoticeLength
  BY <1>18, RequestInHand DEF NoticeLength, SendLength, SendTimesOut, Trouble,
     Holding, Handling, play, queues, server, response, wire
<1>19. CASE NoticePayload
  BY <1>19, RequestInHand DEF NoticePayload, SendPayload, SendTimesOut,
     Trouble, Holding, Handling, play, queues, server, response, wire
<1>20. CASE Resend
  BY <1>20 DEF Resend, play, queues, server, response, wire
<1>21. CASE WakeSpuriously
  BY <1>21 DEF WakeSpuriously, play, queues, server, response, wire
<1>22. ASSUME NEW t \in Threads, StopRunning(t) PROVE PlaceTypes'
  BY <1>22 DEF StopRunning, play, queues, server, response, wire
<1>23. ASSUME NEW t \in Threads, StopQueue(t) PROVE PlaceTypes'
  BY <1>23 DEF StopQueue, QueueSignalled, play, queues, server, response, wire
<1>24. ASSUME NEW t \in Threads, StopKill(t) PROVE PlaceTypes'
  BY <1>24 DEF StopKill, play, queues, server, response, wire
<1>25. CASE UNCHANGED vars
  BY <1>25 DEF vars, play, queues, server, response, wire
<1>26. CASE SelectInterrupted
  BY <1>26 DEF SelectInterrupted, play, queues, server, response, wire
<1>27. CASE Announce
  BY <1>27 DEF Announce, play, queues, server, response, wire
<1>28. CASE AnnounceLength
  BY <1>28, Firsts DEF AnnounceLength, Announced, SendLength, SendTimesOut, Trouble,
     play, queues, server, response, wire
<1>29. CASE AnnouncePayload
  <2>1. playTarget < N => playTarget + 1 \in Clients
    <3>1. playTarget \in Clients
      BY DEF TypeOK
    <3>2. QED
      BY <3>1, NAssumption DEF Clients
  <2>2. playPc' \in PlayPcs /\ playTarget' \in Clients
    BY <1>29, <2>1, Firsts DEF AnnouncePayload, Announced
  <2>3. QED
    BY <1>29, <2>2 DEF AnnouncePayload, SendPayload, SendTimesOut, Trouble,
       queues, server, response
<1>30. QED
  BY <1>1, <1>2, <1>3, <1>4, <1>5, <1>6, <1>7, <1>8, <1>9, <1>10, <1>11,
     <1>12, <1>13, <1>14, <1>15, <1>16, <1>17, <1>18, <1>19, <1>20, <1>21,
     <1>22, <1>23, <1>24, <1>25, <1>26, <1>27, <1>28, <1>29
     DEF Next, ServerThread, ResponseThread, PlayThread, Stop

\* A thread takes a request up and puts it down where HandInv says.
LEMMA HandStep ==
  ASSUME IInv, [Next]_vars
  PROVE  HandInv'
<1> USE DEF IInv, TypeOK, HandInv, Holding, Handling
<1>1. ASSUME NEW c \in Clients, Ask(c) PROVE HandInv'
  BY <1>1 DEF Ask, play, queues, server, response, wire
<1>2. CASE ServHead
  BY <1>2 DEF ServHead, play, queues, server, response, wire
<1>3. CASE ServSelect
  BY <1>3 DEF ServSelect, play, queues, server, response, wire
<1>4. CASE ServReceive
  <2>1. PICK c \in Clients : node' = [client |-> c, idx |-> read[c] + 1]
    BY <1>4 DEF ServReceive
  <2>2. node' \in Requests
    <3>1. read \in [Clients -> Nat]
      OBVIOUS
    <3>2. read[c] + 1 \in Nat
      BY <3>1
    <3>3. QED
      BY <2>1, <3>2, RequestFields
  <2>3. node' # NoRequest
    BY <2>2, RequestAssumption DEF Requests, Clients
  <2>4. QED
    BY <1>4, <2>3 DEF ServReceive, play, queues, server, response, wire
<1>5. CASE ServScanned
  BY <1>5 DEF ServScanned, play, queues, server, response, wire
<1>6. CASE EnqueueCheck
  BY <1>6 DEF EnqueueCheck, play, queues, server, response, wire
<1>7. CASE Enqueue
  BY <1>7 DEF Enqueue, QueueSignalled, play, queues, server, response, wire
<1>8. CASE RefuseLength
  BY <1>8 DEF RefuseLength, SendLength, SendTimesOut, Trouble, play, queues,
     server, response, wire
<1>9. CASE RefusePayload
  BY <1>9 DEF RefusePayload, SendPayload, SendTimesOut, Trouble, play, queues,
     server, response, wire
<1>10. CASE RespHead
  BY <1>10 DEF RespHead, play, queues, server, response, wire
<1>11. CASE Dequeue
  <2>1. CASE TakeHead
    BY <1>11, <2>1, Taking, RequestAssumption DEF Requests, Clients, Dequeue,
       TakeHead, play, queues, server, response, wire
  <2>2. CASE ~TakeHead
    BY <1>11, <2>2 DEF Dequeue, play, queues, server, response, wire
  <2>3. QED
    BY <1>11, <2>1, <2>2 DEF Dequeue
<1>12. CASE DequeueWoken
  <2>1. CASE TakeHead
    BY <1>12, <2>1, Taking, RequestAssumption DEF Requests, Clients,
       DequeueWoken, TakeHead, play, queues, server, response, wire
  <2>2. CASE ~TakeHead
    BY <1>12, <2>2 DEF DequeueWoken, play, queues, server, response, wire
  <2>3. QED
    BY <1>12, <2>1, <2>2 DEF DequeueWoken
<1>13. CASE Execute
  BY <1>13 DEF Execute, play, queues, server, response, wire
<1>14. CASE BroadcastLength
  BY <1>14 DEF BroadcastLength, SendLength, SendTimesOut, Trouble, ToAnswer,
     play, queues, server, response, wire
<1>15. CASE BroadcastPayload
  BY <1>15 DEF BroadcastPayload, SendPayload, SendTimesOut, Trouble, ToAnswer,
     play, queues, server, response, wire
<1>16. CASE AnswerLength
  BY <1>16 DEF AnswerLength, SendLength, SendTimesOut, Trouble, play, queues,
     server, response, wire
<1>17. CASE AnswerPayload
  BY <1>17 DEF AnswerPayload, SendPayload, SendTimesOut, Trouble, play, queues,
     server, response, wire
<1>18. CASE NoticeLength
  BY <1>18 DEF NoticeLength, SendLength, SendTimesOut, Trouble, play, queues,
     server, response, wire
<1>19. CASE NoticePayload
  BY <1>19 DEF NoticePayload, SendPayload, SendTimesOut, Trouble, play, queues,
     server, response, wire
<1>20. CASE Resend
  BY <1>20 DEF Resend, play, queues, server, response, wire
<1>21. CASE WakeSpuriously
  BY <1>21 DEF WakeSpuriously, play, queues, server, response, wire
<1>22. ASSUME NEW t \in Threads, StopRunning(t) PROVE HandInv'
  BY <1>22 DEF StopRunning, play, queues, server, response, wire
<1>23. ASSUME NEW t \in Threads, StopQueue(t) PROVE HandInv'
  BY <1>23 DEF StopQueue, QueueSignalled, play, queues, server, response, wire
<1>24. ASSUME NEW t \in Threads, StopKill(t) PROVE HandInv'
  BY <1>24 DEF StopKill, play, queues, server, response, wire
<1>25. CASE UNCHANGED vars
  BY <1>25 DEF vars, play, queues, server, response, wire
<1>26. CASE SelectInterrupted
  BY <1>26 DEF SelectInterrupted, play, queues, server, response, wire
<1>27. CASE Announce
  BY <1>27 DEF Announce, play, queues, server, response, wire
<1>28. CASE AnnounceLength
  BY <1>28 DEF AnnounceLength, Announced, SendLength, SendTimesOut, Trouble,
     play, queues, server, response, wire
<1>29. CASE AnnouncePayload
  BY <1>29 DEF AnnouncePayload, Announced, SendPayload, SendTimesOut, Trouble,
     play, queues, server, response, wire
<1>30. QED
  BY <1>1, <1>2, <1>3, <1>4, <1>5, <1>6, <1>7, <1>8, <1>9, <1>10, <1>11,
     <1>12, <1>13, <1>14, <1>15, <1>16, <1>17, <1>18, <1>19, <1>20, <1>21,
     <1>22, <1>23, <1>24, <1>25, <1>26, <1>27, <1>28, <1>29
     DEF Next, ServerThread, ResponseThread, PlayThread, Stop

\* The check of the size holds until the request is in the queue.
LEMMA SizeStep ==
  ASSUME IInv, [Next]_vars
  PROVE  SizeInv'
<1> USE DEF IInv, TypeOK, SizeInv
<1>1. ASSUME NEW c \in Clients, Ask(c) PROVE SizeInv'
  BY <1>1 DEF Ask, play, queues, server, response, wire
<1>2. CASE ServHead
  BY <1>2 DEF ServHead, play, queues, server, response, wire
<1>3. CASE ServSelect
  BY <1>3 DEF ServSelect, play, queues, server, response, wire
<1>4. CASE ServReceive
  BY <1>4 DEF ServReceive, play, queues, server, response, wire
<1>5. CASE ServScanned
  BY <1>5 DEF ServScanned, play, queues, server, response, wire
<1>6. CASE EnqueueCheck
  <2>1. PICK seen \in size..known :
          servPc' = IF seen > QUEUE_SIZE THEN "refuse_length" ELSE "enqueue"
    BY <1>6 DEF EnqueueCheck
  <2>2. servPc' = "enqueue" => size <= QUEUE_SIZE
    BY <2>1, QueueAssumption
  <2>3. QED
    BY <1>6, <2>2 DEF EnqueueCheck, play, queues, server, response, wire
<1>7. CASE Enqueue
  <2>1. size' = size + 1 /\ size' = Len(queue')
    BY <1>7, Putting
  <2>2. known' = size' /\ servPc' = "scan" /\ size <= QUEUE_SIZE
    BY <1>7 DEF Enqueue
  <2>3. QED
    BY <2>1, <2>2, QueueAssumption
<1>8. CASE RefuseLength
  BY <1>8 DEF RefuseLength, SendLength, SendTimesOut, Trouble, play, queues,
     server, response, wire
<1>9. CASE RefusePayload
  BY <1>9 DEF RefusePayload, SendPayload, SendTimesOut, Trouble, play, queues,
     server, response, wire
<1>10. CASE RespHead
  BY <1>10 DEF RespHead, play, queues, server, response, wire
<1>11. CASE Dequeue
  <2>1. CASE TakeHead
    BY <1>11, <2>1, Taking, QueueAssumption DEF Dequeue, play, queues, server,
       response, wire
  <2>2. CASE ~TakeHead
    BY <1>11, <2>2 DEF Dequeue, play, queues, server, response, wire
  <2>3. QED
    BY <1>11, <2>1, <2>2 DEF Dequeue
<1>12. CASE DequeueWoken
  <2>1. CASE TakeHead
    BY <1>12, <2>1, Taking, QueueAssumption DEF DequeueWoken, play, queues,
       server, response, wire
  <2>2. CASE ~TakeHead
    BY <1>12, <2>2 DEF DequeueWoken, play, queues, server, response, wire
  <2>3. QED
    BY <1>12, <2>1, <2>2 DEF DequeueWoken
<1>13. CASE Execute
  BY <1>13 DEF Execute, play, queues, server, response, wire
<1>14. CASE BroadcastLength
  BY <1>14 DEF BroadcastLength, SendLength, SendTimesOut, Trouble, ToAnswer,
     play, queues, server, response, wire
<1>15. CASE BroadcastPayload
  BY <1>15 DEF BroadcastPayload, SendPayload, SendTimesOut, Trouble, ToAnswer,
     play, queues, server, response, wire
<1>16. CASE AnswerLength
  BY <1>16 DEF AnswerLength, SendLength, SendTimesOut, Trouble, play, queues,
     server, response, wire
<1>17. CASE AnswerPayload
  BY <1>17 DEF AnswerPayload, SendPayload, SendTimesOut, Trouble, play, queues,
     server, response, wire
<1>18. CASE NoticeLength
  BY <1>18 DEF NoticeLength, SendLength, SendTimesOut, Trouble, play, queues,
     server, response, wire
<1>19. CASE NoticePayload
  BY <1>19 DEF NoticePayload, SendPayload, SendTimesOut, Trouble, play, queues,
     server, response, wire
<1>20. CASE Resend
  BY <1>20 DEF Resend, play, queues, server, response, wire
<1>21. CASE WakeSpuriously
  BY <1>21 DEF WakeSpuriously, play, queues, server, response, wire
<1>22. ASSUME NEW t \in Threads, StopRunning(t) PROVE SizeInv'
  BY <1>22 DEF StopRunning, play, queues, server, response, wire
<1>23. ASSUME NEW t \in Threads, StopQueue(t) PROVE SizeInv'
  BY <1>23 DEF StopQueue, QueueSignalled, play, queues, server, response, wire
<1>24. ASSUME NEW t \in Threads, StopKill(t) PROVE SizeInv'
  BY <1>24 DEF StopKill, play, queues, server, response, wire
<1>25. CASE UNCHANGED vars
  BY <1>25 DEF vars, play, queues, server, response, wire
<1>26. CASE SelectInterrupted
  BY <1>26 DEF SelectInterrupted, play, queues, server, response, wire
<1>27. CASE Announce
  BY <1>27 DEF Announce, play, queues, server, response, wire
<1>28. CASE AnnounceLength
  BY <1>28 DEF AnnounceLength, Announced, SendLength, SendTimesOut, Trouble,
     play, queues, server, response, wire
<1>29. CASE AnnouncePayload
  BY <1>29 DEF AnnouncePayload, Announced, SendPayload, SendTimesOut, Trouble,
     play, queues, server, response, wire
<1>30. QED
  BY <1>1, <1>2, <1>3, <1>4, <1>5, <1>6, <1>7, <1>8, <1>9, <1>10, <1>11,
     <1>12, <1>13, <1>14, <1>15, <1>16, <1>17, <1>18, <1>19, <1>20, <1>21,
     <1>22, <1>23, <1>24, <1>25, <1>26, <1>27, <1>28, <1>29
     DEF Next, ServerThread, ResponseThread, PlayThread, Stop

\* Nothing is put into the queue of a sleeping response thread.
LEMMA WaitStep ==
  ASSUME IInv, [Next]_vars
  PROVE  NoStrandedRequest'
<1> USE DEF IInv, TypeOK, NoStrandedRequest
<1>1. ASSUME NEW c \in Clients, Ask(c) PROVE NoStrandedRequest'
  BY <1>1 DEF Ask, play, queues, server, response, wire
<1>2. CASE ServHead
  BY <1>2 DEF ServHead, play, queues, server, response, wire
<1>3. CASE ServSelect
  BY <1>3 DEF ServSelect, play, queues, server, response, wire
<1>4. CASE ServReceive
  BY <1>4 DEF ServReceive, play, queues, server, response, wire
<1>5. CASE ServScanned
  BY <1>5 DEF ServScanned, play, queues, server, response, wire
<1>6. CASE EnqueueCheck
  BY <1>6 DEF EnqueueCheck, play, queues, server, response, wire
<1>7. CASE Enqueue
  BY <1>7 DEF Enqueue, QueueSignalled, play, queues, server, response, wire
<1>8. CASE RefuseLength
  BY <1>8 DEF RefuseLength, SendLength, SendTimesOut, Trouble, play, queues,
     server, response, wire
<1>9. CASE RefusePayload
  BY <1>9 DEF RefusePayload, SendPayload, SendTimesOut, Trouble, play, queues,
     server, response, wire
<1>10. CASE RespHead
  BY <1>10 DEF RespHead, play, queues, server, response, wire
<1>11. CASE Dequeue
  BY <1>11 DEF Dequeue, TakeHead, play, queues, server, response, wire
<1>12. CASE DequeueWoken
  BY <1>12 DEF DequeueWoken, TakeHead, play, queues, server, response, wire
<1>13. CASE Execute
  BY <1>13 DEF Execute, play, queues, server, response, wire
<1>14. CASE BroadcastLength
  BY <1>14 DEF BroadcastLength, SendLength, SendTimesOut, Trouble, ToAnswer,
     play, queues, server, response, wire
<1>15. CASE BroadcastPayload
  BY <1>15 DEF BroadcastPayload, SendPayload, SendTimesOut, Trouble, ToAnswer,
     play, queues, server, response, wire
<1>16. CASE AnswerLength
  BY <1>16 DEF AnswerLength, SendLength, SendTimesOut, Trouble, play, queues,
     server, response, wire
<1>17. CASE AnswerPayload
  BY <1>17 DEF AnswerPayload, SendPayload, SendTimesOut, Trouble, play, queues,
     server, response, wire
<1>18. CASE NoticeLength
  BY <1>18 DEF NoticeLength, SendLength, SendTimesOut, Trouble, play, queues,
     server, response, wire
<1>19. CASE NoticePayload
  BY <1>19 DEF NoticePayload, SendPayload, SendTimesOut, Trouble, play, queues,
     server, response, wire
<1>20. CASE Resend
  BY <1>20 DEF Resend, play, queues, server, response, wire
<1>21. CASE WakeSpuriously
  BY <1>21 DEF WakeSpuriously, play, queues, server, response, wire
<1>22. ASSUME NEW t \in Threads, StopRunning(t) PROVE NoStrandedRequest'
  BY <1>22 DEF StopRunning, play, queues, server, response, wire
<1>23. ASSUME NEW t \in Threads, StopQueue(t) PROVE NoStrandedRequest'
  BY <1>23 DEF StopQueue, QueueSignalled, play, queues, server, response, wire
<1>24. ASSUME NEW t \in Threads, StopKill(t) PROVE NoStrandedRequest'
  BY <1>24 DEF StopKill, play, queues, server, response, wire
<1>25. CASE UNCHANGED vars
  BY <1>25 DEF vars, play, queues, server, response, wire
<1>26. CASE SelectInterrupted
  BY <1>26 DEF SelectInterrupted, play, queues, server, response, wire
<1>27. CASE Announce
  BY <1>27 DEF Announce, play, queues, server, response, wire
<1>28. CASE AnnounceLength
  BY <1>28 DEF AnnounceLength, Announced, SendLength, SendTimesOut, Trouble,
     play, queues, server, response, wire
<1>29. CASE AnnouncePayload
  BY <1>29 DEF AnnouncePayload, Announced, SendPayload, SendTimesOut, Trouble,
     play, queues, server, response, wire
<1>30. QED
  BY <1>1, <1>2, <1>3, <1>4, <1>5, <1>6, <1>7, <1>8, <1>9, <1>10, <1>11,
     <1>12, <1>13, <1>14, <1>15, <1>16, <1>17, <1>18, <1>19, <1>20, <1>21,
     <1>22, <1>23, <1>24, <1>25, <1>26, <1>27, <1>28, <1>29
     DEF Next, ServerThread, ResponseThread, PlayThread, Stop

\* Only a client in trouble gets a part out of place.
LEMMA FrameStep ==
  ASSUME IInv, [Next]_vars
  PROVE  FrameInv'
<1> USE DEF IInv, TypeOK, HandInv, Holding, Handling, FrameInv, Expected
<1>1. ASSUME NEW c \in Clients, Ask(c) PROVE FrameInv'
  BY <1>1 DEF Ask, play, queues, server, response, wire
<1>2. CASE ServHead
  BY <1>2 DEF ServHead, play, queues, server, response, wire
<1>3. CASE ServSelect
  BY <1>3 DEF ServSelect, play, queues, server, response, wire
<1>4. CASE ServReceive
  BY <1>4 DEF ServReceive, play, queues, server, response, wire
<1>5. CASE ServScanned
  BY <1>5 DEF ServScanned, play, queues, server, response, wire
<1>6. CASE EnqueueCheck
  BY <1>6 DEF EnqueueCheck, play, queues, server, response, wire
<1>7. CASE Enqueue
  BY <1>7 DEF Enqueue, QueueSignalled, play, queues, server, response, wire
<1>8. CASE RefuseLength
  BY <1>8 DEF RefuseLength, SendLength, SendTimesOut, Trouble, play, queues,
     server, response, wire
<1>9. CASE RefusePayload
  BY <1>9 DEF RefusePayload, SendPayload, SendTimesOut, Trouble, play, queues,
     server, response, wire
<1>10. CASE RespHead
  BY <1>10 DEF RespHead, play, queues, server, response, wire
<1>11. CASE Dequeue
  BY <1>11 DEF Dequeue, TakeHead, play, queues, server, response, wire
<1>12. CASE DequeueWoken
  BY <1>12 DEF DequeueWoken, TakeHead, play, queues, server, response, wire
<1>13. CASE Execute
  BY <1>13 DEF Execute, play, queues, server, response, wire
<1>14. CASE BroadcastLength
  BY <1>14 DEF BroadcastLength, SendLength, SendTimesOut, Trouble, ToAnswer,
     play, queues, server, response, wire
<1>15. CASE BroadcastPayload
  BY <1>15 DEF BroadcastPayload, SendPayload, SendTimesOut, Trouble, ToAnswer,
     play, queues, server, response, wire
<1>16. CASE AnswerLength
  BY <1>16 DEF AnswerLength, SendLength, SendTimesOut, Trouble, play, queues,
     server, response, wire
<1>17. CASE AnswerPayload
  BY <1>17 DEF AnswerPayload, SendPayload, SendTimesOut, Trouble, play, queues,
     server, response, wire
<1>18. CASE NoticeLength
  BY <1>18 DEF NoticeLength, SendLength, SendTimesOut, Trouble, play, queues,
     server, response, wire
<1>19. CASE NoticePayload
  BY <1>19 DEF NoticePayload, SendPayload, SendTimesOut, Trouble, play, queues,
     server, response, wire
<1>20. CASE Resend
  BY <1>20 DEF Resend, play, queues, server, response, wire
<1>21. CASE WakeSpuriously
  BY <1>21 DEF WakeSpuriously, play, queues, server, response, wire
<1>22. ASSUME NEW t \in Threads, StopRunning(t) PROVE FrameInv'
  BY <1>22 DEF StopRunning, play, queues, server, response, wire
<1>23. ASSUME NEW t \in Threads, StopQueue(t) PROVE FrameInv'
  BY <1>23 DEF StopQueue, QueueSignalled, play, queues, server, response, wire
<1>24. ASSUME NEW t \in Threads, StopKill(t) PROVE FrameInv'
  BY <1>24 DEF StopKill, play, queues, server, response, wire
<1>25. CASE UNCHANGED vars
  BY <1>25 DEF vars, play, queues, server, response, wire
<1>26. CASE SelectInterrupted
  BY <1>26 DEF SelectInterrupted, play, queues, server, response, wire
<1>27. CASE Announce
  BY <1>27 DEF Announce, play, queues, server, response, wire
<1>28. CASE AnnounceLength
  BY <1>28 DEF AnnounceLength, Announced, SendLength, SendTimesOut, Trouble,
     play, queues, server, response, wire
<1>29. CASE AnnouncePayload
  BY <1>29 DEF AnnouncePayload, Announced, SendPayload, SendTimesOut, Trouble,
     play, queues, server, response, wire
<1>30. QED
  BY <1>1, <1>2, <1>3, <1>4, <1>5, <1>6, <1>7, <1>8, <1>9, <1>10, <1>11,
     <1>12, <1>13, <1>14, <1>15, <1>16, <1>17, <1>18, <1>19, <1>20, <1>21,
     <1>22, <1>23, <1>24, <1>25, <1>26, <1>27, <1>28, <1>29
     DEF Next, ServerThread, ResponseThread, PlayThread, Stop

\* The changes of the requests' places, one lemma for the order they keep.
OrderVars == <<queue, node, serving, sent, read, ready, answered>>

LEMMA OrderIsStable ==
  ASSUME OrderInv, UNCHANGED OrderVars
  PROVE  OrderInv'
  BY DEF OrderInv, OrderVars, CountsOrdered, NodeIsLast, ServingIsFirst,
         LineBetween, LineOrdered

\* A thread puts its request down.
LEMMA OrderWithout ==
  ASSUME OrderInv, UNCHANGED <<queue, sent, read, ready, answered>>,
         node' \in {node, NoRequest}, serving' \in {serving, NoRequest}
  PROVE  OrderInv'
  BY DEF OrderInv, CountsOrdered, NodeIsLast, ServingIsFirst, LineBetween,
         LineOrdered

\* dequeue keeps the order: the head of the queue is served.
LEMMA OrderTaking ==
  ASSUME TypeOK, SizeInv, OrderInv, TakeHead, serving = NoRequest,
         UNCHANGED <<node, sent, read, ready, answered>>
  PROVE  OrderInv'
<1>1. /\ Len(queue) > 0 /\ serving' = queue[1]
      /\ Len(queue') = Len(queue) - 1
      /\ \A i \in 1..Len(queue') : queue'[i] = queue[i + 1]
  BY Taking
<1>2. 1 \in 1..Len(queue) /\ \A i \in 1..Len(queue') : i + 1 \in 1..Len(queue)
  BY <1>1, OrderTypes
<1>3. CountsOrdered'
  BY <1>1, <1>2, OrderTypes DEF OrderInv, CountsOrdered, NodeIsLast,
     ServingIsFirst, LineBetween, LineOrdered
<1>4. NodeIsLast'
  BY <1>1, <1>2, OrderTypes DEF OrderInv, CountsOrdered, NodeIsLast,
     ServingIsFirst, LineBetween, LineOrdered
<1>5. ServingIsFirst'
  BY <1>1, <1>2, OrderTypes DEF OrderInv, CountsOrdered, NodeIsLast,
     ServingIsFirst, LineBetween, LineOrdered
<1>6. LineBetween'
  <2>1. SUFFICES ASSUME NEW i \in 1..Len(queue')
                 PROVE  /\ answered'[queue'[i].client] < queue'[i].idx
                        /\ queue'[i].idx <= read'[queue'[i].client]
                        /\ node' # NoRequest /\ node'.client = queue'[i].client =>
                             queue'[i].idx < node'.idx
                        /\ serving' # NoRequest /\ serving'.client = queue'[i].client =>
                             serving'.idx < queue'[i].idx
    BY DEF LineBetween
  <2>2. i + 1 \in 1..Len(queue) /\ queue'[i] = queue[i + 1] /\ 1 < i + 1
    BY <1>1, <1>2
  <2>3. serving'.client = queue[i + 1].client => serving'.idx < queue[i + 1].idx
    BY <1>1, <1>2, <2>2 DEF OrderInv, LineOrdered
  <2>4. QED
    BY <2>2, <2>3 DEF OrderInv, LineBetween
<1>7. LineOrdered'
  <2>1. SUFFICES ASSUME NEW i \in 1..Len(queue'), NEW j \in 1..Len(queue'), i < j
                 PROVE  queue'[i].client = queue'[j].client => queue'[i].idx < queue'[j].idx
    BY DEF LineOrdered
  <2>2. /\ i + 1 \in 1..Len(queue) /\ queue'[i] = queue[i + 1]
        /\ j + 1 \in 1..Len(queue) /\ queue'[j] = queue[j + 1]
        /\ i + 1 < j + 1
    BY <1>1, <1>2, <2>1
  <2>3. QED
    BY <2>2 DEF OrderInv, LineOrdered
<1>8. QED
  BY <1>3, <1>4, <1>5, <1>6, <1>7 DEF OrderInv

\* Every step keeps the order.
LEMMA OrderStep ==
  ASSUME IInv, [Next]_vars
  PROVE  OrderInv'
<1> USE DEF IInv
<1>1. ASSUME NEW c \in Clients, Ask(c) PROVE OrderInv'
  <2>1. sent' = [sent EXCEPT ![c] = @ + 1] /\ sent[c] < MaxRequests[c]
    BY <1>1 DEF Ask
  <2>2. UNCHANGED <<queue, node, serving, read, ready, answered>>
    BY <1>1 DEF Ask, play, queues, server, response, wire
  <2>3. CountsOrdered'
    BY <2>1, <2>2, OrderTypes DEF OrderInv, CountsOrdered, NodeIsLast,
       ServingIsFirst, LineBetween, LineOrdered
  <2>4. NodeIsLast'
    BY <2>1, <2>2, OrderTypes DEF OrderInv, CountsOrdered, NodeIsLast,
       ServingIsFirst, LineBetween, LineOrdered
  <2>5. ServingIsFirst'
    BY <2>1, <2>2, OrderTypes DEF OrderInv, CountsOrdered, NodeIsLast,
       ServingIsFirst, LineBetween, LineOrdered
  <2>6. LineBetween'
    BY <2>1, <2>2, OrderTypes DEF OrderInv, CountsOrdered, NodeIsLast,
       ServingIsFirst, LineBetween, LineOrdered
  <2>7. LineOrdered'
    BY <2>1, <2>2, OrderTypes DEF OrderInv, CountsOrdered, NodeIsLast,
       ServingIsFirst, LineBetween, LineOrdered
  <2>8. QED
    BY <2>3, <2>4, <2>5, <2>6, <2>7 DEF OrderInv
<1>2. CASE ServHead
  BY <1>2, OrderIsStable DEF ServHead, OrderVars, play, queues, server,
     response, wire
<1>3. CASE ServSelect
  <2>1. UNCHANGED <<queue, node, serving, sent, read, answered>>
    BY <1>3 DEF ServSelect, play, queues, server, response, wire
  <2>2. ready' = ready \/ ready' = {c \in Clients : read[c] < sent[c]}
    BY <1>3 DEF ServSelect
  <2>3. CountsOrdered'
    BY <2>1, <2>2, OrderTypes DEF OrderInv, CountsOrdered, NodeIsLast,
       ServingIsFirst, LineBetween, LineOrdered
  <2>4. NodeIsLast'
    BY <2>1, <2>2, OrderTypes DEF OrderInv, CountsOrdered, NodeIsLast,
       ServingIsFirst, LineBetween, LineOrdered
  <2>5. ServingIsFirst'
    BY <2>1, <2>2, OrderTypes DEF OrderInv, CountsOrdered, NodeIsLast,
       ServingIsFirst, LineBetween, LineOrdered
  <2>6. LineBetween'
    BY <2>1, <2>2, OrderTypes DEF OrderInv, CountsOrdered, NodeIsLast,
       ServingIsFirst, LineBetween, LineOrdered
  <2>7. LineOrdered'
    BY <2>1, <2>2, OrderTypes DEF OrderInv, CountsOrdered, NodeIsLast,
       ServingIsFirst, LineBetween, LineOrdered
  <2>8. QED
    BY <2>3, <2>4, <2>5, <2>6, <2>7 DEF OrderInv
<1>4. CASE ServReceive
  <2>1. PICK c \in ready :
          /\ read' = [read EXCEPT ![c] = @ + 1]
          /\ node' = [client |-> c, idx |-> read[c] + 1]
          /\ ready' = ready \ {c}
    BY <1>4 DEF ServReceive
  <2>2. UNCHANGED <<queue, sent, serving, answered>> /\ node = NoRequest
    BY <1>4 DEF ServReceive, queues, response, wire, HandInv, Holding
  <2>3. /\ c \in Clients /\ read[c] < sent[c] /\ read'[c] = read[c] + 1
        /\ \A d \in Clients : d # c => read'[d] = read[d]
        /\ node'.client = c /\ node'.idx = read[c] + 1
    BY <2>1, OrderTypes DEF OrderInv, CountsOrdered
  <2>4. CountsOrdered'
    BY <2>1, <2>2, <2>3, OrderTypes DEF OrderInv, CountsOrdered, NodeIsLast,
       ServingIsFirst, LineBetween, LineOrdered
  <2>5. NodeIsLast'
    BY <2>1, <2>2, <2>3, OrderTypes DEF OrderInv, CountsOrdered, NodeIsLast,
       ServingIsFirst, LineBetween, LineOrdered
  <2>6. ServingIsFirst'
    BY <2>1, <2>2, <2>3, OrderTypes DEF OrderInv, CountsOrdered, NodeIsLast,
       ServingIsFirst, LineBetween, LineOrdered
  <2>7. LineBetween'
    <3>1. SUFFICES ASSUME NEW i \in 1..Len(queue')
                   PROVE  /\ answered'[queue'[i].client] < queue'[i].idx
                          /\ queue'[i].idx <= read'[queue'[i].client]
                          /\ node' # NoRequest /\ node'.client = queue'[i].client =>
                               queue'[i].idx < node'.idx
                          /\ serving' # NoRequest /\ serving'.client = queue'[i].client =>
                               serving'.idx < queue'[i].idx
      BY DEF LineBetween
    <3>2. i \in 1..Len(queue) /\ queue'[i] = queue[i]
      BY <2>2
    <3>3. queue[i].client \in Clients /\ queue[i].idx \in Nat
      BY <3>2, OrderTypes
    <3>4. /\ answered[queue[i].client] < queue[i].idx
          /\ queue[i].idx <= read[queue[i].client]
          /\ serving # NoRequest /\ serving.client = queue[i].client =>
               serving.idx < queue[i].idx
      BY <3>2 DEF OrderInv, LineBetween
    <3>5. \/ read'[queue[i].client] = read[queue[i].client]
          \/ read'[queue[i].client] = read[queue[i].client] + 1
      BY <2>3, <3>3
    <3>6. queue[i].idx <= read'[queue[i].client]
      <4>1. read[queue[i].client] \in Nat
        BY <3>3, OrderTypes
      <4>2. QED
        BY <3>3, <3>4, <3>5, <4>1
    <3>7. node'.client = queue[i].client => queue[i].idx < node'.idx
      <4>1. read[c] \in Nat
        BY <2>3, OrderTypes
      <4>2. ASSUME c = queue[i].client PROVE queue[i].idx <= read[c]
        BY <3>4, <4>2
      <4>3. QED
        BY <2>3, <3>3, <4>1, <4>2
    <3>8. QED
      BY <2>2, <3>2, <3>4, <3>6, <3>7
  <2>8. LineOrdered'
    BY <2>1, <2>2, <2>3, OrderTypes DEF OrderInv, CountsOrdered, NodeIsLast,
       ServingIsFirst, LineBetween, LineOrdered
  <2>9. QED
    BY <2>4, <2>5, <2>6, <2>7, <2>8 DEF OrderInv
<1>5. CASE ServScanned
  BY <1>5, OrderIsStable DEF ServScanned, OrderVars, play, queues, server,
     response, wire
<1>6. CASE EnqueueCheck
  BY <1>6, OrderIsStable DEF EnqueueCheck, OrderVars, play, queues, server,
     response, wire
<1>7. CASE Enqueue
  <2>1. node' = NoRequest /\ UNCHANGED <<serving, sent, read, ready, answered>>
    BY <1>7 DEF Enqueue, wire
  <2>2. /\ node # NoRequest /\ Len(queue') = Len(queue) + 1
        /\ \A i \in 1..Len(queue) : queue'[i] = queue[i]
        /\ queue'[Len(queue) + 1] = node
    BY <1>7, Putting
  <2>3. CountsOrdered'
    BY <2>1, <2>2, OrderTypes DEF OrderInv, CountsOrdered, NodeIsLast,
       ServingIsFirst, LineBetween, LineOrdered
  <2>4. NodeIsLast'
    BY <2>1, <2>2, OrderTypes DEF OrderInv, CountsOrdered, NodeIsLast,
       ServingIsFirst, LineBetween, LineOrdered
  <2>5. ServingIsFirst'
    BY <2>1, <2>2, OrderTypes DEF OrderInv, CountsOrdered, NodeIsLast,
       ServingIsFirst, LineBetween, LineOrdered
  <2>6. LineBetween'
    <3>1. SUFFICES ASSUME NEW i \in 1..Len(queue')
                   PROVE  /\ answered'[queue'[i].client] < queue'[i].idx
                          /\ queue'[i].idx <= read'[queue'[i].client]
                          /\ node' # NoRequest /\ node'.client = queue'[i].client =>
                               queue'[i].idx < node'.idx
                          /\ serving' # NoRequest /\ serving'.client = queue'[i].client =>
                               serving'.idx < queue'[i].idx
      BY DEF LineBetween
    <3>2. CASE i \in 1..Len(queue)
      BY <2>1, <2>2, <3>2 DEF OrderInv, LineBetween
    <3>3. CASE i = Len(queue) + 1
      BY <2>1, <2>2, <3>3, OrderTypes DEF OrderInv, NodeIsLast
    <3>4. QED
      BY <2>2, <3>2, <3>3, OrderTypes
  <2>7. LineOrdered'
    <3>1. SUFFICES ASSUME NEW i \in 1..Len(queue'), NEW j \in 1..Len(queue'), i < j
                   PROVE  queue'[i].client = queue'[j].client => queue'[i].idx < queue'[j].idx
      BY DEF LineOrdered
    <3>2. CASE j \in 1..Len(queue)
      <4>1. i \in 1..Len(queue)
        BY <3>1, <3>2, OrderTypes
      <4>2. QED
        BY <2>2, <3>1, <3>2, <4>1 DEF OrderInv, LineOrdered
    <3>3. CASE j = Len(queue) + 1
      <4>1. i \in 1..Len(queue)
        BY <3>1, <3>3, OrderTypes
      <4>2. QED
        BY <2>2, <3>3, <4>1 DEF OrderInv, LineBetween
    <3>4. QED
      BY <2>2, <3>2, <3>3, OrderTypes
  <2>8. QED
    BY <2>3, <2>4, <2>5, <2>6, <2>7 DEF OrderInv
<1>8. CASE RefuseLength
  BY <1>8, OrderWithout DEF RefuseLength, play, queues, server, response, wire
<1>9. CASE RefusePayload
  BY <1>9, OrderWithout DEF RefusePayload, play, queues, server, response, wire
<1>10. CASE RespHead
  BY <1>10, OrderIsStable DEF RespHead, OrderVars, play, queues, server,
     response, wire
<1>11. CASE Dequeue
  <2>1. UNCHANGED <<node, sent, read, ready, answered>> /\ serving = NoRequest
    BY <1>11 DEF Dequeue, server, wire, HandInv, Holding, Handling
  <2>2. CASE TakeHead
    BY <2>1, <2>2, OrderTaking
  <2>3. CASE UNCHANGED <<queue, size, serving>>
    BY <2>1, <2>3, OrderIsStable DEF OrderVars
  <2>4. QED
    BY <1>11, <2>2, <2>3 DEF Dequeue
<1>12. CASE DequeueWoken
  <2>1. UNCHANGED <<node, sent, read, ready, answered>> /\ serving = NoRequest
    BY <1>12 DEF DequeueWoken, server, wire, HandInv, Holding, Handling
  <2>2. CASE TakeHead
    BY <2>1, <2>2, OrderTaking
  <2>3. CASE UNCHANGED <<queue, size, serving>>
    BY <2>1, <2>3, OrderIsStable DEF OrderVars
  <2>4. QED
    BY <1>12, <2>2, <2>3 DEF DequeueWoken
<1>13. CASE Execute
  BY <1>13, OrderWithout DEF Execute, play, queues, server, response, wire
<1>14. CASE BroadcastLength
  BY <1>14, OrderIsStable DEF BroadcastLength, OrderVars, play, queues, server,
     response, wire
<1>15. CASE BroadcastPayload
  BY <1>15, OrderIsStable DEF BroadcastPayload, OrderVars, play, queues,
     server, response, wire
<1>16. CASE AnswerLength
  BY <1>16, OrderIsStable DEF AnswerLength, OrderVars, play, queues, server,
     response, wire
<1>17. CASE AnswerPayload
  <2>1. UNCHANGED <<queue, node, sent, read, ready>>
    BY <1>17 DEF AnswerPayload, queues, server
  <2>2. CASE UNCHANGED <<serving, answered>>
    BY <2>1, <2>2, OrderIsStable DEF OrderVars
  <2>3. CASE /\ serving' = NoRequest
             /\ answered' = [answered EXCEPT ![serving.client] = serving.idx]
    <3>1. serving # NoRequest
      BY <1>17 DEF AnswerPayload, HandInv, Holding, Handling
    <3>2. /\ serving.client \in Clients /\ answered'[serving.client] = serving.idx
          /\ \A c \in Clients : c # serving.client => answered'[c] = answered[c]
      BY <2>3, <3>1, OrderTypes
  <3>3. CountsOrdered'
      BY <2>1, <2>3, <3>1, <3>2, OrderTypes DEF OrderInv, CountsOrdered,
         NodeIsLast, ServingIsFirst, LineBetween, LineOrdered
    <3>4. NodeIsLast'
      BY <2>1, <2>3, <3>1, <3>2, OrderTypes DEF OrderInv, CountsOrdered,
         NodeIsLast, ServingIsFirst, LineBetween, LineOrdered
    <3>5. ServingIsFirst'
      BY <2>1, <2>3, <3>1, <3>2, OrderTypes DEF OrderInv, CountsOrdered,
         NodeIsLast, ServingIsFirst, LineBetween, LineOrdered
    <3>6. LineBetween'
      BY <2>1, <2>3, <3>1, <3>2, OrderTypes DEF OrderInv, CountsOrdered,
         NodeIsLast, ServingIsFirst, LineBetween, LineOrdered
    <3>7. LineOrdered'
      BY <2>1, <2>3, <3>1, <3>2, OrderTypes DEF OrderInv, CountsOrdered,
         NodeIsLast, ServingIsFirst, LineBetween, LineOrdered
    <3>8. QED
      BY <3>3, <3>4, <3>5, <3>6, <3>7 DEF OrderInv
  <2>4. QED
    BY <1>17, <2>2, <2>3 DEF AnswerPayload
<1>18. CASE NoticeLength
  BY <1>18, OrderIsStable DEF NoticeLength, OrderVars, play, queues, server,
     response, wire
<1>19. CASE NoticePayload
  BY <1>19, OrderIsStable DEF NoticePayload, OrderVars, play, queues, server,
     response, wire
<1>20. CASE Resend
  BY <1>20, OrderWithout DEF Resend, play, queues, server, response, wire
<1>21. CASE WakeSpuriously
  BY <1>21, OrderIsStable DEF WakeSpuriously, OrderVars, play, queues, server,
     response, wire
<1>22. ASSUME NEW t \in Threads, StopRunning(t) PROVE OrderInv'
  BY <1>22, OrderIsStable DEF StopRunning, OrderVars, play, queues, server,
     response, wire
<1>23. ASSUME NEW t \in Threads, StopQueue(t) PROVE OrderInv'
  BY <1>23, OrderIsStable DEF StopQueue, OrderVars, play, queues, server,
     response, wire
<1>24. ASSUME NEW t \in Threads, StopKill(t) PROVE OrderInv'
  BY <1>24, OrderIsStable DEF StopKill, OrderVars, play, queues, server,
     response, wire
<1>25. CASE UNCHANGED vars
  BY <1>25, OrderIsStable DEF vars, OrderVars, play, queues, server, response,
     wire
<1>26. CASE SelectInterrupted
  BY <1>26, OrderIsStable DEF SelectInterrupted, OrderVars, play, queues,
     server, response, wire
<1>27. CASE Announce
  BY <1>27, OrderIsStable DEF Announce, OrderVars, play, queues, server,
     response, wire
<1>28. CASE AnnounceLength
  BY <1>28, OrderIsStable DEF AnnounceLength, Announced, SendLength,
     SendTimesOut, Trouble, OrderVars, play, queues, server, response, wire
<1>29. CASE AnnouncePayload
  BY <1>29, OrderIsStable DEF AnnouncePayload, Announced, SendPayload,
     SendTimesOut, Trouble, OrderVars, play, queues, server, response, wire
<1>30. QED
  BY <1>1, <1>2, <1>3, <1>4, <1>5, <1>6, <1>7, <1>8, <1>9, <1>10, <1>11,
     <1>12, <1>13, <1>14, <1>15, <1>16, <1>17, <1>18, <1>19, <1>20, <1>21,
     <1>22, <1>23, <1>24, <1>25, <1>26, <1>27, <1>28, <1>29
     DEF Next, ServerThread, ResponseThread, PlayThread, Stop

-----------------------------------------------------------------------------

\* The initial state has the invariant.
LEMMA InvInit == Init => IInv
<1> SUFFICES ASSUME Init PROVE IInv
  OBVIOUS
<1>1. TypeOK
  <2>1. FlagTypes
    BY DEF Init, FlagTypes
  <2>2. DataTypes
    BY Firsts DEF Init, DataTypes
  <2>3. PlaceTypes
    BY Firsts DEF Init, PlaceTypes, ServPcs, RespPcs, PlayPcs
  <2>4. QED
    BY <2>1, <2>2, <2>3, TypeParts
<1>2. HandInv /\ NoStrandedRequest
  BY DEF Init, HandInv, Holding, Handling, NoStrandedRequest
<1>3. SizeInv
  BY QueueAssumption DEF Init, SizeInv
<1>4. FrameInv
  BY DEF Init, FrameInv, Expected
<1>5. OrderInv
  BY RequestAssumption DEF Init, OrderInv, CountsOrdered, NodeIsLast,
     ServingIsFirst, LineBetween, LineOrdered, Clients
<1>6. QED
  BY <1>1, <1>2, <1>3, <1>4, <1>5 DEF IInv

\* Every step keeps the invariant.
LEMMA InvStep == IInv /\ [Next]_vars => IInv'
<1> SUFFICES ASSUME IInv, [Next]_vars PROVE IInv'
  OBVIOUS
<1>1. FlagTypes' /\ DataTypes' /\ PlaceTypes'
  BY FlagStep, DataStep, PlaceStep
<1>2. TypeOK'
  BY <1>1 DEF TypeOK, FlagTypes, DataTypes, PlaceTypes
<1>3. QED
  BY <1>2, HandStep, SizeStep, WaitStep, FrameStep, OrderStep DEF IInv

\* IInv holds in every state the server can be in.
THEOREM Invariance == Spec => []IInv
  BY InvInit, InvStep, PTL DEF Spec

\* Every variable has its type, for every number of clients.
THEOREM TypeCorrect == Spec => []TypeOK
<1>1. IInv => TypeOK
  BY DEF IInv
<1>2. QED
  BY <1>1, Invariance, PTL

\* The unlocked look at size keeps the queue within one request of its limit.
THEOREM Bounded == Spec => []QueueBounded
<1>1. IInv => QueueBounded
  BY DEF IInv, SizeInv, QueueBounded
<1>2. QED
  BY <1>1, Invariance, PTL

\* No request waits for a response thread that sleeps.
THEOREM NoneStranded == Spec => []NoStrandedRequest
<1>1. IInv => NoStrandedRequest
  BY DEF IInv
<1>2. QED
  BY <1>1, Invariance, PTL

\* Three threads send without a lock, and yet a client that is neither refused
\* nor slow, nor told of a track while a request is served, gets whole
\* messages.
THEOREM Whole == Spec => []WholeUnlessTroubled
<1>1. IInv => WholeUnlessTroubled
  BY DEF IInv, TypeOK, FrameInv, WholeUnlessTroubled
<1>2. QED
  BY <1>1, Invariance, PTL

-----------------------------------------------------------------------------
(* Requests implements Mailbox.                                            *)

\* The initial state is one of Mailbox.
LEMMA MailboxInit == Init => MB!Init
  BY DEF Init, MB!Init

\* One step of the server is at most one step of the line.
LEMMA MailboxStep ==
  ASSUME IInv, [Next]_vars
  PROVE  [MB!Next]_(MB!vars)
<1> USE DEF IInv
<1>1. ASSUME NEW c \in Clients, Ask(c) PROVE UNCHANGED MB!vars
  BY <1>1 DEF Ask, MB!vars, play, queues, server, response, wire
<1>2. CASE ServHead
  BY <1>2 DEF ServHead, MB!vars, play, queues, server, response, wire
<1>3. CASE ServSelect
  BY <1>3 DEF ServSelect, MB!vars, play, queues, server, response, wire
<1>4. CASE ServReceive
  BY <1>4 DEF ServReceive, MB!vars, play, queues, server, response, wire
<1>5. CASE ServScanned
  BY <1>5 DEF ServScanned, MB!vars, play, queues, server, response, wire
<1>6. CASE EnqueueCheck
  BY <1>6 DEF EnqueueCheck, MB!vars, play, queues, server, response, wire
<1>7. CASE Enqueue
  <2>1. Len(queue) <= QUEUE_SIZE /\ queue' = Append(queue, node)
    BY <1>7 DEF Enqueue, SizeInv
  <2>2. node # NoRequest /\ node \in Requests /\ node.idx \in Numbers
    <3>1. node # NoRequest /\ node \in Requests
      BY <1>7, RequestInHand DEF Enqueue, HandInv, Holding
    <3>2. /\ node.client \in Clients /\ node.idx = read[node.client]
          /\ answered[node.client] < node.idx
          /\ node.idx <= sent[node.client]
          /\ sent[node.client] <= MaxRequests[node.client]
      BY <3>1, OrderTypes DEF OrderInv, NodeIsLast, CountsOrdered
    <3>3. /\ answered[node.client] \in Nat /\ node.idx \in Nat
          /\ sent[node.client] \in Nat /\ MaxRequests[node.client] \in Nat
      BY <3>1, <3>2, OrderTypes
    <3>4. node.idx \in 1..MaxRequests[node.client]
      BY <3>2, <3>3
    <3>5. QED
      BY <3>1, <3>2, <3>4 DEF Numbers
  <2>3. node \in [client : Clients, idx : Numbers]
    BY <2>2 DEF Requests
  <2>4. \A i \in 1..Len(queue) :
          queue[i].client = node.client => queue[i].idx < node.idx
    BY <2>2 DEF OrderInv, LineBetween
  <2>5. UNCHANGED <<serving, answered>>
    BY <1>7 DEF Enqueue, wire
  <2>6. MB!Accept
    BY <2>1, <2>3, <2>4, <2>5 DEF MB!Accept
  <2>7. QED
    BY <2>6 DEF MB!Next
<1>8. CASE RefuseLength
  BY <1>8 DEF RefuseLength, MB!vars, play, queues, server, response, wire
<1>9. CASE RefusePayload
  BY <1>9 DEF RefusePayload, MB!vars, play, queues, server, response, wire
<1>10. CASE RespHead
  BY <1>10 DEF RespHead, MB!vars, play, queues, server, response, wire
<1>11. CASE Dequeue
  <2>1. serving = NoRequest /\ UNCHANGED answered
    BY <1>11 DEF Dequeue, HandInv, Holding, Handling, wire
  <2>2. CASE TakeHead
    BY <2>1, <2>2 DEF TakeHead, MB!Serve, MB!Next
  <2>3. CASE ~TakeHead
    BY <1>11, <2>1, <2>3 DEF Dequeue, MB!vars
  <2>4. QED
    BY <2>2, <2>3
<1>12. CASE DequeueWoken
  <2>1. serving = NoRequest /\ UNCHANGED answered
    BY <1>12 DEF DequeueWoken, HandInv, Holding, Handling, wire
  <2>2. CASE TakeHead
    BY <2>1, <2>2 DEF TakeHead, MB!Serve, MB!Next
  <2>3. CASE ~TakeHead
    BY <1>12, <2>1, <2>3 DEF DequeueWoken, MB!vars
  <2>4. QED
    BY <2>2, <2>3
<1>13. CASE Execute
  <2>1. serving # NoRequest /\ UNCHANGED <<queue, answered>>
    BY <1>13 DEF Execute, HandInv, Holding, Handling, play, queues, server,
       response, wire
  <2>2. serving' \in {serving, NoRequest}
    BY <1>13 DEF Execute
  <2>3. QED
    BY <2>1, <2>2 DEF MB!Next, MB!GiveUp, MB!vars
<1>14. CASE BroadcastLength
  BY <1>14 DEF BroadcastLength, MB!vars, play, queues, server, response, wire
<1>15. CASE BroadcastPayload
  BY <1>15 DEF BroadcastPayload, MB!vars, play, queues, server, response, wire
<1>16. CASE AnswerLength
  BY <1>16 DEF AnswerLength, MB!vars, play, queues, server, response, wire
<1>17. CASE AnswerPayload
  <2>1. serving # NoRequest /\ UNCHANGED queue
    BY <1>17 DEF AnswerPayload, HandInv, Holding, Handling, queues
  <2>2. serving.idx > answered[serving.client]
    BY <2>1, OrderTypes DEF OrderInv, ServingIsFirst
  <2>3. CASE /\ serving' = NoRequest
             /\ answered' = [answered EXCEPT ![serving.client] = serving.idx]
    BY <2>1, <2>2, <2>3 DEF MB!Answer, MB!Next
  <2>4. CASE UNCHANGED <<serving, answered>>
    BY <2>1, <2>4 DEF MB!vars
  <2>5. QED
    BY <1>17, <2>3, <2>4 DEF AnswerPayload
<1>18. CASE NoticeLength
  BY <1>18 DEF NoticeLength, MB!vars, play, queues, server, response, wire
<1>19. CASE NoticePayload
  BY <1>19 DEF NoticePayload, MB!vars, play, queues, server, response, wire
<1>20. CASE Resend
  <2>1. serving # NoRequest /\ UNCHANGED <<queue, answered>>
    BY <1>20 DEF Resend, HandInv, Holding, Handling, play, queues, server,
       response, wire
  <2>2. serving' \in {serving, NoRequest}
    BY <1>20 DEF Resend
  <2>3. QED
    BY <2>1, <2>2 DEF MB!Next, MB!GiveUp, MB!vars
<1>21. CASE WakeSpuriously
  BY <1>21 DEF WakeSpuriously, MB!vars, play, queues, server, response, wire
<1>22. ASSUME NEW t \in Threads, StopRunning(t) PROVE UNCHANGED MB!vars
  BY <1>22 DEF StopRunning, MB!vars, play, queues, server, response, wire
<1>23. ASSUME NEW t \in Threads, StopQueue(t) PROVE UNCHANGED MB!vars
  BY <1>23 DEF StopQueue, MB!vars, play, queues, server, response, wire
<1>24. ASSUME NEW t \in Threads, StopKill(t) PROVE UNCHANGED MB!vars
  BY <1>24 DEF StopKill, MB!vars, play, queues, server, response, wire
<1>25. CASE UNCHANGED vars
  BY <1>25 DEF vars, MB!vars, play, queues, server, response, wire
<1>26. CASE SelectInterrupted
  BY <1>26 DEF SelectInterrupted, MB!vars, play, queues, server, response, wire
<1>27. CASE Announce
  BY <1>27 DEF Announce, MB!vars, play, queues, server, response, wire
<1>28. CASE AnnounceLength
  BY <1>28 DEF AnnounceLength, Announced, SendLength, SendTimesOut, Trouble,
     MB!vars, play, queues, server, response, wire
<1>29. CASE AnnouncePayload
  BY <1>29 DEF AnnouncePayload, Announced, SendPayload, SendTimesOut, Trouble,
     MB!vars, play, queues, server, response, wire
<1>30. QED
  BY <1>1, <1>2, <1>3, <1>4, <1>5, <1>6, <1>7, <1>8, <1>9, <1>10, <1>11,
     <1>12, <1>13, <1>14, <1>15, <1>16, <1>17, <1>18, <1>19, <1>20, <1>21,
     <1>22, <1>23, <1>24, <1>25, <1>26, <1>27, <1>28, <1>29
     DEF Next, ServerThread, ResponseThread, PlayThread, Stop

\* The two threads and the queue between them are a line that is served first
\* come, first served.
THEOREM Implements == Spec => ImplementsMailbox
<1>1. IInv /\ [Next]_vars => [MB!Next]_(MB!vars)
  BY MailboxStep
<1>2. QED
  BY MailboxInit, Invariance, <1>1, PTL DEF Spec, MB!Spec, ImplementsMailbox

\* No client gets an answer twice, or an answer that is older than its last
\* one: in the line only Answer touches answered.
THEOREM InOrder == Spec => AnswersInOrder
<1>1. ASSUME IInv, [MB!Next]_(MB!vars)
      PROVE  \A c \in Clients :
               answered'[c] # answered[c] => answered'[c] > answered[c]
  <2>1. answered \in [Clients -> Nat]
    BY <1>1 DEF IInv, TypeOK
  <2>2. CASE MB!Answer
    BY <2>1, <2>2 DEF MB!Answer
  <2>3. CASE UNCHANGED answered
    BY <2>3
  <2>4. QED
    BY <1>1, <2>2, <2>3 DEF MB!Next, MB!Accept, MB!Serve, MB!GiveUp, MB!vars
<1>2. IInv /\ [Next]_vars =>
        [\A c \in Clients :
           answered'[c] # answered[c] => answered'[c] > answered[c]]_vars
  BY <1>1, MailboxStep
<1>3. QED
  BY Invariance, <1>2, PTL DEF Spec, AnswersInOrder

-----------------------------------------------------------------------------
(* No stop of the player is lost on the server thread.                     *)

\* Once running is FALSE, the server thread has left its loop, or SIGUSR1 is
\* pending for it, or a thread is still on its way to send it: between the
\* look at running and pselect no stop is lost, since the signal is blocked
\* everywhere but in pselect (wait_fd), and whoever clears running kills.
ServerHearsStop ==
  ~running /\ servPc # "stop" =>
    usr1 \/ \E t \in Threads : stopPc[t] \in {"queue", "kill"}

\* No step makes the server thread deaf to a stop.
LEMMA HearsStep ==
  ASSUME IInv, ServerHearsStop, [Next]_vars
  PROVE  ServerHearsStop'
<1> USE DEF ServerHearsStop
<1>0. stopPc \in [Threads -> {"idle", "queue", "kill", "done"}]
  BY DEF IInv, TypeOK
<1>1. ASSUME NEW c \in Clients, Ask(c) PROVE ServerHearsStop'
  BY <1>0, <1>1 DEF Ask, play, queues, server, response, wire
<1>2. CASE ServHead
  BY <1>0, <1>2 DEF ServHead, play, queues, server, response, wire
<1>3. CASE ServSelect
  BY <1>0, <1>3 DEF ServSelect, play, queues, server, response, wire
<1>4. CASE ServReceive
  BY <1>0, <1>4 DEF ServReceive, play, queues, server, response, wire
<1>5. CASE ServScanned
  BY <1>0, <1>5 DEF ServScanned, play, queues, server, response, wire
<1>6. CASE EnqueueCheck
  BY <1>0, <1>6 DEF EnqueueCheck, play, queues, server, response, wire
<1>7. CASE Enqueue
  BY <1>0, <1>7 DEF Enqueue, play, queues, server, response, wire
<1>8. CASE RefuseLength
  BY <1>0, <1>8 DEF RefuseLength, play, queues, server, response, wire
<1>9. CASE RefusePayload
  BY <1>0, <1>9 DEF RefusePayload, play, queues, server, response, wire
<1>10. CASE RespHead
  BY <1>0, <1>10 DEF RespHead, play, queues, server, response, wire
<1>11. CASE Dequeue
  BY <1>0, <1>11 DEF Dequeue, play, queues, server, response, wire
<1>12. CASE DequeueWoken
  BY <1>0, <1>12 DEF DequeueWoken, play, queues, server, response, wire
<1>13. CASE Execute
  BY <1>0, <1>13 DEF Execute, play, queues, server, response, wire
<1>14. CASE BroadcastLength
  BY <1>0, <1>14 DEF BroadcastLength, play, queues, server, response, wire
<1>15. CASE BroadcastPayload
  BY <1>0, <1>15 DEF BroadcastPayload, play, queues, server, response, wire
<1>16. CASE AnswerLength
  BY <1>0, <1>16 DEF AnswerLength, play, queues, server, response, wire
<1>17. CASE AnswerPayload
  BY <1>0, <1>17 DEF AnswerPayload, play, queues, server, response, wire
<1>18. CASE NoticeLength
  BY <1>0, <1>18 DEF NoticeLength, play, queues, server, response, wire
<1>19. CASE NoticePayload
  BY <1>0, <1>19 DEF NoticePayload, play, queues, server, response, wire
<1>20. CASE Resend
  BY <1>0, <1>20 DEF Resend, play, queues, server, response, wire
<1>21. CASE WakeSpuriously
  BY <1>0, <1>21 DEF WakeSpuriously, play, queues, server, response, wire
<1>22. ASSUME NEW t \in Threads, StopRunning(t) PROVE ServerHearsStop'
  BY <1>0, <1>22 DEF StopRunning, play, queues, server, response, wire
<1>23. ASSUME NEW t \in Threads, StopQueue(t) PROVE ServerHearsStop'
  BY <1>0, <1>23 DEF StopQueue, play, queues, server, response, wire
<1>24. ASSUME NEW t \in Threads, StopKill(t) PROVE ServerHearsStop'
  BY <1>0, <1>24 DEF StopKill, play, queues, server, response, wire
<1>25. CASE UNCHANGED vars
  BY <1>0, <1>25 DEF vars, play, queues, server, response, wire
<1>26. CASE SelectInterrupted
  BY <1>0, <1>26 DEF SelectInterrupted, play, queues, server, response, wire
<1>27. CASE Announce
  BY <1>0, <1>27 DEF Announce, play, queues, server, response, wire
<1>28. CASE AnnounceLength
  BY <1>0, <1>28 DEF AnnounceLength, play, queues, server, response, wire
<1>29. CASE AnnouncePayload
  BY <1>0, <1>29 DEF AnnouncePayload, play, queues, server, response, wire
<1>30. QED
  BY <1>1, <1>2, <1>3, <1>4, <1>5, <1>6, <1>7, <1>8, <1>9, <1>10, <1>11,
     <1>12, <1>13, <1>14, <1>15, <1>16, <1>17, <1>18, <1>19, <1>20, <1>21,
     <1>22, <1>23, <1>24, <1>25, <1>26, <1>27, <1>28, <1>29
     DEF Next, ServerThread, ResponseThread, PlayThread, Stop

\* A stop always reaches the server thread, in any interleaving with its scan.
THEOREM StopIsHeard == Spec => []ServerHearsStop
<1>1. Init => ServerHearsStop
  BY DEF Init, ServerHearsStop
<1>2. IInv /\ ServerHearsStop /\ [Next]_vars => ServerHearsStop'
  BY HearsStep
<1>3. QED
  BY Invariance, <1>1, <1>2, PTL DEF Spec

-----------------------------------------------------------------------------
(* Where a request is, how it gets there and why it is let go.             *)

\* A request is never in two places: in the server thread's hand, in the
\* response thread's, or at one position of the queue.
RequestIsInOnePlace ==
  /\ node # NoRequest => node # serving
  /\ \A i \in 1..Len(queue) : queue[i] # node /\ queue[i] # serving
  /\ \A i, j \in 1..Len(queue) : i # j => queue[i] # queue[j]

\* The server thread is the only one through which a request gets into the
\* program, each one once, in the order in which its client sent them and
\* without a gap: none that was settled is ever held again.
RequestsEnterInOrder ==
  [][\A r \in Requests : ~Held(r) /\ Held(r)' =>
       /\ servPc = "scan"
       /\ r.idx = read[r.client] + 1 /\ read'[r.client] = r.idx]_vars

\* The program lets go of a request for these reasons only: the queue was full
\* and its client has been sent the notice that it is refused, or cannot be
\* sent it; it was not executed (execute_command returned NULL); it was
\* answered; or it was given up after RESEND_COUNT sends that timed out.
RequestsLeaveWithCause ==
  [][\A r \in Requests : Held(r) /\ ~Held(r)' =>
       \/ /\ node = r /\ servPc \in {"refuse_length", "refuse_payload"}
          /\ r.client \in troubled'
       \/ serving = r /\ respPc = "execute"
       \/ /\ serving = r /\ respPc = "answer_payload"
          /\ answered'[r.client] = r.idx
       \/ /\ serving = r /\ respPc = "resend"
          /\ count + 1 = RESEND_COUNT /\ r.client \in troubled]_vars

\* The steps that move a request, and what they do to the three places.
Moves ==
  \/ UNCHANGED <<node, queue, serving>>
  \/ ServReceive \/ Enqueue \/ RefuseLength \/ RefusePayload
  \/ TakeHead /\ serving = NoRequest /\ UNCHANGED node
  \/ Execute \/ AnswerPayload \/ Resend

\* No other step touches a place where a request can be.
LEMMA OnlyMoves ==
  ASSUME IInv, [Next]_vars
  PROVE  Moves
<1> USE DEF Moves
<1>0. respPc \in {"dequeue", "woken"} => serving = NoRequest
  BY DEF IInv, HandInv, Handling
<1>1. ASSUME NEW c \in Clients, Ask(c) PROVE Moves
  BY <1>0, <1>1 DEF Ask, play, queues, server, response, wire
<1>2. CASE ServHead
  BY <1>0, <1>2 DEF ServHead, play, queues, server, response, wire
<1>3. CASE ServSelect
  BY <1>0, <1>3 DEF ServSelect, play, queues, server, response, wire
<1>4. CASE ServReceive
  BY <1>4
<1>5. CASE ServScanned
  BY <1>0, <1>5 DEF ServScanned, play, queues, server, response, wire
<1>6. CASE EnqueueCheck
  BY <1>0, <1>6 DEF EnqueueCheck, play, queues, server, response, wire
<1>7. CASE Enqueue
  BY <1>7
<1>8. CASE RefuseLength
  BY <1>8
<1>9. CASE RefusePayload
  BY <1>9
<1>10. CASE RespHead
  BY <1>0, <1>10 DEF RespHead, play, queues, server, response, wire
<1>11. CASE Dequeue
  BY <1>0, <1>11 DEF Dequeue, play, queues, server, response, wire
<1>12. CASE DequeueWoken
  BY <1>0, <1>12 DEF DequeueWoken, play, queues, server, response, wire
<1>13. CASE Execute
  BY <1>13
<1>14. CASE BroadcastLength
  BY <1>0, <1>14 DEF BroadcastLength, play, queues, server, response, wire
<1>15. CASE BroadcastPayload
  BY <1>0, <1>15 DEF BroadcastPayload, play, queues, server, response, wire
<1>16. CASE AnswerLength
  BY <1>0, <1>16 DEF AnswerLength, play, queues, server, response, wire
<1>17. CASE AnswerPayload
  BY <1>17
<1>18. CASE NoticeLength
  BY <1>0, <1>18 DEF NoticeLength, play, queues, server, response, wire
<1>19. CASE NoticePayload
  BY <1>0, <1>19 DEF NoticePayload, play, queues, server, response, wire
<1>20. CASE Resend
  BY <1>20
<1>21. CASE WakeSpuriously
  BY <1>0, <1>21 DEF WakeSpuriously, play, queues, server, response, wire
<1>22. ASSUME NEW t \in Threads, StopRunning(t) PROVE Moves
  BY <1>0, <1>22 DEF StopRunning, play, queues, server, response, wire
<1>23. ASSUME NEW t \in Threads, StopQueue(t) PROVE Moves
  BY <1>0, <1>23 DEF StopQueue, play, queues, server, response, wire
<1>24. ASSUME NEW t \in Threads, StopKill(t) PROVE Moves
  BY <1>0, <1>24 DEF StopKill, play, queues, server, response, wire
<1>25. CASE UNCHANGED vars
  BY <1>0, <1>25 DEF vars, play, queues, server, response, wire
<1>26. CASE SelectInterrupted
  BY <1>0, <1>26 DEF SelectInterrupted, play, queues, server, response, wire
<1>27. CASE Announce
  BY <1>0, <1>27 DEF Announce, play, queues, server, response, wire
<1>28. CASE AnnounceLength
  BY <1>0, <1>28 DEF AnnounceLength, play, queues, server, response, wire
<1>29. CASE AnnouncePayload
  BY <1>0, <1>29 DEF AnnouncePayload, play, queues, server, response, wire
<1>30. QED
  BY <1>1, <1>2, <1>3, <1>4, <1>5, <1>6, <1>7, <1>8, <1>9, <1>10, <1>11,
     <1>12, <1>13, <1>14, <1>15, <1>16, <1>17, <1>18, <1>19, <1>20, <1>21,
     <1>22, <1>23, <1>24, <1>25, <1>26, <1>27, <1>28, <1>29
     DEF Next, ServerThread, ResponseThread, PlayThread, Stop

\* What IInv says of a request in hand, in the words of the proofs below.
LEMMA Hands ==
  ASSUME IInv
  PROVE  /\ servPc = "scan" => node = NoRequest
         /\ servPc \in Holding => node # NoRequest /\ node \in Requests
         /\ respPc \in Handling => serving # NoRequest /\ serving \in Requests
         /\ queue \in Seq(Requests) /\ NoRequest \notin Requests
         /\ \A i \in 1..Len(queue) : queue[i] \in Requests
<1>1. NoRequest \notin Requests
  BY RequestAssumption DEF Requests, Clients
<1>2. /\ servPc = "scan" => node = NoRequest
      /\ servPc \in Holding => node # NoRequest
      /\ respPc \in Handling => serving # NoRequest
  BY DEF IInv, HandInv, Holding
<1>3. node \in Requests \cup {NoRequest} /\ serving \in Requests \cup {NoRequest}
  BY DEF IInv, TypeOK
<1>4. queue \in Seq(Requests)
  BY DEF IInv, TypeOK
<1>5. \A i \in 1..Len(queue) : queue[i] \in Requests
  BY <1>4
<1>6. QED
  BY <1>1, <1>2, <1>3, <1>4, <1>5

\* The order of the requests keeps them apart.
LEMMA OrderParts == IInv => RequestIsInOnePlace
<1> SUFFICES ASSUME IInv PROVE RequestIsInOnePlace
  OBVIOUS
<1>1. node # NoRequest => node # serving
  <2>1. SUFFICES ASSUME node # NoRequest, node = serving PROVE FALSE
    OBVIOUS
  <2>2. serving.idx < node.idx /\ node.idx \in Nat
    BY <2>1, OrderTypes DEF IInv, OrderInv, NodeIsLast
  <2>3. QED
    BY <2>1, <2>2
<1>2. ASSUME NEW i \in 1..Len(queue) PROVE queue[i] # node /\ queue[i] # serving
  <2>1. queue[i].client \in Clients /\ queue[i].idx \in Nat
    BY OrderTypes DEF IInv
  <2>2. queue[i] # NoRequest
    BY Hands
  <2>3. /\ node # NoRequest /\ node.client = queue[i].client =>
             queue[i].idx < node.idx
        /\ serving # NoRequest /\ serving.client = queue[i].client =>
             serving.idx < queue[i].idx
    BY DEF IInv, OrderInv, LineBetween
  <2>4. QED
    BY <2>1, <2>2, <2>3
<1>3. ASSUME NEW i \in 1..Len(queue), NEW j \in 1..Len(queue), i # j
      PROVE  queue[i] # queue[j]
  <2>1. queue[i].idx \in Nat /\ queue[j].idx \in Nat
    BY OrderTypes DEF IInv
  <2>2. CASE i < j
    BY <2>1, <2>2 DEF IInv, OrderInv, LineOrdered
  <2>3. CASE j < i
    BY <2>1, <2>3 DEF IInv, OrderInv, LineOrdered
  <2>4. QED
    BY <1>3, <2>2, <2>3
<1>4. QED
  BY <1>1, <1>2, <1>3 DEF RequestIsInOnePlace

\* No request is in two hands, none is twice in the queue.
THEOREM OnePlace == Spec => []RequestIsInOnePlace
  BY Invariance, OrderParts, PTL

\* enqueue moves the request from the server thread's hand to the queue.
LEMMA EnqueueMoves ==
  ASSUME IInv, Enqueue, NEW r \in Requests
  PROVE  Held(r)' <=> Held(r)
<1>1. /\ Len(queue') = Len(queue) + 1
      /\ \A i \in 1..Len(queue) : queue'[i] = queue[i]
      /\ queue'[Len(queue) + 1] = node
  BY Putting DEF IInv
<1>2. node' = NoRequest /\ serving' = serving
  BY DEF Enqueue
<1>3. Len(queue) \in Nat /\ r # NoRequest
  BY Hands
<1>4. (\E i \in 1..Len(queue') : queue'[i] = r)
        <=> (r = node \/ \E i \in 1..Len(queue) : queue[i] = r)
  BY <1>1, <1>3
<1>5. QED
  BY <1>2, <1>3, <1>4 DEF Held

\* dequeue moves it from the queue to the response thread's hand.
LEMMA TakeHeadMoves ==
  ASSUME IInv, TakeHead, serving = NoRequest, UNCHANGED node,
         NEW r \in Requests
  PROVE  Held(r)' <=> Held(r)
<1>1. /\ Len(queue) > 0 /\ serving' = queue[1]
      /\ Len(queue') = Len(queue) - 1
      /\ \A i \in 1..Len(queue') : queue'[i] = queue[i + 1]
  BY Taking DEF IInv
<1>2. Len(queue) \in Nat /\ r # NoRequest
  BY Hands
<1>3. (\E i \in 1..Len(queue) : queue[i] = r)
        <=> (r = serving' \/ \E i \in 1..Len(queue') : queue'[i] = r)
  <2>1. ASSUME NEW i \in 1..Len(queue), queue[i] = r, i # 1
        PROVE  \E j \in 1..Len(queue') : queue'[j] = r
    <3>1. i - 1 \in 1..Len(queue') /\ (i - 1) + 1 = i
      BY <1>1, <1>2, <2>1
    <3>2. queue'[i - 1] = r
      BY <1>1, <2>1, <3>1
    <3>3. QED
      BY <3>1, <3>2
  <2>2. ASSUME NEW j \in 1..Len(queue'), queue'[j] = r
        PROVE  \E i \in 1..Len(queue) : queue[i] = r
    <3>1. j + 1 \in 1..Len(queue) /\ queue[j + 1] = r
      BY <1>1, <1>2, <2>2
    <3>2. QED
      BY <3>1
  <2>3. 1 \in 1..Len(queue)
    BY <1>1, <1>2
  <2>4. QED
    BY <1>1, <2>1, <2>2, <2>3
<1>4. QED
  BY <1>2, <1>3 DEF Held

\* A request comes into the program by receive_message only.
LEMMA EnterStep ==
  ASSUME IInv, [Next]_vars, NEW r \in Requests, ~Held(r), Held(r)'
  PROVE  /\ servPc = "scan"
         /\ r.idx = read[r.client] + 1 /\ read'[r.client] = r.idx
<1>0. r # NoRequest /\ read \in [Clients -> Nat]
  BY Hands DEF IInv, TypeOK
<1>1. ASSUME UNCHANGED <<node, queue, serving>> PROVE FALSE
  BY <1>1 DEF Held
<1>2. CASE ServReceive
  <2>1. UNCHANGED <<queue, serving>>
    BY <1>2 DEF ServReceive, queues, response
  <2>2. node' = r
    BY <2>1 DEF Held
  <2>3. PICK c \in Clients :
          /\ node' = [client |-> c, idx |-> read[c] + 1]
          /\ read' = [read EXCEPT ![c] = @ + 1]
    BY <1>2 DEF ServReceive, IInv, TypeOK
  <2>4. r.client = c /\ r.idx = read[c] + 1 /\ read'[c] = read[c] + 1
    BY <1>0, <2>2, <2>3
  <2>5. QED
    BY <1>2, <2>4 DEF ServReceive
<1>3. ASSUME Enqueue PROVE FALSE
  BY <1>3, EnqueueMoves
<1>4. ASSUME RefuseLength \/ RefusePayload PROVE FALSE
  <2>1. UNCHANGED <<queue, serving>> /\ node' \in {node, NoRequest}
    BY <1>4 DEF RefuseLength, RefusePayload, queues, response
  <2>2. QED
    BY <1>0, <2>1 DEF Held
<1>5. ASSUME TakeHead, serving = NoRequest, UNCHANGED node PROVE FALSE
  BY <1>5, TakeHeadMoves
<1>6. ASSUME Execute \/ AnswerPayload \/ Resend PROVE FALSE
  <2>1. UNCHANGED <<queue, node>> /\ serving' \in {serving, NoRequest}
    BY <1>6 DEF Execute, AnswerPayload, Resend, queues, server
  <2>2. QED
    BY <1>0, <2>1 DEF Held
<1>7. QED
  BY <1>1, <1>2, <1>3, <1>4, <1>5, <1>6, OnlyMoves DEF Moves

\* It leaves by the end of a refusal, of its execution or of its answer.
LEMMA LeaveStep ==
  ASSUME IInv, [Next]_vars, NEW r \in Requests, Held(r), ~Held(r)'
  PROVE  \/ /\ node = r /\ servPc \in {"refuse_length", "refuse_payload"}
            /\ r.client \in troubled'
         \/ serving = r /\ respPc = "execute"
         \/ /\ serving = r /\ respPc = "answer_payload"
            /\ answered'[r.client] = r.idx
         \/ /\ serving = r /\ respPc = "resend"
            /\ count + 1 = RESEND_COUNT /\ r.client \in troubled
<1>0. r # NoRequest /\ r.client \in Clients
  BY Hands, RequestFields
<1>1. ASSUME UNCHANGED <<node, queue, serving>> PROVE FALSE
  BY <1>1 DEF Held
<1>2. ASSUME ServReceive PROVE FALSE
  <2>1. UNCHANGED <<queue, serving>> /\ node = NoRequest
    BY <1>2, Hands DEF ServReceive, queues, response
  <2>2. QED
    BY <1>0, <2>1 DEF Held
<1>3. ASSUME Enqueue PROVE FALSE
  BY <1>3, EnqueueMoves
<1>4. CASE RefuseLength
  <2>1. UNCHANGED <<queue, serving>>
    BY <1>4 DEF RefuseLength, queues, response
  <2>2. node = r /\ servPc = "refuse_length"
    BY <1>4, <2>1 DEF RefuseLength, Held
  <2>3. node.client \in troubled'
    BY <1>4 DEF RefuseLength, SendTimesOut, Trouble
  <2>4. QED
    BY <2>2, <2>3
<1>5. CASE RefusePayload
  <2>1. UNCHANGED <<queue, serving>>
    BY <1>5 DEF RefusePayload, queues, response
  <2>2. node = r /\ servPc = "refuse_payload"
    BY <1>5, <2>1 DEF RefusePayload, Held
  <2>3. node.client \in troubled'
    BY <1>5 DEF RefusePayload, SendTimesOut, Trouble, IInv, FrameInv
  <2>4. QED
    BY <2>2, <2>3
<1>6. ASSUME TakeHead, serving = NoRequest, UNCHANGED node PROVE FALSE
  BY <1>6, TakeHeadMoves
<1>7. ASSUME Execute \/ AnswerPayload \/ Resend
      PROVE  serving = r /\ serving' # r
  <2>1. UNCHANGED <<queue, node>>
    BY <1>7 DEF Execute, AnswerPayload, Resend, queues, server
  <2>2. QED
    BY <2>1 DEF Held
<1>8. CASE Execute
  BY <1>7, <1>8 DEF Execute
<1>9. CASE AnswerPayload
  <2>1. answered' = [answered EXCEPT ![serving.client] = serving.idx]
    BY <1>7, <1>9 DEF AnswerPayload
  <2>2. answered \in [Clients -> Nat]
    BY DEF IInv, TypeOK
  <2>3. answered'[r.client] = r.idx
    BY <1>0, <1>7, <1>9, <2>1, <2>2
  <2>4. QED
    BY <1>7, <1>9, <2>3 DEF AnswerPayload
<1>10. CASE Resend
  <2>1. respPc = "resend" /\ count + 1 = RESEND_COUNT
    BY <1>7, <1>10 DEF Resend
  <2>2. serving.client \in troubled
    BY <2>1 DEF IInv, FrameInv
  <2>3. QED
    BY <1>7, <1>10, <2>1, <2>2
<1>11. QED
  BY <1>1, <1>2, <1>3, <1>4, <1>5, <1>6, <1>8, <1>9, <1>10, OnlyMoves
     DEF Moves

\* Every request comes in once, in its client's order.
THEOREM EnterInOrder == Spec => RequestsEnterInOrder
<1>1. IInv /\ [Next]_vars =>
        [\A r \in Requests : ~Held(r) /\ Held(r)' =>
           /\ servPc = "scan"
           /\ r.idx = read[r.client] + 1 /\ read'[r.client] = r.idx]_vars
  BY EnterStep
<1>2. QED
  BY Invariance, <1>1, PTL DEF Spec, RequestsEnterInOrder

\* None is lost on its way: each is refused, not executed, answered or given
\* up.
THEOREM LeaveWithCause == Spec => RequestsLeaveWithCause
<1>1. IInv /\ [Next]_vars =>
        [\A r \in Requests : Held(r) /\ ~Held(r)' =>
           \/ /\ node = r /\ servPc \in {"refuse_length", "refuse_payload"}
              /\ r.client \in troubled'
           \/ serving = r /\ respPc = "execute"
           \/ /\ serving = r /\ respPc = "answer_payload"
              /\ answered'[r.client] = r.idx
           \/ /\ serving = r /\ respPc = "resend"
              /\ count + 1 = RESEND_COUNT /\ r.client \in troubled]_vars
  BY LeaveStep
<1>2. QED
  BY Invariance, <1>1, PTL DEF Spec, RequestsLeaveWithCause
=============================================================================
