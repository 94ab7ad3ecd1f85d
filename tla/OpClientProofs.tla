--------------------------- MODULE OpClientProofs ---------------------------
(***************************************************************************)
(* Proofs about OpClient: its type invariant, its safety properties, that  *)
(* it implements Calls, and how answers go through its queue, for every    *)
(* size of the queues and any number of commands, events and connections.  *)
(***************************************************************************)
EXTENDS OpClient, SequenceTheorems, TLAPS

-----------------------------------------------------------------------------
(* The inductive invariant.                                                *)

\* A list that was empty when enqueue walked it stays so until the node is
\* linked.  Until an alarm frees the mutex inside enqueue, the mutex keeps
\* calls out, and cmd_queue->size counts at least the nodes that are linked,
\* but for the one enqueue has not counted yet.
SizeInv ==
  /\ recvPc = "link" /\ tail = 0 => cmdQueue = <<>>
  /\ ~freed =>
       /\ recvPc \in {"link", "count"} => cmdOwner = "recv"
       /\ IF recvPc = "count"
          THEN /\ seen = cmdSize /\ Len(cmdQueue) <= cmdSize + 1
               /\ tail = 0 => Len(cmdQueue) <= 1
          ELSE Len(cmdQueue) <= cmdSize

\* Answers are to commands that were executed, and these were asked for.
AnswerInv ==
  /\ done <= msg_idx /\ node <= done
  /\ cmdQueue \in Seq(1..done)

\* What the server may have said after d commands and e connections: answers to
\* these commands, events of these connections, or that it is full.
Said(m, d, e) ==
  \/ m.kind = "answer" /\ m.num \in 1..d
  \/ m.kind = "broadcast" /\ m.num \in 1..e
  \/ m.kind = "toomany"
SaidParts(d, e) == {p \in MessageParts : Said(p.msg, d, e)}
SaidInv ==
  /\ wire \in Seq(SaidParts(done, epoch))
  /\ outbox \in Seq(SaidParts(done, epoch))
  /\ recvPc \in {"payload", "handle"} => Said(msg, done, epoch)
  /\ recvPc = "link" => msg.kind = "answer" /\ Said(msg, done, epoch)

\* Commands that are on their way: not executed yet, in order, and none with
\* the number of the one that is being sent.
Pending(q, lo, hi) ==
  /\ \A i \in 1..Len(q) :
       q[i].part = "payload" => lo < q[i].num /\ q[i].num <= hi
  /\ \A i, j \in 1..Len(q) :
       i < j /\ q[i].part = "payload" /\ q[j].part = "payload"
         => q[i].num < q[j].num
InboxInv ==
  /\ Pending(inbox, done, msg_idx)
  /\ mainPc \in {"send_length", "send_payload"} =>
       done < msg_idx /\ Pending(inbox, done, msg_idx - 1)

\* Where the connection is while the receive thread opens a new one.
LinkInv ==
  /\ epoch >= 1 /\ started <= epoch
  /\ link # "up" => inbox = <<>> /\ outbox = <<>>
  /\ recvPc \in {"closed", "flush", "connect"} => link = "hungup" /\ wire = <<>>
  /\ recvPc = "connecting" => link = "fresh"

\* The last command on a connection lacks its payload exactly while the main
\* thread is about to send it.
Alternate(q) ==
  \A i \in 1..Len(q) :
    IF i % 2 = 1 THEN q[i].part = "length"
    ELSE q[i] = [part |-> "payload", num |-> q[i - 1].num]
HalfSent == mainPc = "send_payload" /\ started = epoch
StepInv ==
  ~cut =>
    /\ Alternate(inbox)
    /\ link = "up" =>
         IF HalfSent
         THEN /\ Len(inbox) % 2 = 1
              /\ inbox[Len(inbox)].num = msg_idx
         ELSE Len(inbox) % 2 = 0

\* What the receive thread has of a message, and what is still to come.
LengthOf(m) == [part |-> "length", msg |-> m]
Flow ==
  (IF recvPc = "payload" THEN <<LengthOf(msg)>> ELSE <<>>) \o (wire \o outbox)
Ordered(s) ==
  \A i \in 1..Len(s) :
    IF i % 2 = 1 THEN s[i].part = "length"
    ELSE s[i] = [part |-> "payload", msg |-> s[i - 1].msg]
Over == {"stop_play", "stop_queues", "ended"}
FlowInv ==
  ~garbled /\ recvPc \notin Over =>
    /\ Ordered(Flow)
    /\ link = "up" => Len(Flow) % 2 = 0

\* The listener was, or will be, told of every connection before it hears
\* what the server said on it.
Waiting(e) == \E j \in 1..Len(msgQueue) : msgQueue[j] = Reconnected(e)
TellInv ==
  /\ heard \in 1..epoch
  /\ \A e \in 1..epoch :
       \/ e <= heard \/ e \in skipped \/ Waiting(e)
       \/ e = epoch /\ recvPc \in {"connected", "flush_connected"}
  /\ \A i \in 1..Len(msgQueue) :
       msgQueue[i].kind = "reconnected" => msgQueue[i].num \in heard..epoch
  /\ \A i, j \in 1..Len(msgQueue) :
       i < j /\ msgQueue[i].kind = "reconnected"
             /\ msgQueue[j].kind = "reconnected"
         => msgQueue[i].num <= msgQueue[j].num

IInv ==
  /\ TypeOK /\ SizeInv /\ AnswerInv /\ SaidInv /\ InboxInv /\ LinkInv /\ StepInv
  /\ FlowInv /\ ReceiverEndsForCause /\ TellInv /\ ReconnectIsToldFirst

-----------------------------------------------------------------------------
(* Sequences.                                                              *)

\* What is left of a sequence whose first element is taken.
LEMMA Taken ==
  ASSUME NEW S, NEW q \in Seq(S), q # <<>>
  PROVE  /\ Len(q) \in Nat /\ Len(q) > 0
         /\ Head(q) = q[1] /\ Head(q) \in S
         /\ Tail(q) \in Seq(S) /\ Len(Tail(q)) = Len(q) - 1
         /\ \A i \in 1..Len(Tail(q)) :
              i + 1 \in 1..Len(q) /\ Tail(q)[i] = q[i + 1]
  OBVIOUS

\* What a sequence is after one more element is put at its end.
LEMMA Put ==
  ASSUME NEW S, NEW q \in Seq(S), NEW e \in S
  PROVE  /\ Append(q, e) \in Seq(S) /\ Len(Append(q, e)) = Len(q) + 1
         /\ \A i \in 1..Len(q) : Append(q, e)[i] = q[i]
         /\ Append(q, e)[Len(q) + 1] = e
         /\ Len(q) \in Nat
  OBVIOUS

-----------------------------------------------------------------------------
(* Types.                                                                  *)

FlagTypes ==
  /\ play \in BOOLEAN /\ wedged \in BOOLEAN /\ left \in BOOLEAN
  /\ cmdRunning \in BOOLEAN /\ freed \in BOOLEAN
  /\ garbled \in BOOLEAN /\ cut \in BOOLEAN
PlaceTypes ==
  /\ mainPc \in MainPcs /\ recvPc \in RecvPcs /\ listenPc \in ListenPcs
  /\ link \in {"up", "hungup", "fresh"} /\ cmdOwner \in {"none", "recv"}
  /\ err \in {"none", "connect", "recv"}
CountTypes ==
  /\ msg_idx \in Nat /\ node \in Nat /\ started \in Nat /\ got \in Nat
  /\ cmdSize \in Int /\ (~freed => cmdSize \in Nat)
  /\ seen \in Int /\ tail \in Nat /\ heard \in Nat /\ epoch \in Nat
  /\ done \in Nat /\ notices \in Nat /\ skipped \subseteq Nat
QueueTypes ==
  cmdQueue \in Seq(Nat) /\ inbox \in Seq(CommandParts)
MessageTypes ==
  /\ msgQueue \in Seq(Messages) /\ msg \in Messages
  /\ wire \in Seq(MessageParts) /\ outbox \in Seq(MessageParts)

LEMMA TypeSplit ==
  TypeOK <=> FlagTypes /\ PlaceTypes /\ CountTypes /\ QueueTypes /\ MessageTypes
  BY DEF TypeOK, FlagTypes, PlaceTypes, CountTypes, QueueTypes, MessageTypes

\* The flags stay Boolean.
LEMMA FlagStep ==
  ASSUME IInv, [Next]_vars
  PROVE  FlagTypes'
<1> USE TypeSplit DEF IInv, FlagTypes, monitor, caller, cmdq, msgq, receiver,
   listener, server, net
<1>1. CASE SendPayload
  BY <1>1 DEF SendPayload, Return
<1>2. CASE MainSetsMonitor
  BY <1>2 DEF MainSetsMonitor
<1>3. CASE Remove
  BY <1>3 DEF Remove
<1>4. CASE Alarm
  BY <1>4 DEF Alarm, Return
<1>5. CASE ReceivePayload
  BY <1>5 DEF ReceivePayload, Goto
<1>6. CASE Reopen
  BY <1>6 DEF Reopen, Goto
<1>7. CASE Connect \/ ConnectFails
  BY <1>7 DEF Connect, ConnectFails, Goto
<1>8. CASE RecvSetsMonitor
  BY <1>8 DEF RecvSetsMonitor, SignalCmd, Goto
<1>9. CASE ServerExecutes
  BY <1>9 DEF ServerExecutes
<1>10. CASE \/ Call \/ Quit \/ SendLength \/ CheckPlay \/ DequeueConditional
            \/ Take \/ WokenToStop \/ Leave \/ Join \/ WakeSpuriously
            \/ RecvHead \/ ReceiveLength \/ HandleAnswer \/ LinkAnswer
            \/ CountAnswer \/ ReceiveFails \/ HandleNotice \/ NoticeClosed
            \/ NoticeReconnected \/ FlushQueue \/ Listen
            \/ ListenerLate \/ ServerSpeaks \/ ServerSends \/ ServerHangsUp
  <2>1. UNCHANGED <<play, wedged, left, cmdRunning, freed, garbled,
                  cut>>
    BY <1>10 DEF Call, Quit, SendLength, CheckPlay, DequeueConditional, Take,
       WokenToStop, Leave, Join, WakeSpuriously, RecvHead, ReceiveLength,
       HandleAnswer, CountAnswer, ReceiveFails, LinkAnswer, HandleNotice,
       NoticeClosed, NoticeReconnected, FlushQueue, Listen, ListenerLate,
       ServerSpeaks, ServerSends, ServerHangsUp, Return, Goto, SignalCmd,
       Enqueue, Flushed
  <2>2. QED
    BY <2>1
<1>11. CASE UNCHANGED vars
  BY <1>11 DEF vars
<1>12. QED
  BY <1>1, <1>2, <1>3, <1>4, <1>5, <1>6, <1>7, <1>8, <1>9, <1>10,
     <1>11 DEF Next, MainStep, RecvStep, ListenStep, ServerStep, vars

\* The threads and the connection are at places that exist.
LEMMA PlaceStep ==
  ASSUME IInv, [Next]_vars
  PROVE  PlaceTypes'
<1> USE TypeSplit DEF IInv, PlaceTypes, MainPcs, CallPcs, ArmedPcs, RecvPcs,
   ListenPcs, monitor, caller, cmdq, msgq, receiver, listener, server, net
<1>1. CASE Call
  BY <1>1 DEF Call
<1>2. CASE Quit
  BY <1>2 DEF Quit
<1>3. CASE SendLength
  BY <1>3 DEF SendLength, Return
<1>4. CASE SendPayload
  BY <1>4 DEF SendPayload, Return
<1>5. CASE CheckPlay
  BY <1>5 DEF CheckPlay, Return
<1>6. CASE DequeueConditional
  BY <1>6 DEF DequeueConditional, Return
<1>7. CASE Take
  BY <1>7 DEF Take, Return
<1>8. CASE WokenToStop
  BY <1>8 DEF WokenToStop, Return
<1>9. CASE MainSetsMonitor
  BY <1>9 DEF MainSetsMonitor
<1>10. CASE Leave
  BY <1>10 DEF Leave
<1>11. CASE Join
  BY <1>11 DEF Join
<1>12. CASE Remove
  BY <1>12 DEF Remove
<1>13. CASE WakeSpuriously
  BY <1>13 DEF WakeSpuriously
<1>14. CASE Alarm
  BY <1>14 DEF Alarm, Return
<1>15. CASE RecvHead
  BY <1>15 DEF RecvHead, Goto
<1>16. CASE ReceiveLength
  BY <1>16 DEF ReceiveLength, Goto
<1>17. CASE ReceivePayload
  BY <1>17 DEF ReceivePayload, Goto
<1>18. CASE HandleAnswer
  BY <1>18 DEF HandleAnswer, Goto
<1>19. CASE LinkAnswer
  BY <1>19 DEF LinkAnswer, SignalCmd, Goto
<1>20. CASE HandleNotice
  BY <1>20 DEF HandleNotice, Enqueue, Goto
<1>21. CASE NoticeClosed
  BY <1>21 DEF NoticeClosed, Enqueue, Goto
<1>22. CASE NoticeReconnected
  BY <1>22 DEF NoticeReconnected, Enqueue, Goto
<1>23. CASE FlushQueue
  BY <1>23 DEF FlushQueue, Goto, Flushed
<1>24. CASE Reopen
  BY <1>24 DEF Reopen, Goto
<1>25. CASE Connect
  BY <1>25 DEF Connect, Goto
<1>26. CASE ConnectFails
  BY <1>26 DEF ConnectFails, Goto
<1>27. CASE RecvSetsMonitor
  BY <1>27 DEF RecvSetsMonitor, SignalCmd, Goto
<1>28. CASE ListenerLate
  BY <1>28 DEF ListenerLate
<1>29. CASE ServerHangsUp
  BY <1>29 DEF ServerHangsUp
<1>30. CASE \/ Listen \/ ServerExecutes \/ ServerSpeaks \/ ServerSends
  <2>1. UNCHANGED <<mainPc, recvPc, listenPc, link, cmdOwner, err>>
    BY <1>30 DEF Listen, ServerExecutes, ServerSpeaks, ServerSends
  <2>2. QED
    BY <2>1
<1>31. CASE CountAnswer
  BY <1>31 DEF CountAnswer, SignalCmd, Goto
<1>32. CASE ReceiveFails
  BY <1>32 DEF ReceiveFails, Goto
<1>33. CASE UNCHANGED vars
  BY <1>33 DEF vars
<1>34. QED
  BY <1>1, <1>2, <1>3, <1>4, <1>5, <1>6, <1>7, <1>8, <1>9, <1>10, <1>11, <1>12,
     <1>13, <1>14, <1>15, <1>16, <1>17, <1>18, <1>19, <1>20, <1>21, <1>22,
     <1>23, <1>24, <1>25, <1>26, <1>27, <1>28, <1>29, <1>30, <1>31, <1>32,
     <1>33 DEF Next, MainStep, RecvStep, ListenStep, ServerStep, vars

\* The elements of the queues are of their types.
LEMMA QueuedAnswers ==
  ASSUME TypeOK
  PROVE  /\ cmdQueue \in Seq(Nat) /\ Len(cmdQueue) \in Nat
         /\ \A i \in 1..Len(cmdQueue) : cmdQueue[i] \in Nat
  BY DEF TypeOK

LEMMA SentCommands ==
  ASSUME TypeOK
  PROVE  /\ inbox \in Seq(CommandParts) /\ Len(inbox) \in Nat
         /\ \A i \in 1..Len(inbox) :
              /\ inbox[i] \in CommandParts /\ inbox[i].num \in Nat
              /\ inbox[i].part \in {"length", "payload"}
<1>1. inbox \in Seq(CommandParts)
  BY DEF TypeOK
<1>2. Len(inbox) \in Nat /\ \A i \in 1..Len(inbox) : inbox[i] \in CommandParts
  BY <1>1
<1>3. \A p \in CommandParts : p.num \in Nat /\ p.part \in {"length", "payload"}
  BY DEF CommandParts
<1>4. QED
  BY <1>1, <1>2, <1>3

LEMMA QueuedNotices ==
  ASSUME TypeOK
  PROVE  /\ msgQueue \in Seq(Messages) /\ Len(msgQueue) \in Nat
         /\ \A i \in 1..Len(msgQueue) :
              msgQueue[i] \in Messages /\ msgQueue[i].num \in Nat
<1>1. msgQueue \in Seq(Messages)
  BY DEF TypeOK
<1>2. /\ Len(msgQueue) \in Nat
      /\ \A i \in 1..Len(msgQueue) : msgQueue[i] \in Messages
  BY <1>1
<1>3. \A m \in Messages : m.num \in Nat
  BY DEF Messages
<1>4. QED
  BY <1>1, <1>2, <1>3

LEMMA SentMessages ==
  ASSUME TypeOK
  PROVE  /\ wire \in Seq(MessageParts) /\ Len(wire) \in Nat
         /\ \A i \in 1..Len(wire) :
              wire[i] \in MessageParts /\ wire[i].msg \in Messages
         /\ outbox \in Seq(MessageParts) /\ Len(outbox) \in Nat
         /\ \A i \in 1..Len(outbox) :
              outbox[i] \in MessageParts /\ outbox[i].msg \in Messages
         /\ msg \in Messages /\ msg.num \in Nat
<1>1. wire \in Seq(MessageParts) /\ outbox \in Seq(MessageParts)
  BY DEF TypeOK
<1>2. /\ Len(wire) \in Nat /\ Len(outbox) \in Nat
      /\ \A i \in 1..Len(wire) : wire[i] \in MessageParts
      /\ \A i \in 1..Len(outbox) : outbox[i] \in MessageParts
  BY <1>1
<1>3. /\ \A p \in MessageParts : p.msg \in Messages
      /\ \A m \in Messages : m.num \in Nat
  BY DEF MessageParts, Messages
<1>4. msg \in Messages
  BY DEF TypeOK
<1>5. QED
  BY <1>1, <1>2, <1>3, <1>4

\* What can be put in a queue or on the wire.
LEMMA NewElements ==
  /\ \A t \in {"length", "payload"}, k \in Nat : [part |-> t, num |-> k] \in CommandParts
  /\ \A t \in {"length", "payload"}, m \in Messages :
       [part |-> t, msg |-> m] \in MessageParts
  /\ NoMsg \in Messages
  /\ \A k \in Nat : /\ Answer(k) \in Messages /\ Broadcast(k) \in Messages
                    /\ TooMany(k) \in Messages /\ Closed(k) \in Messages
                    /\ Reconnected(k) \in Messages
  BY DEF CommandParts, MessageParts, Messages, Kinds, NoMsg, Answer, Broadcast,
     TooMany, Closed, Reconnected

\* Two messages, one's parts between the other's.
LEMMA FourElements ==
  ASSUME NEW S, NEW a \in S, NEW b \in S, NEW c \in S, NEW d \in S
  PROVE  /\ <<a, b, c, d>> \in Seq(S) /\ Len(<<a, b, c, d>>) = 4
         /\ \A i \in 1..4 : <<a, b, c, d>>[i] \in {a, b, c, d}
  OBVIOUS

LEMMA TwoElements ==
  ASSUME NEW S, NEW a \in S, NEW b \in S
  PROVE  <<a, b>> \in Seq(S)
  OBVIOUS

\* The two parts of a message.
LEMMA TwoParts ==
  ASSUME NEW m \in Messages
  PROVE  /\ Parts(m) \in Seq(MessageParts) /\ Len(Parts(m)) = 2
         /\ Parts(m)[1] = [part |-> "length", msg |-> m]
         /\ Parts(m)[2] = [part |-> "payload", msg |-> m]
         /\ \A i \in 1..2 : Parts(m)[i] \in MessageParts /\ Parts(m)[i].msg = m
<1>1. /\ [part |-> "length", msg |-> m] \in MessageParts
      /\ [part |-> "payload", msg |-> m] \in MessageParts
  BY NewElements
<1>2. /\ Parts(m) \in Seq(MessageParts) /\ Len(Parts(m)) = 2
      /\ Parts(m)[1] = [part |-> "length", msg |-> m]
      /\ Parts(m)[2] = [part |-> "payload", msg |-> m]
  BY <1>1 DEF Parts
<1>3. QED
  BY <1>1, <1>2

\* Counters stay natural numbers.
LEMMA CountStep ==
  ASSUME IInv, [Next]_vars
  PROVE  CountTypes'
<1> USE TypeSplit DEF IInv, CountTypes, monitor, caller, cmdq, msgq, receiver,
   listener, server, net
<1>1. CASE Call
  BY <1>1 DEF Call
<1>2. CASE SendLength
  BY <1>2 DEF SendLength, Return
<1>3. CASE SendPayload
  BY <1>3 DEF SendPayload, Return
<1>4. CASE CheckPlay
  BY <1>4 DEF CheckPlay, Return
<1>5. CASE DequeueConditional
  <2>1. /\ cmdQueue # <<>> => Head(cmdQueue) \in Nat
        /\ cmdQueue # <<>> /\ cmdOwner = "none" /\ ~freed => cmdSize - 1 \in Nat
    BY Taken DEF TypeOK, SizeInv
  <2>2. /\ UNCHANGED <<msg_idx, started, tail, seen, heard, epoch, done>>
        /\ UNCHANGED <<notices, skipped, freed, cmdOwner>>
        /\ got' = got \/ got' = 0
        /\ \/ UNCHANGED <<node, cmdSize>>
           \/ /\ cmdQueue # <<>> /\ cmdOwner = "none"
              /\ node' = Head(cmdQueue) /\ cmdSize' = cmdSize - 1
    BY <1>5 DEF DequeueConditional, Return
  <2>3. QED
    BY <2>1, <2>2
<1>6. CASE Take
  BY <1>6 DEF Take, Return
<1>7. CASE WokenToStop
  BY <1>7 DEF WokenToStop, Return
<1>8. CASE Alarm
  BY <1>8 DEF Alarm, Return
<1>9. CASE HandleAnswer
  <2>1. cmdQueue # <<>> => cmdQueue[Len(cmdQueue)] \in Nat
    BY QueuedAnswers
  <2>2. QED
    BY <1>9, <2>1 DEF HandleAnswer, Goto
<1>10. CASE LinkAnswer
  BY <1>10 DEF LinkAnswer, SignalCmd, Goto
<1>11. CASE FlushQueue
  <2>1. Flushed \subseteq Nat
    BY QueuedNotices DEF Flushed
  <2>2. QED
    BY <1>11, <2>1 DEF FlushQueue, Goto
<1>12. CASE Connect
  BY <1>12 DEF Connect, Goto
<1>13. CASE Listen
  <2>1. msgQueue # <<>>
    BY <1>13 DEF Listen
  <2>2. Head(msgQueue) \in Messages
    BY <2>1, Taken, QueuedNotices
  <2>3. Head(msgQueue).num \in Nat
    BY <2>2 DEF Messages
  <2>4. QED
    BY <1>13, <2>3 DEF Listen
<1>14. CASE ServerExecutes
  <2>1. inbox[2].num \in Nat
    <3>1. Len(inbox) > 1
      BY <1>14 DEF ServerExecutes
    <3>2. QED
      BY <3>1, SentCommands
  <2>2. /\ done' = inbox[2].num /\ notices' \in {notices, notices + 1}
        /\ UNCHANGED <<monitor, caller, cmdq, msgq, receiver, listener, epoch>>
    BY <1>14 DEF ServerExecutes
  <2>3. QED
    BY <2>1, <2>2
<1>15. CASE ServerSpeaks
  BY <1>15 DEF ServerSpeaks
<1>16. CASE \/ Quit \/ MainSetsMonitor \/ Leave \/ Join \/ Remove
            \/ WakeSpuriously \/ RecvHead \/ ReceiveLength
            \/ ReceivePayload \/ ReceiveFails \/ HandleNotice \/ NoticeClosed
            \/ NoticeReconnected \/ Reopen \/ ConnectFails
            \/ RecvSetsMonitor \/ ListenerLate
            \/ ServerSends \/ ServerHangsUp
  <2>1. UNCHANGED <<msg_idx, node, started, got, cmdSize, freed, seen, tail,
                    heard, epoch, done, notices, skipped>>
    BY <1>16 DEF Quit, MainSetsMonitor, Leave, Join, Remove, WakeSpuriously,
       RecvHead, ReceiveLength, ReceiveFails, ReceivePayload, HandleNotice,
       NoticeClosed, NoticeReconnected, Reopen, ConnectFails, RecvSetsMonitor,
       ListenerLate, ServerSends, ServerHangsUp, Goto, Enqueue, SignalCmd
  <2>2. QED
    BY <2>1
<1>17. CASE CountAnswer
  <2>1. /\ cmdSize' \in Int /\ (~freed => cmdSize' \in Nat)
        /\ tail' = 0 /\ seen' = 0
    BY <1>17 DEF CountAnswer, Counted, SizeInv
  <2>2. UNCHANGED <<freed, msg_idx, node, started, got, heard, epoch, done,
                    notices, skipped>>
    BY <1>17 DEF CountAnswer
  <2>3. QED
    BY <2>1, <2>2
<1>18. CASE UNCHANGED vars
  BY <1>18 DEF vars
<1>19. QED
  BY <1>1, <1>2, <1>3, <1>4, <1>5, <1>6, <1>7, <1>8, <1>9, <1>10, <1>11, <1>12,
     <1>13, <1>14, <1>15, <1>16, <1>17, <1>18 DEF Next, MainStep, RecvStep,
     ListenStep, ServerStep, vars

\* The queue of answers and the commands on their way stay sequences.
LEMMA QueueStep ==
  ASSUME IInv, [Next]_vars
  PROVE  QueueTypes'
<1> USE TypeSplit, NewElements DEF IInv, QueueTypes, monitor, caller, cmdq,
   msgq, receiver, listener, server, net
<1>1. CASE SendLength
  <2>1. [part |-> "length", num |-> msg_idx] \in CommandParts
    BY DEF CountTypes
  <2>2. Append(inbox, [part |-> "length", num |-> msg_idx]) \in Seq(CommandParts)
    BY <2>1, Put
  <2>3. QED
    BY <1>1, <2>2 DEF SendLength
<1>2. CASE SendPayload
  <2>1. [part |-> "payload", num |-> msg_idx] \in CommandParts
    BY DEF CountTypes
  <2>2. Append(inbox, [part |-> "payload", num |-> msg_idx]) \in Seq(CommandParts)
    BY <2>1, Put
  <2>3. QED
    BY <1>2, <2>2 DEF SendPayload
<1>3. CASE DequeueConditional
  <2>1. cmdQueue # <<>> => Tail(cmdQueue) \in Seq(Nat)
    BY Taken
  <2>2. QED
    BY <1>3, <2>1 DEF DequeueConditional
<1>4. CASE Alarm
  <2>1. cmdQueue # <<>> => Tail(cmdQueue) \in Seq(Nat)
    BY Taken
  <2>2. QED
    BY <1>4, <2>1 DEF Alarm
<1>5. CASE LinkAnswer
  <2>1. msg.num \in Nat
    BY DEF MessageTypes, Messages
  <2>2. <<msg.num>> \in Seq(Nat) /\ Append(cmdQueue, msg.num) \in Seq(Nat)
    BY <2>1, Put
  <2>3. QED
    BY <1>5, <2>2 DEF LinkAnswer
<1>6. CASE Connect
  BY <1>6 DEF Connect, Goto
<1>7. CASE ServerExecutes
  <2>1. Tail(inbox) \in Seq(CommandParts) /\ Len(Tail(inbox)) > 0
    BY <1>7, Taken DEF ServerExecutes
  <2>2. Tail(Tail(inbox)) \in Seq(CommandParts)
    <3> DEFINE t == Tail(inbox)
    <3>1. t \in Seq(CommandParts) /\ Len(t) > 0
      BY <2>1
    <3> HIDE DEF t
    <3>2. t # <<>>
      BY <3>1
    <3>3. Tail(t) \in Seq(CommandParts)
      BY <3>1, <3>2, Taken
    <3>4. QED
      BY <3>3 DEF t
  <2>3. QED
    BY <1>7, <2>2 DEF ServerExecutes
<1>8. CASE ServerHangsUp
  BY <1>8 DEF ServerHangsUp
<1>9. CASE \/ Call \/ Quit \/ CheckPlay \/ Take \/ WokenToStop
           \/ MainSetsMonitor \/ Leave \/ Join \/ Remove
           \/ WakeSpuriously \/ RecvHead \/ ReceiveLength \/ ReceivePayload
           \/ ReceiveFails \/ CountAnswer \/ HandleAnswer \/ HandleNotice
           \/ NoticeClosed \/ NoticeReconnected \/ FlushQueue \/ Reopen
           \/ ConnectFails \/ RecvSetsMonitor \/ Listen
           \/ ListenerLate \/ ServerSpeaks \/ ServerSends
  <2>1. UNCHANGED <<cmdQueue, inbox>>
    BY <1>9 DEF Call, Quit, CheckPlay, Take, WokenToStop, MainSetsMonitor,
       Leave, Join, Remove, WakeSpuriously, RecvHead, ReceiveLength,
       ReceiveFails, CountAnswer, ReceivePayload, HandleAnswer, HandleNotice,
       NoticeClosed, NoticeReconnected, FlushQueue, Reopen, ConnectFails,
       RecvSetsMonitor, Listen, ListenerLate, ServerSpeaks, ServerSends,
       Return, Goto, Enqueue, Flushed, SignalCmd
  <2>2. QED
    BY <2>1
<1>10. CASE UNCHANGED vars
  BY <1>10 DEF vars
<1>11. QED
  BY <1>1, <1>2, <1>3, <1>4, <1>5, <1>6, <1>7, <1>8, <1>9, <1>10 DEF Next,
     MainStep, RecvStep, ListenStep, ServerStep, vars

\* The messages stay messages.
LEMMA MessageStep ==
  ASSUME IInv, [Next]_vars
  PROVE  MessageTypes'
<1> USE TypeSplit, NewElements DEF IInv, MessageTypes, monitor, caller, cmdq,
   msgq, receiver, listener, server, net
<1>1. CASE ReceiveLength
  <2>1. wire # <<>> => Tail(wire) \in Seq(MessageParts) /\ Head(wire).msg \in Messages
    <3>1. wire # <<>> => Tail(wire) \in Seq(MessageParts) /\ Head(wire) \in MessageParts
      BY Taken
    <3>2. \A p \in MessageParts : p.msg \in Messages
      BY DEF MessageParts
    <3>3. QED
      BY <3>1, <3>2
  <2>2. QED
    BY <1>1, <2>1 DEF ReceiveLength
<1>2. CASE ReceivePayload
  <2>1. wire # <<>> => Tail(wire) \in Seq(MessageParts)
    BY Taken
  <2>2. QED
    BY <1>2, <2>1 DEF ReceivePayload
<1>3. CASE HandleAnswer
  BY <1>3 DEF HandleAnswer, Goto
<1>4. CASE LinkAnswer
  BY <1>4 DEF LinkAnswer, SignalCmd, Goto
<1>5. CASE HandleNotice
  <2>1. Append(msgQueue, msg) \in Seq(Messages)
    BY Put
  <2>2. QED
    BY <1>5, <2>1 DEF HandleNotice, Enqueue
<1>6. CASE NoticeClosed
  <2>1. Append(msgQueue, Closed(epoch)) \in Seq(Messages)
    BY Put DEF CountTypes
  <2>2. QED
    BY <1>6, <2>1 DEF NoticeClosed, Enqueue
<1>7. CASE NoticeReconnected
  <2>1. Append(msgQueue, Reconnected(epoch)) \in Seq(Messages)
    BY Put DEF CountTypes
  <2>2. QED
    BY <1>7, <2>1 DEF NoticeReconnected, Enqueue
<1>8. CASE FlushQueue
  BY <1>8 DEF FlushQueue, Goto, Flushed
<1>9. CASE Connect
  <2>1. TooMany(epoch') \in Messages
    BY CountStep DEF CountTypes
  <2>2. Parts(TooMany(epoch')) \in Seq(MessageParts)
    BY <2>1, TwoParts
  <2>3. outbox' \in Seq(MessageParts) /\ wire' \in Seq(MessageParts)
    BY <1>9, <2>2, EmptySeq DEF Connect
  <2>4. QED
    BY <1>9, <2>3 DEF Connect, Goto
<1>10. CASE Listen
  <2>1. Tail(msgQueue) \in Seq(Messages)
    BY <1>10, Taken DEF Listen
  <2>2. QED
    BY <1>10, <2>1 DEF Listen
<1>11. CASE ServerExecutes
  <2>1. Answer(done') \in Messages /\ Broadcast(epoch) \in Messages
    BY CountStep DEF CountTypes
  <2>2. Parts(Answer(done')) \in Seq(MessageParts)
    BY <2>1, TwoParts
  <2>3. /\ Parts(Answer(done'))[1] \in MessageParts
        /\ Parts(Answer(done'))[2] \in MessageParts
        /\ Parts(Broadcast(epoch))[1] \in MessageParts
        /\ Parts(Broadcast(epoch))[2] \in MessageParts
    <3>1. \A x \in Messages :
            Parts(x)[1] \in MessageParts /\ Parts(x)[2] \in MessageParts
      <4>1. TAKE x \in Messages
      <4>2. \A i \in 1..2 : Parts(x)[i] \in MessageParts
        BY TwoParts
      <4>3. QED
        BY <4>2
    <3>2. QED
      BY <2>1, <3>1
  <2>4. <<Parts(Answer(done'))[1], Parts(Broadcast(epoch))[1],
          Parts(Answer(done'))[2], Parts(Broadcast(epoch))[2]>> \in Seq(MessageParts)
    BY <2>3, FourElements
  <2>5. outbox' \in Seq(MessageParts)
    BY <1>11, <2>2, <2>4 DEF ServerExecutes
  <2>6. UNCHANGED <<msgQueue, msg, wire>>
    BY <1>11 DEF ServerExecutes
  <2>7. QED
    BY <2>5, <2>6
<1>12. CASE ServerSpeaks
  <2>1. Broadcast(epoch) \in Messages
    BY DEF CountTypes
  <2>2. Parts(Broadcast(epoch)) \in Seq(MessageParts)
    BY <2>1, TwoParts
  <2>3. QED
    BY <1>12, <2>2 DEF ServerSpeaks
<1>13. CASE ServerSends
  <2>1. Tail(outbox) \in Seq(MessageParts) /\ Head(outbox) \in MessageParts
    BY <1>13, Taken DEF ServerSends
  <2>2. Append(wire, Head(outbox)) \in Seq(MessageParts)
    BY <2>1, Put
  <2>3. QED
    BY <1>13, <2>1, <2>2 DEF ServerSends
<1>14. CASE ServerHangsUp
  BY <1>14 DEF ServerHangsUp
<1>15. CASE \/ Call \/ Quit \/ SendLength \/ SendPayload \/ CheckPlay
            \/ DequeueConditional \/ Take \/ WokenToStop \/ MainSetsMonitor
            \/ Leave \/ Join \/ Remove \/ WakeSpuriously \/ Alarm
            \/ RecvHead \/ Reopen \/ ConnectFails \/ CountAnswer
            \/ ListenerLate
  <2>1. UNCHANGED <<msgQueue, msg, wire, outbox>>
    BY <1>15 DEF Call, Quit, SendLength, SendPayload, CheckPlay,
       DequeueConditional, Take, WokenToStop, MainSetsMonitor, Leave, Join,
       Remove, WakeSpuriously, Alarm, RecvHead, Reopen, ConnectFails,
       CountAnswer, ListenerLate, Return, Goto, SignalCmd
  <2>2. QED
    BY <2>1
<1>16. CASE ReceiveFails
  BY <1>16 DEF ReceiveFails, Goto
<1>17. CASE RecvSetsMonitor
  BY <1>17 DEF RecvSetsMonitor, SignalCmd, Goto
<1>18. CASE UNCHANGED vars
  BY <1>18 DEF vars
<1>19. QED
  BY <1>1, <1>2, <1>3, <1>4, <1>5, <1>6, <1>7, <1>8, <1>9, <1>10, <1>11, <1>12,
     <1>13, <1>14, <1>15, <1>16, <1>17, <1>18 DEF Next, MainStep, RecvStep,
     ListenStep, ServerStep, vars

\* TypeOK is kept.
LEMMA TypeStep ==
  ASSUME IInv, [Next]_vars
  PROVE  TypeOK'
  BY FlagStep, PlaceStep, CountStep, QueueStep, MessageStep
  DEF TypeOK, FlagTypes, PlaceTypes, CountTypes, QueueTypes, MessageTypes

-----------------------------------------------------------------------------
(* The other parts of the invariant.                                       *)

\* The size of the queue of answers.
LEMMA SizeStep ==
  ASSUME IInv, [Next]_vars
  PROVE  SizeInv'
<1> USE TypeSplit, QueuedAnswers DEF IInv, CountTypes, SizeInv, monitor,
   caller, cmdq, msgq, receiver, listener, server, net
<1>1. CASE DequeueConditional
  <2>1. cmdQueue # <<>> => Len(Tail(cmdQueue)) = Len(cmdQueue) - 1
    BY Taken
  <2>2. \/ UNCHANGED <<cmdQueue, cmdSize>>
        \/ /\ cmdQueue # <<>> /\ cmdQueue' = Tail(cmdQueue)
           /\ cmdSize' = cmdSize - 1
    BY <1>1 DEF DequeueConditional
  <2>3. /\ UNCHANGED <<recvPc, tail, seen, cmdOwner, freed>>
        /\ cmdOwner = "none"
    BY <1>1 DEF DequeueConditional
  <2>4. QED
    BY <2>1, <2>2, <2>3
<1>2. CASE Alarm
  <2>1. cmdQueue # <<>> => Len(Tail(cmdQueue)) = Len(cmdQueue) - 1
    BY Taken
  <2>2. /\ UNCHANGED <<recvPc, tail, seen, cmdSize>>
        /\ \/ UNCHANGED cmdQueue
           \/ cmdQueue # <<>> /\ cmdQueue' = Tail(cmdQueue)
    BY <1>2 DEF Alarm
  <2>3. recvPc = "link" /\ tail = 0 => cmdQueue' = <<>>
    BY <2>2
  <2>4. ~freed' => ~freed /\ cmdOwner # "recv"
    BY <1>2 DEF Alarm, FlagTypes
  <2>5. Len(cmdQueue') <= Len(cmdQueue) /\ Len(cmdQueue) \in Nat
    BY <2>1, <2>2
  <2>6. ASSUME ~freed'
        PROVE  recvPc \notin {"link", "count"} /\ Len(cmdQueue') <= cmdSize
    BY <2>4, <2>5, <2>6
  <2>7. QED
    BY <2>2, <2>3, <2>6
<1>3. CASE RecvHead
  BY <1>3 DEF RecvHead, Goto
<1>4. CASE ReceiveLength
  BY <1>4 DEF ReceiveLength, Goto
<1>5. CASE ReceivePayload
  BY <1>5 DEF ReceivePayload, Goto
<1>6. CASE HandleAnswer
  <2>1. cmdQueue # <<>> => cmdQueue[Len(cmdQueue)] # 0
    <3>1. cmdQueue \in Seq(1..done)
      BY DEF AnswerInv
    <3>2. QED
      BY <3>1
  <2>2. QED
    BY <1>6, <2>1 DEF HandleAnswer, Goto
<1>7. CASE LinkAnswer
  <2>1. msg.num \in Nat
    BY SentMessages
  <2>2. /\ Len(Append(cmdQueue, msg.num)) = Len(cmdQueue) + 1
        /\ Len(<<msg.num>>) = 1 /\ cmdQueue = <<>> => Len(cmdQueue) = 0
    BY <2>1, Put
  <2>3. QED
    BY <1>7, <2>2 DEF LinkAnswer, Goto
<1>8. CASE HandleNotice
  BY <1>8 DEF HandleNotice, Enqueue, Goto
<1>9. CASE NoticeClosed
  BY <1>9 DEF NoticeClosed, Enqueue, Goto
<1>10. CASE NoticeReconnected
  BY <1>10 DEF NoticeReconnected, Enqueue, Goto
<1>11. CASE FlushQueue
  BY <1>11 DEF FlushQueue, Goto, Flushed
<1>12. CASE Reopen
  BY <1>12 DEF Reopen, Goto
<1>13. CASE Connect
  BY <1>13 DEF Connect, Goto
<1>14. CASE ConnectFails
  BY <1>14 DEF ConnectFails, Goto
<1>15. CASE RecvSetsMonitor
  BY <1>15 DEF RecvSetsMonitor, SignalCmd, Goto
<1>16. CASE \/ Call \/ Quit \/ SendLength \/ SendPayload \/ CheckPlay
            \/ Take \/ WokenToStop \/ MainSetsMonitor \/ Leave \/ Join
            \/ Remove \/ WakeSpuriously \/ Listen
            \/ ListenerLate \/ ServerExecutes \/ ServerSpeaks
            \/ ServerSends \/ ServerHangsUp
  <2>1. UNCHANGED <<cmdQueue, cmdSize, cmdOwner, freed, recvPc, tail, seen>>
    BY <1>16 DEF Call, Quit, SendLength, SendPayload, CheckPlay, Take,
       WokenToStop, MainSetsMonitor, Leave, Join, Remove, WakeSpuriously,
       Listen, ListenerLate, ServerExecutes, ServerSpeaks, ServerSends,
       ServerHangsUp, Return
  <2>2. QED
    BY <2>1
<1>17. CASE CountAnswer
  BY <1>17 DEF CountAnswer, Counted, Goto
<1>18. CASE ReceiveFails
  BY <1>18 DEF ReceiveFails, Goto
<1>19. CASE UNCHANGED vars
  BY <1>19 DEF vars
<1>20. QED
  BY <1>1, <1>2, <1>3, <1>4, <1>5, <1>6, <1>7, <1>8, <1>9, <1>10, <1>11, <1>12,
     <1>13, <1>14, <1>15, <1>16, <1>17, <1>18, <1>19 DEF Next, MainStep,
     RecvStep, ListenStep, ServerStep, vars

\* The command that the server executes is a later one.
LEMMA Executed ==
  ASSUME IInv, ServerExecutes
  PROVE  done' = inbox[2].num /\ done' \in (done + 1)..msg_idx
<1>1. Len(inbox) \in Nat /\ Len(inbox) > 1 /\ inbox[2].part = "payload"
  BY SentCommands DEF ServerExecutes, IInv
<1>2. done' = inbox[2].num
  BY DEF ServerExecutes
<1>3. 2 \in 1..Len(inbox) /\ inbox[2].num \in Nat
  BY <1>1, SentCommands DEF IInv
<1>4. done < inbox[2].num /\ inbox[2].num <= msg_idx
  BY <1>1, <1>3 DEF IInv, InboxInv, Pending
<1>5. done \in Nat /\ msg_idx \in Nat
  BY DEF IInv, TypeOK
<1>6. QED
  BY <1>2, <1>3, <1>4, <1>5

\* Answers are to commands that were executed.
LEMMA AnswerStep ==
  ASSUME IInv, [Next]_vars
  PROVE  AnswerInv'
<1> USE TypeSplit DEF IInv, CountTypes, AnswerInv, monitor, caller, cmdq, msgq,
   receiver, listener, server, net
<1>1. CASE Call
  BY <1>1 DEF Call
<1>2. CASE DequeueConditional
  <2>1. cmdQueue # <<>> =>
          Head(cmdQueue) \in 1..done /\ Tail(cmdQueue) \in Seq(1..done)
    BY Taken
  <2>2. \/ UNCHANGED <<cmdQueue, node>>
        \/ /\ cmdQueue # <<>> /\ cmdQueue' = Tail(cmdQueue)
           /\ node' = Head(cmdQueue)
    BY <1>2 DEF DequeueConditional
  <2>3. UNCHANGED <<done, msg_idx>>
    BY <1>2 DEF DequeueConditional, Return
  <2>4. cmdQueue' \in Seq(1..done)
    BY <2>1, <2>2
  <2>5. node' <= done
    BY <2>1, <2>2
  <2>6. QED
    BY <2>3, <2>4, <2>5
<1>3. CASE Take
  BY <1>3 DEF Take, Return
<1>4. CASE Alarm
  <2>1. cmdQueue # <<>> => Tail(cmdQueue) \in Seq(1..done)
    BY Taken
  <2>2. \/ UNCHANGED cmdQueue
        \/ cmdQueue # <<>> /\ cmdQueue' = Tail(cmdQueue)
    BY <1>4 DEF Alarm
  <2>3. node' = 0 /\ UNCHANGED <<done, msg_idx>>
    BY <1>4 DEF Alarm, Return
  <2>4. cmdQueue' \in Seq(1..done)
    BY <2>1, <2>2
  <2>5. QED
    BY <2>3, <2>4
<1>5. CASE LinkAnswer
  <2>1. msg.num \in 1..done
    BY <1>5 DEF LinkAnswer, SaidInv, Said
  <2>2. Append(cmdQueue, msg.num) \in Seq(1..done) /\ <<msg.num>> \in Seq(1..done)
    BY <2>1, Put
  <2>3. cmdQueue' \in {cmdQueue, <<msg.num>>, Append(cmdQueue, msg.num)}
    BY <1>5 DEF LinkAnswer
  <2>4. UNCHANGED <<done, msg_idx, node>>
    BY <1>5 DEF LinkAnswer
  <2>5. QED
    BY <2>2, <2>3, <2>4
<1>6. CASE ServerExecutes
  <2>1. done' \in (done + 1)..msg_idx
    BY <1>6, Executed
  <2>2. UNCHANGED <<msg_idx, node, cmdQueue>>
    BY <1>6 DEF ServerExecutes
  <2>3. cmdQueue \in Seq(1..done')
    BY <2>1, SeqMonotonic
  <2>4. QED
    BY <2>1, <2>2, <2>3
<1>7. CASE \/ Quit \/ SendLength \/ SendPayload \/ CheckPlay \/ WokenToStop
           \/ MainSetsMonitor \/ Leave \/ Join \/ Remove
           \/ WakeSpuriously \/ RecvHead \/ ReceiveLength \/ ReceivePayload
           \/ ReceiveFails \/ CountAnswer \/ HandleAnswer \/ HandleNotice
           \/ NoticeClosed \/ NoticeReconnected \/ FlushQueue \/ Reopen
           \/ Connect \/ ConnectFails \/ RecvSetsMonitor \/ Listen
           \/ ListenerLate \/ ServerSpeaks \/ ServerSends
           \/ ServerHangsUp
  <2>1. UNCHANGED <<done, msg_idx, node, cmdQueue>>
    BY <1>7 DEF Quit, SendLength, SendPayload, CheckPlay, WokenToStop,
       MainSetsMonitor, Leave, Join, Remove, WakeSpuriously, RecvHead,
       ReceiveLength, ReceiveFails, CountAnswer, ReceivePayload, HandleAnswer,
       HandleNotice, NoticeClosed, NoticeReconnected, FlushQueue, Reopen,
       Connect, ConnectFails, RecvSetsMonitor, Listen, ListenerLate,
       ServerSpeaks, ServerSends, ServerHangsUp, Return, Goto, Enqueue,
       Flushed, SignalCmd
  <2>2. QED
    BY <2>1
<1>8. CASE UNCHANGED vars
  BY <1>8 DEF vars
<1>9. QED
  BY <1>1, <1>2, <1>3, <1>4, <1>5, <1>6, <1>7, <1>8 DEF Next, MainStep,
     RecvStep, ListenStep, ServerStep, vars

\* What was said stays said.
LEMMA StillSaid ==
  ASSUME NEW d \in Nat, NEW d2 \in Nat, NEW e \in Nat, NEW e2 \in Nat,
         d <= d2, e <= e2
  PROVE  /\ \A m : Said(m, d, e) => Said(m, d2, e2)
         /\ \A s \in Seq(SaidParts(d, e)) : s \in Seq(SaidParts(d2, e2))
<1>1. \A m : Said(m, d, e) => Said(m, d2, e2)
  BY DEF Said
<1>2. SaidParts(d, e) \subseteq SaidParts(d2, e2)
  BY <1>1 DEF SaidParts
<1>3. QED
  BY <1>1, <1>2, SeqMonotonic

\* The parts of a message that may be said may be said.
LEMMA SaidTwoParts ==
  ASSUME NEW m \in Messages, NEW d, NEW e, Said(m, d, e)
  PROVE  /\ Parts(m) \in Seq(SaidParts(d, e))
         /\ Parts(m)[1] \in SaidParts(d, e) /\ Parts(m)[2] \in SaidParts(d, e)
<1>1. /\ Parts(m)[1] \in MessageParts /\ Parts(m)[1].msg = m
      /\ Parts(m)[2] \in MessageParts /\ Parts(m)[2].msg = m
  <2>1. \A i \in 1..2 : Parts(m)[i] \in MessageParts /\ Parts(m)[i].msg = m
    BY TwoParts
  <2>2. QED
    BY <2>1
<1>2. Parts(m)[1] \in SaidParts(d, e) /\ Parts(m)[2] \in SaidParts(d, e)
  BY <1>1 DEF SaidParts
<1>3. Parts(m) = <<Parts(m)[1], Parts(m)[2]>>
  BY DEF Parts
<1>4. <<Parts(m)[1], Parts(m)[2]>> \in Seq(SaidParts(d, e))
  BY <1>2, TwoElements
<1>5. QED
  BY <1>2, <1>3, <1>4

\* The messages on their way are those that the server may have said.
LEMMA SaidStep ==
  ASSUME IInv, [Next]_vars
  PROVE  SaidInv'
<1> USE TypeSplit DEF IInv, CountTypes, SaidInv, monitor, caller, cmdq, msgq,
   receiver, listener, server, net
<1>1. CASE RecvHead
  BY <1>1 DEF RecvHead, Goto
<1>2. CASE ReceiveLength
  <2>1. wire # <<>> => /\ Tail(wire) \in Seq(SaidParts(done, epoch))
                       /\ Head(wire) \in SaidParts(done, epoch)
    BY Taken
  <2>2. wire # <<>> => Said(Head(wire).msg, done, epoch)
    BY <2>1 DEF SaidParts
  <2>3. \/ UNCHANGED <<wire, msg>> /\ recvPc' \notin {"payload", "handle", "link"}
        \/ /\ wire # <<>> /\ wire' = Tail(wire) /\ msg' = Head(wire).msg
           /\ recvPc' = "payload"
        \/ wire # <<>> /\ wire' = Tail(wire) /\ recvPc' = "stop_play"
    BY <1>2 DEF ReceiveLength, Goto
  <2>4. UNCHANGED <<outbox, done, epoch>>
    BY <1>2 DEF ReceiveLength
  <2>5. QED
    BY <2>1, <2>2, <2>3, <2>4
<1>3. CASE ReceivePayload
  <2>1. wire # <<>> => Tail(wire) \in Seq(SaidParts(done, epoch))
    BY Taken
  <2>2. \/ wire' = wire /\ recvPc' \notin {"payload", "handle", "link"}
        \/ /\ wire # <<>> /\ wire' = Tail(wire)
           /\ recvPc' = "handle" /\ msg' = msg
        \/ wire # <<>> /\ wire' = Tail(wire) /\ recvPc' = "stop_play"
    BY <1>3 DEF ReceivePayload, Goto
  <2>3. recvPc = "payload" /\ UNCHANGED <<outbox, done, epoch>>
    BY <1>3 DEF ReceivePayload
  <2>4. QED
    BY <2>1, <2>2, <2>3
<1>4. CASE HandleAnswer
  BY <1>4 DEF HandleAnswer, Goto
<1>5. CASE LinkAnswer
  BY <1>5 DEF LinkAnswer, SignalCmd, Goto
<1>6. CASE HandleNotice
  BY <1>6 DEF HandleNotice, Enqueue, Goto
<1>7. CASE NoticeClosed
  BY <1>7 DEF NoticeClosed, Enqueue, Goto
<1>8. CASE NoticeReconnected
  BY <1>8 DEF NoticeReconnected, Enqueue, Goto
<1>9. CASE FlushQueue
  BY <1>9 DEF FlushQueue, Goto, Flushed
<1>10. CASE Reopen
  BY <1>10 DEF Reopen, Goto
<1>11. CASE Connect
  <2>1. TooMany(epoch') \in Messages /\ Said(TooMany(epoch'), done', epoch')
    BY <1>11, NewElements DEF Connect, TooMany, Said
  <2>2. Parts(TooMany(epoch')) \in Seq(SaidParts(done', epoch'))
    BY <2>1, SaidTwoParts
  <2>3. outbox' \in {<<>>, Parts(TooMany(epoch'))}
    BY <1>11 DEF Connect
  <2>4. wire' = <<>> /\ recvPc' = "connected"
    BY <1>11 DEF Connect, Goto
  <2>5. QED
    BY <2>2, <2>3, <2>4, EmptySeq
<1>12. CASE ConnectFails
  BY <1>12 DEF ConnectFails, Goto
<1>13. CASE RecvSetsMonitor
  BY <1>13 DEF RecvSetsMonitor, SignalCmd, Goto
<1>14. CASE ServerExecutes
  <2> DEFINE a == Parts(Answer(done'))  b == Parts(Broadcast(epoch))
             S == SaidParts(done', epoch)
  <2>1. done' \in (done + 1)..msg_idx
    BY <1>14, Executed
  <2>2. Answer(done') \in Messages /\ Broadcast(epoch) \in Messages
    BY <2>1, NewElements
  <2>3. Said(Answer(done'), done', epoch) /\ Said(Broadcast(epoch), done', epoch)
    BY <2>1 DEF Said, Answer, Broadcast, LinkInv
  <2>4. a \in Seq(S) /\ a[1] \in S /\ a[2] \in S /\ b[1] \in S /\ b[2] \in S
    BY <2>2, <2>3, SaidTwoParts
  <2>5. <<a[1], b[1], a[2], b[2]>> \in Seq(S)
    <3> HIDE DEF a, b, S
    <3> QED  BY <2>4, FourElements
  <2>6. outbox' \in {a, <<a[1], b[1], a[2], b[2]>>}
    BY <1>14 DEF ServerExecutes
  <2>7. UNCHANGED <<wire, msg, epoch, recvPc>>
    BY <1>14 DEF ServerExecutes
  <2>8. /\ \A m : Said(m, done, epoch) => Said(m, done', epoch)
        /\ wire \in Seq(S)
    <3>1. done' \in Nat /\ done <= done' /\ epoch \in Nat /\ epoch <= epoch
      BY <2>1
    <3>2. QED
      BY <3>1, StillSaid
  <2>9. QED
    <3> HIDE DEF a, b
    <3> QED  BY <2>4, <2>5, <2>6, <2>7, <2>8
<1>15. CASE ServerSpeaks
  <2>1. Broadcast(epoch) \in Messages /\ Said(Broadcast(epoch), done, epoch)
    BY NewElements DEF Said, Broadcast, LinkInv
  <2>2. outbox' = Parts(Broadcast(epoch))
    BY <1>15 DEF ServerSpeaks
  <2>3. outbox' \in Seq(SaidParts(done, epoch))
    BY <2>1, <2>2, SaidTwoParts
  <2>4. UNCHANGED <<wire, msg, epoch, recvPc, done>>
    BY <1>15 DEF ServerSpeaks
  <2>5. QED
    BY <2>3, <2>4
<1>16. CASE ServerSends
  <2>1. /\ Head(outbox) \in SaidParts(done, epoch)
        /\ Tail(outbox) \in Seq(SaidParts(done, epoch))
    BY <1>16, Taken DEF ServerSends
  <2>2. Append(wire, Head(outbox)) \in Seq(SaidParts(done, epoch))
    BY <2>1, Put
  <2>3. /\ wire' = Append(wire, Head(outbox)) /\ outbox' = Tail(outbox)
        /\ UNCHANGED <<msg, epoch, recvPc, done>>
    BY <1>16 DEF ServerSends
  <2>4. QED
    BY <2>1, <2>2, <2>3
<1>17. CASE ServerHangsUp
  BY <1>17 DEF ServerHangsUp
<1>18. CASE \/ Call \/ Quit \/ SendLength \/ SendPayload \/ CheckPlay
            \/ DequeueConditional \/ Take \/ WokenToStop \/ MainSetsMonitor
            \/ Leave \/ Join \/ Remove \/ WakeSpuriously \/ Alarm
            \/ Listen \/ ListenerLate
  <2>1. UNCHANGED <<wire, outbox, recvPc, msg, epoch, done>>
    BY <1>18 DEF Call, Quit, SendLength, SendPayload, CheckPlay,
       DequeueConditional, Take, WokenToStop, MainSetsMonitor, Leave, Join,
       Remove, WakeSpuriously, Alarm, Listen, ListenerLate, Return
  <2>2. QED
    BY <2>1
<1>19. CASE CountAnswer
  BY <1>19 DEF CountAnswer, SignalCmd, Goto
<1>20. CASE ReceiveFails
  BY <1>20 DEF ReceiveFails, Goto
<1>21. CASE UNCHANGED vars
  BY <1>21 DEF vars
<1>22. QED
  BY <1>1, <1>2, <1>3, <1>4, <1>5, <1>6, <1>7, <1>8, <1>9, <1>10, <1>11, <1>12,
     <1>13, <1>14, <1>15, <1>16, <1>17, <1>18, <1>19, <1>20, <1>21 DEF Next,
     MainStep, RecvStep, ListenStep, ServerStep, vars

\* The commands on their way after one more part is sent.
LEMMA PutCommand ==
  ASSUME NEW q \in Seq(CommandParts), NEW p \in CommandParts, NEW r, r = Append(q, p)
  PROVE  /\ Len(q) \in Nat /\ Len(r) = Len(q) + 1
         /\ \A i \in 1..Len(r) :
              \/ i \in 1..Len(q) /\ r[i] = q[i]
              \/ i = Len(q) + 1 /\ r[i] = p
<1>1. /\ Len(q) \in Nat /\ Len(r) = Len(q) + 1 /\ r[Len(q) + 1] = p
      /\ \A i \in 1..Len(q) : r[i] = q[i]
  BY Put
<1>2. \A i \in 1..Len(r) : i \in 1..Len(q) \/ i = Len(q) + 1
  BY <1>1
<1>3. QED
  BY <1>1, <1>2

LEMMA PendingPutLength ==
  ASSUME NEW q \in Seq(CommandParts), NEW p \in CommandParts,
         NEW lo \in Nat, NEW hi \in Nat, Pending(q, lo, hi), p.part = "length"
  PROVE  Pending(Append(q, p), lo, hi)
<1> DEFINE r == Append(q, p)
<1>1. /\ Len(q) \in Nat /\ Len(r) = Len(q) + 1
      /\ \A i \in 1..Len(r) :
              \/ i \in 1..Len(q) /\ r[i] = q[i]
              \/ i = Len(q) + 1 /\ r[i] = p
  BY PutCommand
<1> HIDE DEF r
<1>2. \A i \in 1..Len(r) :
        r[i].part = "payload" => i \in 1..Len(q) /\ r[i] = q[i]
  BY <1>1
<1>3. Pending(r, lo, hi)
  BY <1>2 DEF Pending
<1>4. QED
  BY <1>3 DEF r

LEMMA PendingPutPayload ==
  ASSUME NEW q \in Seq(CommandParts), NEW p \in CommandParts,
         NEW lo \in Nat, NEW hi \in Nat, NEW h \in Nat, Pending(q, lo, h),
         h < p.num, lo < p.num, p.num <= hi
  PROVE  Pending(Append(q, p), lo, hi)
<1> DEFINE r == Append(q, p)
<1>1. /\ Len(q) \in Nat /\ Len(r) = Len(q) + 1
      /\ \A i \in 1..Len(r) :
              \/ i \in 1..Len(q) /\ r[i] = q[i]
              \/ i = Len(q) + 1 /\ r[i] = p
  BY PutCommand
<1>2. /\ \A i \in 1..Len(q) : q[i].num \in Nat
      /\ p.num \in Nat
  <2>1. \A x \in CommandParts : x.num \in Nat
    BY DEF CommandParts
  <2>2. \A i \in 1..Len(q) : q[i] \in CommandParts
    OBVIOUS
  <2>3. QED
    BY <2>1, <2>2
<1> HIDE DEF r
<1>3. ASSUME NEW i \in 1..Len(r), r[i].part = "payload"
      PROVE  lo < r[i].num /\ r[i].num <= hi
  BY <1>1, <1>2, <1>3 DEF Pending
<1>4. ASSUME NEW i \in 1..Len(r), NEW j \in 1..Len(r), i < j,
             r[i].part = "payload", r[j].part = "payload"
      PROVE  r[i].num < r[j].num
  <2>1. i \in 1..Len(q) /\ r[i] = q[i]
    BY <1>1, <1>4
  <2>2. CASE j \in 1..Len(q) /\ r[j] = q[j]
    BY <1>4, <2>1, <2>2 DEF Pending
  <2>3. CASE r[j] = p
    <3>1. q[i].num <= h /\ q[i].num \in Nat
      BY <1>2, <1>4, <2>1 DEF Pending
    <3>2. QED
      BY <1>2, <2>1, <2>3, <3>1
  <2>4. QED
    BY <1>1, <2>2, <2>3
<1>5. Pending(r, lo, hi)
  BY <1>3, <1>4 DEF Pending
<1>6. QED
  BY <1>5 DEF r

LEMMA AlternatePut ==
  ASSUME NEW q \in Seq(CommandParts), NEW p \in CommandParts, Alternate(q),
         IF Len(q) % 2 = 0 THEN p.part = "length"
         ELSE p = [part |-> "payload", num |-> q[Len(q)].num]
  PROVE  Alternate(Append(q, p))
<1> DEFINE r == Append(q, p)
<1>1. /\ Len(q) \in Nat /\ Len(r) = Len(q) + 1
      /\ \A i \in 1..Len(r) :
              \/ i \in 1..Len(q) /\ r[i] = q[i]
              \/ i = Len(q) + 1 /\ r[i] = p
  BY PutCommand
<1> HIDE DEF r
<1>2. ASSUME NEW i \in 1..Len(r)
      PROVE  IF i % 2 = 1 THEN r[i].part = "length"
             ELSE r[i] = [part |-> "payload", num |-> r[i - 1].num]
  <2>1. i # 1 => i - 1 \in 1..Len(q) /\ i - 1 \in 1..Len(r) /\ i - 1 # Len(q) + 1
    BY <1>1
  <2>2. i # 1 => r[i - 1] = q[i - 1]
    BY <1>1, <2>1
  <2>3. i % 2 # 1 => i # 1
    OBVIOUS
  <2>4. CASE i \in 1..Len(q) /\ r[i] = q[i]
    <3>1. IF i % 2 = 1 THEN q[i].part = "length"
          ELSE q[i] = [part |-> "payload", num |-> q[i - 1].num]
      BY <2>4 DEF Alternate
    <3>2. QED
      BY <2>2, <2>3, <2>4, <3>1
  <2>5. CASE i = Len(q) + 1 /\ r[i] = p
    <3>1. CASE i % 2 = 1
      <4>1. Len(q) % 2 = 0
        BY <1>1, <2>5, <3>1
      <4>2. QED
        BY <2>5, <3>1, <4>1
    <3>2. CASE i % 2 # 1
      <4>1. Len(q) % 2 # 0 /\ i - 1 = Len(q)
        BY <1>1, <2>5, <3>2
      <4>2. QED
        BY <2>2, <2>3, <2>5, <3>2, <4>1
    <3>3. QED
      BY <3>1, <3>2
  <2>6. QED
    BY <1>1, <2>4, <2>5
<1>3. Alternate(r)
  BY <1>2 DEF Alternate
<1>4. QED
  BY <1>3 DEF r

LEMMA AlternateDrop ==
  ASSUME NEW q, NEW r, Len(q) \in Nat, Len(r) \in Nat, Alternate(q),
         \A i \in 1..Len(r) : i + 2 \in 1..Len(q) /\ r[i] = q[i + 2]
  PROVE  Alternate(r)
<1>1. SUFFICES ASSUME NEW i \in 1..Len(r)
      PROVE  IF i % 2 = 1 THEN r[i].part = "length"
             ELSE r[i] = [part |-> "payload", num |-> r[i - 1].num]
  BY DEF Alternate
<1>2. IF (i + 2) % 2 = 1 THEN q[i + 2].part = "length"
      ELSE q[i + 2] = [part |-> "payload", num |-> q[(i + 2) - 1].num]
  BY DEF Alternate
<1>3. (i + 2) % 2 = i % 2 /\ (i + 2) - 1 = (i - 1) + 2
  OBVIOUS
<1>4. i % 2 # 1 => i - 1 \in 1..Len(r)
  OBVIOUS
<1>5. QED
  BY <1>2, <1>3, <1>4

\* What is left of the commands after two parts of them are read.
LEMMA ReadTwo ==
  ASSUME IInv, ServerExecutes
  PROVE  /\ Len(inbox) \in Nat /\ Len(inbox) > 1 /\ Len(inbox') = Len(inbox) - 2
         /\ \A i \in 1..Len(inbox') :
              i + 2 \in 1..Len(inbox) /\ inbox'[i] = inbox[i + 2]
<1> DEFINE t == Tail(inbox)
<1>1. inbox \in Seq(CommandParts) /\ inbox # <<>> /\ Len(inbox) > 1
  BY SentCommands DEF IInv, ServerExecutes
<1>2. /\ t \in Seq(CommandParts) /\ Len(t) = Len(inbox) - 1 /\ Len(inbox) \in Nat
      /\ \A i \in 1..Len(t) : i + 1 \in 1..Len(inbox) /\ t[i] = inbox[i + 1]
  BY <1>1, Taken
<1>3. inbox' = Tail(t)
  BY DEF ServerExecutes
<1> HIDE DEF t
<1>4. t # <<>> /\ Len(t) \in Nat
  BY <1>1, <1>2
<1>5. /\ Len(Tail(t)) = Len(t) - 1
      /\ \A i \in 1..Len(Tail(t)) : i + 1 \in 1..Len(t) /\ Tail(t)[i] = t[i + 1]
  BY <1>2, <1>4, Taken
<1>6. \A i \in 1..Len(inbox') :
        i + 2 \in 1..Len(inbox) /\ inbox'[i] = inbox[i + 2]
  <2>1. SUFFICES ASSUME NEW i \in 1..Len(inbox')
                 PROVE  i + 2 \in 1..Len(inbox) /\ inbox'[i] = inbox[i + 2]
    OBVIOUS
  <2>2. i + 1 \in 1..Len(t) /\ inbox'[i] = t[i + 1]
    BY <1>3, <1>5
  <2>3. (i + 1) + 1 \in 1..Len(inbox) /\ t[i + 1] = inbox[(i + 1) + 1]
    BY <2>2, <1>2
  <2>4. (i + 1) + 1 = i + 2
    BY <1>3, <1>5, <1>4
  <2>5. QED
    BY <2>2, <2>3, <2>4
<1>7. QED
  BY <1>1, <1>2, <1>3, <1>5, <1>6

LEMMA PendingDrop ==
  ASSUME NEW q \in Seq(CommandParts), NEW r, NEW lo \in Nat, NEW hi \in Nat,
         Pending(q, lo, hi), Len(q) > 1, Len(r) = Len(q) - 2,
         \A i \in 1..Len(r) : i + 2 \in 1..Len(q) /\ r[i] = q[i + 2],
         q[2].part = "payload"
  PROVE  Pending(r, q[2].num, hi)
<1>1. Len(q) \in Nat /\ 2 \in 1..Len(q)
  OBVIOUS
<1>2. ASSUME NEW i \in 1..Len(r), r[i].part = "payload"
      PROVE  q[2].num < r[i].num /\ r[i].num <= hi
  <2>1. i + 2 \in 1..Len(q) /\ r[i] = q[i + 2] /\ 2 < i + 2
    BY <1>1
  <2>2. QED
    BY <1>1, <1>2, <2>1 DEF Pending
<1>3. ASSUME NEW i \in 1..Len(r), NEW j \in 1..Len(r), i < j,
             r[i].part = "payload", r[j].part = "payload"
      PROVE  r[i].num < r[j].num
  <2>1. /\ i + 2 \in 1..Len(q) /\ r[i] = q[i + 2]
        /\ j + 2 \in 1..Len(q) /\ r[j] = q[j + 2] /\ i + 2 < j + 2
    BY <1>1, <1>3
  <2>2. QED
    BY <1>3, <2>1 DEF Pending
<1>4. QED
  BY <1>2, <1>3 DEF Pending

\* Higher bounds, or fewer parts, bound as well.
LEMMA PendingWeaken ==
  ASSUME NEW q \in Seq(CommandParts), NEW lo \in Nat, NEW hi \in Int,
         NEW top \in Int, hi <= top, Pending(q, lo, hi)
  PROVE  Pending(q, lo, top)
<1>1. \A i \in 1..Len(q) : q[i].num \in Nat
  <2>1. \A x \in CommandParts : x.num \in Nat
    BY DEF CommandParts
  <2>2. \A i \in 1..Len(q) : q[i] \in CommandParts
    OBVIOUS
  <2>3. QED
    BY <2>1, <2>2
<1>2. \A i \in 1..Len(q) : q[i].part = "payload" => q[i].num <= top
  BY <1>1 DEF Pending
<1>3. QED
  BY <1>2 DEF Pending

LEMMA PendingNone ==
  ASSUME NEW lo, NEW hi
  PROVE  Pending(<<>>, lo, hi) /\ Alternate(<<>>) /\ Len(<<>>) = 0
  BY DEF Pending, Alternate

\* Commands are executed in their order.
LEMMA InboxStep ==
  ASSUME IInv, [Next]_vars
  PROVE  InboxInv'
<1> USE TypeSplit, SentCommands DEF IInv, CountTypes, InboxInv, monitor,
   caller, cmdq, msgq, receiver, listener, server, net
<1>1. CASE Call
  <2>1. /\ UNCHANGED <<inbox, done>> /\ msg_idx' = msg_idx + 1
        /\ msg_idx' - 1 = msg_idx
    BY <1>1 DEF Call
  <2>2. Pending(inbox, done, msg_idx + 1)
    BY PendingWeaken
  <2>3. done < msg_idx + 1
    BY DEF AnswerInv
  <2>4. QED
    BY <2>1, <2>2, <2>3
<1>2. CASE Quit
  BY <1>2 DEF Quit
<1>3. CASE SendLength
  <2> DEFINE p == [part |-> "length", num |-> msg_idx]
  <2>1. p \in CommandParts /\ p.part = "length" /\ p.num = msg_idx
    BY NewElements
  <2> HIDE DEF p
  <2>2. /\ Pending(Append(inbox, p), done, msg_idx)
        /\ msg_idx - 1 \in Nat /\ Pending(inbox, done, msg_idx - 1)
        /\ mainPc = "send_length" /\ done < msg_idx
    BY <1>3, <2>1, PendingPutLength DEF SendLength
  <2>3. Pending(Append(inbox, p), done, msg_idx - 1)
    BY <2>1, <2>2, PendingPutLength
  <2>4. \/ inbox' = Append(inbox, p)
        \/ inbox' = inbox /\ mainPc' = "idle"
    BY <1>3 DEF SendLength, Return, p
  <2>5. UNCHANGED <<done, msg_idx>>
    BY <1>3 DEF SendLength
  <2>6. CASE inbox' = Append(inbox, p)
    BY <2>2, <2>3, <2>5, <2>6
  <2>7. CASE inbox' = inbox /\ mainPc' = "idle"
    BY <2>5, <2>7
  <2>8. QED
    BY <2>4, <2>6, <2>7
<1>4. CASE SendPayload
  <2> DEFINE p == [part |-> "payload", num |-> msg_idx]
  <2>1. p \in CommandParts /\ p.part = "payload" /\ p.num = msg_idx
    BY NewElements
  <2> HIDE DEF p
  <2>2. /\ msg_idx - 1 \in Nat /\ Pending(inbox, done, msg_idx - 1)
        /\ mainPc = "send_payload" /\ done < msg_idx
    BY <1>4 DEF SendPayload
  <2>3. msg_idx - 1 < p.num /\ done < p.num /\ p.num <= msg_idx
    BY <2>1, <2>2
  <2>4. Pending(Append(inbox, p), done, msg_idx)
    BY <2>1, <2>2, <2>3, PendingPutPayload
  <2>5. inbox' \in {inbox, Append(inbox, p)} /\ mainPc' \in {"check", "idle"}
    BY <1>4 DEF SendPayload, Return, p
  <2>6. UNCHANGED <<done, msg_idx>>
    BY <1>4 DEF SendPayload
  <2>7. QED
    BY <2>4, <2>5, <2>6
<1>5. CASE CheckPlay
  BY <1>5 DEF CheckPlay, Return
<1>6. CASE DequeueConditional
  BY <1>6 DEF DequeueConditional, Return
<1>7. CASE Take
  BY <1>7 DEF Take, Return
<1>8. CASE WokenToStop
  BY <1>8 DEF WokenToStop, Return
<1>9. CASE MainSetsMonitor
  BY <1>9 DEF MainSetsMonitor
<1>10. CASE Leave
  BY <1>10 DEF Leave
<1>11. CASE Join
  BY <1>11 DEF Join
<1>12. CASE Remove
  BY <1>12 DEF Remove
<1>13. CASE WakeSpuriously
  BY <1>13 DEF WakeSpuriously
<1>14. CASE Alarm
  BY <1>14 DEF Alarm, Return
<1>15. CASE LinkAnswer
  BY <1>15 DEF LinkAnswer, SignalCmd, Goto
<1>16. CASE Connect
  <2>1. inbox' = <<>> /\ UNCHANGED <<done, msg_idx, mainPc>>
    BY <1>16 DEF Connect
  <2>2. QED
    BY <2>1, PendingNone
<1>17. CASE RecvSetsMonitor
  BY <1>17 DEF RecvSetsMonitor, SignalCmd, Goto
<1>18. CASE ServerExecutes
  <2>1. done' = inbox[2].num /\ done' \in (done + 1)..msg_idx
    BY <1>18, Executed
  <2>2. /\ Len(inbox) > 1 /\ Len(inbox') = Len(inbox) - 2
        /\ \A i \in 1..Len(inbox') :
             i + 2 \in 1..Len(inbox) /\ inbox'[i] = inbox[i + 2]
    BY <1>18, ReadTwo
  <2>3. inbox[2].part = "payload" /\ UNCHANGED <<msg_idx, mainPc>>
    BY <1>18 DEF ServerExecutes
  <2>4. Pending(inbox', done', msg_idx)
    BY <2>1, <2>2, <2>3, PendingDrop
  <2>5. ASSUME mainPc \in {"send_length", "send_payload"}
        PROVE  done' < msg_idx /\ Pending(inbox', done', msg_idx - 1)
    <3>1. msg_idx - 1 \in Nat /\ Pending(inbox, done, msg_idx - 1)
      BY <2>5
    <3>2. inbox[2].num <= msg_idx - 1
      BY <2>2, <2>3, <3>1 DEF Pending
    <3>3. Pending(inbox', done', msg_idx - 1)
      BY <2>1, <2>2, <2>3, <3>1, PendingDrop
    <3>4. QED
      BY <2>1, <3>2, <3>3
  <2>6. QED
    BY <2>3, <2>4, <2>5
<1>19. CASE ServerHangsUp
  <2>1. inbox' = <<>> /\ UNCHANGED <<done, msg_idx, mainPc>>
    BY <1>19 DEF ServerHangsUp
  <2>2. QED
    BY <2>1, PendingNone
<1>20. CASE \/ RecvHead \/ ReceiveLength \/ ReceivePayload \/ HandleAnswer
            \/ HandleNotice \/ NoticeClosed \/ NoticeReconnected
            \/ FlushQueue \/ Reopen \/ ConnectFails \/ Listen
            \/ ListenerLate \/ ServerSpeaks \/ ServerSends
  <2>1. UNCHANGED <<inbox, done, msg_idx, mainPc>>
    BY <1>20 DEF RecvHead, ReceiveLength, ReceivePayload, HandleAnswer,
       HandleNotice, NoticeClosed, NoticeReconnected, FlushQueue, Reopen,
       ConnectFails, Listen, ListenerLate, ServerSpeaks, ServerSends, Goto,
       Enqueue, Flushed
  <2>2. QED
    BY <2>1
<1>21. CASE CountAnswer
  BY <1>21 DEF CountAnswer, SignalCmd, Goto
<1>22. CASE ReceiveFails
  BY <1>22 DEF ReceiveFails, Goto
<1>23. CASE UNCHANGED vars
  BY <1>23 DEF vars
<1>24. QED
  BY <1>1, <1>2, <1>3, <1>4, <1>5, <1>6, <1>7, <1>8, <1>9, <1>10, <1>11, <1>12,
     <1>13, <1>14, <1>15, <1>16, <1>17, <1>18, <1>19, <1>20, <1>21, <1>22,
     <1>23 DEF Next, MainStep, RecvStep, ListenStep, ServerStep, vars

\* Where the connection is while a new one is opened.
LEMMA LinkStep ==
  ASSUME IInv, [Next]_vars
  PROVE  LinkInv'
<1> USE TypeSplit DEF IInv, CountTypes, PlaceTypes, LinkInv, monitor, caller,
   cmdq, msgq, receiver, listener, server, net
<1>1. CASE SendLength
  BY <1>1 DEF SendLength, Return
<1>2. CASE SendPayload
  BY <1>2 DEF SendPayload, Return
<1>3. CASE RecvHead
  BY <1>3 DEF RecvHead, Goto
<1>4. CASE ReceiveLength
  BY <1>4 DEF ReceiveLength, Goto
<1>5. CASE ReceivePayload
  BY <1>5 DEF ReceivePayload, Goto
<1>6. CASE HandleAnswer
  BY <1>6 DEF HandleAnswer, Goto
<1>7. CASE LinkAnswer
  BY <1>7 DEF LinkAnswer, SignalCmd, Goto
<1>8. CASE HandleNotice
  BY <1>8 DEF HandleNotice, Enqueue, Goto, SaidInv, Said
<1>9. CASE NoticeClosed
  BY <1>9 DEF NoticeClosed, Enqueue, Goto
<1>10. CASE NoticeReconnected
  BY <1>10 DEF NoticeReconnected, Enqueue, Goto, Reconnected
<1>11. CASE FlushQueue
  BY <1>11 DEF FlushQueue, Goto, Flushed
<1>12. CASE Reopen
  BY <1>12 DEF Reopen, Goto
<1>13. CASE Connect
  BY <1>13 DEF Connect, Goto
<1>14. CASE ConnectFails
  BY <1>14 DEF ConnectFails, Goto
<1>15. CASE RecvSetsMonitor
  BY <1>15 DEF RecvSetsMonitor, SignalCmd, Goto
<1>16. CASE ServerExecutes
  BY <1>16 DEF ServerExecutes
<1>17. CASE ServerSpeaks
  BY <1>17 DEF ServerSpeaks
<1>18. CASE ServerSends
  BY <1>18 DEF ServerSends
<1>19. CASE ServerHangsUp
  BY <1>19 DEF ServerHangsUp
<1>20. CASE \/ Call \/ Quit \/ CheckPlay \/ DequeueConditional \/ Take
            \/ WokenToStop \/ MainSetsMonitor \/ Leave \/ Join
            \/ Remove \/ WakeSpuriously \/ Alarm \/ Listen
            \/ ListenerLate
  <2>1. UNCHANGED <<epoch, started, link, inbox, outbox, wire, recvPc>>
    BY <1>20 DEF Call, Quit, CheckPlay, DequeueConditional, Take, WokenToStop,
       MainSetsMonitor, Leave, Join, Remove, WakeSpuriously, Alarm, Listen,
       ListenerLate, Return
  <2>2. QED
    BY <2>1
<1>21. CASE CountAnswer
  BY <1>21 DEF CountAnswer, SignalCmd, Goto
<1>22. CASE ReceiveFails
  BY <1>22 DEF ReceiveFails, Goto
<1>23. CASE UNCHANGED vars
  BY <1>23 DEF vars
<1>24. QED
  BY <1>1, <1>2, <1>3, <1>4, <1>5, <1>6, <1>7, <1>8, <1>9, <1>10, <1>11, <1>12,
     <1>13, <1>14, <1>15, <1>16, <1>17, <1>18, <1>19, <1>20, <1>21, <1>22,
     <1>23 DEF Next, MainStep, RecvStep, ListenStep, ServerStep, vars

\* The parts of commands alternate.
LEMMA StepStep ==
  ASSUME IInv, [Next]_vars
  PROVE  StepInv'
<1> USE TypeSplit, SentCommands DEF IInv, CountTypes, LinkInv, StepInv,
   HalfSent, monitor, caller, cmdq, msgq, receiver, listener, server, net
<1>1. CASE Call
  BY <1>1 DEF Call
<1>2. CASE Quit
  BY <1>2 DEF Quit
<1>3. CASE SendLength
  <2> DEFINE p == [part |-> "length", num |-> msg_idx]
  <2>1. p \in CommandParts /\ p.part = "length" /\ p.num = msg_idx
    BY NewElements
  <2> HIDE DEF p
  <2>2. /\ Len(Append(inbox, p)) = Len(inbox) + 1
        /\ Append(inbox, p)[Len(inbox) + 1] = p /\ Len(inbox) \in Nat
    BY <2>1, Put
  <2>3. mainPc = "send_length" /\ UNCHANGED <<cut, link, epoch, msg_idx>>
    BY <1>3 DEF SendLength
  <2>4. CASE ~cut /\ link = "up" /\ inbox' = Append(inbox, p)
    <3>1. Len(inbox) % 2 = 0
      BY <2>3, <2>4
    <3>2. Alternate(inbox')
      BY <2>1, <2>4, <3>1, AlternatePut
    <3>3. Len(inbox') % 2 = 1 /\ inbox'[Len(inbox')] = p
      <4>1. \A n \in Nat : n % 2 = 0 => (n + 1) % 2 = 1
        OBVIOUS
      <4>2. Len(inbox') = Len(inbox) + 1 /\ inbox'[Len(inbox) + 1] = p
        BY <2>2, <2>4
      <4>3. QED
        BY <2>2, <3>1, <4>1, <4>2
    <3>4. inbox' # inbox
      BY <2>2, <2>4
    <3>5. mainPc' = "send_payload" /\ started' = epoch
      BY <1>3, <3>4 DEF SendLength
    <3>6. QED
      BY <2>1, <2>3, <3>2, <3>3, <3>5
  <2>5. CASE ~cut /\ inbox' = inbox /\ mainPc' = "idle"
    BY <2>3, <2>5
  <2>6. ~cut => \/ link = "up" /\ inbox' = Append(inbox, p)
                \/ inbox' = inbox /\ mainPc' = "idle"
    BY <1>3 DEF SendLength, Return, p
  <2>7. QED
    BY <2>3, <2>4, <2>5, <2>6
<1>4. CASE SendPayload
  <2> DEFINE p == [part |-> "payload", num |-> msg_idx]
  <2>1. p \in CommandParts /\ p.part = "payload" /\ p.num = msg_idx
    BY NewElements
  <2> HIDE DEF p
  <2>2. /\ Len(Append(inbox, p)) = Len(inbox) + 1
        /\ Append(inbox, p)[Len(inbox) + 1] = p /\ Len(inbox) \in Nat
    BY <2>1, Put
  <2>3. /\ mainPc = "send_payload" /\ mainPc' \in {"check", "idle"}
        /\ UNCHANGED <<link, epoch, msg_idx>>
    BY <1>4 DEF SendPayload, Return
  <2>4. CASE ~cut' /\ link = "up" /\ inbox' = Append(inbox, p)
    <3>1. ~cut /\ started = epoch
      <4>1. inbox' # inbox
        BY <2>2, <2>4
      <4>2. cut' = (cut \/ started # epoch)
        BY <1>4, <4>1 DEF SendPayload
      <4>3. QED
        BY <2>4, <4>2 DEF FlagTypes
    <3>2. Len(inbox) % 2 = 1 /\ inbox[Len(inbox)].num = msg_idx
      BY <2>3, <2>4, <3>1
    <3>3. p = [part |-> "payload", num |-> inbox[Len(inbox)].num]
      BY <3>2 DEF p
    <3>4. Alternate(inbox')
      BY <2>1, <2>4, <3>1, <3>2, <3>3, AlternatePut
    <3>5. Len(inbox') % 2 = 0
      <4>1. \A n \in Nat : n % 2 = 1 => (n + 1) % 2 = 0
        OBVIOUS
      <4>2. Len(inbox') = Len(inbox) + 1
        BY <2>2, <2>4
      <4>3. QED
        BY <2>2, <3>2, <4>1, <4>2
    <3>6. QED
      BY <2>3, <3>4, <3>5
  <2>5. CASE ~cut' /\ inbox' = inbox /\ mainPc' = "idle"
    <3>1. ~cut /\ (started # epoch \/ link # "up")
      <4>1. inbox' # Append(inbox, p)
        BY <2>2, <2>5
      <4>2. cut' = (cut \/ (started = epoch /\ link = "up"))
        BY <1>4, <4>1 DEF SendPayload, p
      <4>3. QED
        BY <2>5, <4>2 DEF FlagTypes
    <3>2. QED
      BY <2>3, <2>5, <3>1
  <2>6. \/ link = "up" /\ inbox' = Append(inbox, p)
        \/ inbox' = inbox /\ mainPc' = "idle"
    BY <1>4 DEF SendPayload, Return, p
  <2>7. QED
    BY <2>4, <2>5, <2>6
<1>5. CASE CheckPlay
  BY <1>5 DEF CheckPlay, Return
<1>6. CASE DequeueConditional
  BY <1>6 DEF DequeueConditional, Return
<1>7. CASE Take
  BY <1>7 DEF Take, Return
<1>8. CASE WokenToStop
  BY <1>8 DEF WokenToStop, Return
<1>9. CASE MainSetsMonitor
  BY <1>9 DEF MainSetsMonitor
<1>10. CASE Leave
  BY <1>10 DEF Leave
<1>11. CASE Join
  BY <1>11 DEF Join
<1>12. CASE Remove
  BY <1>12 DEF Remove
<1>13. CASE WakeSpuriously
  BY <1>13 DEF WakeSpuriously
<1>14. CASE Alarm
  BY <1>14 DEF Alarm, Return, ArmedPcs
<1>15. CASE LinkAnswer
  BY <1>15 DEF LinkAnswer, SignalCmd, Goto
<1>16. CASE Reopen
  <2>1. inbox = <<>> /\ inbox' = <<>> /\ link' # "up"
    BY <1>16 DEF Reopen, Goto
  <2>2. QED
    BY <2>1, PendingNone
<1>17. CASE Connect
  <2>1. /\ inbox' = <<>> /\ epoch' = epoch + 1 /\ UNCHANGED started
        /\ Len(<<>>) % 2 = 0
    BY <1>17 DEF Connect
  <2>2. QED
    BY <2>1, PendingNone
<1>18. CASE RecvSetsMonitor
  BY <1>18 DEF RecvSetsMonitor, SignalCmd, Goto
<1>19. CASE ServerExecutes
  <2>1. /\ Len(inbox) > 1 /\ Len(inbox') = Len(inbox) - 2 /\ Len(inbox) \in Nat
        /\ \A i \in 1..Len(inbox') :
             i + 2 \in 1..Len(inbox) /\ inbox'[i] = inbox[i + 2]
    BY <1>19, ReadTwo
  <2>2. link = "up" /\ UNCHANGED <<cut, link, mainPc, started, epoch, msg_idx>>
    BY <1>19 DEF ServerExecutes
  <2>3. Len(inbox') \in Nat
    BY <2>1
  <2>4. ~cut => Alternate(inbox')
    BY <2>1, <2>2, <2>3, AlternateDrop
  <2>5. /\ Len(inbox') % 2 = Len(inbox) % 2
        /\ Len(inbox) % 2 = 1 => inbox'[Len(inbox')] = inbox[Len(inbox)]
    <3>1. Len(inbox') % 2 = Len(inbox) % 2
      BY <2>1
    <3>2. ASSUME Len(inbox) % 2 = 1
          PROVE  inbox'[Len(inbox')] = inbox[Len(inbox)]
      <4>1. Len(inbox') \in 1..Len(inbox') /\ Len(inbox') + 2 = Len(inbox)
        BY <2>1, <3>2
      <4>2. QED
        BY <2>1, <4>1
    <3>3. QED
      BY <3>1, <3>2
  <2>6. QED
    BY <2>2, <2>4, <2>5
<1>20. CASE ServerHangsUp
  <2>1. inbox' = <<>> /\ link' = "hungup"
    BY <1>20 DEF ServerHangsUp
  <2>2. QED
    BY <2>1, PendingNone
<1>21. CASE \/ RecvHead \/ ReceiveLength \/ ReceivePayload \/ HandleAnswer
            \/ HandleNotice \/ NoticeClosed \/ NoticeReconnected
            \/ FlushQueue \/ ConnectFails \/ Listen
            \/ ListenerLate \/ ServerSpeaks \/ ServerSends
  <2>1. UNCHANGED <<cut, inbox, link, mainPc, started, epoch, msg_idx>>
    BY <1>21 DEF RecvHead, ReceiveLength, ReceivePayload, HandleAnswer,
       HandleNotice, NoticeClosed, NoticeReconnected, FlushQueue, ConnectFails,
       Listen, ListenerLate, ServerSpeaks, ServerSends, Goto, Enqueue, Flushed
  <2>2. QED
    BY <2>1
<1>22. CASE CountAnswer
  BY <1>22 DEF CountAnswer, SignalCmd, Goto
<1>23. CASE ReceiveFails
  BY <1>23 DEF ReceiveFails, Goto
<1>24. CASE UNCHANGED vars
  BY <1>24 DEF vars
<1>25. QED
  BY <1>1, <1>2, <1>3, <1>4, <1>5, <1>6, <1>7, <1>8, <1>9, <1>10, <1>11, <1>12,
     <1>13, <1>14, <1>15, <1>16, <1>17, <1>18, <1>19, <1>20, <1>21, <1>22,
     <1>23, <1>24 DEF Next, MainStep, RecvStep, ListenStep, ServerStep, vars

-----------------------------------------------------------------------------
(* The messages that are on their way.                                     *)

\* Two more parts, those of one message.
LEMMA OrderedPut ==
  ASSUME NEW s \in Seq(MessageParts), NEW m \in Messages,
         Ordered(s), Len(s) % 2 = 0
  PROVE  Ordered(s \o Parts(m)) /\ Len(s \o Parts(m)) % 2 = 0
<1> DEFINE r == s \o Parts(m)
<1>1. /\ Parts(m) \in Seq(MessageParts) /\ Len(Parts(m)) = 2 /\ Len(s) \in Nat
      /\ Parts(m)[1] = LengthOf(m)
      /\ Parts(m)[2] = [part |-> "payload", msg |-> m]
  BY TwoParts DEF LengthOf
<1>2. /\ Len(r) = Len(s) + 2
      /\ \A i \in 1..(Len(s) + 2) :
           r[i] = IF i <= Len(s) THEN s[i] ELSE Parts(m)[i - Len(s)]
  <2>1. /\ Len(r) = Len(s) + Len(Parts(m))
        /\ \A i \in 1..Len(s) + Len(Parts(m)) :
             r[i] = IF i <= Len(s) THEN s[i] ELSE Parts(m)[i - Len(s)]
    BY <1>1, ConcatProperties
  <2> HIDE DEF r
  <2>2. QED
    BY <1>1, <2>1
<1> HIDE DEF r
<1>3. ASSUME NEW i \in 1..Len(r)
      PROVE  IF i % 2 = 1 THEN r[i].part = "length"
             ELSE r[i] = [part |-> "payload", msg |-> r[i - 1].msg]
  <2>1. CASE i <= Len(s)
    <3>1. /\ i \in 1..Len(s) /\ r[i] = s[i]
          /\ i # 1 => i - 1 \in 1..(Len(s) + 2) /\ i - 1 <= Len(s)
      BY <1>1, <1>2, <2>1
    <3>2. i # 1 => r[i - 1] = s[i - 1]
      BY <1>2, <3>1
    <3>3. i % 2 # 1 => i # 1
      OBVIOUS
    <3>4. IF i % 2 = 1 THEN s[i].part = "length"
          ELSE s[i] = [part |-> "payload", msg |-> s[i - 1].msg]
      BY <3>1 DEF Ordered
    <3>5. QED
      BY <3>1, <3>2, <3>3, <3>4
  <2>2. CASE i = Len(s) + 1
    <3>1. r[i] = LengthOf(m) /\ i % 2 = 1
      BY <1>1, <1>2, <2>2
    <3>2. QED
      BY <3>1 DEF LengthOf
  <2>3. CASE i = Len(s) + 2
    <3>1. i - 1 = Len(s) + 1 /\ i - 1 \in 1..(Len(s) + 2) /\ i % 2 = 0
      BY <1>1, <2>3
    <3>2. /\ i \in 1..(Len(s) + 2) /\ ~(i <= Len(s)) /\ ~(i - 1 <= Len(s))
          /\ i - Len(s) = 2 /\ (i - 1) - Len(s) = 1
      BY <1>1, <1>2, <2>3
    <3>3. r[i - 1] = Parts(m)[1] /\ r[i] = Parts(m)[2]
      BY <1>2, <3>1, <3>2
    <3>4. r[i - 1] = LengthOf(m) /\ r[i] = [part |-> "payload", msg |-> m]
      BY <1>1, <3>3
    <3>5. QED
      BY <3>1, <3>4 DEF LengthOf
  <2>4. QED
    BY <1>1, <1>2, <2>1, <2>2, <2>3
<1>4. Len(r) % 2 = 0
  BY <1>1, <1>2
<1>5. QED
  BY <1>3, <1>4 DEF Ordered, r

\* A part of what was in order is in order.
LEMMA OrderedPrefix ==
  ASSUME NEW s \in Seq(MessageParts), NEW t \in Seq(MessageParts), Ordered(s \o t)
  PROVE  Ordered(s)
<1> DEFINE r == s \o t
<1>1. /\ Len(r) = Len(s) + Len(t) /\ Len(s) \in Nat /\ Len(t) \in Nat
      /\ \A i \in 1..(Len(s) + Len(t)) :
           r[i] = IF i <= Len(s) THEN s[i] ELSE t[i - Len(s)]
  BY ConcatProperties
<1> HIDE DEF r
<1>2. \A i \in 1..Len(s) : i \in 1..Len(r) /\ r[i] = s[i]
  BY <1>1
<1>3. ASSUME NEW i \in 1..Len(s)
      PROVE  IF i % 2 = 1 THEN s[i].part = "length"
             ELSE s[i] = [part |-> "payload", msg |-> s[i - 1].msg]
  <2>1. IF i % 2 = 1 THEN r[i].part = "length"
        ELSE r[i] = [part |-> "payload", msg |-> r[i - 1].msg]
    BY <1>2 DEF Ordered, r
  <2>2. i % 2 # 1 => i - 1 \in 1..Len(s)
    BY <1>1
  <2>3. QED
    BY <1>2, <2>1, <2>2
<1>4. QED
  BY <1>3 DEF Ordered

\* The first part of what is in order, and what follows the first two.
LEMMA OrderedFirst ==
  ASSUME NEW a \in MessageParts, NEW t \in Seq(MessageParts), Ordered(<<a>> \o t)
  PROVE  a.part = "length"
<1>1. (<<a>> \o t)[1] = a /\ 1 \in 1..Len(<<a>> \o t)
  <2>1. <<a>> \in Seq(MessageParts) /\ Len(<<a>>) = 1 /\ Len(t) \in Nat
    OBVIOUS
  <2>2. /\ Len(<<a>> \o t) = 1 + Len(t) /\ 1 \in 1..(1 + Len(t))
        /\ (<<a>> \o t)[1] = <<a>>[1]
    BY <2>1, ConcatProperties
  <2>3. QED
    BY <2>1, <2>2
<1> DEFINE r == <<a>> \o t
<1>2. r[1] = a /\ 1 \in 1..Len(r) /\ Ordered(r)
  BY <1>1
<1> HIDE DEF r
<1>3. 1 % 2 = 1
  OBVIOUS
<1>4. QED
  BY <1>2, <1>3 DEF Ordered

LEMMA OrderedTwo ==
  ASSUME NEW a \in MessageParts, NEW b \in MessageParts,
         NEW t \in Seq(MessageParts), Ordered(<<a>> \o (<<b>> \o t))
  PROVE  /\ b = [part |-> "payload", msg |-> a.msg]
         /\ Ordered(t)
         /\ Len(<<a>> \o (<<b>> \o t)) % 2 = Len(t) % 2
<1> DEFINE u == <<b>> \o t  r == <<a>> \o u
<1>1. /\ <<a>> \in Seq(MessageParts) /\ Len(<<a>>) = 1 /\ <<a>>[1] = a
      /\ <<b>> \in Seq(MessageParts) /\ Len(<<b>>) = 1 /\ <<b>>[1] = b
      /\ Len(t) \in Nat
  OBVIOUS
<1>2. /\ u \in Seq(MessageParts) /\ Len(u) = 1 + Len(t)
      /\ \A i \in 1..(1 + Len(t)) : u[i] = IF i <= 1 THEN <<b>>[i] ELSE t[i - 1]
  BY <1>1, ConcatProperties
<1> HIDE DEF u
<1>3. /\ Len(r) = 1 + Len(u)
      /\ \A i \in 1..(1 + Len(u)) : r[i] = IF i <= 1 THEN <<a>>[i] ELSE u[i - 1]
  BY <1>1, <1>2, ConcatProperties
<1>4. Ordered(r)
  BY DEF u
<1> HIDE DEF r
<1>5. Len(r) = Len(t) + 2 /\ r[1] = a /\ r[2] = b
  BY <1>1, <1>2, <1>3
<1>6. \A i \in 1..Len(t) : i + 2 \in 1..Len(r) /\ r[i + 2] = t[i]
  <2>1. SUFFICES ASSUME NEW i \in 1..Len(t)
                 PROVE  i + 2 \in 1..Len(r) /\ r[i + 2] = t[i]
    OBVIOUS
  <2>2. i + 2 \in 1..(1 + Len(u)) /\ (i + 2) - 1 = i + 1
    BY <1>1, <1>2
  <2>3. r[i + 2] = u[i + 1]
    BY <1>3, <2>2
  <2>4. i + 1 \in 1..(1 + Len(t)) /\ (i + 1) - 1 = i
    BY <1>1
  <2>5. u[i + 1] = t[i]
    BY <1>2, <2>4
  <2>6. QED
    BY <1>3, <2>2, <2>3, <2>5
<1>7. b = [part |-> "payload", msg |-> a.msg]
  <2>1. 2 \in 1..Len(r) /\ 2 % 2 # 1 /\ 2 - 1 = 1
    BY <1>1, <1>5
  <2>2. r[2] = [part |-> "payload", msg |-> r[2 - 1].msg]
    BY <1>4, <2>1 DEF Ordered
  <2>3. QED
    BY <1>5, <2>1, <2>2
<1>8. ASSUME NEW i \in 1..Len(t)
      PROVE  IF i % 2 = 1 THEN t[i].part = "length"
             ELSE t[i] = [part |-> "payload", msg |-> t[i - 1].msg]
  <2>1. IF (i + 2) % 2 = 1 THEN r[i + 2].part = "length"
        ELSE r[i + 2] = [part |-> "payload", msg |-> r[(i + 2) - 1].msg]
    BY <1>4, <1>6 DEF Ordered
  <2>2. (i + 2) % 2 = i % 2 /\ (i + 2) - 1 = (i - 1) + 2
    OBVIOUS
  <2>3. i % 2 # 1 => i - 1 \in 1..Len(t)
    BY <1>1
  <2>4. QED
    BY <1>6, <2>1, <2>2, <2>3
<1>9. Len(r) % 2 = Len(t) % 2
  BY <1>1, <1>5
<1>10. QED
  BY <1>7, <1>8, <1>9 DEF Ordered, r, u

\* A part that moves from the one sequence to the other, or out of the first.
LEMMA Split ==
  ASSUME NEW o \in Seq(MessageParts), o # <<>>
  PROVE  <<Head(o)>> \o Tail(o) = o
<1> DEFINE h == <<Head(o)>>  r == h \o Tail(o)
<1>1. /\ Head(o) \in MessageParts /\ Head(o) = o[1]
      /\ Tail(o) \in Seq(MessageParts) /\ Len(Tail(o)) = Len(o) - 1
      /\ \A i \in 1..Len(Tail(o)) : Tail(o)[i] = o[i + 1]
      /\ Len(o) \in Nat /\ Len(o) > 0
  BY Taken
<1>2. h \in Seq(MessageParts) /\ Len(h) = 1 /\ h[1] = Head(o)
  BY <1>1
<1> HIDE DEF h
<1>3. /\ r \in Seq(MessageParts) /\ Len(r) = 1 + (Len(o) - 1)
      /\ \A i \in 1..(1 + (Len(o) - 1)) : r[i] = IF i <= 1 THEN h[i] ELSE Tail(o)[i - 1]
  <2> DEFINE t == Tail(o)
  <2>1. /\ r \in Seq(MessageParts) /\ Len(r) = Len(h) + Len(t)
        /\ \A i \in 1..Len(h) + Len(t) :
             r[i] = IF i <= Len(h) THEN h[i] ELSE t[i - Len(h)]
    <3>1. t \in Seq(MessageParts) /\ h \in Seq(MessageParts)
      BY <1>1, <1>2
    <3>2. r = h \o t
      OBVIOUS
    <3> HIDE DEF r, t
    <3>3. /\ h \o t \in Seq(MessageParts) /\ Len(h \o t) = Len(h) + Len(t)
          /\ \A i \in 1..Len(h) + Len(t) :
               (h \o t)[i] = IF i <= Len(h) THEN h[i] ELSE t[i - Len(h)]
      BY <3>1, ConcatProperties
    <3>4. QED
      BY <3>2, <3>3
  <2> HIDE DEF r
  <2>2. QED
    BY <1>1, <1>2, <2>1
<1> HIDE DEF r
<1>4. ASSUME NEW i \in 1..Len(r)
      PROVE  r[i] = o[i]
  <2>1. CASE i = 1
    BY <1>1, <1>2, <1>3, <2>1
  <2>2. CASE i # 1
    <3>1. i - 1 \in 1..Len(Tail(o)) /\ (i - 1) + 1 = i /\ ~(i <= 1)
      BY <1>1, <1>3, <2>2
    <3>2. QED
      BY <1>1, <1>3, <3>1
  <2>3. QED
    BY <2>1, <2>2
<1>5. Len(r) = Len(o)
  BY <1>1, <1>3
<1>6. r = o
  BY <1>3, <1>4, <1>5, SeqEqual
<1>7. QED
  BY <1>6 DEF r, h

LEMMA Moved ==
  ASSUME NEW w \in Seq(MessageParts), NEW o \in Seq(MessageParts), o # <<>>
  PROVE  Append(w, Head(o)) \o Tail(o) = w \o o
<1>1. Head(o) \in MessageParts /\ Tail(o) \in Seq(MessageParts)
  BY HeadTailProperties
<1>2. <<Head(o)>> \in Seq(MessageParts)
  BY <1>1
<1>3. Append(w, Head(o)) = w \o <<Head(o)>>
  BY <1>1, AppendIsConcat
<1>4. (w \o <<Head(o)>>) \o Tail(o) = w \o (<<Head(o)>> \o Tail(o))
  BY <1>1, <1>2, ConcatAssociative
<1>5. <<Head(o)>> \o Tail(o) = o
  BY Split
<1>6. QED
  BY <1>3, <1>4, <1>5

LEMMA TakenFirst ==
  ASSUME NEW w \in Seq(MessageParts), NEW o \in Seq(MessageParts), w # <<>>
  PROVE  w \o o = <<Head(w)>> \o (Tail(w) \o o)
<1>1. Head(w) \in MessageParts /\ Tail(w) \in Seq(MessageParts)
  BY HeadTailProperties
<1>2. <<Head(w)>> \in Seq(MessageParts)
  BY <1>1
<1>3. <<Head(w)>> \o Tail(w) = w
  BY Split
<1>4. (<<Head(w)>> \o Tail(w)) \o o = <<Head(w)>> \o (Tail(w) \o o)
  BY <1>1, <1>2, ConcatAssociative
<1>5. QED
  BY <1>3, <1>4

LEMMA LengthFirst ==
  ASSUME NEW l \in Seq(MessageParts), NEW w \in Seq(MessageParts),
         NEW o \in Seq(MessageParts)
  PROVE  (l \o w) \o o = l \o (w \o o)
  BY ConcatAssociative

\* What is still to come, with and without a length in hand.
LEMMA FlowIs ==
  ASSUME TypeOK
  PROVE  /\ wire \o outbox \in Seq(MessageParts) /\ Flow \in Seq(MessageParts)
         /\ recvPc # "payload" => Flow = wire \o outbox
         /\ recvPc = "payload" => Flow = <<LengthOf(msg)>> \o (wire \o outbox)
         /\ LengthOf(msg) \in MessageParts
<1>1. wire \o outbox \in Seq(MessageParts)
  BY SentMessages, ConcatProperties
<1>2. LengthOf(msg) \in MessageParts
  BY SentMessages, NewElements DEF LengthOf
<1>3. <<LengthOf(msg)>> \in Seq(MessageParts)
  BY <1>2
<1>4. <<LengthOf(msg)>> \o (wire \o outbox) \in Seq(MessageParts)
  BY <1>1, <1>3, ConcatProperties
<1>5. <<>> \o (wire \o outbox) = wire \o outbox
  BY <1>1, ConcatEmptySeq
<1>6. QED
  BY <1>1, <1>2, <1>4, <1>5 DEF Flow

LEMMA FlowIsNext ==
  ASSUME TypeOK'
  PROVE  /\ wire' \o outbox' \in Seq(MessageParts) /\ Flow' \in Seq(MessageParts)
         /\ recvPc' # "payload" => Flow' = wire' \o outbox'
         /\ recvPc' = "payload" => Flow' = <<LengthOf(msg')>> \o (wire' \o outbox')
         /\ LengthOf(msg') \in MessageParts
<1>1. /\ wire' \in Seq(MessageParts) /\ outbox' \in Seq(MessageParts)
      /\ msg' \in Messages
  BY DEF TypeOK
<1>2. wire' \o outbox' \in Seq(MessageParts)
  BY <1>1, ConcatProperties
<1>3. LengthOf(msg') \in MessageParts
  BY <1>1, NewElements DEF LengthOf
<1>4. <<LengthOf(msg')>> \in Seq(MessageParts)
  BY <1>3
<1>5. <<LengthOf(msg')>> \o (wire' \o outbox') \in Seq(MessageParts)
  BY <1>2, <1>4, ConcatProperties
<1>6. <<>> \o (wire' \o outbox') = wire' \o outbox'
  BY <1>2, ConcatEmptySeq
<1>7. QED
  BY <1>2, <1>3, <1>5, <1>6 DEF Flow

\* Steps of the receive thread that read nothing.
LEMMA FlowKept ==
  ASSUME IInv, TypeOK', UNCHANGED <<wire, outbox, garbled>>,
         recvPc # "payload", recvPc' # "payload", link' = "up" => link = "up",
         recvPc \in Over => recvPc' \in Over
  PROVE  FlowInv'
<1>1. Flow' = Flow
  BY FlowIs, FlowIsNext DEF IInv
<1>2. QED
  BY <1>1 DEF IInv, FlowInv

\* The server says one more thing when there is nothing in its outbox.
LEMMA FlowSaid ==
  ASSUME IInv, TypeOK', UNCHANGED <<wire, recvPc, msg, link>>, link = "up",
         outbox = <<>>, NEW m \in Messages, outbox' = Parts(m), ~garbled
  PROVE  FlowInv'
<1> SUFFICES ASSUME recvPc \notin Over PROVE FlowInv'
  BY DEF FlowInv
<1>1. /\ Ordered(Flow) /\ Len(Flow) % 2 = 0 /\ Flow \in Seq(MessageParts)
      /\ Parts(m) \in Seq(MessageParts) /\ wire \in Seq(MessageParts)
  BY FlowIs, TwoParts, SentMessages DEF IInv, FlowInv
<1>2. wire \o outbox = wire
  BY <1>1, ConcatEmptySeq
<1>3. Flow' = Flow \o Parts(m)
  <2>1. CASE recvPc = "payload"
    <3>1. Flow = <<LengthOf(msg)>> \o wire /\ <<LengthOf(msg)>> \in Seq(MessageParts)
      BY <1>2, <2>1, FlowIs DEF IInv
    <3>2. Flow' = <<LengthOf(msg)>> \o (wire \o Parts(m))
      BY <2>1, FlowIsNext
    <3>3. QED
      BY <1>1, <3>1, <3>2, ConcatAssociative
  <2>2. CASE recvPc # "payload"
    BY <1>2, <2>2, FlowIs, FlowIsNext DEF IInv
  <2>3. QED
    BY <2>1, <2>2
<1>4. Ordered(Flow \o Parts(m)) /\ Len(Flow \o Parts(m)) % 2 = 0
  BY <1>1, OrderedPut
<1>5. QED
  BY <1>3, <1>4 DEF FlowInv

\* The parts of messages alternate, except after a payload that was late or out
\* of place.
LEMMA FlowStep ==
  ASSUME IInv, [Next]_vars
  PROVE  FlowInv'
<1> USE TypeSplit DEF IInv, CountTypes, monitor, caller, cmdq, msgq, receiver, listener,
   server, net
<1>1. CASE RecvHead
  <2>1. /\ UNCHANGED <<wire, outbox, garbled>> /\ recvPc # "payload"
        /\ recvPc' # "payload" /\ (link' = "up" => link = "up")
        /\ (recvPc \in Over => recvPc' \in Over)
    BY <1>1 DEF RecvHead, Goto, Over
  <2>2. QED
    BY <2>1, TypeStep, FlowKept
<1>2. CASE ReceiveLength
  <2>1. /\ recvPc = "length" /\ UNCHANGED <<outbox, garbled, link>>
        /\ \/ UNCHANGED wire /\ recvPc' \in {"closed", "stop_play"}
           \/ /\ wire # <<>> /\ Head(wire).part = "length" /\ wire' = Tail(wire)
              /\ msg' = Head(wire).msg /\ recvPc' = "payload"
           \/ /\ wire # <<>> /\ Head(wire).part = "payload" /\ wire' = Tail(wire)
              /\ recvPc' = "stop_play"
    BY <1>2 DEF ReceiveLength, Goto
  <2>2. CASE UNCHANGED wire /\ recvPc' \in {"closed", "stop_play"}
    BY <2>1, <2>2, TypeStep, FlowKept DEF Over
  <2>3. ASSUME wire # <<>>
        PROVE  /\ Flow = <<Head(wire)>> \o (Tail(wire) \o outbox)
               /\ Head(wire) \in MessageParts
               /\ Tail(wire) \o outbox \in Seq(MessageParts)
    <3>1. Head(wire) \in MessageParts /\ Tail(wire) \in Seq(MessageParts)
      BY <2>3, SentMessages, HeadTailProperties
    <3>2. QED
      BY <2>1, <2>3, <3>1, SentMessages, FlowIs, TakenFirst, ConcatProperties
  <2>4. CASE /\ wire # <<>> /\ Head(wire).part = "length" /\ wire' = Tail(wire)
             /\ msg' = Head(wire).msg /\ recvPc' = "payload"
    <3>1. Head(wire) = LengthOf(msg')
      BY <2>3, <2>4 DEF LengthOf, MessageParts
    <3>2. Flow' = Flow
      BY <2>1, <2>3, <2>4, <3>1, TypeStep, FlowIsNext
    <3>3. QED
      BY <2>1, <3>2 DEF FlowInv, Over
  <2>5. CASE /\ wire # <<>> /\ Head(wire).part = "payload" /\ wire' = Tail(wire)
             /\ recvPc' = "stop_play"
    <3>1. Ordered(Flow) => Head(wire).part = "length"
      BY <2>3, <2>5, OrderedFirst
    <3>2. QED
      BY <2>1, <2>5, <3>1 DEF FlowInv, Over
  <2>6. QED
    BY <2>1, <2>2, <2>4, <2>5
<1>3. CASE ReceivePayload
  <2>1. /\ recvPc = "payload" /\ recvPc' # "payload" /\ UNCHANGED <<outbox, link>>
        /\ \/ wire = <<>> /\ wire' = wire /\ link = "hungup"
           \/ garbled' = TRUE
           \/ /\ wire # <<>> /\ wire' = Tail(wire) /\ UNCHANGED garbled
    BY <1>3 DEF ReceivePayload, Goto
  <2>2. CASE wire = <<>> /\ wire' = wire /\ link = "hungup"
    <3>1. wire' \o outbox' = <<>> /\ Ordered(<<>>)
      <4>1. wire' = <<>> /\ outbox' = <<>> /\ Ordered(<<>>)
        BY <2>1, <2>2 DEF LinkInv, Ordered
      <4>2. QED
        BY <4>1
    <3>2. QED
      BY <2>1, <2>2, <3>1, TypeStep, FlowIsNext DEF FlowInv
  <2>3. CASE garbled' = TRUE
    BY <2>3 DEF FlowInv
  <2>4. CASE wire # <<>> /\ wire' = Tail(wire) /\ UNCHANGED garbled
    <3>1. Head(wire) \in MessageParts /\ Tail(wire) \in Seq(MessageParts)
      BY <2>4, SentMessages, HeadTailProperties
    <3>2. Flow = <<LengthOf(msg)>> \o (<<Head(wire)>> \o (Tail(wire) \o outbox))
      BY <2>1, <2>4, SentMessages, FlowIs, TakenFirst
    <3>3. /\ Tail(wire) \o outbox \in Seq(MessageParts)
          /\ LengthOf(msg) \in MessageParts
      BY <3>1, SentMessages, FlowIs, ConcatProperties
    <3>4. Ordered(Flow) => /\ Ordered(Tail(wire) \o outbox)
                           /\ Len(Flow) % 2 = Len(Tail(wire) \o outbox) % 2
      BY <3>1, <3>2, <3>3, OrderedTwo
    <3>5. Flow' = Tail(wire) \o outbox
      BY <2>1, <2>4, TypeStep, FlowIsNext
    <3>6. QED
      BY <2>1, <2>4, <3>4, <3>5 DEF FlowInv, Over
  <2>5. QED
    BY <2>1, <2>2, <2>3, <2>4
<1>4. CASE HandleAnswer
  <2>1. /\ UNCHANGED <<wire, outbox, garbled>> /\ recvPc # "payload"
        /\ recvPc' # "payload" /\ (link' = "up" => link = "up")
        /\ (recvPc \in Over => recvPc' \in Over)
    BY <1>4 DEF HandleAnswer, Goto, Over
  <2>2. QED
    BY <2>1, TypeStep, FlowKept
<1>5. CASE LinkAnswer
  <2>1. /\ UNCHANGED <<wire, outbox, garbled>> /\ recvPc # "payload"
        /\ recvPc' # "payload" /\ (link' = "up" => link = "up")
        /\ (recvPc \in Over => recvPc' \in Over)
    BY <1>5 DEF LinkAnswer, SignalCmd, Goto, Over
  <2>2. QED
    BY <2>1, TypeStep, FlowKept
<1>6. CASE HandleNotice
  <2>1. /\ UNCHANGED <<wire, outbox, garbled>> /\ recvPc # "payload"
        /\ recvPc' # "payload" /\ (link' = "up" => link = "up")
        /\ (recvPc \in Over => recvPc' \in Over)
    BY <1>6 DEF HandleNotice, Enqueue, Goto, Over
  <2>2. QED
    BY <2>1, TypeStep, FlowKept
<1>7. CASE NoticeClosed
  <2>1. /\ UNCHANGED <<wire, outbox, garbled>> /\ recvPc # "payload"
        /\ recvPc' # "payload" /\ (link' = "up" => link = "up")
        /\ (recvPc \in Over => recvPc' \in Over)
    BY <1>7 DEF NoticeClosed, Enqueue, Goto, Over
  <2>2. QED
    BY <2>1, TypeStep, FlowKept
<1>8. CASE NoticeReconnected
  <2>1. /\ UNCHANGED <<wire, outbox, garbled>> /\ recvPc # "payload"
        /\ recvPc' # "payload" /\ (link' = "up" => link = "up")
        /\ (recvPc \in Over => recvPc' \in Over)
    BY <1>8 DEF NoticeReconnected, Enqueue, Goto, Over
  <2>2. QED
    BY <2>1, TypeStep, FlowKept
<1>9. CASE FlushQueue
  <2>1. /\ UNCHANGED <<wire, outbox, garbled>> /\ recvPc # "payload"
        /\ recvPc' # "payload" /\ (link' = "up" => link = "up")
        /\ (recvPc \in Over => recvPc' \in Over)
    BY <1>9 DEF FlushQueue, Goto, Flushed, Over
  <2>2. QED
    BY <2>1, TypeStep, FlowKept
<1>10. CASE Reopen
  <2>1. /\ wire' = <<>> /\ outbox' = <<>> /\ recvPc' # "payload"
        /\ link' # "up"
    BY <1>10 DEF Reopen, Goto, LinkInv
  <2>2. wire' \o outbox' = <<>> /\ Ordered(<<>>)
    <3>1. <<>> \o <<>> = <<>> /\ Ordered(<<>>)
      BY DEF Ordered
    <3>2. QED
      BY <2>1, <3>1
  <2>3. QED
    BY <2>1, <2>2, TypeStep, FlowIsNext DEF FlowInv
<1>11. CASE Connect
  <2>1. /\ wire' = <<>> /\ recvPc' = "connected" /\ epoch' \in Nat
        /\ outbox' \in {<<>>, Parts(TooMany(epoch'))}
    BY <1>11, CountStep DEF Connect, Goto
  <2>2. Flow' = outbox'
    <3>1. outbox' \in Seq(MessageParts) /\ <<>> \o outbox' = outbox'
      BY TypeStep, ConcatEmptySeq DEF TypeOK
    <3>2. QED
      BY <2>1, <3>1, TypeStep, FlowIsNext
  <2>3. Ordered(<<>>) /\ Len(<<>>) = 0 /\ <<>> \in Seq(MessageParts) /\ 0 % 2 = 0
    BY DEF Ordered
  <2>4. TooMany(epoch') \in Messages
    BY <2>1, NewElements
  <2>5. /\ Ordered(<<>> \o Parts(TooMany(epoch')))
        /\ Len(<<>> \o Parts(TooMany(epoch'))) % 2 = 0
    BY <2>3, <2>4, OrderedPut
  <2>6. <<>> \o Parts(TooMany(epoch')) = Parts(TooMany(epoch'))
    BY <2>4, TwoParts, ConcatEmptySeq
  <2>7. QED
    BY <2>1, <2>2, <2>3, <2>5, <2>6 DEF FlowInv
<1>12. CASE ConnectFails
  <2>1. /\ UNCHANGED <<wire, outbox, garbled>> /\ recvPc # "payload"
        /\ recvPc' # "payload" /\ (link' = "up" => link = "up")
        /\ (recvPc \in Over => recvPc' \in Over)
    BY <1>12 DEF ConnectFails, Goto, Over
  <2>2. QED
    BY <2>1, TypeStep, FlowKept
<1>13. CASE RecvSetsMonitor
  <2>1. /\ UNCHANGED <<wire, outbox, garbled>> /\ recvPc # "payload"
        /\ recvPc' # "payload" /\ (link' = "up" => link = "up")
        /\ (recvPc \in Over => recvPc' \in Over)
    BY <1>13 DEF RecvSetsMonitor, SignalCmd, Goto, Over
  <2>2. QED
    BY <2>1, TypeStep, FlowKept
<1>14. CASE ServerExecutes
  <2>1. CASE garbled'
    BY <2>1 DEF FlowInv
  <2>2. CASE ~garbled'
    <3>1. /\ outbox' = Parts(Answer(done')) /\ ~garbled /\ link = "up"
          /\ outbox = <<>> /\ UNCHANGED <<wire, recvPc, msg, link>>
      BY <1>14, <2>2 DEF ServerExecutes
    <3>2. Answer(done') \in Messages
      BY CountStep, NewElements DEF CountTypes
    <3>3. QED
      BY <3>1, <3>2, TypeStep, FlowSaid
  <2>3. QED
    BY <2>1, <2>2
<1>15. CASE ServerSpeaks
  <2>1. /\ outbox' = Parts(Broadcast(epoch)) /\ link = "up" /\ outbox = <<>>
        /\ UNCHANGED <<wire, recvPc, msg, link, garbled>>
    BY <1>15 DEF ServerSpeaks
  <2>2. Broadcast(epoch) \in Messages
    BY NewElements
  <2>3. CASE ~garbled
    BY <2>1, <2>2, <2>3, TypeStep, FlowSaid
  <2>4. CASE garbled
    BY <2>1, <2>4 DEF FlowInv
  <2>5. QED
    BY <2>3, <2>4
<1>16. CASE ServerSends
  <2>1. /\ outbox # <<>> /\ wire' = Append(wire, Head(outbox))
        /\ outbox' = Tail(outbox) /\ UNCHANGED <<recvPc, msg, link, garbled>>
    BY <1>16 DEF ServerSends
  <2>2. wire' \o outbox' = wire \o outbox
    BY <2>1, SentMessages, Moved
  <2>3. Flow' = Flow
    BY <2>1, <2>2 DEF Flow
  <2>4. QED
    BY <2>1, <2>3 DEF FlowInv
<1>17. CASE ServerHangsUp
  <2>1. /\ link' = "hungup" /\ outbox' = <<>>
        /\ UNCHANGED <<wire, recvPc, msg, garbled>>
    BY <1>17 DEF ServerHangsUp
  <2>2. wire \in Seq(MessageParts) /\ outbox \in Seq(MessageParts) /\ wire \o <<>> = wire
    BY SentMessages, ConcatEmptySeq
  <2>3. Ordered(Flow) => Ordered(Flow')
    <3>1. CASE recvPc # "payload"
      BY <2>1, <2>2, <3>1, TypeStep, FlowIs, FlowIsNext, OrderedPrefix
    <3>2. CASE recvPc = "payload"
      <4>1. <<LengthOf(msg)>> \in Seq(MessageParts)
        BY FlowIs
      <4>2. Flow = (<<LengthOf(msg)>> \o wire) \o outbox
        <5>1. Flow = <<LengthOf(msg)>> \o (wire \o outbox)
          BY <3>2, FlowIs
        <5>2. (<<LengthOf(msg)>> \o wire) \o outbox = <<LengthOf(msg)>> \o (wire \o outbox)
          BY <2>2, <4>1, LengthFirst
        <5>3. QED
          BY <5>1, <5>2
      <4>3. /\ Flow' = <<LengthOf(msg)>> \o wire
            /\ <<LengthOf(msg)>> \o wire \in Seq(MessageParts)
        BY <2>1, <2>2, <3>2, <4>1, TypeStep, FlowIsNext, ConcatProperties
      <4>4. QED
        BY <2>2, <4>2, <4>3, OrderedPrefix
    <3>3. QED
      BY <3>1, <3>2
  <2>4. QED
    BY <2>1, <2>3 DEF FlowInv
<1>18. CASE \/ Call \/ Quit \/ SendLength \/ SendPayload \/ CheckPlay
            \/ DequeueConditional \/ Take \/ WokenToStop \/ MainSetsMonitor
            \/ Leave \/ Join \/ Remove \/ WakeSpuriously \/ Alarm
            \/ Listen \/ ListenerLate
  <2>1. UNCHANGED <<garbled, recvPc, msg, wire, outbox, link>>
    BY <1>18 DEF Call, Quit, SendLength, SendPayload, CheckPlay,
       DequeueConditional, Take, WokenToStop, MainSetsMonitor, Leave, Join,
       Remove, WakeSpuriously, Alarm, Listen, ListenerLate, Return
  <2>2. QED
    BY <2>1 DEF FlowInv, Flow
<1>19. CASE CountAnswer
  <2>1. /\ UNCHANGED <<wire, outbox, garbled>> /\ recvPc # "payload"
        /\ recvPc' # "payload" /\ (link' = "up" => link = "up")
        /\ (recvPc \in Over => recvPc' \in Over)
    BY <1>19 DEF CountAnswer, SignalCmd, Goto, Over
  <2>2. QED
    BY <2>1, TypeStep, FlowKept
<1>20. CASE ReceiveFails
  BY <1>20 DEF ReceiveFails, Goto, FlowInv, Over
<1>21. CASE UNCHANGED vars
  BY <1>21 DEF vars, FlowInv, Flow
<1>22. QED
  BY <1>1, <1>2, <1>3, <1>4, <1>5, <1>6, <1>7, <1>8, <1>9, <1>10, <1>11, <1>12,
     <1>13, <1>14, <1>15, <1>16, <1>17, <1>18, <1>19, <1>20, <1>21 DEF Next,
     MainStep, RecvStep, ListenStep, ServerStep, vars

\* The receive thread gives up for a reason only.
LEMMA CauseStep ==
  ASSUME IInv, [Next]_vars
  PROVE  ReceiverEndsForCause'
<1> USE TypeSplit DEF IInv, FlagTypes, ReceiverEndsForCause, monitor, caller,
   cmdq, msgq, receiver, listener, server, net
<1>1. CASE MainSetsMonitor
  BY <1>1 DEF MainSetsMonitor
<1>2. CASE RecvHead
  BY <1>2 DEF RecvHead, Goto
<1>3. CASE ReceiveLength
  <2>1. ASSUME wire # <<>>, Head(wire).part = "payload"
        PROVE  garbled
    <3>1. /\ Head(wire) \in MessageParts
          /\ Tail(wire) \o outbox \in Seq(MessageParts)
      BY <2>1, SentMessages, HeadTailProperties, ConcatProperties
    <3>2. Flow = <<Head(wire)>> \o (Tail(wire) \o outbox)
      BY <1>3, <2>1, SentMessages, FlowIs, TakenFirst DEF ReceiveLength
    <3>3. Ordered(Flow) => Head(wire).part = "length"
      BY <3>1, <3>2, OrderedFirst
    <3>4. QED
      BY <1>3, <2>1, <3>3 DEF FlowInv, Over, ReceiveLength
  <2>2. QED
    BY <1>3, <2>1 DEF ReceiveLength, Goto
<1>4. CASE ReceivePayload
  <2>1. ASSUME wire # <<>>, Head(wire) # [part |-> "payload", msg |-> msg]
        PROVE  garbled
    <3>1. Head(wire) \in MessageParts /\ Tail(wire) \in Seq(MessageParts)
      BY <2>1, SentMessages, HeadTailProperties
    <3>2. /\ Tail(wire) \o outbox \in Seq(MessageParts)
          /\ LengthOf(msg) \in MessageParts /\ LengthOf(msg).msg = msg
      BY <3>1, SentMessages, FlowIs, ConcatProperties DEF LengthOf
    <3>3. Flow = <<LengthOf(msg)>> \o (<<Head(wire)>> \o (Tail(wire) \o outbox))
      BY <1>4, <2>1, SentMessages, FlowIs, TakenFirst DEF ReceivePayload
    <3>4. Ordered(Flow) => Head(wire) = [part |-> "payload", msg |-> msg]
      BY <3>1, <3>2, <3>3, OrderedTwo
    <3>5. QED
      BY <1>4, <2>1, <3>4 DEF FlowInv, Over, ReceivePayload
  <2>2. QED
    BY <1>4, <2>1 DEF ReceivePayload, Goto
<1>5. CASE HandleAnswer
  BY <1>5 DEF HandleAnswer, Goto
<1>6. CASE LinkAnswer
  BY <1>6 DEF LinkAnswer, SignalCmd, Goto
<1>7. CASE HandleNotice
  BY <1>7 DEF HandleNotice, Enqueue, Goto
<1>8. CASE NoticeClosed
  BY <1>8 DEF NoticeClosed, Enqueue, Goto
<1>9. CASE NoticeReconnected
  BY <1>9 DEF NoticeReconnected, Enqueue, Goto
<1>10. CASE FlushQueue
  BY <1>10 DEF FlushQueue, Goto, Flushed
<1>11. CASE Reopen
  BY <1>11 DEF Reopen, Goto
<1>12. CASE Connect
  BY <1>12 DEF Connect, Goto
<1>13. CASE ConnectFails
  BY <1>13 DEF ConnectFails, Goto
<1>14. CASE RecvSetsMonitor
  BY <1>14 DEF RecvSetsMonitor, SignalCmd, Goto
<1>15. CASE ServerExecutes
  BY <1>15 DEF ServerExecutes
<1>16. CASE \/ Call \/ Quit \/ SendLength \/ SendPayload \/ CheckPlay
            \/ DequeueConditional \/ Take \/ WokenToStop \/ Leave \/ Join
            \/ Remove \/ WakeSpuriously \/ Alarm \/ Listen
            \/ ListenerLate \/ ServerSpeaks \/ ServerSends
            \/ ServerHangsUp
  <2>1. UNCHANGED <<recvPc, play, err, garbled, msg>>
    BY <1>16 DEF Call, Quit, SendLength, SendPayload, CheckPlay,
       DequeueConditional, Take, WokenToStop, Leave, Join, Remove,
       WakeSpuriously, Alarm, Listen, ListenerLate, ServerSpeaks, ServerSends,
       ServerHangsUp, Return
  <2>2. QED
    BY <2>1
<1>17. CASE CountAnswer
  BY <1>17 DEF CountAnswer, SignalCmd, Goto
<1>18. CASE ReceiveFails
  BY <1>18 DEF ReceiveFails, Goto
<1>19. CASE UNCHANGED vars
  BY <1>19 DEF vars
<1>20. QED
  BY <1>1, <1>2, <1>3, <1>4, <1>5, <1>6, <1>7, <1>8, <1>9, <1>10, <1>11, <1>12,
     <1>13, <1>14, <1>15, <1>16, <1>17, <1>18, <1>19 DEF Next, MainStep,
     RecvStep, ListenStep, ServerStep, vars

-----------------------------------------------------------------------------
(* The notices.                                                            *)

\* ReconnectIsToldFirst for any queue.
Told(q, h, s) ==
  \A i \in 1..Len(q) :
    q[i].kind = "broadcast" =>
      \/ q[i].num <= h \/ q[i].num \in s
      \/ \E j \in 1..(i - 1) : q[j] = Reconnected(q[i].num)

LEMMA ToldIs == ReconnectIsToldFirst <=> Told(msgQueue, heard, skipped)
  BY DEF ReconnectIsToldFirst, Told

LEMMA ToldIsNext == ReconnectIsToldFirst' <=> Told(msgQueue', heard', skipped')
  BY DEF ReconnectIsToldFirst, Told

\* One more notice in the queue.
LEMMA PutNotice ==
  ASSUME TypeOK, NEW m \in Messages
  PROVE  /\ Len(Append(msgQueue, m)) = Len(msgQueue) + 1 /\ Len(msgQueue) \in Nat
         /\ Append(msgQueue, m)[Len(msgQueue) + 1] = m
         /\ \A i \in 1..Len(msgQueue) :
              i \in 1..Len(Append(msgQueue, m)) /\ Append(msgQueue, m)[i] = msgQueue[i]
         /\ \A i \in 1..Len(Append(msgQueue, m)) :
              \/ i \in 1..Len(msgQueue) /\ Append(msgQueue, m)[i] = msgQueue[i]
              \/ i = Len(msgQueue) + 1 /\ Append(msgQueue, m)[i] = m
<1> DEFINE r == Append(msgQueue, m)
<1>1. /\ Len(r) = Len(msgQueue) + 1 /\ Len(msgQueue) \in Nat
      /\ r[Len(msgQueue) + 1] = m
      /\ \A i \in 1..Len(msgQueue) : r[i] = msgQueue[i]
  BY QueuedNotices, Put
<1> HIDE DEF r
<1>2. /\ \A i \in 1..Len(msgQueue) : i \in 1..Len(r)
      /\ \A i \in 1..Len(r) : i \in 1..Len(msgQueue) \/ i = Len(msgQueue) + 1
  BY <1>1
<1>3. QED
  BY <1>1, <1>2 DEF r

\* A notice that is no broadcast, or one of which the listener will be told.
LEMMA ToldPut ==
  ASSUME TypeOK, ReconnectIsToldFirst, NEW m \in Messages,
         m.kind = "broadcast" =>
           m.num <= heard \/ m.num \in skipped \/ Waiting(m.num)
  PROVE  Told(Append(msgQueue, m), heard, skipped)
<1> DEFINE r == Append(msgQueue, m)
<1>1. /\ Len(msgQueue) \in Nat
      /\ \A i \in 1..Len(msgQueue) : r[i] = msgQueue[i]
      /\ \A i \in 1..Len(r) :
           \/ i \in 1..Len(msgQueue) /\ r[i] = msgQueue[i]
           \/ i = Len(msgQueue) + 1 /\ r[i] = m
  BY PutNotice
<1> HIDE DEF r
<1>2. SUFFICES ASSUME NEW i \in 1..Len(r), r[i].kind = "broadcast",
                      ~(r[i].num <= heard), r[i].num \notin skipped
               PROVE  \E j \in 1..(i - 1) : r[j] = Reconnected(r[i].num)
  BY DEF Told, r
<1>3. CASE i \in 1..Len(msgQueue) /\ r[i] = msgQueue[i]
  <2>1. PICK j \in 1..(i - 1) : msgQueue[j] = Reconnected(msgQueue[i].num)
    BY <1>2, <1>3 DEF ReconnectIsToldFirst
  <2>2. j \in 1..Len(msgQueue)
    BY <1>1, <1>3
  <2>3. QED
    BY <1>1, <1>3, <2>1, <2>2
<1>4. CASE i = Len(msgQueue) + 1 /\ r[i] = m
  <2>1. PICK j \in 1..Len(msgQueue) : msgQueue[j] = Reconnected(m.num)
    BY <1>2, <1>4 DEF Waiting
  <2>2. j \in 1..(i - 1)
    BY <1>1, <1>4
  <2>3. QED
    BY <1>1, <1>4, <2>1, <2>2
<1>5. QED
  BY <1>1, <1>3, <1>4

\* What TellInv says, for any queue.
Foretold(q, h, s, e, w) ==
  /\ \A x \in 1..e :
       \/ x <= h \/ x \in s
       \/ \E j \in 1..Len(q) : q[j] = Reconnected(x)
       \/ x \in w
  /\ \A i \in 1..Len(q) : q[i].kind = "reconnected" => q[i].num \in h..e
  /\ \A i, j \in 1..Len(q) :
       i < j /\ q[i].kind = "reconnected" /\ q[j].kind = "reconnected"
         => q[i].num <= q[j].num

Opening == IF recvPc \in {"connected", "flush_connected"} THEN {epoch} ELSE {}

LEMMA TellIs ==
  TellInv <=> heard \in 1..epoch /\ Foretold(msgQueue, heard, skipped, epoch, Opening)
  BY DEF TellInv, Foretold, Waiting, Opening

LEMMA TellIsNext ==
  TellInv' <=> /\ heard' \in 1..epoch'
               /\ Foretold(msgQueue', heard', skipped', epoch', Opening')
  BY DEF TellInv, Foretold, Waiting, Opening

\* A notice other than that of a new connection.
LEMMA ForetoldPut ==
  ASSUME TypeOK, NEW m \in Messages, m.kind # "reconnected", NEW w,
         Foretold(msgQueue, heard, skipped, epoch, w)
  PROVE  Foretold(Append(msgQueue, m), heard, skipped, epoch, w)
<1> DEFINE r == Append(msgQueue, m)
<1>1. /\ Len(msgQueue) \in Nat
      /\ \A i \in 1..Len(msgQueue) : i \in 1..Len(r) /\ r[i] = msgQueue[i]
      /\ \A i \in 1..Len(r) :
           \/ i \in 1..Len(msgQueue) /\ r[i] = msgQueue[i]
           \/ i = Len(msgQueue) + 1 /\ r[i] = m
  BY PutNotice
<1> HIDE DEF r
<1>2. \A i \in 1..Len(r) : r[i].kind = "reconnected" =>
        i \in 1..Len(msgQueue) /\ r[i] = msgQueue[i]
  BY <1>1
<1>3. \A x : (\E j \in 1..Len(msgQueue) : msgQueue[j] = Reconnected(x))
              => \E j \in 1..Len(r) : r[j] = Reconnected(x)
  BY <1>1
<1>4. Foretold(r, heard, skipped, epoch, w)
  BY <1>2, <1>3 DEF Foretold
<1>5. QED
  BY <1>4 DEF r

\* The notice of the new connection.
LEMMA ForetoldReconnect ==
  ASSUME TypeOK, heard \in 1..epoch,
         Foretold(msgQueue, heard, skipped, epoch, {epoch})
  PROVE  Foretold(Append(msgQueue, Reconnected(epoch)), heard, skipped, epoch, {})
<1> DEFINE m == Reconnected(epoch)  r == Append(msgQueue, m)
<1>1. m \in Messages /\ m.kind = "reconnected" /\ m.num = epoch /\ epoch \in Nat
  BY NewElements DEF TypeOK, Reconnected
<1>2. m = Reconnected(epoch)
  OBVIOUS
<1> HIDE DEF m
<1>3. /\ Len(msgQueue) \in Nat /\ Len(r) = Len(msgQueue) + 1
      /\ \A i \in 1..Len(msgQueue) : i \in 1..Len(r) /\ r[i] = msgQueue[i]
      /\ \A i \in 1..Len(r) :
           \/ i \in 1..Len(msgQueue) /\ r[i] = msgQueue[i]
           \/ i = Len(msgQueue) + 1 /\ r[i] = m
      /\ r[Len(msgQueue) + 1] = m
  BY <1>1, PutNotice
<1> HIDE DEF r
<1>4. ASSUME NEW x \in 1..epoch
      PROVE  \/ x <= heard \/ x \in skipped
             \/ \E j \in 1..Len(r) : r[j] = Reconnected(x)
  <2>1. CASE x = epoch
    <3>1. Len(msgQueue) + 1 \in 1..Len(r)
      BY <1>3
    <3>2. QED
      BY <1>2, <1>3, <2>1, <3>1
  <2>2. CASE x # epoch
    BY <1>3, <2>2 DEF Foretold
  <2>3. QED
    BY <2>1, <2>2
<1>5. ASSUME NEW i \in 1..Len(r), r[i].kind = "reconnected"
      PROVE  r[i].num \in heard..epoch
  BY <1>1, <1>3, <1>5 DEF Foretold
<1>6. ASSUME NEW i \in 1..Len(r), NEW j \in 1..Len(r), i < j,
             r[i].kind = "reconnected", r[j].kind = "reconnected"
      PROVE  r[i].num <= r[j].num
  <2>1. i \in 1..Len(msgQueue) /\ r[i] = msgQueue[i]
    BY <1>3, <1>6
  <2>2. CASE j \in 1..Len(msgQueue) /\ r[j] = msgQueue[j]
    BY <1>6, <2>1, <2>2 DEF Foretold
  <2>3. CASE r[j] = m
    <3>1. r[i].num \in heard..epoch
      BY <1>5, <1>6
    <3>2. QED
      BY <1>1, <2>3, <3>1
  <2>4. QED
    BY <1>3, <2>2, <2>3
<1>7. Foretold(r, heard, skipped, epoch, {})
  BY <1>4, <1>5, <1>6 DEF Foretold
<1>8. QED
  BY <1>7 DEF r, m

\* The listener is told of every connection, and in time.
LEMMA TellStep ==
  ASSUME IInv, [Next]_vars
  PROVE  TellInv' /\ ReconnectIsToldFirst'
<1> USE TypeSplit DEF IInv, CountTypes, monitor, caller, cmdq, msgq, receiver, listener,
   server, net
<1>1. CASE RecvHead
  <2>1. /\ UNCHANGED <<msgQueue, heard, skipped, epoch>>
        /\ Opening = {} /\ Opening' = {}
    BY <1>1 DEF RecvHead, Goto, Opening
  <2>2. QED
    BY <2>1, TellIs, TellIsNext, ToldIs, ToldIsNext
<1>2. CASE ReceiveLength
  <2>1. /\ UNCHANGED <<msgQueue, heard, skipped, epoch>>
        /\ Opening = {} /\ Opening' = {}
    BY <1>2 DEF ReceiveLength, Goto, Opening
  <2>2. QED
    BY <2>1, TellIs, TellIsNext, ToldIs, ToldIsNext
<1>3. CASE ReceivePayload
  <2>1. /\ UNCHANGED <<msgQueue, heard, skipped, epoch>>
        /\ Opening = {} /\ Opening' = {}
    BY <1>3 DEF ReceivePayload, Goto, Opening
  <2>2. QED
    BY <2>1, TellIs, TellIsNext, ToldIs, ToldIsNext
<1>4. CASE HandleAnswer
  <2>1. /\ UNCHANGED <<msgQueue, heard, skipped, epoch>>
        /\ Opening = {} /\ Opening' = {}
    BY <1>4 DEF HandleAnswer, Goto, Opening
  <2>2. QED
    BY <2>1, TellIs, TellIsNext, ToldIs, ToldIsNext
<1>5. CASE LinkAnswer
  <2>1. /\ UNCHANGED <<msgQueue, heard, skipped, epoch>>
        /\ Opening = {} /\ Opening' = {}
    BY <1>5 DEF LinkAnswer, SignalCmd, Goto, Opening
  <2>2. QED
    BY <2>1, TellIs, TellIsNext, ToldIs, ToldIsNext
<1>6. CASE HandleNotice
  <2>1. /\ UNCHANGED <<heard, skipped, epoch>> /\ recvPc = "handle" /\ Opening' = {}
        /\ msg.kind # "answer"
        /\ \/ UNCHANGED msgQueue
           \/ msgQueue' = Append(msgQueue, msg) /\ msg.kind # "toomany"
    BY <1>6 DEF HandleNotice, Enqueue, Goto, Opening
  <2>2. Opening = {}
    BY <2>1 DEF Opening
  <2>3. CASE UNCHANGED msgQueue
    BY <2>1, <2>2, <2>3, TellIs, TellIsNext, ToldIs, ToldIsNext
  <2>4. CASE msgQueue' = Append(msgQueue, msg) /\ msg.kind # "toomany"
    <3>1. msg \in Messages /\ msg.kind = "broadcast" /\ msg.num \in 1..epoch
      BY <2>1, <2>4, SentMessages DEF SaidInv, Said
    <3>2. msg.num <= heard \/ msg.num \in skipped \/ Waiting(msg.num)
      BY <2>1, <3>1 DEF TellInv
    <3>3. Told(msgQueue', heard', skipped')
      BY <2>1, <2>4, <3>1, <3>2, ToldPut
    <3>4. Foretold(msgQueue, heard, skipped, epoch, {})
      BY <2>2, TellIs
    <3>5. Foretold(msgQueue', heard, skipped, epoch, {})
      BY <2>4, <3>1, <3>4, ForetoldPut
    <3>6. QED
      BY <2>1, <3>3, <3>5, TellIs, TellIsNext, ToldIsNext
  <2>5. QED
    BY <2>1, <2>3, <2>4
<1>7. CASE NoticeClosed
  <2>1. /\ UNCHANGED <<heard, skipped, epoch>> /\ Opening = {} /\ Opening' = {}
        /\ \/ UNCHANGED msgQueue
           \/ msgQueue' = Append(msgQueue, Closed(epoch))
    BY <1>7 DEF NoticeClosed, Enqueue, Goto, Opening, Closed
  <2>2. CASE UNCHANGED msgQueue
    BY <2>1, <2>2, TellIs, TellIsNext, ToldIs, ToldIsNext
  <2>3. CASE msgQueue' = Append(msgQueue, Closed(epoch))
    <3>1. Closed(epoch) \in Messages /\ Closed(epoch).kind = "closed"
      BY NewElements DEF Closed
    <3>2. Told(msgQueue', heard', skipped')
      BY <2>1, <2>3, <3>1, ToldPut
    <3>3. Foretold(msgQueue', heard, skipped, epoch, {})
      BY <2>1, <2>3, <3>1, TellIs, ForetoldPut
    <3>4. QED
      BY <2>1, <3>2, <3>3, TellIs, TellIsNext, ToldIsNext
  <2>4. QED
    BY <2>1, <2>2, <2>3
<1>8. CASE NoticeReconnected
  <2>1. /\ UNCHANGED <<heard, skipped, epoch>> /\ Opening = {epoch}
        /\ \/ UNCHANGED msgQueue /\ Opening' = {epoch}
           \/ msgQueue' = Append(msgQueue, Reconnected(epoch)) /\ Opening' = {}
    BY <1>8 DEF NoticeReconnected, Enqueue, Goto, Opening, Reconnected
  <2>2. CASE UNCHANGED msgQueue /\ Opening' = {epoch}
    BY <2>1, <2>2, TellIs, TellIsNext, ToldIs, ToldIsNext
  <2>3. CASE msgQueue' = Append(msgQueue, Reconnected(epoch)) /\ Opening' = {}
    <3>1. Reconnected(epoch) \in Messages /\ Reconnected(epoch).kind = "reconnected"
      BY NewElements DEF Reconnected
    <3>2. Told(msgQueue', heard', skipped')
      BY <2>1, <2>3, <3>1, ToldPut
    <3>3. Foretold(msgQueue', heard, skipped, epoch, {})
      BY <2>1, <2>3, TellIs, ForetoldReconnect
    <3>4. QED
      BY <2>1, <2>3, <3>2, <3>3, TellIs, TellIsNext, ToldIsNext
  <2>4. QED
    BY <2>1, <2>2, <2>3
<1>9. CASE FlushQueue
  <2>1. /\ UNCHANGED <<heard, epoch>> /\ Opening' = {} /\ msgQueue' = <<>>
        /\ Flushed \subseteq skipped' /\ skipped \subseteq skipped'
        /\ Opening \subseteq skipped'
    BY <1>9 DEF FlushQueue, Goto, Opening
  <2>2. Len(msgQueue') = 0
    BY <2>1
  <2>3. \A x : Waiting(x) => x \in Flushed
    BY DEF Waiting, Flushed, Reconnected
  <2>4. ASSUME NEW x \in 1..epoch
        PROVE  x <= heard \/ x \in skipped'
    BY <2>1, <2>3 DEF TellInv, Opening
  <2>5. Foretold(msgQueue', heard, skipped', epoch, {})
    BY <2>2, <2>4 DEF Foretold
  <2>6. Told(msgQueue', heard', skipped')
    BY <2>2 DEF Told
  <2>7. QED
    BY <2>1, <2>5, <2>6, TellIs, TellIsNext, ToldIsNext
<1>10. CASE Reopen
  <2>1. /\ UNCHANGED <<msgQueue, heard, skipped, epoch>>
        /\ Opening = {} /\ Opening' = {}
    BY <1>10 DEF Reopen, Goto, Opening
  <2>2. QED
    BY <2>1, TellIs, TellIsNext, ToldIs, ToldIsNext
<1>11. CASE Connect
  <2>1. /\ UNCHANGED <<msgQueue, heard, skipped>> /\ epoch' = epoch + 1
        /\ Opening = {} /\ Opening' = {epoch'}
    BY <1>11 DEF Connect, Goto, Opening
  <2>2. /\ heard \in 1..epoch
        /\ Foretold(msgQueue, heard, skipped, epoch, {})
    BY <2>1, TellIs
  <2>3. \A i \in 1..Len(msgQueue) :
          msgQueue[i].kind = "reconnected" => msgQueue[i].num \in heard..(epoch + 1)
    BY <2>2, QueuedNotices DEF Foretold
  <2>4. ASSUME NEW x \in 1..(epoch + 1)
        PROVE  \/ x <= heard \/ x \in skipped
               \/ \E j \in 1..Len(msgQueue) : msgQueue[j] = Reconnected(x)
               \/ x = epoch + 1
    <3>1. x \in 1..epoch \/ x = epoch + 1
      OBVIOUS
    <3>2. QED
      BY <2>2, <3>1 DEF Foretold
  <2>5. Foretold(msgQueue, heard, skipped, epoch + 1, {epoch + 1})
    BY <2>2, <2>3, <2>4 DEF Foretold
  <2>6. heard \in 1..(epoch + 1)
    BY <2>2
  <2>7. QED
    BY <2>1, <2>5, <2>6, TellIsNext, ToldIs, ToldIsNext
<1>12. CASE ConnectFails
  <2>1. /\ UNCHANGED <<msgQueue, heard, skipped, epoch>>
        /\ Opening = {} /\ Opening' = {}
    BY <1>12 DEF ConnectFails, Goto, Opening
  <2>2. QED
    BY <2>1, TellIs, TellIsNext, ToldIs, ToldIsNext
<1>13. CASE RecvSetsMonitor
  <2>1. /\ UNCHANGED <<msgQueue, heard, skipped, epoch>>
        /\ Opening = {} /\ Opening' = {}
    BY <1>13 DEF RecvSetsMonitor, SignalCmd, Goto, Opening
  <2>2. QED
    BY <2>1, TellIs, TellIsNext, ToldIs, ToldIsNext
<1>14. CASE Listen
  <2>1. /\ msgQueue # <<>> /\ msgQueue' = Tail(msgQueue)
        /\ UNCHANGED <<skipped, epoch, recvPc>>
        /\ heard' = IF msgQueue[1].kind = "reconnected" THEN msgQueue[1].num ELSE heard
    <3>1. msgQueue # <<>> /\ Head(msgQueue) = msgQueue[1]
      BY <1>14, QueuedNotices, Taken DEF Listen
    <3>2. QED
      BY <1>14, <3>1 DEF Listen
  <2>2. /\ Len(msgQueue) \in Nat /\ 1 \in 1..Len(msgQueue)
        /\ Len(msgQueue') = Len(msgQueue) - 1
        /\ \A i \in 1..Len(msgQueue') :
             i + 1 \in 1..Len(msgQueue) /\ msgQueue'[i] = msgQueue[i + 1]
    BY <2>1, QueuedNotices, Taken
  <2>3. heard' \in heard..epoch /\ heard' \in 1..epoch /\ heard' \in Nat
    BY <2>1, <2>2 DEF TellInv
  <2>4. ASSUME NEW x, NEW k \in 1..Len(msgQueue), msgQueue[k] = Reconnected(x),
               NEW n \in Nat, k <= n, x \in Nat
        PROVE  x <= heard' \/ \E j \in 1..(n - 1) : msgQueue'[j] = Reconnected(x)
    <3>1. CASE k = 1
      BY <2>1, <2>4, <3>1 DEF Reconnected
    <3>2. CASE k # 1
      <4>1. k - 1 \in 1..Len(msgQueue') /\ (k - 1) + 1 = k /\ k - 1 \in 1..(n - 1)
        BY <2>2, <2>4, <3>2
      <4>2. msgQueue'[k - 1] = Reconnected(x)
        BY <2>2, <2>4, <4>1
      <4>3. QED
        BY <4>1, <4>2
    <3>3. QED
      BY <3>1, <3>2
  <2>5. ASSUME NEW x \in 1..epoch
        PROVE  \/ x <= heard' \/ x \in skipped
               \/ \E j \in 1..Len(msgQueue') : msgQueue'[j] = Reconnected(x)
               \/ x \in Opening
    <3>1. CASE Waiting(x)
      <4>1. PICK k \in 1..Len(msgQueue) : msgQueue[k] = Reconnected(x)
        BY <3>1 DEF Waiting
      <4>2. k <= Len(msgQueue) /\ x \in Nat
        BY <2>2
      <4>3. x <= heard' \/ \E j \in 1..(Len(msgQueue) - 1) :
                             msgQueue'[j] = Reconnected(x)
        BY <2>2, <2>4, <4>1, <4>2
      <4>4. QED
        BY <2>2, <4>3
    <3>2. CASE x <= heard
      BY <2>3, <3>2
    <3>3. QED
      BY <3>1, <3>2 DEF TellInv, Opening
  <2>6. ASSUME NEW i \in 1..Len(msgQueue'), msgQueue'[i].kind = "reconnected"
        PROVE  msgQueue'[i].num \in heard'..epoch
    <3>1. /\ i + 1 \in 1..Len(msgQueue) /\ msgQueue'[i] = msgQueue[i + 1]
          /\ 1 < i + 1
      BY <2>2
    <3>2. msgQueue[i + 1].num \in heard..epoch
      BY <2>6, <3>1 DEF TellInv
    <3>3. msgQueue[1].kind = "reconnected" => msgQueue[1].num <= msgQueue[i + 1].num
      BY <2>2, <2>6, <3>1 DEF TellInv
    <3>4. QED
      BY <2>1, <2>3, <3>1, <3>2, <3>3
  <2>7. ASSUME NEW i \in 1..Len(msgQueue'), NEW j \in 1..Len(msgQueue'), i < j,
               msgQueue'[i].kind = "reconnected", msgQueue'[j].kind = "reconnected"
        PROVE  msgQueue'[i].num <= msgQueue'[j].num
    <3>1. /\ i + 1 \in 1..Len(msgQueue) /\ msgQueue'[i] = msgQueue[i + 1]
          /\ j + 1 \in 1..Len(msgQueue) /\ msgQueue'[j] = msgQueue[j + 1]
          /\ i + 1 < j + 1
      <4>1. i \in Nat /\ j \in Nat
        BY <2>2
      <4>2. i + 1 < j + 1
        BY <2>7, <4>1
      <4>3. QED
        BY <2>2, <4>2
    <3>2. QED
      BY <2>7, <3>1 DEF TellInv
  <2>8. Foretold(msgQueue', heard', skipped, epoch, Opening)
    BY <2>5, <2>6, <2>7 DEF Foretold
  <2>9. ASSUME NEW i \in 1..Len(msgQueue'), msgQueue'[i].kind = "broadcast"
        PROVE  \/ msgQueue'[i].num <= heard' \/ msgQueue'[i].num \in skipped
               \/ \E j \in 1..(i - 1) : msgQueue'[j] = Reconnected(msgQueue'[i].num)
    <3> DEFINE x == msgQueue'[i].num
    <3>1. /\ i + 1 \in 1..Len(msgQueue) /\ msgQueue'[i] = msgQueue[i + 1]
          /\ (i + 1) - 1 = i /\ i \in Nat
      BY <2>2
    <3>2. x \in Nat /\ x = msgQueue[i + 1].num
      BY <3>1, QueuedNotices
    <3>3. \/ x <= heard \/ x \in skipped
          \/ \E j \in 1..((i + 1) - 1) : msgQueue[j] = Reconnected(x)
      BY <2>9, <3>1 DEF ReconnectIsToldFirst
    <3> HIDE DEF x
    <3>4. CASE x <= heard
      BY <2>3, <3>2, <3>4 DEF x
    <3>5. CASE x \in skipped
      BY <3>5 DEF x
    <3>6. CASE \E j \in 1..((i + 1) - 1) : msgQueue[j] = Reconnected(x)
      <4>1. PICK k \in 1..i : msgQueue[k] = Reconnected(x)
        BY <3>1, <3>6
      <4>2. /\ k \in 1..Len(msgQueue) /\ k <= i /\ i \in Nat /\ x \in Nat
            /\ msgQueue[k] = Reconnected(x)
        BY <2>2, <3>1, <3>2, <4>1
      <4>3. x <= heard' \/ \E j \in 1..(i - 1) : msgQueue'[j] = Reconnected(x)
        BY <2>4, <4>2
      <4>4. QED
        BY <3>1, <4>3 DEF x
    <3>7. QED
      BY <3>3, <3>4, <3>5, <3>6
  <2>10. Told(msgQueue', heard', skipped)
    BY <2>9 DEF Told
  <2>11. Opening' = Opening
    BY <2>1 DEF Opening
  <2>12. QED
    BY <2>1, <2>3, <2>8, <2>10, <2>11, TellIsNext, ToldIsNext
<1>15. CASE \/ Call \/ Quit \/ SendLength \/ SendPayload \/ CheckPlay
            \/ DequeueConditional \/ Take \/ WokenToStop \/ MainSetsMonitor
            \/ Leave \/ Join \/ Remove \/ WakeSpuriously \/ Alarm
            \/ ListenerLate \/ ServerExecutes
            \/ ServerSpeaks \/ ServerSends \/ ServerHangsUp
  <2>1. UNCHANGED <<msgQueue, heard, skipped, epoch, recvPc>>
    BY <1>15 DEF Call, Quit, SendLength, SendPayload, CheckPlay,
       DequeueConditional, Take, WokenToStop, MainSetsMonitor, Leave, Join,
       Remove, WakeSpuriously, Alarm, ListenerLate, ServerExecutes,
       ServerSpeaks, ServerSends, ServerHangsUp, Return
  <2>2. QED
    BY <2>1 DEF TellInv, Waiting, ReconnectIsToldFirst
<1>16. CASE CountAnswer
  <2>1. /\ UNCHANGED <<msgQueue, heard, skipped, epoch>>
        /\ Opening = {} /\ Opening' = {}
    BY <1>16 DEF CountAnswer, SignalCmd, Goto, Opening
  <2>2. QED
    BY <2>1, TellIs, TellIsNext, ToldIs, ToldIsNext
<1>17. CASE ReceiveFails
  <2>1. /\ UNCHANGED <<msgQueue, heard, skipped, epoch>>
        /\ Opening = {} /\ Opening' = {}
    BY <1>17 DEF ReceiveFails, Goto, Opening
  <2>2. QED
    BY <2>1, TellIs, TellIsNext, ToldIs, ToldIsNext
<1>18. CASE UNCHANGED vars
  BY <1>18 DEF vars, TellInv, Waiting, ReconnectIsToldFirst
<1>19. QED
  BY <1>1, <1>2, <1>3, <1>4, <1>5, <1>6, <1>7, <1>8, <1>9, <1>10, <1>11, <1>12,
     <1>13, <1>14, <1>15, <1>16, <1>17, <1>18 DEF Next, MainStep, RecvStep,
     ListenStep, ServerStep, vars

-----------------------------------------------------------------------------
(* The theorems.                                                           *)

LEMMA InitHolds == Init => IInv
<1> SUFFICES ASSUME Init PROVE IInv
  OBVIOUS
<1> USE DEF Init
<1>1. TypeOK
  <2>1. FlagTypes /\ CountTypes
    <3>1. FlagTypes
      BY DEF FlagTypes
    <3>2. CountTypes
      BY DEF CountTypes
    <3>3. QED
      BY <3>1, <3>2
  <2>2. PlaceTypes
    BY DEF PlaceTypes, MainPcs, CallPcs, ArmedPcs, RecvPcs, ListenPcs
  <2>3. QueueTypes /\ MessageTypes
    BY NewElements, EmptySeq DEF QueueTypes, MessageTypes
  <2>4. QED
    BY <2>1, <2>2, <2>3, TypeSplit
<1>2. SizeInv /\ AnswerInv /\ SaidInv
  BY EmptySeq DEF SizeInv, AnswerInv, SaidInv
<1>3. InboxInv /\ LinkInv /\ StepInv
  <2>1. Len(inbox) = 0 /\ 0 % 2 = 0
    OBVIOUS
  <2>2. QED
    BY <2>1 DEF InboxInv, Pending, LinkInv, StepInv, Alternate, HalfSent
<1>4. FlowInv
  <2>1. Flow = <<>> /\ Len(<<>>) = 0 /\ 0 % 2 = 0
    BY DEF Flow
  <2>2. QED
    BY <2>1 DEF FlowInv, Ordered
<1>5. ReceiverEndsForCause /\ TellInv /\ ReconnectIsToldFirst
  BY DEF ReceiverEndsForCause, TellInv, ReconnectIsToldFirst
<1>6. QED
  BY <1>1, <1>2, <1>3, <1>4, <1>5 DEF IInv

\* The inductive invariant holds in every reachable state.
THEOREM Invariance == Spec => []IInv
<1>1. IInv /\ [Next]_vars => IInv'
  BY TypeStep, SizeStep, AnswerStep, SaidStep, InboxStep, LinkStep, StepStep,
     FlowStep, CauseStep, TellStep DEF IInv
<1>2. QED
  BY InitHolds, <1>1, PTL DEF Spec

\* The state of the client library is of its type.
THEOREM TypeCorrect == Spec => []TypeOK
<1>1. IInv => TypeOK
  BY DEF IInv
<1>2. QED
  BY Invariance, <1>1, PTL

\* The commands that are on their way on one connection are whole ones, one
\* after another, unless a command was cut (send_command, opc_connect).
THEOREM CommandsStayInStep == Spec => []CommandsInStep
<1>1. IInv => CommandsInStep
  BY DEF IInv, StepInv, Alternate, CommandsInStep
<1>2. QED
  BY Invariance, <1>1, PTL

\* The receive thread gives up only for a reason (run_receiver).
THEOREM ReceiverHasCause == Spec => []ReceiverEndsForCause
<1>1. IInv => ReceiverEndsForCause
  BY DEF IInv
<1>2. QED
  BY Invariance, <1>1, PTL

\* The listener is told of a connection before it hears what the server said
\* on it (notice_reconnect).
THEOREM ToldFirst == Spec => []ReconnectIsToldFirst
<1>1. IInv => ReconnectIsToldFirst
  BY DEF IInv
<1>2. QED
  BY Invariance, <1>1, PTL

\* Every step of the client library is a step of what it promises, or none.
LEMMA StepRefines ==
  ASSUME IInv, [Next]_vars
  PROVE  [Promise!Next]_(Promise!vars)
<1> USE TypeSplit DEF IInv, CountTypes, monitor, caller, cmdq, msgq, receiver,
   listener, server, net, CallPcs, ArmedPcs
<1> DEFINE active == mainPc \in CallPcs
           Still == UNCHANGED <<msg_idx, active, done, got>>
<1>1. Still => [Promise!Next]_(Promise!vars)
  BY DEF Promise!vars
<1>2. msg_idx' = msg_idx /\ done' = done /\ active /\ active' = FALSE /\ got' = 0
      => [Promise!Next]_(Promise!vars)
  BY DEF Promise!Next, Promise!Fail
<1>3. ASSUME UNCHANGED <<msg_idx, done, got>>, mainPc \notin CallPcs,
             mainPc' \notin CallPcs
      PROVE  [Promise!Next]_(Promise!vars)
  BY <1>1, <1>3
<1>4. ASSUME UNCHANGED <<msg_idx, done, got>>, mainPc \in CallPcs, mainPc' \in CallPcs
      PROVE  [Promise!Next]_(Promise!vars)
  BY <1>1, <1>4
<1>5. ASSUME UNCHANGED <<msg_idx, done>>, got' = 0, mainPc \in CallPcs,
             mainPc' \notin CallPcs
      PROVE  [Promise!Next]_(Promise!vars)
  BY <1>2, <1>5
<1>6. CASE Call
  <2>1. /\ msg_idx' = msg_idx + 1 /\ got' = 0 /\ UNCHANGED done
        /\ mainPc \notin CallPcs /\ mainPc' \in CallPcs
    BY <1>6 DEF Call
  <2>2. QED
    BY <2>1 DEF Promise!Next, Promise!Begin
<1>7. CASE SendLength
  BY <1>4, <1>5, <1>7 DEF SendLength, Return
<1>8. CASE SendPayload
  BY <1>4, <1>5, <1>8 DEF SendPayload, Return
<1>9. CASE CheckPlay
  BY <1>4, <1>5, <1>9 DEF CheckPlay, Return
<1>10. CASE DequeueConditional
  BY <1>4, <1>5, <1>10 DEF DequeueConditional, Return
<1>11. CASE Take
  <2>1. CASE node = msg_idx
    <3>1. /\ UNCHANGED <<msg_idx, done>> /\ got' = msg_idx /\ mainPc \in CallPcs
          /\ mainPc' \notin CallPcs
      BY <1>11, <2>1 DEF Take, Return
    <3>2. done = msg_idx
      BY <2>1 DEF AnswerInv
    <3>3. QED
      BY <3>1, <3>2 DEF Promise!Next, Promise!Succeed
  <2>2. CASE node # msg_idx
    BY <1>4, <1>11, <2>2 DEF Take
  <2>3. QED
    BY <2>1, <2>2
<1>12. CASE WokenToStop
  BY <1>5, <1>12 DEF WokenToStop, Return
<1>13. CASE Alarm
  BY <1>5, <1>13 DEF Alarm, Return
<1>14. CASE WakeSpuriously
  BY <1>4, <1>14 DEF WakeSpuriously
<1>15. CASE Quit \/ MainSetsMonitor \/ Leave \/ Join \/ Remove
  <2>1. /\ UNCHANGED <<msg_idx, done, got>> /\ mainPc \notin CallPcs
        /\ mainPc' \notin CallPcs
    BY <1>15 DEF Quit, MainSetsMonitor, Leave, Join, Remove
  <2>2. QED
    BY <1>3, <2>1
<1>16. CASE CountAnswer \/ RecvSetsMonitor
  <2>1. /\ UNCHANGED <<msg_idx, done, got>>
        /\ \/ mainPc' = mainPc
           \/ mainPc = "wait" /\ mainPc' = "woken"
    BY <1>16 DEF CountAnswer, RecvSetsMonitor, SignalCmd
  <2>2. QED
    BY <1>1, <1>4, <2>1
<1>17. CASE ServerExecutes
  <2>1. done' \in (done + 1)..msg_idx
    BY <1>17, Executed
  <2>2. UNCHANGED <<msg_idx, mainPc, got>>
    BY <1>17 DEF ServerExecutes
  <2>3. QED
    BY <2>1, <2>2 DEF Promise!Next, Promise!Execute
<1>18. CASE \/ RecvHead \/ ReceiveLength \/ ReceivePayload \/ ReceiveFails
            \/ LinkAnswer \/ HandleAnswer \/ HandleNotice \/ NoticeClosed
            \/ NoticeReconnected \/ FlushQueue \/ Reopen \/ Connect
            \/ ConnectFails \/ Listen \/ ListenerLate
            \/ ServerSpeaks \/ ServerSends \/ ServerHangsUp
  <2>1. UNCHANGED <<msg_idx, mainPc, done, got>>
    BY <1>18 DEF RecvHead, ReceiveLength, ReceiveFails, LinkAnswer,
       ReceivePayload, HandleAnswer, HandleNotice, NoticeClosed,
       NoticeReconnected, FlushQueue, Reopen, Connect, ConnectFails, Listen,
       ListenerLate, ServerSpeaks, ServerSends, ServerHangsUp
  <2>2. QED
    BY <1>1, <2>1
<1>19. CASE UNCHANGED vars
  BY <1>1, <1>19 DEF vars
<1>20. QED
  BY <1>6, <1>7, <1>8, <1>9, <1>10, <1>11, <1>12, <1>13, <1>14, <1>15, <1>16,
     <1>17, <1>18, <1>19 DEF Next, MainStep, RecvStep, ListenStep, ServerStep

\* OpClient implements Calls: a call returns the answer to its own command,
\* which was executed once and in its turn, or fails (get_command_response,
\* dequeue_conditional, opc_set_timeout).
THEOREM Implements == Spec => ImplementsCalls
<1>1. Init => Promise!Init
  BY DEF Init, Promise!Init, CallPcs, ArmedPcs
<1>2. IInv /\ [Next]_vars => [Promise!Next]_(Promise!vars)
  BY StepRefines
<1>3. QED
  BY <1>1, <1>2, Invariance, PTL DEF Spec, ImplementsCalls, Promise!Spec

-----------------------------------------------------------------------------
(* What follows from the promise.                                          *)

\* As long as the program has the answer to a command in its hand, this is the
\* last command it sent, the server has executed it and none after it, and no
\* other call is under way (get_command_response).
AnswerIsOwn ==
  got # 0 => got = msg_idx /\ done = msg_idx /\ mainPc \notin CallPcs

\* A command is executed after all that were executed before it had been sent,
\* never twice, and not before it was sent; and a call does not begin before
\* the one before has returned, whatever the alarm cut short (send_command,
\* opc_set_timeout).
ExecutesInTurn ==
  [][/\ done' # done => done < done' /\ done' <= msg_idx
     /\ msg_idx' # msg_idx => msg_idx' = msg_idx + 1 /\ mainPc \notin CallPcs]_vars

LEMMA OwnStep ==
  ASSUME IInv, AnswerIsOwn, [Next]_vars
  PROVE  AnswerIsOwn'
<1> DEFINE active == mainPc \in CallPcs
<1>1. done \in Nat /\ msg_idx \in Nat /\ done <= msg_idx
  BY DEF IInv, TypeOK, AnswerInv
<1>2. [Promise!Next]_(Promise!vars)
  BY StepRefines
<1>3. CASE Promise!Begin
  BY <1>3 DEF AnswerIsOwn, Promise!Begin
<1>4. CASE Promise!Execute
  BY <1>1, <1>4 DEF AnswerIsOwn, Promise!Execute
<1>5. CASE Promise!Succeed
  BY <1>5 DEF AnswerIsOwn, Promise!Succeed
<1>6. CASE Promise!Fail
  BY <1>6 DEF AnswerIsOwn, Promise!Fail
<1>7. CASE UNCHANGED Promise!vars
  BY <1>7 DEF AnswerIsOwn, Promise!vars
<1> QED
  BY <1>2, <1>3, <1>4, <1>5, <1>6, <1>7 DEF Promise!Next

\* The answer a call returned is the answer to its own command, and is not out
\* of date until the next call (get_command_response).
THEOREM OwnAnswer == Spec => []AnswerIsOwn
<1>1. Init => AnswerIsOwn
  BY DEF Init, AnswerIsOwn
<1>2. IInv /\ AnswerIsOwn /\ [Next]_vars => AnswerIsOwn'
  BY OwnStep
<1> QED
  BY Invariance, <1>1, <1>2, PTL DEF Spec

\* Commands are executed at most once, in the order in which they were sent
\* (send_command, opc_set_timeout).
THEOREM ExecutedInTurn == Spec => ExecutesInTurn
<1>1. ASSUME IInv, [Next]_vars
      PROVE  [/\ done' # done => done < done' /\ done' <= msg_idx
              /\ msg_idx' # msg_idx =>
                   msg_idx' = msg_idx + 1 /\ mainPc \notin CallPcs]_vars
  <2>1. done \in Nat /\ msg_idx \in Nat
    BY <1>1 DEF IInv, TypeOK
  <2>2. [Promise!Next]_(Promise!vars)
    BY <1>1, StepRefines
  <2>3. CASE Promise!Begin
    BY <2>3 DEF Promise!Begin
  <2>4. CASE Promise!Execute
    BY <2>1, <2>4 DEF Promise!Execute
  <2>5. CASE Promise!Succeed \/ Promise!Fail \/ UNCHANGED Promise!vars
    BY <2>5 DEF Promise!Succeed, Promise!Fail, Promise!vars
  <2> QED
    BY <2>2, <2>3, <2>4, <2>5 DEF Promise!Next
<1> QED
  BY Invariance, <1>1, PTL DEF Spec, ExecutesInTurn

-----------------------------------------------------------------------------
(* The queues.                                                             *)

\* An answer does not lie in the queue while the caller sleeps on it, unless
\* enqueue is about to wake the caller, or an alarm once jumped out of
\* pthread_cond_wait: the wait that was left then may have got the signal
\* (dequeue_conditional, enqueue, opc_set_timeout).
AnswerWakesCaller ==
  mainPc = "wait" => cmdQueue = <<>> \/ recvPc = "count" \/ left

\* No queue grows beyond its limit by more than the node that is linked after
\* the limit was tested, and, as long as no alarm freed the mutex of cmd_queue
\* inside enqueue, its size is no less than its length, however often an alarm
\* jumped out of a call between the two (enqueue, opc_set_timeout).
QueuesAreBounded ==
  /\ ~freed => Len(cmdQueue) <= QUEUE_SIZE + 1 /\ cmdSize <= QUEUE_SIZE + 1
  /\ Len(msgQueue) <= QUEUE_SIZE + 1

BoundInv ==
  /\ ~freed => IF recvPc \in {"link", "count"} THEN cmdSize <= QUEUE_SIZE
               ELSE cmdSize <= QUEUE_SIZE + 1
  /\ Len(msgQueue) <= QUEUE_SIZE + 1

LEMMA WakesStep ==
  ASSUME IInv, AnswerWakesCaller, [Next]_vars
  PROVE  AnswerWakesCaller'
<1> USE DEF AnswerWakesCaller, monitor, caller, cmdq, msgq, receiver, listener,
   server, net
<1>1. CASE DequeueConditional
  BY <1>1 DEF DequeueConditional, Return
<1>2. CASE LinkAnswer \/ CountAnswer \/ RecvSetsMonitor
  BY <1>2 DEF LinkAnswer, CountAnswer, RecvSetsMonitor, SignalCmd, Goto
<1>3. CASE Alarm
  BY <1>3 DEF Alarm, Return
<1>4. CASE \/ Call \/ Quit \/ SendLength \/ SendPayload \/ CheckPlay \/ Take
           \/ WokenToStop \/ MainSetsMonitor \/ Leave \/ Join \/ Remove
           \/ WakeSpuriously
  BY <1>4 DEF Call, Quit, SendLength, SendPayload, CheckPlay, Take,
     WokenToStop, MainSetsMonitor, Leave, Join, Remove, WakeSpuriously, Return
<1>5. CASE \/ RecvHead \/ ReceiveLength \/ ReceivePayload \/ ReceiveFails
           \/ HandleAnswer \/ HandleNotice \/ NoticeClosed \/ NoticeReconnected
           \/ FlushQueue \/ Reopen \/ Connect \/ ConnectFails \/ Listen
           \/ ListenerLate \/ ServerExecutes \/ ServerSpeaks
           \/ ServerSends \/ ServerHangsUp \/ UNCHANGED vars
  <2>1. UNCHANGED <<mainPc, cmdQueue, left>> /\ (recvPc = "count" => recvPc' = "count")
    BY <1>5 DEF RecvHead, ReceiveLength, ReceiveFails, ReceivePayload,
       HandleAnswer, HandleNotice, NoticeClosed, NoticeReconnected, FlushQueue,
       Reopen, Connect, ConnectFails, Listen, ListenerLate, ServerExecutes,
       ServerSpeaks, ServerSends, ServerHangsUp, vars
  <2> QED
    BY <2>1
<1> QED
  BY <1>1, <1>2, <1>3, <1>4, <1>5 DEF Next, MainStep, RecvStep, ListenStep,
     ServerStep

\* A caller that waits waits for something that is not there yet, or that
\* enqueue is about to tell it of, unless a wait was left before (enqueue).
THEOREM AnswerIsHeard == Spec => []AnswerWakesCaller
<1>1. Init => AnswerWakesCaller
  BY DEF Init, AnswerWakesCaller
<1>2. IInv /\ AnswerWakesCaller /\ [Next]_vars => AnswerWakesCaller'
  BY WakesStep
<1> QED
  BY Invariance, <1>1, <1>2, PTL DEF Spec

LEMMA BoundStep ==
  ASSUME IInv, BoundInv, [Next]_vars
  PROVE  BoundInv'
<1> USE BoundAssumption DEF monitor, caller, cmdq, msgq, receiver, listener,
   server, net
<1>0. /\ cmdSize \in Int /\ (~freed => cmdSize \in Nat) /\ Len(msgQueue) \in Nat
      /\ \A m \in Messages : Len(Append(msgQueue, m)) = Len(msgQueue) + 1
  <2>1. cmdSize \in Int /\ (~freed => cmdSize \in Nat) /\ TypeOK
    BY DEF IInv, TypeOK
  <2> QED
    BY <2>1, QueuedNotices, Put
<1>1. ASSUME NEW m \in Messages, NEW full \in RecvPcs \ {"link", "count"},
             Enqueue(m, full)
      PROVE  /\ Len(msgQueue') <= QUEUE_SIZE + 1 /\ recvPc' \notin {"link", "count"}
  BY <1>0, <1>1 DEF Enqueue, Goto, BoundInv
<1>2. CASE DequeueConditional
  <2>1. cmdQueue # <<>> => Len(cmdQueue) > 0
    BY QueuedAnswers DEF IInv
  <2>2. /\ UNCHANGED <<recvPc, msgQueue, freed>>
        /\ cmdSize' \in {cmdSize, cmdSize - 1}
    BY <1>2 DEF DequeueConditional
  <2> QED
    BY <1>0, <2>2 DEF BoundInv
<1>3. CASE HandleAnswer
  BY <1>0, <1>3 DEF HandleAnswer, CmdFull, Goto, BoundInv
<1>4. CASE LinkAnswer \/ CountAnswer
  <2>1. CASE LinkAnswer
    BY <1>0, <2>1 DEF LinkAnswer, Goto, BoundInv
  <2>2. CASE CountAnswer
    <3>1. ~freed => cmdSize' \in {1, cmdSize + 1}
      BY <2>2 DEF CountAnswer, Counted, IInv, SizeInv
    <3>2. /\ recvPc = "count" /\ recvPc' = "head"
          /\ UNCHANGED <<msgQueue, freed>>
      BY <2>2 DEF CountAnswer, Goto
    <3> QED
      BY <1>0, <3>1, <3>2 DEF BoundInv
  <2> QED
    BY <1>4, <2>1, <2>2
<1>5. CASE HandleNotice
  <2>1. UNCHANGED <<cmdSize, freed>> /\ msg \in Messages
    BY <1>5 DEF HandleNotice, IInv, TypeOK
  <2>2. CASE msg.kind = "toomany"
    BY <1>5, <2>1, <2>2 DEF HandleNotice, Goto, BoundInv
  <2>3. CASE msg.kind # "toomany"
    <3>1. Enqueue(msg, "head") /\ "head" \in RecvPcs \ {"link", "count"}
      BY <1>5, <2>3 DEF HandleNotice, RecvPcs
    <3> QED
      BY <1>0, <1>1, <2>1, <3>1 DEF BoundInv
  <2> QED
    BY <2>2, <2>3
<1>6. CASE NoticeClosed \/ NoticeReconnected
  <2>1. epoch \in Nat
    BY DEF IInv, TypeOK
  <2>2. Closed(epoch) \in Messages /\ Reconnected(epoch) \in Messages
    BY <2>1, NewElements
  <2>3. \/ Enqueue(Closed(epoch), "flush")
        \/ Enqueue(Reconnected(epoch), "flush_connected")
    BY <1>6 DEF NoticeClosed, NoticeReconnected
  <2>4. {"flush", "flush_connected"} \subseteq RecvPcs \ {"link", "count"}
    BY DEF RecvPcs
  <2>5. UNCHANGED <<cmdSize, freed>>
    BY <1>6 DEF NoticeClosed, NoticeReconnected
  <2> QED
    BY <1>0, <1>1, <2>2, <2>3, <2>4, <2>5 DEF BoundInv
<1>7. CASE FlushQueue
  <2>1. /\ msgQueue' = <<>> /\ UNCHANGED <<cmdSize, freed>>
        /\ recvPc' \notin {"link", "count"}
    BY <1>7 DEF FlushQueue, Goto
  <2>2. Len(<<>>) = 0
    OBVIOUS
  <2> QED
    BY <1>0, <2>1, <2>2 DEF BoundInv
<1>8. CASE Listen
  <2>1. Len(msgQueue') = Len(msgQueue) - 1
    BY <1>8, QueuedNotices, Taken DEF Listen, IInv
  <2>2. UNCHANGED <<cmdSize, freed, recvPc>>
    BY <1>8 DEF Listen
  <2> QED
    BY <1>0, <2>1, <2>2 DEF BoundInv
<1>9. CASE \/ RecvHead \/ ReceiveLength \/ ReceivePayload \/ Reopen \/ Connect
           \/ ConnectFails \/ ReceiveFails \/ RecvSetsMonitor
  <2>1. UNCHANGED <<cmdSize, freed, msgQueue>> /\ recvPc' \notin {"link", "count"}
    BY <1>9 DEF RecvHead, ReceiveLength, ReceivePayload, Reopen, Connect,
       ConnectFails, ReceiveFails, RecvSetsMonitor, Goto
  <2> QED
    BY <1>0, <2>1 DEF BoundInv
<1>10. CASE \/ Call \/ Quit \/ SendLength \/ SendPayload \/ CheckPlay \/ Take
            \/ WokenToStop \/ MainSetsMonitor \/ Leave \/ Join
            \/ Remove \/ WakeSpuriously
            \/ ListenerLate \/ ServerExecutes \/ ServerSpeaks \/ ServerSends
            \/ ServerHangsUp \/ UNCHANGED vars
  <2>1. UNCHANGED <<cmdSize, msgQueue, recvPc, freed>>
    BY <1>10 DEF Call, Quit, SendLength, SendPayload, CheckPlay, Take,
       WokenToStop, MainSetsMonitor, Leave, Join, Remove, WakeSpuriously,
       ListenerLate, ServerExecutes, ServerSpeaks, ServerSends, ServerHangsUp,
       Return, vars
  <2> QED
    BY <2>1 DEF BoundInv
<1>11. CASE Alarm
  <2>1. UNCHANGED <<cmdSize, msgQueue, recvPc>> /\ (~freed' => ~freed)
    BY <1>11 DEF Alarm, IInv, TypeOK
  <2> QED
    BY <2>1 DEF BoundInv
<1> QED
  BY <1>2, <1>3, <1>4, <1>5, <1>6, <1>7, <1>8, <1>9, <1>10, <1>11 DEF Next,
     MainStep, RecvStep, ListenStep, ServerStep

\* The queues keep to their limit, and the one node beyond it that the test in
\* enqueue admits (enqueue, dequeue_conditional).
THEOREM BoundedQueues == Spec => []QueuesAreBounded
<1>1. Init => BoundInv
  <2>1. Len(<<>>) = 0
    OBVIOUS
  <2> QED
    BY <2>1, BoundAssumption DEF Init, BoundInv
<1>2. IInv /\ BoundInv /\ [Next]_vars => BoundInv'
  BY BoundStep
<1>3. IInv /\ BoundInv => QueuesAreBounded
  <2> SUFFICES ASSUME IInv, BoundInv
               PROVE  QueuesAreBounded
    OBVIOUS
  <2>1. /\ cmdSize \in Int /\ Len(cmdQueue) \in Nat
        /\ ~freed => Len(cmdQueue) <= IF recvPc = "count" THEN cmdSize + 1
                                      ELSE cmdSize
    BY QueuedAnswers DEF IInv, SizeInv, TypeOK
  <2> QED
    BY <2>1, BoundAssumption DEF BoundInv, QueuesAreBounded
<1> QED
  BY Invariance, <1>1, <1>2, <1>3, PTL DEF Spec

-----------------------------------------------------------------------------
(* The order of the answers.                                               *)

\* The answers in cmd_queue are those to earlier commands first, each of them
\* there once, and later than the one in the hand of the caller: what a call
\* skips as out of date lies before its own answer, and no answer is taken twice
\* (get_command_response, dequeue_conditional).
AnswersInOrder ==
  /\ \A i, j \in 1..Len(cmdQueue) : i < j => cmdQueue[i] < cmdQueue[j]
  /\ \A i \in 1..Len(cmdQueue) : node < cmdQueue[i]

\* An answer is taken for one when its payload comes.
IsAnswer(p) == p.part = "payload" /\ p.msg.kind = "answer"
Rising(q) ==
  \A i, j \in 1..Len(q) :
    i < j /\ IsAnswer(q[i]) /\ IsAnswer(q[j]) => q[i].msg.num < q[j].msg.num
Above(n, q) == \A i \in 1..Len(q) : IsAnswer(q[i]) => n < q[i].msg.num
Below(n, q) == \A i \in 1..Len(q) : IsAnswer(q[i]) => q[i].msg.num < n
Coming(n) == Above(n, wire) /\ Above(n, outbox)

\* The answers on the wire, and those the server has not sent yet, are in order.
WireInv ==
  /\ Rising(wire) /\ Rising(outbox)
  /\ \A i \in 1..Len(wire) : IsAnswer(wire[i]) => Above(wire[i].msg.num, outbox)

\* What the client has got of answers is behind those that come.
Handled == recvPc \in {"handle", "link"} /\ msg.kind = "answer"
GotInv ==
  /\ Coming(node)
  /\ \A i \in 1..Len(cmdQueue) : Coming(cmdQueue[i])
  /\ Handled => Coming(msg.num)
  /\ Handled => /\ node < msg.num
                /\ \A i \in 1..Len(cmdQueue) : cmdQueue[i] < msg.num

RiseInv == WireInv /\ GotInv /\ AnswersInOrder

LEMMA PartNumber ==
  \A p \in MessageParts : p.msg \in Messages /\ p.msg.num \in Nat
BY DEF MessageParts, Messages

\* A part at the end, that of an answer above all the others if it is one.
LEMMA RisingPut ==
  ASSUME NEW q \in Seq(MessageParts), NEW e \in MessageParts, Rising(q),
         IsAnswer(e) => Below(e.msg.num, q)
  PROVE  Rising(Append(q, e))
<1>1. /\ Len(q) \in Nat /\ Len(Append(q, e)) = Len(q) + 1
      /\ \A i \in 1..Len(q) : Append(q, e)[i] = q[i]
      /\ Append(q, e)[Len(q) + 1] = e
  BY Put
<1> SUFFICES ASSUME NEW i \in 1..(Len(q) + 1), NEW j \in 1..(Len(q) + 1), i < j,
                    IsAnswer(Append(q, e)[i]), IsAnswer(Append(q, e)[j])
             PROVE  Append(q, e)[i].msg.num < Append(q, e)[j].msg.num
  BY <1>1 DEF Rising
<1>2. i \in 1..Len(q)
  BY <1>1
<1>3. CASE j \in 1..Len(q)
  BY <1>1, <1>2, <1>3 DEF Rising
<1>4. CASE j = Len(q) + 1
  BY <1>1, <1>2, <1>4 DEF Below
<1> QED
  BY <1>1, <1>3, <1>4

LEMMA AbovePut ==
  ASSUME NEW q \in Seq(MessageParts), NEW e \in MessageParts, NEW n, Above(n, q),
         IsAnswer(e) => n < e.msg.num
  PROVE  Above(n, Append(q, e))
<1>1. /\ Len(q) \in Nat /\ Len(Append(q, e)) = Len(q) + 1
      /\ \A i \in 1..Len(q) : Append(q, e)[i] = q[i]
      /\ Append(q, e)[Len(q) + 1] = e
  BY Put
<1> SUFFICES ASSUME NEW i \in 1..(Len(q) + 1), IsAnswer(Append(q, e)[i])
             PROVE  n < Append(q, e)[i].msg.num
  BY <1>1 DEF Above
<1>2. i \in 1..Len(q) \/ i = Len(q) + 1
  BY <1>1
<1> QED
  BY <1>1, <1>2 DEF Above

\* Without its first part.
LEMMA RisingDrop ==
  ASSUME NEW q \in Seq(MessageParts), q # <<>>, Rising(q)
  PROVE  /\ Rising(Tail(q))
         /\ IsAnswer(Head(q)) => Above(Head(q).msg.num, Tail(q))
         /\ \A n : Above(n, q) => Above(n, Tail(q))
         /\ \A n : Above(n, q) /\ IsAnswer(Head(q)) => n < Head(q).msg.num
<1>1. /\ Len(q) \in Nat /\ Len(q) > 0 /\ Head(q) = q[1]
      /\ Len(Tail(q)) = Len(q) - 1
      /\ \A i \in 1..Len(Tail(q)) : i + 1 \in 1..Len(q) /\ Tail(q)[i] = q[i + 1]
  BY Taken
<1>2. ASSUME NEW i \in 1..Len(Tail(q)), NEW j \in 1..Len(Tail(q)), i < j,
             IsAnswer(Tail(q)[i]), IsAnswer(Tail(q)[j])
      PROVE  Tail(q)[i].msg.num < Tail(q)[j].msg.num
  <2>1. /\ i + 1 \in 1..Len(q) /\ j + 1 \in 1..Len(q) /\ i + 1 < j + 1
        /\ Tail(q)[i] = q[i + 1] /\ Tail(q)[j] = q[j + 1]
    BY <1>1, <1>2
  <2> QED
    BY <1>2, <2>1 DEF Rising
<1>3. ASSUME NEW i \in 1..Len(Tail(q)), IsAnswer(Head(q)), IsAnswer(Tail(q)[i])
      PROVE  Head(q).msg.num < Tail(q)[i].msg.num
  <2>1. /\ 1 \in 1..Len(q) /\ i + 1 \in 1..Len(q) /\ 1 < i + 1
        /\ Tail(q)[i] = q[i + 1]
    BY <1>1
  <2> QED
    BY <1>1, <1>3, <2>1 DEF Rising
<1>4. ASSUME NEW n, Above(n, q)
      PROVE  /\ Above(n, Tail(q))
             /\ IsAnswer(Head(q)) => n < Head(q).msg.num
  <2>1. 1 \in 1..Len(q)
    BY <1>1
  <2> QED
    BY <1>1, <1>4, <2>1 DEF Above
<1> QED
  BY <1>2, <1>3, <1>4 DEF Rising, Above

LEMMA RisingNone ==
  /\ Rising(<<>>) /\ \A n : Above(n, <<>>) /\ Below(n, <<>>)
  /\ \A m : m.kind # "answer" =>
       /\ Rising(Parts(m)) /\ \A n : Above(n, Parts(m))
BY DEF Rising, Above, Below, Parts, IsAnswer

\* What the server says when it has executed a command.
LEMMA RisingSaid ==
  ASSUME NEW k \in Nat, NEW e \in Nat, NEW q,
         \/ q = Parts(Answer(k))
         \/ q = <<Parts(Answer(k))[1], Parts(Broadcast(e))[1],
                  Parts(Answer(k))[2], Parts(Broadcast(e))[2]>>
  PROVE  Rising(q) /\ \A n \in Nat : n < k => Above(n, q)
<1> DEFINE A(p) == [part |-> p, msg |-> Answer(k)]
           B(p) == [part |-> p, msg |-> Broadcast(e)]
<1>1. /\ IsAnswer(A("payload")) /\ A("payload").msg.num = k
      /\ ~IsAnswer(A("length")) /\ ~IsAnswer(B("length")) /\ ~IsAnswer(B("payload"))
  BY DEF IsAnswer, Answer, Broadcast
<1>2. CASE q = Parts(Answer(k))
  <2>1. q = <<A("length"), A("payload")>>
    BY <1>2 DEF Parts
  <2> HIDE DEF A
  <2>2. /\ Len(q) = 2 /\ q[1] = A("length") /\ q[2] = A("payload")
        /\ \A i \in 1..Len(q) : IsAnswer(q[i]) => i = 2
    BY <1>1, <2>1
  <2> QED
    BY <1>1, <2>2 DEF Rising, Above
<1>3. CASE q = <<Parts(Answer(k))[1], Parts(Broadcast(e))[1],
                 Parts(Answer(k))[2], Parts(Broadcast(e))[2]>>
  <2>1. q = <<A("length"), B("length"), A("payload"), B("payload")>>
    BY <1>3 DEF Parts
  <2> HIDE DEF A, B
  <2>2. /\ Len(q) = 4 /\ q[3] = A("payload")
        /\ \A i \in 1..Len(q) : IsAnswer(q[i]) => i = 3
    BY <1>1, <2>1
  <2> QED
    BY <1>1, <2>2 DEF Rising, Above
<1> QED
  BY <1>2, <1>3

\* Answers that come, or are in the hand of the receive thread, are to commands
\* that were executed.
LEMMA GotIsExecuted ==
  ASSUME IInv
  PROVE  /\ \A i \in 1..Len(wire) :
              IsAnswer(wire[i]) => wire[i].msg.num \in 1..done
         /\ \A i \in 1..Len(outbox) :
              IsAnswer(outbox[i]) => outbox[i].msg.num \in 1..done
         /\ Handled => msg.num \in 1..done
         /\ Len(cmdQueue) \in Nat /\ \A i \in 1..Len(cmdQueue) : cmdQueue[i] \in 1..done
         /\ node \in 0..done /\ done \in Nat /\ Coming(0)
<1> USE DEF IInv
<1>1. done \in Nat /\ node \in Nat /\ node <= done
  BY DEF TypeOK, AnswerInv
<1>2. \A p \in SaidParts(done, epoch) : IsAnswer(p) => p.msg.num \in 1..done
  BY DEF SaidParts, Said, IsAnswer
<1>3. \A i \in 1..Len(wire) : wire[i] \in SaidParts(done, epoch)
  BY DEF SaidInv
<1>4. \A i \in 1..Len(outbox) : outbox[i] \in SaidParts(done, epoch)
  BY DEF SaidInv
<1>5. Handled => msg.num \in 1..done
  BY DEF Handled, SaidInv, Said
<1>6. cmdQueue \in Seq(1..done)
  BY DEF AnswerInv
<1>7. /\ Len(cmdQueue) \in Nat
      /\ \A i \in 1..Len(cmdQueue) : cmdQueue[i] \in 1..done
  <2> DEFINE S == 1..done
  <2>1. cmdQueue \in Seq(S)
    BY <1>6
  <2> HIDE DEF S
  <2>2. Len(cmdQueue) \in Nat /\ \A i \in 1..Len(cmdQueue) : cmdQueue[i] \in S
    BY <2>1
  <2> QED
    BY <2>2 DEF S
<1>8. /\ \A i \in 1..Len(wire) : IsAnswer(wire[i]) => wire[i].msg.num \in 1..done
      /\ \A i \in 1..Len(outbox) : IsAnswer(outbox[i]) => outbox[i].msg.num \in 1..done
  BY <1>2, <1>3, <1>4
<1>9. Coming(0)
  BY <1>1, <1>8 DEF Coming, Above
<1> QED
  BY <1>1, <1>5, <1>7, <1>8, <1>9

\* What a step does to what is on the way.
WireMoves ==
  \/ UNCHANGED <<wire, outbox>>
  \/ wire # <<>> /\ wire' = Tail(wire) /\ UNCHANGED outbox
  \/ outbox # <<>> /\ wire' = Append(wire, Head(outbox)) /\ outbox' = Tail(outbox)
  \/ UNCHANGED wire /\ \A n : Above(n, outbox') /\ Rising(outbox')
  \/ wire' = <<>> /\ \A n : Above(n, outbox') /\ Rising(outbox')
  \/ /\ UNCHANGED wire /\ Rising(outbox')
     /\ \A n \in Nat : n <= done => Above(n, outbox')

LEMMA OnlyWireMoves ==
  ASSUME IInv, [Next]_vars
  PROVE  WireMoves
<1> USE DEF WireMoves, monitor, caller, cmdq, msgq, receiver, listener, server, net
<1>1. CASE ReceiveLength \/ ReceivePayload
  <2>1. \/ UNCHANGED <<wire, outbox>>
        \/ wire # <<>> /\ wire' = Tail(wire) /\ UNCHANGED outbox
    BY <1>1 DEF ReceiveLength, ReceivePayload
  <2> QED
    BY <2>1
<1>2. CASE Connect
  <2>1. wire' = <<>> /\ outbox' \in {<<>>, Parts(TooMany(epoch'))}
    BY <1>2 DEF Connect
  <2>2. TooMany(epoch').kind # "answer"
    BY DEF TooMany
  <2>3. \A n : Above(n, outbox') /\ Rising(outbox')
    BY <2>1, <2>2, RisingNone
  <2> QED
    BY <2>1, <2>3
<1>3. CASE ServerExecutes
  <2>1. /\ done' \in Nat /\ done < done' /\ epoch \in Nat /\ done \in Nat
    BY <1>3, Executed DEF IInv, TypeOK
  <2>2. /\ UNCHANGED wire
        /\ \/ outbox' = Parts(Answer(done'))
           \/ outbox' = <<Parts(Answer(done'))[1], Parts(Broadcast(epoch))[1],
                          Parts(Answer(done'))[2], Parts(Broadcast(epoch))[2]>>
    BY <1>3 DEF ServerExecutes
  <2>3. Rising(outbox') /\ \A n \in Nat : n < done' => Above(n, outbox')
    BY <2>1, <2>2, RisingSaid
  <2>4. \A n \in Nat : n <= done => n < done'
    BY <2>1
  <2>5. \A n \in Nat : n <= done => Above(n, outbox')
    BY <2>3, <2>4
  <2> QED
    BY <2>2, <2>3, <2>5
<1>4. CASE ServerSpeaks
  <2>1. UNCHANGED wire /\ outbox' = Parts(Broadcast(epoch))
    BY <1>4 DEF ServerSpeaks
  <2>2. Broadcast(epoch).kind # "answer"
    BY DEF Broadcast
  <2>3. \A n : Above(n, outbox') /\ Rising(outbox')
    BY <2>1, <2>2, RisingNone
  <2> QED
    BY <2>1, <2>3
<1>5. CASE ServerSends
  BY <1>5 DEF ServerSends
<1>6. CASE ServerHangsUp
  <2>1. UNCHANGED wire /\ outbox' = <<>>
    BY <1>6 DEF ServerHangsUp
  <2>2. \A n : Above(n, outbox') /\ Rising(outbox')
    BY <2>1, RisingNone
  <2> QED
    BY <2>1, <2>2
<1>7. CASE \/ Call \/ Quit \/ SendLength \/ SendPayload \/ CheckPlay
           \/ DequeueConditional \/ Take \/ WokenToStop \/ MainSetsMonitor
           \/ Leave \/ Join \/ Remove \/ WakeSpuriously \/ Alarm
           \/ UNCHANGED vars
  BY <1>7 DEF Call, Quit, SendLength, SendPayload, CheckPlay,
     DequeueConditional, Take, WokenToStop, MainSetsMonitor, Leave, Join,
     Remove, WakeSpuriously, Alarm, Return, vars
<1>8. CASE \/ RecvHead \/ HandleAnswer \/ LinkAnswer \/ CountAnswer
           \/ ReceiveFails \/ HandleNotice \/ NoticeClosed \/ NoticeReconnected
           \/ FlushQueue \/ Reopen \/ ConnectFails \/ RecvSetsMonitor \/ Listen
           \/ ListenerLate
  BY <1>8 DEF RecvHead, HandleAnswer, LinkAnswer, CountAnswer, ReceiveFails,
     HandleNotice, NoticeClosed, NoticeReconnected, FlushQueue, Reopen,
     ConnectFails, RecvSetsMonitor, Listen, ListenerLate
<1> QED
  BY <1>1, <1>2, <1>3, <1>4, <1>5, <1>6, <1>7, <1>8 DEF Next, MainStep,
     RecvStep, ListenStep, ServerStep

LEMMA WireStep ==
  ASSUME IInv, WireInv, [Next]_vars
  PROVE  /\ WireInv'
         /\ \A n \in Nat : n <= done /\ Coming(n)
                           => Above(n, wire') /\ Above(n, outbox')
<1>0. /\ wire \in Seq(MessageParts) /\ outbox \in Seq(MessageParts)
      /\ Len(wire) \in Nat
      /\ \A i \in 1..Len(wire) : IsAnswer(wire[i]) => wire[i].msg.num \in 1..done
      /\ WireMoves
  BY OnlyWireMoves, SentMessages, GotIsExecuted DEF IInv
<1> DEFINE Cross(w, o) ==
             \A i \in 1..Len(w) : IsAnswer(w[i]) => Above(w[i].msg.num, o)
           Goal == /\ Rising(wire') /\ Rising(outbox') /\ Cross(wire', outbox')
                   /\ \A n \in Nat : n <= done /\ Coming(n)
                                     => Above(n, wire') /\ Above(n, outbox')
<1>1. Rising(wire) /\ Rising(outbox) /\ Cross(wire, outbox)
  BY DEF WireInv
<1> SUFFICES Goal
  BY DEF WireInv
<1>2. CASE UNCHANGED <<wire, outbox>>
  BY <1>1, <1>2 DEF Coming
<1>3. CASE wire # <<>> /\ wire' = Tail(wire) /\ UNCHANGED outbox
  <2>1. Rising(wire') /\ \A n : Above(n, wire) => Above(n, wire')
    BY <1>0, <1>1, <1>3, RisingDrop
  <2>2. Cross(wire', outbox')
    <3>1. \A i \in 1..Len(wire') : i + 1 \in 1..Len(wire) /\ wire'[i] = wire[i + 1]
      BY <1>0, <1>3, Taken
    <3> QED
      BY <1>1, <1>3, <3>1
  <2> QED
    BY <1>1, <1>3, <2>1, <2>2 DEF Coming
<1>4. CASE outbox # <<>> /\ wire' = Append(wire, Head(outbox)) /\ outbox' = Tail(outbox)
  <2> DEFINE h == Head(outbox)
  <2>1. h \in MessageParts
    BY <1>0, <1>4, Taken
  <2>2. /\ Rising(outbox')
        /\ IsAnswer(h) => Above(h.msg.num, outbox')
        /\ \A n : Above(n, outbox) => Above(n, outbox')
        /\ \A n : Above(n, outbox) /\ IsAnswer(h) => n < h.msg.num
    BY <1>0, <1>1, <1>4, RisingDrop
  <2>3. /\ Len(wire') = Len(wire) + 1 /\ wire'[Len(wire) + 1] = h
        /\ \A i \in 1..Len(wire) : wire'[i] = wire[i]
    BY <1>0, <1>4, <2>1, Put
  <2> HIDE DEF h
  <2>4. wire' = Append(wire, h)
    BY <1>4 DEF h
  <2>5. IsAnswer(h) => Below(h.msg.num, wire)
    BY <1>1, <2>2 DEF Below
  <2>6. Rising(wire')
    BY <1>0, <1>1, <2>1, <2>4, <2>5, RisingPut
  <2>7. \A n : Above(n, wire) /\ Above(n, outbox) => Above(n, wire')
    BY <1>0, <2>1, <2>2, <2>4, AbovePut
  <2>8. Cross(wire', outbox')
    <3> SUFFICES ASSUME NEW i \in 1..(Len(wire) + 1), IsAnswer(wire'[i])
                 PROVE  Above(wire'[i].msg.num, outbox')
      BY <2>3
    <3>1. CASE i \in 1..Len(wire)
      BY <1>1, <2>2, <2>3, <3>1
    <3>2. CASE i = Len(wire) + 1
      <4>1. wire'[i] = h
        BY <2>3, <3>2
      <4>2. IsAnswer(h)
        BY <4>1
      <4>3. Above(h.msg.num, outbox')
        BY <2>2, <4>2
      <4> QED
        BY <4>1, <4>3
    <3> QED
      BY <1>0, <3>1, <3>2
  <2> QED
    BY <2>2, <2>6, <2>7, <2>8 DEF Coming
<1>5. CASE UNCHANGED wire /\ \A n : Above(n, outbox') /\ Rising(outbox')
  BY <1>1, <1>5 DEF Coming
<1>6. CASE wire' = <<>> /\ \A n : Above(n, outbox') /\ Rising(outbox')
  <2>1. Rising(wire') /\ (\A n : Above(n, wire')) /\ Len(wire') = 0
    BY <1>6, RisingNone
  <2> QED
    BY <1>6, <2>1
<1>7. CASE /\ UNCHANGED wire /\ Rising(outbox')
           /\ \A n \in Nat : n <= done => Above(n, outbox')
  <2>1. done \in Nat
    BY DEF IInv, TypeOK
  <2>2. Cross(wire', outbox')
    BY <1>0, <1>7, <2>1
  <2> QED
    BY <1>1, <1>7, <2>2 DEF Coming
<1> QED
  BY <1>0, <1>2, <1>3, <1>4, <1>5, <1>6, <1>7 DEF WireMoves

\* What a step does to what the client has got: nothing, an answer comes, it is
\* linked, or the caller takes one, which may be lost to the alarm.
GotMoves ==
  LET Keeps == Handled' => Handled /\ msg' = msg IN
  \/ UNCHANGED <<node, cmdQueue>> /\ Keeps
  \/ /\ UNCHANGED <<node, cmdQueue, msg, outbox>>
     /\ wire # <<>> /\ Head(wire) = [part |-> "payload", msg |-> msg]
     /\ wire' = Tail(wire)
  \/ /\ Handled /\ ~Handled' /\ UNCHANGED <<node, wire, outbox>>
     /\ cmdQueue' \in {cmdQueue, <<msg.num>>, Append(cmdQueue, msg.num)}
  \/ node' = 0 /\ UNCHANGED cmdQueue /\ Keeps
  \/ /\ cmdQueue # <<>> /\ cmdQueue' = Tail(cmdQueue)
     /\ node' = 0 \/ node' = Head(cmdQueue)
     /\ Keeps

LEMMA OnlyGotMoves ==
  ASSUME IInv, [Next]_vars
  PROVE  GotMoves
<1> USE DEF GotMoves, Handled, monitor, caller, cmdq, msgq, receiver, listener,
   server, net
<1>1. CASE DequeueConditional
  BY <1>1 DEF DequeueConditional
<1>2. CASE Take \/ Alarm
  BY <1>2 DEF Take, Alarm, Return
<1>3. CASE ReceivePayload
  BY <1>3 DEF ReceivePayload, Goto
<1>4. CASE HandleAnswer
  BY <1>4 DEF HandleAnswer, Goto
<1>5. CASE LinkAnswer
  <2>1. msg.kind = "answer"
    BY <1>5 DEF LinkAnswer, IInv, SaidInv
  <2>2. /\ recvPc = "link" /\ recvPc' = "count" /\ UNCHANGED <<node, wire, outbox>>
        /\ cmdQueue' \in {cmdQueue, <<msg.num>>, Append(cmdQueue, msg.num)}
    BY <1>5 DEF LinkAnswer, Goto
  <2> QED
    BY <2>1, <2>2
<1>6. CASE \/ RecvHead \/ ReceiveLength \/ HandleNotice \/ NoticeClosed
           \/ NoticeReconnected \/ FlushQueue \/ Reopen \/ Connect
           \/ ConnectFails \/ ReceiveFails \/ CountAnswer \/ RecvSetsMonitor
  <2>1. /\ UNCHANGED <<node, cmdQueue>>
        /\ recvPc' \notin {"handle", "link"}
    BY <1>6 DEF RecvHead, ReceiveLength, HandleNotice, NoticeClosed,
       NoticeReconnected, FlushQueue, Reopen, Connect, ConnectFails,
       ReceiveFails, CountAnswer, RecvSetsMonitor, Enqueue, Goto
  <2> QED
    BY <2>1
<1>7. CASE \/ Call \/ Quit \/ SendLength \/ SendPayload \/ CheckPlay
           \/ WokenToStop \/ MainSetsMonitor \/ Leave \/ Join \/ Remove
           \/ WakeSpuriously \/ Listen \/ ListenerLate
           \/ ServerExecutes \/ ServerSpeaks \/ ServerSends \/ ServerHangsUp
           \/ UNCHANGED vars
  <2>1. UNCHANGED <<node, cmdQueue, recvPc, msg>>
    BY <1>7 DEF Call, Quit, SendLength, SendPayload, CheckPlay, WokenToStop,
       MainSetsMonitor, Leave, Join, Remove, WakeSpuriously, Listen,
       ListenerLate, ServerExecutes, ServerSpeaks, ServerSends, ServerHangsUp,
       Return, vars
  <2> QED
    BY <2>1
<1> QED
  BY <1>1, <1>2, <1>3, <1>4, <1>5, <1>6, <1>7 DEF Next, MainStep, RecvStep,
     ListenStep, ServerStep

LEMMA RiseStep ==
  ASSUME IInv, RiseInv, [Next]_vars
  PROVE  RiseInv'
<1> DEFINE Next1(n) == Above(n, wire') /\ Above(n, outbox')
           Got == /\ Next1(node')
                  /\ \A i \in 1..Len(cmdQueue') : Next1(cmdQueue'[i])
                  /\ Handled' => /\ Next1(msg'.num) /\ node' < msg'.num
                                 /\ \A i \in 1..Len(cmdQueue') : cmdQueue'[i] < msg'.num
           Order == /\ \A i, j \in 1..Len(cmdQueue') :
                         i < j => cmdQueue'[i] < cmdQueue'[j]
                    /\ \A i \in 1..Len(cmdQueue') : node' < cmdQueue'[i]
<1>1. /\ WireInv' /\ \A n \in Nat : n <= done /\ Coming(n) => Next1(n)
  BY WireStep DEF RiseInv
<1>2. Got /\ Order => RiseInv'
  BY <1>1 DEF RiseInv, GotInv, Coming, AnswersInOrder
<1> SUFFICES Got /\ Order
  BY <1>2
<1>3. /\ Handled => msg.num \in 1..done
      /\ Len(cmdQueue) \in Nat /\ \A i \in 1..Len(cmdQueue) : cmdQueue[i] \in 1..done
      /\ node \in 0..done /\ done \in Nat /\ Coming(0)
      /\ cmdQueue \in Seq(Nat)
  BY GotIsExecuted, QueuedAnswers DEF IInv
<1>4. /\ Coming(node) /\ \A i \in 1..Len(cmdQueue) : Coming(cmdQueue[i])
      /\ Handled => /\ Coming(msg.num) /\ node < msg.num
                    /\ \A i \in 1..Len(cmdQueue) : cmdQueue[i] < msg.num
      /\ \A i, j \in 1..Len(cmdQueue) : i < j => cmdQueue[i] < cmdQueue[j]
      /\ \A i \in 1..Len(cmdQueue) : node < cmdQueue[i]
  BY DEF RiseInv, GotInv, AnswersInOrder
<1> HIDE DEF Next1
<1>5. /\ Next1(0) /\ Next1(node) /\ \A i \in 1..Len(cmdQueue) : Next1(cmdQueue[i])
      /\ Handled => Next1(msg.num)
  BY <1>1, <1>3, <1>4
<1>6. CASE UNCHANGED <<node, cmdQueue>> /\ (Handled' => Handled /\ msg' = msg)
  BY <1>4, <1>5, <1>6
<1>7. CASE /\ UNCHANGED <<node, cmdQueue, msg, outbox>>
           /\ wire # <<>> /\ Head(wire) = [part |-> "payload", msg |-> msg]
           /\ wire' = Tail(wire)
  <2>1. ASSUME Handled'
        PROVE  IsAnswer(Head(wire)) /\ Head(wire).msg.num = msg.num
    BY <1>7, <2>1 DEF Handled, IsAnswer
  <2>2. /\ wire \in Seq(MessageParts) /\ Rising(wire) /\ Len(wire) \in Nat
        /\ Len(wire) > 0 /\ Head(wire) = wire[1]
    BY <1>7, SentMessages, Taken DEF IInv, RiseInv, WireInv
  <2>3. ASSUME Handled'
        PROVE  /\ Next1(msg.num) /\ node < msg.num
               /\ \A i \in 1..Len(cmdQueue) : cmdQueue[i] < msg.num
    <3>1. /\ Above(msg.num, Tail(wire))
          /\ \A n : Above(n, wire) => n < msg.num
      BY <1>7, <2>1, <2>2, <2>3, RisingDrop
    <3>2. Above(msg.num, outbox)
      <4>1. 1 \in 1..Len(wire) /\ IsAnswer(wire[1]) /\ wire[1].msg.num = msg.num
        BY <2>1, <2>2, <2>3
      <4> QED
        BY <4>1 DEF RiseInv, WireInv
    <3>3. Next1(msg.num)
      BY <1>7, <3>1, <3>2 DEF Next1
    <3> QED
      BY <1>4, <3>1, <3>3 DEF Coming
  <2> QED
    BY <1>4, <1>5, <1>7, <2>3
<1>8. CASE /\ Handled /\ ~Handled' /\ UNCHANGED <<node, wire, outbox>>
           /\ cmdQueue' \in {cmdQueue, <<msg.num>>, Append(cmdQueue, msg.num)}
  <2>1. msg.num \in Nat
    BY <1>3, <1>8
  <2>2. CASE cmdQueue' = cmdQueue
    BY <1>4, <1>5, <1>8, <2>2
  <2>3. CASE cmdQueue' = <<msg.num>>
    <3>1. Len(cmdQueue') = 1 /\ cmdQueue'[1] = msg.num
      BY <2>3
    <3> QED
      BY <1>4, <1>5, <1>8, <3>1
  <2>4. CASE cmdQueue' = Append(cmdQueue, msg.num)
    <3>1. /\ Len(cmdQueue') = Len(cmdQueue) + 1
          /\ cmdQueue'[Len(cmdQueue) + 1] = msg.num
          /\ \A i \in 1..Len(cmdQueue) : cmdQueue'[i] = cmdQueue[i]
      BY <1>3, <2>1, <2>4, Put
    <3>2. \A i \in 1..Len(cmdQueue') :
            \/ i \in 1..Len(cmdQueue) /\ cmdQueue'[i] = cmdQueue[i]
            \/ i = Len(cmdQueue) + 1 /\ cmdQueue'[i] = msg.num
      BY <1>3, <3>1
    <3>3. \A i, j \in 1..Len(cmdQueue') : i < j => cmdQueue'[i] < cmdQueue'[j]
      <4> SUFFICES ASSUME NEW i \in 1..Len(cmdQueue'), NEW j \in 1..Len(cmdQueue'),
                          i < j
                   PROVE  cmdQueue'[i] < cmdQueue'[j]
        OBVIOUS
      <4>1. i \in 1..Len(cmdQueue) /\ cmdQueue'[i] = cmdQueue[i]
        BY <1>3, <3>1, <3>2
      <4> QED
        BY <1>4, <1>8, <3>2, <4>1
    <3>4. \A i \in 1..Len(cmdQueue') : node < cmdQueue'[i] /\ Next1(cmdQueue'[i])
      BY <1>4, <1>5, <1>8, <3>2
    <3> QED
      BY <1>5, <1>8, <3>3, <3>4
  <2> QED
    BY <1>8, <2>2, <2>3, <2>4
<1>9. CASE node' = 0 /\ UNCHANGED cmdQueue /\ (Handled' => Handled /\ msg' = msg)
  <2>1. \A i \in 1..Len(cmdQueue) : 0 < cmdQueue[i]
    BY <1>3
  <2>2. Handled => 0 < msg.num
    BY <1>3
  <2> QED
    BY <1>4, <1>5, <1>9, <2>1, <2>2
<1>10. CASE /\ cmdQueue # <<>> /\ cmdQueue' = Tail(cmdQueue)
            /\ node' = 0 \/ node' = Head(cmdQueue)
            /\ Handled' => Handled /\ msg' = msg
  <2>1. /\ Len(cmdQueue) > 0 /\ Head(cmdQueue) = cmdQueue[1]
        /\ \A i \in 1..Len(cmdQueue') :
             i + 1 \in 1..Len(cmdQueue) /\ cmdQueue'[i] = cmdQueue[i + 1]
    BY <1>3, <1>10, Taken
  <2>2. 1 \in 1..Len(cmdQueue)
    BY <1>3, <2>1
  <2>3. \A i, j \in 1..Len(cmdQueue') : i < j => cmdQueue'[i] < cmdQueue'[j]
    <3> SUFFICES ASSUME NEW i \in 1..Len(cmdQueue'), NEW j \in 1..Len(cmdQueue'),
                        i < j
                 PROVE  cmdQueue'[i] < cmdQueue'[j]
      OBVIOUS
    <3>1. /\ i + 1 \in 1..Len(cmdQueue) /\ j + 1 \in 1..Len(cmdQueue)
          /\ i + 1 < j + 1
      BY <1>3, <2>1
    <3> QED
      BY <1>4, <2>1, <3>1
  <2>4. \A i \in 1..Len(cmdQueue') : node' < cmdQueue'[i] /\ Next1(cmdQueue'[i])
    <3> SUFFICES ASSUME NEW i \in 1..Len(cmdQueue')
                 PROVE  node' < cmdQueue'[i] /\ Next1(cmdQueue'[i])
      OBVIOUS
    <3>1. i + 1 \in 1..Len(cmdQueue) /\ cmdQueue'[i] = cmdQueue[i + 1] /\ 1 < i + 1
      BY <1>3, <2>1
    <3>2. cmdQueue[1] < cmdQueue[i + 1] /\ 0 < cmdQueue[i + 1]
      BY <1>3, <1>4, <2>2, <3>1
    <3> QED
      BY <1>5, <1>10, <2>1, <3>1, <3>2
  <2>5. Next1(node')
    BY <1>5, <1>10, <2>1, <2>2
  <2>6. ASSUME Handled'
        PROVE  /\ Next1(msg'.num) /\ node' < msg'.num
               /\ \A i \in 1..Len(cmdQueue') : cmdQueue'[i] < msg'.num
    <3>1. Handled /\ msg' = msg /\ 0 < msg.num
      BY <1>3, <1>10, <2>6
    <3> QED
      BY <1>4, <1>5, <1>10, <2>1, <2>2, <3>1
  <2> QED
    BY <2>3, <2>4, <2>5, <2>6
<1> QED
  BY <1>6, <1>7, <1>8, <1>9, <1>10, OnlyGotMoves DEF GotMoves

\* Answers are taken in the order of their commands, none twice, although a
\* call that timed out leaves its answer behind (dequeue_conditional).
THEOREM AnswersAreInOrder == Spec => []AnswersInOrder
<1>1. Init => RiseInv
  <2> SUFFICES ASSUME Init PROVE RiseInv
    OBVIOUS
  <2>1. /\ wire = <<>> /\ outbox = <<>> /\ cmdQueue = <<>> /\ recvPc = "head"
        /\ Len(<<>>) = 0
    BY DEF Init
  <2>2. WireInv
    BY <2>1, RisingNone DEF WireInv
  <2>3. GotInv /\ AnswersInOrder
    BY <2>1, RisingNone DEF GotInv, Coming, Handled, AnswersInOrder
  <2> QED
    BY <2>2, <2>3 DEF RiseInv
<1>2. IInv /\ RiseInv /\ [Next]_vars => RiseInv'
  BY RiseStep
<1>3. RiseInv => AnswersInOrder
  BY DEF RiseInv
<1> QED
  BY Invariance, <1>1, <1>2, <1>3, PTL DEF Spec

\* No answer in cmd_queue is to a later command than the last one sent.  So the
\* condition that gives dequeue_conditional its name, a later number behind the
\* head of the queue, is never met (dequeue_conditional).
NoLaterAnswer == \A i \in 1..Len(cmdQueue) : cmdQueue[i] <= msg_idx

\* The test of the second node in dequeue_conditional never refuses an answer.
THEOREM ConditionNeverMet == Spec => []NoLaterAnswer
<1>1. IInv => NoLaterAnswer
  <2> SUFFICES ASSUME IInv, NEW i \in 1..Len(cmdQueue)
               PROVE  cmdQueue[i] <= msg_idx
    BY DEF NoLaterAnswer
  <2>1. cmdQueue[i] \in 1..done /\ done <= msg_idx /\ done \in Nat /\ msg_idx \in Nat
    BY GotIsExecuted DEF IInv, AnswerInv, TypeOK
  <2> QED
    BY <2>1
<1> QED
  BY Invariance, <1>1, PTL
=============================================================================
