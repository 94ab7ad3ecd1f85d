---------------------------- MODULE StreamsProofs ---------------------------
(***************************************************************************)
(* Proofs about Streams, for any number of clients, requests and streams   *)
(* and any set of clients that may leave: types, and that the streams of   *)
(* clients, the descriptors and strm_set agree, but for the accidents that *)
(* the properties name.                                                    *)
(***************************************************************************)
EXTENDS Streams, WellFoundedInduction, TLAPS

-----------------------------------------------------------------------------
(* The inductive invariant.                                                *)

\* What a thread has in hand at each of its places.
HandInv ==
  /\ \A t \in Droppers :
       /\ pc[t] # "idle" => whom[t] \in Slots
       /\ pc[t] \in DropperPcs \ {"idle"} => peer[whom[t]] = "left"
       /\ pc[t] = "lookup" => idx[t] = whom[t]
  /\ \A t \in Threads :
       /\ pc[t] \in {"clear", "clearing", "close"} => stream_fd[t] \in Fds
       /\ pc[t] = "close" => idx[t] \in Slots
  /\ pc["response"] \in {"add", "adding"} => stream_fd["response"] \in Fds
  /\ pc["stream"] \in {"prepare", "sendto", "blocked", "lookup"} =>
       stream_fd["stream"] \in Fds
  /\ pc["stream"] \in {"sendto", "blocked"} => idx["stream"] \in Slots

\* A slot has paths if it has a stream; nobody is dropped who has not left.
SlotInv ==
  \A s \in Slots :
    /\ ~client_arr[s].here => peer[s] = "left"
    /\ client_arr[s].paths <=> StreamOf(s) # 0
    /\ s \in promised => peer[s] = "open"

\* The client for which a stream is made has none.
AskInv ==
  /\ pc["response"] \in {"create", "socket"} /\ peer[Asker] = "open" =>
       StreamOf(Asker) = 0
  /\ pc["response"] \in {"get_fd", "add", "adding"} => Asker \notin promised

PlaceInv == HandInv /\ SlotInv /\ AskInv

\* The descriptor in the hand of a thread, and the stream that it means by it.
Holds(t) ==
  \/ t \in Droppers /\ pc[t] \in {"clear", "clearing", "close"}
  \/ t = "response" /\ pc[t] \in {"add", "adding"}
  \/ t = "stream" /\ pc[t] \in {"prepare", "sendto", "blocked", "clear",
                                "clearing", "lookup", "close"}
Means(t) == stream_fd[t] \in Fds /\ fds[stream_fd[t]] = which[t]

\* The numbers of streams that were made.
CountInv ==
  /\ \A f \in Fds : fds[f] <= made
  /\ \A t \in Threads : which[t] <= made

\* A descriptor stands for one stream, in one slot, and a thread that is about
\* to act on it knows that slot.
AloneInv ==
  /\ \A s \in Slots : StreamOf(s) # 0 => fds[StreamOf(s)] # 0
  /\ \A s, r \in Slots : StreamOf(s) = StreamOf(r) => s = r \/ StreamOf(s) = 0
Knows(t) ==
  /\ Holds(t) => which[t] # 0
  /\ t \in Droppers /\ pc[t] \in {"clear", "clearing", "close"} /\ Means(t) =>
       \A s \in Slots : StreamOf(s) = stream_fd[t] => s = whom[t]
  /\ t \in Droppers /\ pc[t] = "close" => idx[t] = whom[t]
  /\ t = "stream" /\ pc[t] \in {"sendto", "blocked", "close"} /\ Means(t) =>
       \A s \in Slots : StreamOf(s) = stream_fd[t] => s = idx[t]
  /\ t = "stream" /\ pc[t] = "close" /\ Means(t) /\ peer[idx[t]] = "open" =>
       StreamOf(idx[t]) = stream_fd[t]
  /\ t = "response" /\ pc[t] \in {"add", "adding"} /\ Means(t)
     /\ peer[whom[t]] = "open" => StreamOf(whom[t]) = stream_fd[t]

OwnInv == CountInv /\ (~doubled => AloneInv /\ \A t \in Threads : Knows(t))

\* The stream of a client that is there is taken away for its own fault only.
Equipped(s) == Alive(s) /\ client_arr[s].func
FaultInv ==
  pc["stream"] \in {"clear", "clearing", "lookup", "close"} /\ Means("stream") =>
    \A s \in Slots :
      peer[s] = "open" /\ StreamOf(s) = stream_fd["stream"] => s \in excused
GrantInv ==
  /\ \A s \in promised \ excused : Equipped(s)
  /\ pc["response"] = "trigger" /\ peer[Asker] = "open" =>
       Alive(Asker) \/ Asker \in excused
  /\ pc["response"] = "answer" /\ peer[Asker] = "open" =>
       Equipped(Asker) \/ Asker \in excused
MemberInv ==
  \A s \in Slots :
    peer[s] = "open" /\ StreamOf(s) # 0 =>
      \/ StreamOf(s) \in strm_set \/ s \in excused
      \/ pc["response"] \in {"get_fd", "add", "adding"} /\ s = Asker

ServeInv == ~doubled => FaultInv /\ GrantInv /\ (~raced => MemberInv)

\* Who waits for an answer is there to get it, so the response thread drops
\* nobody.
PatientInv ==
  ~impatient =>
    /\ \A s \in waiting : peer[s] = "open"
    /\ Asker # 0 => peer[Asker] = "open"

\* Between the write of strm_set and the close.
Cleared(t) ==
  /\ Means(t)
  /\ \/ t = "server" /\ pc[t] \in {"remove", "lookup", "close"}
     \/ t = "stream" /\ pc[t] \in {"lookup", "close"}
Going == {stream_fd[t] : t \in {u \in {"server", "stream"} : Cleared(u)}}

\* Each stream that is open is in a slot or was left by a failed bind, and in
\* the set while nobody adds or removes it: so the server thread removes what it
\* found when it began, and the stream thread nothing that is being added.
OpenInv == \A f \in Fds : fds[f] # 0 => f \in Owned \cup leaked
LeaverInv ==
  /\ pc["server"] # "idle" => client_arr[whom["server"]].here
  /\ pc["server"] \in {"clear", "clearing", "remove", "lookup", "close"} =>
       \/ StreamOf(whom["server"]) = 0
       \/ StreamOf(whom["server"]) = stream_fd["server"] /\ Means("server")
  /\ \A s \in Slots : Cleared("server") /\ StreamOf(s) = stream_fd["server"] =>
       s = whom["server"]
  /\ pc["server"] \in {"remove", "lookup"} /\ stream_fd["server"] # 0 =>
       which["server"] # 0
  /\ pc["server"] = "zero" => StreamOf(whom["server"]) = 0
AdderInv ==
  /\ pc["response"] \in {"add", "adding"} =>
       StreamOf(Asker) = stream_fd["response"] /\ Means("response")
  /\ pc["response"] = "get_fd" => StreamOf(Asker) # 0
  /\ Cleared("stream") => stream_fd["stream"] \notin BeingAdded
SetInv ==
  /\ strm_set \subseteq Owned
  /\ Owned \subseteq strm_set \cup BeingAdded \cup Going
  /\ Going \cap strm_set = {}

AccountInv ==
  ~impatient /\ ~doubled =>
    OpenInv /\ LeaverInv /\ AdderInv /\ (~raced => SetInv)

\* What a failed bind left stays open, in no slot and in no thread's hand.
LeakInv ==
  ~doubled =>
    /\ \A f \in leaked : fds[f] # 0 /\ f \notin Owned
    /\ \A t \in Threads : Means(t) /\ which[t] # 0 => stream_fd[t] \notin leaked

\* pselect gets no closed descriptor.
StopInv ==
  caught \/ impatient \/ raced \/ doubled \/
    /\ pc["stream"] = "pselect" => \A f \in write_set : fds[f] # 0
    /\ pc["stream"] = "stop" => ~running

IInv == /\ TypeOK /\ PlaceInv /\ OwnInv /\ ServeInv /\ PatientInv /\ AccountInv
        /\ LeakInv /\ StopInv

-----------------------------------------------------------------------------
\* A set of numbers that is not empty has a least member, and Min is one.
LEMMA MinIsMember ==
  ASSUME NEW S, S \subseteq Nat, S # {}
  PROVE  Min(S) \in S
<1>1. \E x \in S : \A y \in S : ~(<<y, x>> \in OpToRel(<, Nat))
  BY NatLessThanWellFounded, WFMin
<1>2. \A x, y \in S : x <= y \/ <<y, x>> \in OpToRel(<, Nat)
  BY DEF OpToRel
<1>3. \E x \in S : \A y \in S : x <= y
  BY <1>1, <1>2
<1>4. QED
  BY <1>3 DEF Min

\* Slots and descriptors are numbers, and not 0.
LEMMA Numbers ==
  /\ Slots \subseteq Nat \ {0} /\ Fds \subseteq Nat \ {0}
  /\ MAX_CLIENTS \in Nat /\ 1 \in 1..MAX_CLIENTS + 1
BY StreamsAssumption DEF Slots, Fds

\* The free descriptor and the slot that are chosen are what was looked for.
LEMMA MinSlot ==
  ASSUME NEW S, S \subseteq Slots, S # {}
  PROVE  Min(S) \in S /\ Min(S) \in Slots
BY MinIsMember, Numbers

\* What a slot holds.
LEMMA SlotFacts ==
  ASSUME TypeOK
  PROVE  \A s \in Slots :
           /\ StreamOf(s) \in Fds \cup {0} /\ (StreamOf(s) > 0 <=> StreamOf(s) # 0)
           /\ client_arr[s].here \in BOOLEAN /\ client_arr[s].paths \in BOOLEAN
           /\ client_arr[s].func \in BOOLEAN
<1>1. \A f \in Fds \cup {0} : f > 0 <=> f # 0
  BY Numbers
<1>2. QED
  BY <1>1 DEF TypeOK, Slot, StreamOf

-----------------------------------------------------------------------------
(* Types.                                                                  *)

\* The steps that change no slot.
LEMMA TypeKeptBySmallSteps ==
  ASSUME TypeOK, PlaceInv
  PROVE  /\ \A s \in Slots : Ask(s) \/ Bind(s) \/ Unbind(s) \/ Leave(s) => TypeOK'
         /\ Stop \/ FdSet \/ Answer \/ FindClient \/ GetPaths => TypeOK'
         /\ CopySet \/ Select \/ CheckStop \/ SendTo \/ Blocks \/ Unblocks
            \/ SendToFails \/ StreamEnds => TypeOK'
<1> USE Numbers
<1>1. ASSUME NEW s \in Slots, Ask(s) PROVE TypeOK'
  BY <1>1, StreamsAssumption DEF TypeOK, Ask, pool, hands, loop, history, marks
<1>2. ASSUME NEW s \in Slots, Bind(s) \/ Unbind(s) PROVE TypeOK'
  BY <1>2 DEF TypeOK, Bind, Unbind, pool, hands, loop, history, marks
<1>3. ASSUME NEW s \in Slots, Leave(s) PROVE TypeOK'
  BY <1>3 DEF TypeOK, Leave, pool, hands, loop, marks
<1>4. CASE Stop
  BY <1>4 DEF TypeOK, Stop, peers, pool, hands, loop, history, marks
<1>5. CASE FdSet
  <2>1. CASE ReadWord("response", "add", "adding")
    BY <2>1 DEF TypeOK, ReadWord, Goto, peers, pool, hands, loop, history,
       marks, Threads, ResponsePcs
  <2>2. CASE WriteWord("response", "adding", "paths",
                       word["response"] \cup {stream_fd["response"]})
    <3>1. word["response"] \cup {stream_fd["response"]} \subseteq Fds
      BY <2>2 DEF TypeOK, PlaceInv, HandInv, SlotInv, AskInv, WriteWord, Threads
    <3>2. doubled' \in BOOLEAN /\ raced' \in BOOLEAN
      BY <2>2 DEF TypeOK, WriteWord
    <3>3. QED
      BY <2>2, <3>1, <3>2 DEF TypeOK, WriteWord, Goto, peers, pool, hands, loop,
         history, Threads, ResponsePcs
  <2>3. QED
    BY <1>5, <2>1, <2>2 DEF FdSet
<1>6. CASE Answer
  <2>1. Asker \in Slots
    BY <1>6 DEF PlaceInv, HandInv, SlotInv, AskInv, Answer, Droppers, Asker
  <2>2. promised' \subseteq Slots
    BY <1>6, <2>1 DEF TypeOK, Answer
  <2>3. CASE Done("response")
    BY <1>6, <2>2, <2>3 DEF TypeOK, Answer, Done, FreeHand, Goto, peers, pool,
       loop, marks, Threads, Droppers, DropperPcs
  <2>4. CASE Goto("response", "drop") /\ UNCHANGED hands
    BY <1>6, <2>2, <2>4 DEF TypeOK, Answer, Goto, peers, pool, hands,
       loop, marks, Threads, Droppers, DropperPcs
  <2>5. QED
    BY <1>6, <2>3, <2>4 DEF Answer
<1>7. CASE FindClient
  BY <1>7 DEF TypeOK, FindClient, Goto, peers, pool, hands,
     loop, history, marks, Threads, ResponsePcs
<1>8. CASE GetPaths
  BY <1>8 DEF TypeOK, GetPaths, Goto, peers, pool, hands,
     loop, history, marks, Threads, ResponsePcs
<1>9. CASE CopySet
  <2>1. write_set' \subseteq Fds /\ pc' \in {[pc EXCEPT !["stream"] = "pselect"],
                                            [pc EXCEPT !["stream"] = "stop"]}
    BY <1>9 DEF TypeOK, CopySet, Goto
  <2>2. QED
    BY <1>9, <2>1 DEF TypeOK, CopySet, peers, pool, hands, history, marks,
       Threads, StreamPcs
<1>10. CASE Select
  <2>1. signalled' \in BOOLEAN /\ pc' \in {[pc EXCEPT !["stream"] = "check"],
                                            [pc EXCEPT !["stream"] = "stop"]}
    BY <1>10 DEF TypeOK, Select, Goto
  <2>2. QED
    BY <1>10, <2>1 DEF TypeOK, Select, peers, pool, hands, loop, history, marks,
       Threads, StreamPcs
<1>11. CASE CheckStop
  BY <1>11 DEF TypeOK, CheckStop, Goto, peers, pool, hands, history, marks,
     Threads, StreamPcs
<1>12. CASE SendTo
  BY <1>12 DEF TypeOK, SendTo, Goto, FreeHand, peers, pool, loop, history,
     marks, Threads, StreamPcs
<1>13. CASE Blocks
  BY <1>13 DEF TypeOK, Blocks, Goto, peers, pool, hands, loop, history, marks,
     Threads, StreamPcs
<1>14. CASE Unblocks
  BY <1>14 DEF TypeOK, Unblocks, Goto, FreeHand, peers, pool, loop, history,
     marks, Threads, StreamPcs
<1>15. CASE SendToFails
  BY <1>15 DEF TypeOK, PlaceInv, HandInv, SlotInv, AskInv, SendToFails, Fails,
     Target, Goto, peers, pool, hands, loop, marks, Threads, StreamPcs
<1>16. CASE StreamEnds
  BY <1>16 DEF TypeOK, StreamEnds, Goto, peers, pool, hands, loop, history,
     marks, Threads, StreamPcs
<1>17. QED
  BY <1>1, <1>2, <1>3, <1>4, <1>5, <1>6, <1>7, <1>8, <1>9, <1>10, <1>11, <1>12,
     <1>13, <1>14, <1>15, <1>16

\* The steps that take a stream in hand, create one or remove one.
LEMMA TypeKeptByStreams ==
  ASSUME TypeOK, PlaceInv
  PROVE  /\ \A s \in Slots : ServerDrops(s) \/ Dequeue(s) => TypeOK'
         /\ CreateStream \/ GetStreamFd \/ TriggerStream => TypeOK'
         /\ Scan \/ PrepareStream => TypeOK'
<1> USE Numbers, SlotFacts
<1>1. ASSUME NEW s \in Slots, ServerDrops(s) PROVE TypeOK'
  BY <1>1 DEF TypeOK, ServerDrops, Goto, peers, pool, loop, history, marks,
     Threads, Droppers, DropperPcs
<1>2. ASSUME NEW s \in Slots, Dequeue(s) PROVE TypeOK'
  BY <1>2 DEF TypeOK, Dequeue, Goto, peers, pool, loop, history, marks,
     Threads, Droppers, ResponsePcs
<1>3. CASE CreateStream
  <2>1. Asker \in Slots
    BY <1>3 DEF PlaceInv, HandInv, SlotInv, AskInv, CreateStream, Droppers,
       Asker
  <2>2. FreeFds # {} => Min(FreeFds) \in Fds
    BY MinIsMember DEF FreeFds
  <2>3. client_arr' \in [Slots -> Slot]
    BY <1>3, <2>1, <2>2 DEF TypeOK, CreateStream, pool, Slot
  <2>4. QED
    <3>1. /\ fds' \in [Fds -> Nat] /\ made' \in Nat
          /\ leaked' \subseteq Fds /\ promised' \subseteq Slots
          /\ excused' \subseteq Slots
          /\ box' \in [Slots -> {"unbound", "bound", "closed"}]
      BY <1>3, <2>1, <2>2 DEF TypeOK, CreateStream, pool
    <3>2. pc' \in {[pc EXCEPT !["response"] = "get_fd"],
                   [pc EXCEPT !["response"] = "paths"]}
      BY <1>3 DEF CreateStream, Goto
    <3>3. QED
      BY <1>3, <2>3, <3>1, <3>2 DEF TypeOK, CreateStream, hands, loop, Threads,
         ResponsePcs
<1>4. CASE GetStreamFd
  <2>1. Asker \in Slots
    BY <1>4 DEF PlaceInv, HandInv, SlotInv, AskInv, GetStreamFd, Droppers, Asker
  <2>2. QED
    BY <1>4, <2>1 DEF TypeOK, GetStreamFd, Take, Goto, peers, pool, loop,
       history, marks, Threads, ResponsePcs
<1>5. CASE TriggerStream
  <2>1. Asker \in Slots
    BY <1>5 DEF PlaceInv, HandInv, SlotInv, AskInv, TriggerStream, Droppers,
       Asker
  <2>2. client_arr' \in [Slots -> Slot]
    <3>1. client_arr[Asker] \in Slot
      BY <2>1 DEF TypeOK
    <3>2. [client_arr[Asker] EXCEPT !.func = @ \/ client_arr[Asker].here] \in Slot
      BY <3>1 DEF Slot
    <3>3. QED
      BY <1>5, <2>1, <3>2 DEF TypeOK, TriggerStream
  <2>3. QED
    BY <1>5, <2>2 DEF TypeOK, TriggerStream, Goto, peers, hands, loop,
       history, marks, Threads, ResponsePcs
<1>6. CASE Scan
  <2>1. turn \in Nat /\ (turn <= MAX_CLIENTS => turn \in Slots)
    BY DEF TypeOK, Slots
  <2>2. turn' \in 1..MAX_CLIENTS + 1
    BY <1>6, <2>1 DEF Scan, TypeOK
  <2>3. turn <= MAX_CLIENTS => StreamOf(turn) \in Fds \cup {0}
    BY <2>1
  <2>4. turn <= MAX_CLIENTS /\ StreamOf(turn) \in write_set =>
          StreamOf(turn) \in Fds /\ fds[StreamOf(turn)] \in Nat
    BY DEF TypeOK
  <2>5. /\ pc' \in {[pc EXCEPT !["stream"] = "head"], pc,
                   [pc EXCEPT !["stream"] = "prepare"]}
        /\ stream_fd' \in [Threads -> Fds \cup {0}] /\ which' \in [Threads -> Nat]
        /\ write_set' \subseteq Fds
    <3>1. pc' \in {[pc EXCEPT !["stream"] = "head"], pc,
                   [pc EXCEPT !["stream"] = "prepare"]}
      BY <1>6 DEF Scan, Goto
    <3>2. \/ UNCHANGED <<stream_fd, which>>
          \/ /\ StreamOf(turn) \in Fds
             /\ stream_fd' = [stream_fd EXCEPT !["stream"] = StreamOf(turn)]
             /\ which' = [which EXCEPT !["stream"] = fds[StreamOf(turn)]]
      BY <1>6, <2>1, <2>4 DEF Scan, Take
    <3>3. write_set' \subseteq Fds
      BY <1>6 DEF TypeOK, Scan
    <3>4. stream_fd' \in [Threads -> Fds \cup {0}] /\ which' \in [Threads -> Nat]
      <4>1. stream_fd \in [Threads -> Fds \cup {0}] /\ which \in [Threads -> Nat]
            /\ fds \in [Fds -> Nat]
        BY DEF TypeOK
      <4>2. QED
        BY <3>2, <4>1
    <3>5. QED
      BY <3>1, <3>3, <3>4
  <2>6. QED
    BY <1>6, <2>2, <2>5 DEF TypeOK, Scan, peers, pool, history,
       marks, Threads, StreamPcs
<1>7. CASE PrepareStream
  <2> DEFINE found == {s \in SlotOf(stream_fd["stream"]) : client_arr[s].here}
  <2>1. found \subseteq Slots
    BY DEF SlotOf
  <2>2. found # {} => Min(found) \in Slots
    BY <2>1, MinSlot
  <2> HIDE DEF found
  <2>3. \/ found = {} /\ Fails /\ UNCHANGED <<idx, excused>>
        \/ /\ found # {}
           /\ excused' \in {excused, excused \cup {Min(found)}}
           /\ idx' = [idx EXCEPT !["stream"] = Min(found)]
           /\ pc' = [pc EXCEPT !["stream"] = "sendto"] \/ Fails
    BY <1>7 DEF PrepareStream, found, Goto
  <2>4. /\ pc' \in {[pc EXCEPT !["stream"] = "clear"],
                   [pc EXCEPT !["stream"] = "sendto"]}
        /\ idx' \in [Threads -> Slots \cup {0}] /\ excused' \subseteq Slots
    <3>1. CASE found = {} /\ Fails /\ UNCHANGED <<idx, excused>>
      BY <3>1 DEF TypeOK, Fails, Goto
    <3>2. CASE /\ found # {}
               /\ excused' \in {excused, excused \cup {Min(found)}}
               /\ idx' = [idx EXCEPT !["stream"] = Min(found)]
               /\ pc' = [pc EXCEPT !["stream"] = "sendto"] \/ Fails
      <4>1. idx' \in [Threads -> Slots \cup {0}] /\ excused' \subseteq Slots
        BY <2>2, <3>2 DEF TypeOK, Threads
      <4>2. QED
        BY <3>2, <4>1 DEF Fails, Goto
    <3>3. QED
      BY <2>3, <3>1, <3>2
  <2>5. QED
    BY <1>7, <2>4 DEF TypeOK, PrepareStream, peers, pool, loop,
       marks, Threads, StreamPcs
<1>8. QED
  BY <1>1, <1>2, <1>3, <1>4, <1>5, <1>6, <1>7

\* The steps of a removal, for each of the threads that make them.
LEMMA TypeKeptByRemoval ==
  ASSUME TypeOK, PlaceInv
  PROVE  /\ \A t \in Droppers : Drop(t) \/ RemoveClient(t) \/ ZeroSlot(t) => TypeOK'
         /\ \A t \in Threads : FindStream(t) \/ CloseStream(t) \/ FdClear(t) => TypeOK'
<1> USE Numbers, SlotFacts
<1>1. ASSUME NEW t \in Droppers, Drop(t) PROVE TypeOK'
  <2>1. whom[t] \in Slots /\ t \in Threads
    BY <1>1 DEF PlaceInv, HandInv, SlotInv, AskInv, Drop, Droppers, Threads
  <2> DEFINE f == StreamOf(whom[t])
  <2>2. f \in Fds \cup {0} /\ (f # 0 => fds[f] \in Nat)
    BY <2>1 DEF TypeOK
  <2> HIDE DEF f
  <2>3. /\ stream_fd' = [stream_fd EXCEPT ![t] = f]
        /\ which' = [which EXCEPT ![t] = IF f = 0 THEN 0 ELSE fds[f]]
        /\ pc' = [pc EXCEPT ![t] = IF f > 0 THEN "clear" ELSE "remove"]
    BY <1>1 DEF Drop, Take, Goto, f
  <2>4. stream_fd' \in [Threads -> Fds \cup {0}] /\ which' \in [Threads -> Nat]
    BY <2>1, <2>2, <2>3 DEF TypeOK
  <2>5. QED
    BY <1>1, <2>1, <2>3, <2>4 DEF TypeOK, Drop, peers, pool, loop, history,
       marks, Threads, Droppers, DropperPcs
<1>2. ASSUME NEW t \in Droppers, RemoveClient(t) PROVE TypeOK'
  <2>1. whom[t] \in Slots /\ t \in Threads
    BY <1>2 DEF PlaceInv, HandInv, SlotInv, AskInv, RemoveClient, Droppers,
       Threads
  <2>2. CASE Done(t)
    BY <1>2, <2>1, <2>2 DEF TypeOK, RemoveClient, Done, FreeHand, Goto, peers,
       pool, loop, history, marks, Threads, Droppers, DropperPcs
  <2>3. CASE /\ idx' = [idx EXCEPT ![t] = whom[t]] /\ Goto(t, "lookup")
             /\ UNCHANGED <<whom, stream_fd, which>>
    BY <1>2, <2>1, <2>3 DEF TypeOK, RemoveClient, Goto, peers, pool,
       loop, history, marks, Threads, Droppers, DropperPcs
  <2>4. QED
    BY <1>2, <2>2, <2>3 DEF RemoveClient
<1>3. ASSUME NEW t \in Droppers, ZeroSlot(t) PROVE TypeOK'
  <2>1. whom[t] \in Slots /\ t \in Threads
    BY <1>3 DEF PlaceInv, HandInv, SlotInv, AskInv, ZeroSlot, Droppers, Threads
  <2>2. client_arr' \in [Slots -> Slot]
    BY <1>3, <2>1 DEF TypeOK, ZeroSlot, Slot, Zeroed
  <2>3. QED
    BY <1>3, <2>1, <2>2 DEF TypeOK, ZeroSlot, Done, FreeHand, Goto, peers,
       loop, history, marks, Threads, Droppers, DropperPcs
<1>4. ASSUME NEW t \in Threads, FindStream(t) PROVE TypeOK'
  <2> DEFINE f == IF t = "stream" THEN stream_fd[t] ELSE StreamOf(idx[t])
             found == IF f = 0 THEN {} ELSE {s \in SlotOf(f) : Alive(s)}
  <2>1. f \in Fds \cup {0} /\ (f # 0 => fds[f] \in Nat)
    <3>1. t # "stream" => idx[t] \in Slots
      BY <1>4 DEF PlaceInv, HandInv, SlotInv, AskInv, FindStream, Threads,
         Droppers
    <3>2. QED
      BY <3>1 DEF TypeOK
  <2>2. found # {} => Min(found) \in Slots
    <3>1. found \subseteq Slots
      BY DEF SlotOf
    <3>2. QED
      BY <3>1, MinSlot
  <2> HIDE DEF f, found
  <2>3. \/ Goto(t, After(t)) /\ FreeHand(t)
        \/ /\ found # {} /\ idx' = [idx EXCEPT ![t] = Min(found)]
           /\ UNCHANGED <<stream_fd, which>> \/ Take(t, f)
           /\ Goto(t, "close")
    BY <1>4 DEF FindStream, f, found
  <2>4. CASE Goto(t, After(t)) /\ FreeHand(t)
    BY <1>4, <2>4 DEF TypeOK, FindStream, FreeHand, After, Goto, peers, pool,
       loop, history, marks, Threads, Droppers, DropperPcs, StreamPcs
  <2>5. CASE /\ found # {} /\ idx' = [idx EXCEPT ![t] = Min(found)]
             /\ UNCHANGED <<stream_fd, which>> \/ Take(t, f)
             /\ Goto(t, "close")
    <3>1. stream_fd' \in [Threads -> Fds \cup {0}] /\ which' \in [Threads -> Nat]
      BY <2>1, <2>5 DEF TypeOK, Take
    <3>2. idx' \in [Threads -> Slots \cup {0}]
      BY <2>2, <2>5 DEF TypeOK
    <3>3. QED
      BY <1>4, <2>5, <3>1, <3>2 DEF TypeOK, FindStream, Goto, peers, pool,
         loop, history, marks, Threads, Droppers, DropperPcs, StreamPcs
  <2>6. QED
    BY <2>3, <2>4, <2>5
<1>5. ASSUME NEW t \in Threads, CloseStream(t) PROVE TypeOK'
  <2>1. stream_fd[t] \in Fds /\ idx[t] \in Slots
    BY <1>5 DEF PlaceInv, HandInv, SlotInv, AskInv, CloseStream
  <2>2. client_arr' \in [Slots -> Slot] /\ fds' \in [Fds -> Nat]
    <3>1. client_arr[idx[t]] \in Slot
      BY <2>1 DEF TypeOK
    <3>2. client_arr' = [client_arr EXCEPT ![idx[t]] =
                          [client_arr[idx[t]] EXCEPT !.stream_fd = 0,
                                                     !.paths = FALSE]]
      BY <1>5, <2>1 DEF CloseStream, TypeOK
    <3>3. [client_arr[idx[t]] EXCEPT !.stream_fd = 0, !.paths = FALSE] \in Slot
      BY <3>1 DEF Slot
    <3>4. QED
      BY <1>5, <2>1, <3>2, <3>3 DEF TypeOK, CloseStream
  <2>3. doubled' \in BOOLEAN /\ caught' \in BOOLEAN
    BY <1>5 DEF TypeOK, CloseStream
  <2>4. QED
    BY <1>5, <2>2, <2>3 DEF TypeOK, CloseStream, FreeHand, After, Goto, peers,
       loop, history, Threads, Droppers, DropperPcs, StreamPcs
<1>6. ASSUME NEW t \in Threads, FdClear(t) PROVE TypeOK'
  <2>1. CASE ReadWord(t, "clear", "clearing")
    BY <1>6, <2>1 DEF TypeOK, ReadWord, Goto, peers, pool, hands, loop, history,
       marks, Threads, Droppers, DropperPcs, StreamPcs
  <2>2. CASE WriteWord(t, "clearing", IF t = "stream" THEN "lookup" ELSE "remove",
                       word[t] \ {stream_fd[t]})
    <3>1. word[t] \ {stream_fd[t]} \subseteq Fds
      BY DEF TypeOK
    <3>2. doubled' \in BOOLEAN /\ raced' \in BOOLEAN
      BY <2>2 DEF TypeOK, WriteWord
    <3>3. QED
      BY <1>6, <2>2, <3>1, <3>2 DEF TypeOK, WriteWord, Goto, peers, pool, hands,
         loop, history, Threads, Droppers, DropperPcs, StreamPcs
  <2>3. QED
    BY <1>6, <2>1, <2>2 DEF FdClear
<1>7. QED
  BY <1>1, <1>2, <1>3, <1>4, <1>5, <1>6

-----------------------------------------------------------------------------
(* What the steps that change slots make of each slot.                     *)

LEMMA CloseChanges ==
  ASSUME TypeOK, PlaceInv, NEW t \in Threads, CloseStream(t)
  PROVE  /\ stream_fd[t] \in Fds /\ idx[t] \in Slots
         /\ \A s \in Slots :
              /\ s = idx[t] => StreamOf(s)' = 0 /\ ~client_arr'[s].paths
              /\ s # idx[t] => /\ StreamOf(s)' = StreamOf(s)
                               /\ client_arr'[s].paths = client_arr[s].paths
              /\ client_arr'[s].here = client_arr[s].here
              /\ client_arr'[s].func = client_arr[s].func
         /\ \A f \in Fds : fds'[f] = IF f = stream_fd[t] THEN 0 ELSE fds[f]
         /\ UNCHANGED <<running, signalled, peer, box, waiting, made, strm_set,
                        whom, word, write_set, promised, excused, impatient,
                        raced, leaked>>
<1>1. stream_fd[t] \in Fds /\ idx[t] \in Slots
  BY DEF PlaceInv, HandInv, SlotInv, AskInv, CloseStream
<1>2. client_arr' = [client_arr EXCEPT ![idx[t]] =
                       [client_arr[idx[t]] EXCEPT !.stream_fd = 0,
                                                  !.paths = FALSE]]
  BY <1>1 DEF CloseStream, TypeOK
<1>3. \A s \in Slots : client_arr[s] \in Slot
  BY DEF TypeOK
<1>4. \A s \in Slots :
        client_arr'[s] = IF s = idx[t]
                         THEN [client_arr[s] EXCEPT !.stream_fd = 0,
                                                    !.paths = FALSE]
                         ELSE client_arr[s]
  BY <1>2 DEF TypeOK
<1>5. \A s \in Slots :
        /\ s = idx[t] => StreamOf(s)' = 0 /\ ~client_arr'[s].paths
        /\ s # idx[t] => /\ StreamOf(s)' = StreamOf(s)
                         /\ client_arr'[s].paths = client_arr[s].paths
        /\ client_arr'[s].here = client_arr[s].here
        /\ client_arr'[s].func = client_arr[s].func
  BY <1>3, <1>4 DEF StreamOf, Slot
<1>6. QED
  BY <1>1, <1>5 DEF CloseStream, TypeOK, peers, loop, history

LEMMA ZeroChanges ==
  ASSUME TypeOK, PlaceInv, NEW t \in Droppers, ZeroSlot(t)
  PROVE  /\ whom[t] \in Slots /\ peer[whom[t]] = "left"
         /\ \A s \in Slots :
              /\ s = whom[t] => /\ StreamOf(s)' = 0 /\ ~client_arr'[s].paths
                                /\ ~client_arr'[s].here /\ ~client_arr'[s].func
              /\ s # whom[t] => /\ StreamOf(s)' = StreamOf(s)
                                /\ client_arr'[s] = client_arr[s]
         /\ UNCHANGED <<running, signalled, peer, box, waiting, fds, made, strm_set,
                        word, write_set, promised, excused, impatient, doubled,
                        raced, caught, leaked>>
<1>1. whom[t] \in Slots /\ peer[whom[t]] = "left"
  BY DEF PlaceInv, HandInv, SlotInv, AskInv, ZeroSlot, DropperPcs
<1>2. \A s \in Slots :
        client_arr'[s] = IF s = whom[t] THEN Zeroed ELSE client_arr[s]
  BY <1>1 DEF ZeroSlot, TypeOK
<1>3. /\ Zeroed.stream_fd = 0 /\ Zeroed.paths = FALSE
      /\ Zeroed.here = FALSE /\ Zeroed.func = FALSE
  BY DEF Zeroed
<1>4. UNCHANGED <<running, signalled, peer, box, waiting, fds, made, strm_set,
                  word, write_set, promised, excused, impatient, doubled,
                  raced, caught, leaked>>
  BY DEF ZeroSlot, peers, loop, history, marks
<1>5. QED
  BY <1>1, <1>2, <1>3, <1>4 DEF StreamOf

\* Where a socket was made.
LEMMA CreateChanges ==
  ASSUME TypeOK, PlaceInv, CreateStream, pc'["response"] = "get_fd"
  PROVE  \E f \in Fds :
         /\ fds[f] = 0
         /\ \A s \in Slots :
              /\ StreamOf(s)' = (IF s = Asker THEN f ELSE StreamOf(s))
              /\ client_arr'[s].paths =
                   (IF s = Asker THEN TRUE ELSE client_arr[s].paths)
              /\ client_arr'[s].here = client_arr[s].here
              /\ client_arr'[s].func =
                   (IF s = Asker THEN FALSE ELSE client_arr[s].func)
         /\ \A g \in Fds : fds'[g] = IF g = f THEN made + 1 ELSE fds[g]
         /\ made' = made + 1 /\ UNCHANGED leaked
         /\ promised' = promised \ {Asker} /\ excused' = excused \ {Asker}
<1>1. Asker \in Slots
  BY DEF PlaceInv, HandInv, SlotInv, AskInv, CreateStream, Droppers, Asker
<1>2. FreeFds # {} => Min(FreeFds) \in FreeFds
  BY MinIsMember, Numbers DEF FreeFds
<1> DEFINE f == Min(FreeFds)
<1>3. /\ FreeFds # {} /\ made' = made + 1
      /\ fds' = [fds EXCEPT ![f] = made + 1]
      /\ client_arr' = [client_arr EXCEPT
             ![Asker].stream_fd = f, ![Asker].paths = TRUE, ![Asker].func = FALSE]
      /\ promised' = promised \ {Asker} /\ excused' = excused \ {Asker}
      /\ UNCHANGED leaked
  BY DEF CreateStream, Goto, TypeOK, Threads
<1>4. f \in Fds /\ fds[f] = 0
  BY <1>2, <1>3 DEF FreeFds
<1> HIDE DEF f
<1>5. \A s \in Slots : client_arr[s] \in Slot
  BY DEF TypeOK
<1>6. \A s \in Slots :
        client_arr'[s] = IF s = Asker
                         THEN [client_arr[s] EXCEPT !.stream_fd = f,
                                 !.paths = TRUE, !.func = FALSE]
                         ELSE client_arr[s]
  BY <1>1, <1>3 DEF TypeOK
<1>7. \A s \in Slots :
              /\ StreamOf(s)' = (IF s = Asker THEN f ELSE StreamOf(s))
              /\ client_arr'[s].paths =
                   (IF s = Asker THEN TRUE ELSE client_arr[s].paths)
              /\ client_arr'[s].here = client_arr[s].here
              /\ client_arr'[s].func =
                   (IF s = Asker THEN FALSE ELSE client_arr[s].func)
  BY <1>5, <1>6 DEF StreamOf, Slot
<1>8. \A g \in Fds : fds'[g] = IF g = f THEN made + 1 ELSE fds[g]
  BY <1>3 DEF TypeOK
<1>9. QED
  BY <1>3, <1>4, <1>7, <1>8

\* Where a socket was made and not bound to its path.
FailedBind(f) == /\ fds[f] = 0 /\ UNCHANGED client_arr
                 /\ \A g \in Fds : fds'[g] = IF g = f THEN made + 1 ELSE fds[g]
                 /\ made' = made + 1 /\ leaked' = leaked \cup {f}
                 /\ UNCHANGED <<promised, excused>>

\* The three ends of an attempt to make a stream.
LEMMA CreateEnds ==
  ASSUME TypeOK, PlaceInv, CreateStream
  PROVE  \/ Goto("response", "get_fd")
         \/ Goto("response", "paths") /\ \E f \in Fds : FailedBind(f)
         \/ Goto("response", "paths") /\ UNCHANGED <<pool, promised, excused, leaked>>
<1>1. FreeFds # {} => Min(FreeFds) \in FreeFds
  BY MinIsMember, Numbers DEF FreeFds
<1>2. ASSUME FreeFds # {}, made' = made + 1, UNCHANGED client_arr,
             fds' = [fds EXCEPT ![Min(FreeFds)] = made + 1],
             leaked' = leaked \cup {Min(FreeFds)}, UNCHANGED <<promised, excused>>
      PROVE  \E f \in Fds : FailedBind(f)
  <2>1. Min(FreeFds) \in Fds /\ fds[Min(FreeFds)] = 0
    BY <1>1, <1>2 DEF FreeFds
  <2>2. FailedBind(Min(FreeFds))
    BY <1>2, <2>1 DEF FailedBind, TypeOK
  <2>3. QED
    BY <2>1, <2>2
<1>3. QED
  BY <1>2 DEF CreateStream, pool

LEMMA TriggerChanges ==
  ASSUME TypeOK, PlaceInv, TriggerStream
  PROVE  /\ Asker \in Slots
         /\ \A s \in Slots :
              /\ StreamOf(s)' = StreamOf(s)
              /\ client_arr'[s].paths = client_arr[s].paths
              /\ client_arr'[s].here = client_arr[s].here
              /\ client_arr'[s].func = (client_arr[s].func
                                        \/ (s = Asker /\ client_arr[s].here))
<1>1. Asker \in Slots
  BY DEF PlaceInv, HandInv, SlotInv, AskInv, TriggerStream, Droppers, Asker
<1>2. \A s \in Slots : client_arr[s] \in Slot
  BY DEF TypeOK
<1>3. \A s \in Slots :
        client_arr'[s] = IF s = Asker
                         THEN [client_arr[s] EXCEPT !.func =
                                 client_arr[s].func \/ client_arr[s].here]
                         ELSE client_arr[s]
  BY <1>1 DEF TriggerStream, TypeOK
<1>4. QED
  BY <1>1, <1>2, <1>3 DEF StreamOf, Slot

\* Where the threads are after a step of one of them.
LEMMA GotoChanges ==
  ASSUME TypeOK, NEW t \in Threads, NEW l, Goto(t, l)
  PROVE  \A u \in Threads : pc'[u] = IF u = t THEN l ELSE pc[u]
BY DEF TypeOK, Goto

-----------------------------------------------------------------------------
(* What a thread has in hand.                                              *)

LEMMA PlaceKeptByClients ==
  ASSUME TypeOK, PlaceInv
  PROVE  /\ \A s \in Slots : Ask(s) \/ Bind(s) \/ Unbind(s) \/ Leave(s) => PlaceInv'
         /\ Stop => PlaceInv'
<1>1. ASSUME NEW s \in Slots, Ask(s) PROVE PlaceInv'
  BY <1>1 DEF Ask, PlaceInv, HandInv, SlotInv, AskInv, pool, hands, history,
     StreamOf, Asker
<1>2. ASSUME NEW s \in Slots, Bind(s) \/ Unbind(s) PROVE PlaceInv'
  BY <1>2 DEF Bind, Unbind, PlaceInv, HandInv, SlotInv, AskInv, pool, hands, history,
     StreamOf, Asker
<1>3. ASSUME NEW s \in Slots, Leave(s) PROVE PlaceInv'
  BY <1>3 DEF TypeOK, Leave, PlaceInv, HandInv, SlotInv, AskInv, pool, hands,
     StreamOf, Asker, Droppers
<1>4. CASE Stop
  BY <1>4 DEF Stop, PlaceInv, HandInv, SlotInv, AskInv, peers, pool, hands,
     history, StreamOf, Asker
<1>5. QED
  BY <1>1, <1>2, <1>3, <1>4

LEMMA PlaceKeptByResponse ==
  ASSUME TypeOK, PlaceInv
  PROVE  /\ \A s \in Slots : Dequeue(s) => PlaceInv'
         /\ FindClient \/ CreateStream \/ GetStreamFd \/ FdSet \/ GetPaths
            \/ TriggerStream \/ Answer => PlaceInv'
<1> USE Numbers, SlotFacts, GotoChanges DEF Threads, Droppers, DropperPcs
<1>1. ASSUME NEW s \in Slots, Dequeue(s) PROVE PlaceInv'
  <2>1. whom' = [whom EXCEPT !["response"] = s]
    BY <1>1 DEF Dequeue
  <2>2. Goto("response", IF client_arr[s].here /\ Alive(s) THEN "paths" ELSE "create")
    BY <1>1 DEF Dequeue
  <2>3. pc'["response"] = "create" /\ peer[s] = "open" => StreamOf(s) = 0
    <3>1. StreamOf(s) # 0 => StreamOf(s) > 0
      BY SlotFacts
    <3>2. pc'["response"] = IF client_arr[s].here /\ Alive(s)
                            THEN "paths" ELSE "create"
      BY <2>2
    <3>3. peer[s] = "open" => client_arr[s].here
      BY DEF PlaceInv, HandInv, SlotInv, AskInv
    <3>4. StreamOf(s) # 0 => client_arr[s].paths
      BY DEF PlaceInv, HandInv, SlotInv, AskInv
    <3>5. QED
      BY <3>1, <3>2, <3>3, <3>4 DEF Alive
  <2>4. QED
    BY <1>1, <2>1, <2>2, <2>3 DEF TypeOK, Dequeue, PlaceInv, HandInv, SlotInv,
       AskInv, pool, history, StreamOf, Asker
<1>2. CASE FindClient
  BY <1>2 DEF TypeOK, FindClient, PlaceInv, HandInv, SlotInv, AskInv, peers,
     pool, hands, history, StreamOf, Asker
<1>3. CASE CreateStream
  <2>1. Asker \in Slots
    BY <1>3 DEF PlaceInv, HandInv, SlotInv, AskInv, CreateStream, Asker
  <2>2. CASE Goto("response", "paths") /\ UNCHANGED <<client_arr, promised>>
    BY <1>3, <2>2 DEF TypeOK, CreateStream, PlaceInv, HandInv, SlotInv, AskInv,
       pool, hands, StreamOf, Asker
  <2>3. CASE Goto("response", "get_fd")
    <3>1. pc'["response"] = "get_fd"
      BY <2>3
    <3>2. PICK f \in Fds :
         /\ \A s \in Slots :
              /\ StreamOf(s)' = (IF s = Asker THEN f ELSE StreamOf(s))
              /\ client_arr'[s].paths =
                   (IF s = Asker THEN TRUE ELSE client_arr[s].paths)
              /\ client_arr'[s].here = client_arr[s].here
         /\ promised' = promised \ {Asker}
      BY <1>3, <3>1, CreateChanges
    <3>3. \A s \in Slots :
            /\ ~client_arr'[s].here => peer[s] = "left"
            /\ client_arr'[s].paths <=> StreamOf(s)' # 0
            /\ s \in promised' => peer[s] = "open"
      BY <3>2 DEF PlaceInv, HandInv, SlotInv, AskInv
    <3>4. QED
      BY <1>3, <2>1, <2>3, <3>2, <3>3 DEF TypeOK, CreateStream, PlaceInv,
         HandInv, SlotInv, AskInv, hands, Asker
  <2>4. QED
    BY <1>3, <2>2, <2>3, CreateEnds DEF FailedBind, pool
<1>4. CASE GetStreamFd
  <2>1. Asker \in Slots /\ Asker \notin promised
    BY <1>4 DEF PlaceInv, HandInv, SlotInv, AskInv, GetStreamFd, Asker
  <2> DEFINE f == IF client_arr[Asker].here THEN StreamOf(Asker) ELSE 0
  <2>2. f \in Fds \cup {0}
    BY <2>1
  <2> HIDE DEF f
  <2>3. stream_fd' = [stream_fd EXCEPT !["response"] = f]
        /\ Goto("response", IF f > 0 THEN "add" ELSE "paths")
    BY <1>4 DEF GetStreamFd, Take, f
  <2>4. QED
    BY <1>4, <2>1, <2>2, <2>3 DEF TypeOK, GetStreamFd, PlaceInv, HandInv,
       SlotInv, AskInv, peers, pool, history, StreamOf, Asker
<1>5. CASE FdSet
  <2>1. /\ UNCHANGED <<peers, pool, hands, history>>
        /\ \/ pc["response"] = "add" /\ Goto("response", "adding")
           \/ pc["response"] = "adding" /\ Goto("response", "paths")
    BY <1>5 DEF FdSet, ReadWord, WriteWord
  <2>2. QED
    BY <2>1 DEF TypeOK, PlaceInv, HandInv, SlotInv, AskInv, peers, pool, hands,
       history, StreamOf, Asker
<1>6. CASE GetPaths
  BY <1>6 DEF TypeOK, GetPaths, PlaceInv, HandInv, SlotInv, AskInv, peers, pool,
     hands, history, StreamOf, Asker
<1>7. CASE TriggerStream
  <2>1. \A s \in Slots :
            /\ ~client_arr'[s].here => peer[s] = "left"
            /\ client_arr'[s].paths <=> StreamOf(s)' # 0
            /\ s \in promised => peer[s] = "open"
            /\ StreamOf(s)' = StreamOf(s)
    BY <1>7, TriggerChanges DEF PlaceInv, HandInv, SlotInv, AskInv
  <2>2. QED
    BY <1>7, <2>1 DEF TypeOK, TriggerStream, PlaceInv, HandInv, SlotInv, AskInv,
       peers, hands, history, Asker
<1>8. CASE Answer
  <2>1. Asker \in Slots
    BY <1>8 DEF PlaceInv, HandInv, SlotInv, AskInv, Answer, Asker
  <2>2. CASE peer[Asker] = "open"
    <3>1. promised' \subseteq promised \cup {Asker} /\ Done("response")
      BY <1>8, <2>2 DEF Answer
    <3>2. QED
      BY <1>8, <2>1, <2>2, <3>1 DEF TypeOK, Answer, Done, FreeHand, PlaceInv,
         HandInv, SlotInv, AskInv, peers, pool, StreamOf, Asker
  <2>3. CASE peer[Asker] # "open"
    <3>1. peer[Asker] = "left"
      BY <2>1, <2>3 DEF TypeOK
    <3>2. QED
      BY <1>8, <2>1, <2>3, <3>1 DEF TypeOK, Answer, PlaceInv, HandInv, SlotInv,
         AskInv, peers, pool, hands, StreamOf, Asker
  <2>4. QED
    BY <2>2, <2>3
<1>9. QED
  BY <1>1, <1>2, <1>3, <1>4, <1>5, <1>6, <1>7, <1>8

LEMMA PlaceKeptByStreamThread ==
  ASSUME TypeOK, PlaceInv
  PROVE  CopySet \/ Select \/ CheckStop \/ Scan \/ PrepareStream \/ SendTo
         \/ Blocks \/ Unblocks \/ SendToFails \/ StreamEnds => PlaceInv'
<1> USE Numbers, SlotFacts, GotoChanges DEF Threads, Droppers, StreamPcs
<1>1. CASE CopySet
  <2>1. \E l \in {"pselect", "stop"} : Goto("stream", l)
    BY <1>1 DEF CopySet
  <2>2. QED
    BY <1>1, <2>1 DEF TypeOK, CopySet, PlaceInv, HandInv, SlotInv, AskInv,
       peers, pool, hands, history, StreamOf, Asker
<1>2. CASE Select
  <2>1. \E l \in {"check", "stop"} : Goto("stream", l)
    BY <1>2 DEF Select
  <2>2. QED
    BY <1>2, <2>1 DEF TypeOK, Select, PlaceInv, HandInv, SlotInv, AskInv, peers,
       pool, hands, history, StreamOf, Asker
<1>3. CASE CheckStop
  BY <1>3 DEF TypeOK, CheckStop, PlaceInv, HandInv, SlotInv, AskInv, peers,
     pool, hands, history, StreamOf, Asker
<1>4. CASE Scan
  <2>1. \/ /\ \E l \in {"head", "scan"} : Goto("stream", l)
           /\ UNCHANGED stream_fd
        \/ \E f \in Fds : Goto("stream", "prepare")
                          /\ stream_fd' = [stream_fd EXCEPT !["stream"] = f]
    <3>1. turn <= MAX_CLIENTS /\ StreamOf(turn) \in write_set =>
            StreamOf(turn) \in Fds
      BY DEF TypeOK
    <3>2. turn > MAX_CLIENTS \/ turn <= MAX_CLIENTS
      BY DEF TypeOK
    <3>3. UNCHANGED pc => Goto("stream", "scan")
      BY <1>4 DEF Scan, Goto, TypeOK
    <3>4. QED
      BY <1>4, <3>1, <3>2, <3>3 DEF Scan, Take
  <2>2. UNCHANGED <<peers, pool, whom, idx, history>>
    BY <1>4 DEF Scan
  <2>3. QED
    BY <2>1, <2>2 DEF TypeOK, PlaceInv, HandInv, SlotInv, AskInv, peers, pool,
       history, StreamOf, Asker
<1>5. CASE PrepareStream
  <2> DEFINE found == {s \in SlotOf(stream_fd["stream"]) : client_arr[s].here}
  <2>1. found # {} => Min(found) \in Slots
    <3>1. found \subseteq Slots
      BY DEF SlotOf
    <3>2. QED
      BY <3>1, MinSlot
  <2> HIDE DEF found
  <2>2. \/ Goto("stream", "clear") /\ UNCHANGED idx
        \/ /\ found # {} /\ idx' = [idx EXCEPT !["stream"] = Min(found)]
           /\ \E l \in {"sendto", "clear"} : Goto("stream", l)
    BY <1>5 DEF PrepareStream, Fails, found
  <2>3. stream_fd["stream"] \in Fds
    BY <1>5 DEF PlaceInv, HandInv, SlotInv, AskInv, PrepareStream
  <2>4. UNCHANGED <<peers, pool, whom, stream_fd, promised>>
    BY <1>5 DEF PrepareStream
  <2>5. QED
    BY <2>1, <2>2, <2>3, <2>4 DEF TypeOK, PlaceInv, HandInv, SlotInv, AskInv,
       peers, pool, StreamOf, Asker
<1>6. CASE SendTo
  BY <1>6 DEF TypeOK, SendTo, FreeHand, PlaceInv, HandInv, SlotInv, AskInv,
     peers, pool, history, StreamOf, Asker
<1>7. CASE Blocks
  BY <1>7 DEF TypeOK, Blocks, PlaceInv, HandInv, SlotInv, AskInv, peers, pool,
     hands, history, StreamOf, Asker
<1>8. CASE Unblocks
  BY <1>8 DEF TypeOK, Unblocks, FreeHand, PlaceInv, HandInv, SlotInv, AskInv,
     peers, pool, history, StreamOf, Asker
<1>9. CASE SendToFails
  <2>1. Goto("stream", "clear") /\ stream_fd["stream"] \in Fds
    BY <1>9 DEF SendToFails, Fails, PlaceInv, HandInv, SlotInv, AskInv
  <2>2. UNCHANGED <<peers, pool, hands, promised>>
    BY <1>9 DEF SendToFails
  <2>3. QED
    BY <2>1, <2>2 DEF TypeOK, PlaceInv, HandInv, SlotInv, AskInv, peers, pool,
       hands, StreamOf, Asker
<1>10. CASE StreamEnds
  BY <1>10 DEF TypeOK, StreamEnds, PlaceInv, HandInv, SlotInv, AskInv, peers,
     pool, hands, history, StreamOf, Asker
<1>11. QED
  BY <1>1, <1>2, <1>3, <1>4, <1>5, <1>6, <1>7, <1>8, <1>9, <1>10

LEMMA PlaceKeptByRemoval ==
  ASSUME TypeOK, PlaceInv
  PROVE  /\ \A s \in Slots : ServerDrops(s) => PlaceInv'
         /\ \A t \in Droppers : Drop(t) \/ RemoveClient(t) \/ ZeroSlot(t) => PlaceInv'
         /\ \A t \in Threads : FindStream(t) \/ CloseStream(t) \/ FdClear(t) => PlaceInv'
<1>a. \A t \in Droppers : ZeroSlot(t) =>
        /\ SlotInv'
        /\ \A s \in Slots : peer[s] = "open" =>
             client_arr'[s].stream_fd = StreamOf(s)
  BY ZeroChanges DEF PlaceInv, SlotInv, StreamOf
<1>b. \A t \in Threads : CloseStream(t) =>
        /\ SlotInv'
        /\ \A s \in Slots : client_arr'[s].stream_fd \in {0, StreamOf(s)}
  BY CloseChanges DEF PlaceInv, SlotInv, StreamOf
<1> USE Numbers, SlotFacts, GotoChanges DEF Threads, Droppers, DropperPcs
<1>1. ASSUME NEW s \in Slots, ServerDrops(s) PROVE PlaceInv'
  BY <1>1 DEF TypeOK, ServerDrops, PlaceInv, HandInv, SlotInv, AskInv, peers,
     pool, history, StreamOf, Asker
<1>2. ASSUME NEW t \in Droppers, Drop(t) PROVE PlaceInv'
  <2>1. whom[t] \in Slots /\ peer[whom[t]] = "left"
    BY <1>2 DEF PlaceInv, HandInv, SlotInv, AskInv, Drop
  <2> DEFINE f == StreamOf(whom[t])
  <2>2. f \in Fds \cup {0}
    BY <2>1
  <2> HIDE DEF f
  <2>3. stream_fd' = [stream_fd EXCEPT ![t] = f]
        /\ Goto(t, IF f > 0 THEN "clear" ELSE "remove")
    BY <1>2 DEF Drop, Take, f
  <2>4. QED
    BY <1>2, <2>1, <2>2, <2>3 DEF TypeOK, Drop, PlaceInv, HandInv, SlotInv,
       AskInv, peers, pool, history, StreamOf, Asker
<1>3. ASSUME NEW t \in Droppers, RemoveClient(t) PROVE PlaceInv'
  <2>1. whom[t] \in Slots /\ peer[whom[t]] = "left"
    BY <1>3 DEF PlaceInv, HandInv, SlotInv, AskInv, RemoveClient
  <2>2. CASE Done(t)
    BY <1>3, <2>1, <2>2 DEF TypeOK, RemoveClient, Done, FreeHand, PlaceInv,
       HandInv, SlotInv, AskInv, peers, pool, history, StreamOf, Asker
  <2>3. CASE idx' = [idx EXCEPT ![t] = whom[t]] /\ Goto(t, "lookup")
             /\ UNCHANGED <<whom, stream_fd, which>>
    BY <1>3, <2>1, <2>3 DEF TypeOK, RemoveClient, PlaceInv, HandInv, SlotInv,
       AskInv, peers, pool, history, StreamOf, Asker
  <2>4. QED
    BY <1>3, <2>2, <2>3 DEF RemoveClient
<1>4. ASSUME NEW t \in Droppers, ZeroSlot(t) PROVE PlaceInv'
  <2>1. SlotInv'
    BY <1>4, <1>a
  <2>2. Done(t) /\ UNCHANGED <<peers, history>>
    BY <1>4 DEF ZeroSlot
  <2>3. HandInv'
    BY <2>2 DEF TypeOK, PlaceInv, HandInv, Done, FreeHand, peers, history
  <2>4. AskInv'
    <3>1. CASE t = "response"
      <4>1. pc'["response"] = "idle"
        BY <2>2, <3>1 DEF TypeOK, Done, Goto
      <4>2. QED
        BY <4>1 DEF AskInv
    <3>2. CASE t = "server"
      <4>1. pc'["response"] = pc["response"] /\ Asker' = Asker
        BY <2>2, <3>2 DEF TypeOK, Done, Goto, Asker
      <4>2. pc["response"] = "create" \/ pc["response"] = "socket" => Asker \in Slots
        BY DEF PlaceInv, HandInv, Asker
      <4>3. QED
        BY <1>4, <1>a, <2>2, <4>1, <4>2 DEF PlaceInv, AskInv, StreamOf, peers,
           history
    <3>3. QED
      BY <3>1, <3>2
  <2>5. QED
    BY <2>1, <2>3, <2>4 DEF PlaceInv
<1>5. ASSUME NEW t \in Threads, FindStream(t) PROVE PlaceInv'
  <2> DEFINE f == IF t = "stream" THEN stream_fd[t] ELSE StreamOf(idx[t])
             found == IF f = 0 THEN {} ELSE {s \in SlotOf(f) : Alive(s)}
  <2>1. f \in Fds \cup {0} /\ (found # {} => f # 0)
    <3>1. t # "stream" => idx[t] \in Slots
      BY <1>5 DEF PlaceInv, HandInv, SlotInv, AskInv, FindStream
    <3>2. QED
      BY <3>1 DEF TypeOK
  <2>2. found # {} => Min(found) \in Slots
    <3>1. found \subseteq Slots
      BY DEF SlotOf
    <3>2. QED
      BY <3>1, MinSlot
  <2>3. t = "stream" => f = stream_fd[t]
    OBVIOUS
  <2> HIDE DEF f, found
  <2>4. \/ Goto(t, After(t)) /\ FreeHand(t)
        \/ /\ found # {} /\ idx' = [idx EXCEPT ![t] = Min(found)]
           /\ IF t = "stream" THEN UNCHANGED <<stream_fd, which>> ELSE Take(t, f)
           /\ Goto(t, "close")
    BY <1>5 DEF FindStream, f, found
  <2>5. pc[t] = "lookup" /\ UNCHANGED <<peers, pool, whom, history>>
    BY <1>5 DEF FindStream
  <2>6. CASE Goto(t, After(t)) /\ FreeHand(t)
    BY <2>5, <2>6 DEF TypeOK, PlaceInv, HandInv, SlotInv, AskInv, FreeHand,
       After, peers, pool, history, StreamOf, Asker
  <2>7. CASE /\ found # {} /\ idx' = [idx EXCEPT ![t] = Min(found)]
             /\ IF t = "stream" THEN UNCHANGED <<stream_fd, which>> ELSE Take(t, f)
             /\ Goto(t, "close")
    <3>1. \A u \in Threads : u # t => stream_fd'[u] = stream_fd[u]
                                      /\ idx'[u] = idx[u]
      BY <2>7 DEF TypeOK, Take
    <3>2. stream_fd'[t] \in Fds /\ idx'[t] \in Slots
      BY <2>1, <2>2, <2>3, <2>7 DEF TypeOK, Take
    <3>3. QED
      BY <2>5, <2>7, <3>1, <3>2 DEF TypeOK, PlaceInv, HandInv, SlotInv, AskInv,
         peers, pool, history, StreamOf, Asker
  <2>8. QED
    BY <2>4, <2>6, <2>7
<1>6. ASSUME NEW t \in Threads, CloseStream(t) PROVE PlaceInv'
  <2>1. SlotInv'
    BY <1>6, <1>b
  <2>2. Goto(t, After(t)) /\ FreeHand(t) /\ UNCHANGED <<peers, whom, history>>
        /\ pc[t] = "close"
    BY <1>6 DEF CloseStream
  <2>3. HandInv'
    BY <2>2 DEF TypeOK, PlaceInv, HandInv, After, FreeHand, peers, history
  <2>4. AskInv'
    BY <1>6, <1>b, <2>2 DEF TypeOK, PlaceInv, AskInv, HandInv, After, FreeHand,
       StreamOf, peers, history, Asker
  <2>5. QED
    BY <2>1, <2>3, <2>4 DEF PlaceInv
<1>7. ASSUME NEW t \in Threads, FdClear(t) PROVE PlaceInv'
  <2>1. /\ UNCHANGED <<peers, pool, hands, history>>
        /\ \/ pc[t] = "clear" /\ Goto(t, "clearing")
           \/ /\ pc[t] = "clearing"
              /\ Goto(t, IF t = "stream" THEN "lookup" ELSE "remove")
    BY <1>7 DEF FdClear, ReadWord, WriteWord
  <2>2. QED
    BY <2>1 DEF TypeOK, PlaceInv, HandInv, SlotInv, AskInv, peers, pool, hands,
       history, StreamOf, Asker
<1>8. QED
  BY <1>1, <1>2, <1>3, <1>4, <1>5, <1>6, <1>7

-----------------------------------------------------------------------------
(* Descriptors and the slots they are in.                                  *)

\* A thread keeps what it has in hand, and does not come closer to using it.
Stays(t) ==
  /\ Holds(t)
  /\ stream_fd'[t] = stream_fd[t] /\ which'[t] = which[t] /\ idx'[t] = idx[t]
  /\ t \in Droppers => whom'[t] = whom[t]
  /\ t \in Droppers /\ pc'[t] \in {"clear", "clearing", "close"} =>
       pc[t] \in {"clear", "clearing", "close"}
  /\ pc'[t] = "close" => pc[t] = "close"
  /\ pc'[t] \in {"sendto", "blocked"} => pc[t] \in {"sendto", "blocked"}
  /\ pc'[t] \in {"add", "adding"} => pc[t] \in {"add", "adding"}

\* A step that gives no stream to a slot, takes none away, and puts none in the
\* thread's hand.
LEMMA KnowsFrame ==
  ASSUME TypeOK, PlaceInv,
         \A s \in Slots : client_arr'[s].stream_fd = StreamOf(s),
         UNCHANGED fds,
         \A s \in Slots : peer'[s] = "open" => peer[s] = "open",
         NEW t \in Threads, Knows(t), Stays(t) \/ ~Holds(t)'
  PROVE  Knows(t)'
<1> USE DEF Threads, Droppers
<1>1. CASE ~Holds(t)'
  <2>1. /\ t \in Droppers => pc'[t] \notin {"clear", "clearing", "close"}
        /\ t = "response" => pc'[t] \notin {"add", "adding"}
        /\ t = "stream" => pc'[t] \notin {"sendto", "blocked", "close"}
    BY <1>1 DEF Holds
  <2>2. QED
    BY <1>1, <2>1 DEF Knows
<1>2. CASE Stays(t)
  <2>1. Means(t)' => Means(t)
    BY <1>2 DEF Means, Stays
  <2>2. Holds(t) /\ which'[t] # 0
    BY <1>2 DEF Stays, Knows
  <2>3. t = "response" /\ pc[t] \in {"add", "adding"} => whom[t] \in Slots
    BY DEF PlaceInv, HandInv
  <2>4. pc[t] = "close" => idx[t] \in Slots
    BY DEF PlaceInv, HandInv
  <2>5. QED
    BY <1>2, <2>1, <2>2, <2>3, <2>4 DEF Knows, Stays, StreamOf
<1>3. QED
  BY <1>1, <1>2

LEMMA OwnFrame ==
  ASSUME TypeOK, PlaceInv, OwnInv,
         \A s \in Slots : client_arr'[s].stream_fd = StreamOf(s),
         UNCHANGED <<fds, made>>,
         \A s \in Slots : peer'[s] = "open" => peer[s] = "open",
         doubled => doubled',
         \A t \in Threads : which'[t] <= made,
         \A t \in Threads : Stays(t) \/ ~Holds(t)'
  PROVE  OwnInv'
<1>1. CountInv'
  BY DEF OwnInv, CountInv
<1>2. ~doubled' => AloneInv'
  BY DEF OwnInv, AloneInv, StreamOf
<1>3. ~doubled' => \A t \in Threads : Knows(t)'
  BY KnowsFrame DEF OwnInv
<1>4. QED
  BY <1>1, <1>2, <1>3 DEF OwnInv

\* The steps within that frame.
LEMMA OwnKeptBySmallSteps ==
  ASSUME TypeOK, PlaceInv, OwnInv
  PROVE  /\ \A s \in Slots : Ask(s) \/ Bind(s) \/ Unbind(s) \/ Leave(s) => OwnInv'
         /\ \A s \in Slots : ServerDrops(s) \/ Dequeue(s) => OwnInv'
         /\ Stop \/ FdSet \/ Answer \/ FindClient \/ GetPaths => OwnInv'
         /\ CopySet \/ Select \/ CheckStop \/ SendTo \/ Blocks \/ Unblocks
            \/ SendToFails \/ StreamEnds => OwnInv'
         /\ \A t \in Droppers : RemoveClient(t) => OwnInv'
         /\ \A t \in Threads : FdClear(t) => OwnInv'
<1> DEFINE Frame == /\ UNCHANGED <<client_arr, fds, made>>
                    /\ \A s \in Slots : peer'[s] = "open" => peer[s] = "open"
                    /\ doubled => doubled'
                    /\ \A t \in Threads : which'[t] <= made
                    /\ \A t \in Threads : Stays(t) \/ ~Holds(t)'
<1>1. Frame => OwnInv'
  BY OwnFrame DEF StreamOf
<1> HIDE DEF Frame
<1> USE GotoChanges DEF Threads, Droppers
<1>2. \A t \in Threads : which[t] <= made /\ 0 <= made
  BY DEF OwnInv, CountInv, TypeOK
<1>3. ASSUME UNCHANGED <<pc, hands>>
      PROVE  (\A t \in Threads : which'[t] <= made)
             /\ (\A t \in Threads : Stays(t) \/ ~Holds(t)')
  BY <1>2, <1>3 DEF Stays, Holds, hands
<1>4. ASSUME NEW s \in Slots, Ask(s) \/ Bind(s) \/ Unbind(s) PROVE Frame
  BY <1>3, <1>4 DEF Ask, Bind, Unbind, Frame, pool, marks
<1>5. ASSUME NEW s \in Slots, Leave(s) PROVE Frame
  BY <1>3, <1>5 DEF Leave, Frame, TypeOK, pool, marks
<1>6. ASSUME Stop PROVE Frame
  BY <1>3, <1>6 DEF Stop, Frame, pool, marks, peers
<1>7. ASSUME NEW s \in Slots, ServerDrops(s) PROVE Frame
  BY <1>2, <1>7 DEF ServerDrops, Frame, pool, marks, peers, TypeOK, Stays, Holds
<1>8. ASSUME NEW s \in Slots, Dequeue(s) PROVE Frame
  <2>1. pc'["response"] \in {"paths", "create"}
        /\ pc'["server"] = pc["server"] /\ pc'["stream"] = pc["stream"]
    BY <1>8 DEF Dequeue
  <2>2. UNCHANGED <<client_arr, fds, made, peer, doubled, stream_fd, which, idx>>
        /\ whom' = [whom EXCEPT !["response"] = s]
    BY <1>8 DEF Dequeue, pool, marks
  <2>3. QED
    BY <1>2, <2>1, <2>2 DEF Frame, TypeOK, Stays, Holds
<1>9. ASSUME FdSet PROVE Frame
  <2>1. /\ UNCHANGED <<peers, pool, hands>> /\ (doubled => doubled')
        /\ \/ pc["response"] = "add" /\ Goto("response", "adding")
           \/ pc["response"] = "adding" /\ Goto("response", "paths")
    <3>1. CASE ReadWord("response", "add", "adding")
      BY <3>1 DEF ReadWord, marks
    <3>2. CASE WriteWord("response", "adding", "paths",
                         word["response"] \cup {stream_fd["response"]})
      BY <3>2 DEF WriteWord
    <3>3. QED
      BY <1>9, <3>1, <3>2 DEF FdSet
  <2>2. QED
    BY <1>2, <2>1 DEF Frame, TypeOK, Stays, Holds, peers, pool, hands
<1>10. ASSUME Answer PROVE Frame
  BY <1>2, <1>10 DEF Answer, Done, FreeHand, Frame, TypeOK, Stays, Holds, peers,
     pool, hands, marks
<1>11. ASSUME FindClient \/ GetPaths PROVE Frame
  <2>1. UNCHANGED <<peers, pool, hands, marks>>
        /\ \E l \in {"socket", "paths", "trigger", "deny"} : Goto("response", l)
    BY <1>11 DEF FindClient, GetPaths
  <2>2. QED
    BY <1>2, <2>1 DEF Frame, TypeOK, Stays, Holds, peers, pool, hands, marks
<1>12. ASSUME CopySet \/ Select \/ CheckStop \/ StreamEnds PROVE Frame
  <2>1. UNCHANGED <<peers, pool, hands, marks>>
        /\ \E l \in {"pselect", "stop", "check", "scan", "ended"} : Goto("stream", l)
    BY <1>12 DEF CopySet, Select, CheckStop, StreamEnds
  <2>2. QED
    BY <1>2, <2>1 DEF Frame, TypeOK, Stays, Holds, peers, pool, hands, marks
<1>13. ASSUME SendTo \/ Unblocks PROVE Frame
  <2>1. UNCHANGED <<peers, pool, whom, marks>>
        /\ Goto("stream", "scan") /\ FreeHand("stream")
    BY <1>13 DEF SendTo, Unblocks
  <2>2. QED
    BY <1>2, <2>1 DEF Frame, TypeOK, Stays, Holds, FreeHand, peers, pool, marks
<1>14. ASSUME Blocks \/ SendToFails PROVE Frame
  <2>1. UNCHANGED <<peers, pool, hands, marks>>
        /\ pc["stream"] \in {"sendto", "blocked"}
        /\ (Goto("stream", "blocked") \/ Goto("stream", "clear"))
    BY <1>14 DEF Blocks, SendToFails, Fails
  <2>2. QED
    BY <1>2, <2>1 DEF Frame, TypeOK, Stays, Holds, peers, pool, hands, marks
<1>15. ASSUME NEW t \in Droppers, RemoveClient(t) PROVE Frame
  <2>1. UNCHANGED <<peers, pool, marks>>
    BY <1>15 DEF RemoveClient
  <2>2. CASE Done(t)
    BY <1>2, <2>1, <2>2 DEF Done, FreeHand, Frame, TypeOK, Stays, Holds, peers,
       pool, marks
  <2>3. CASE idx' = [idx EXCEPT ![t] = whom[t]] /\ Goto(t, "lookup")
             /\ UNCHANGED <<whom, stream_fd, which>>
    BY <1>2, <2>1, <2>3 DEF Frame, TypeOK, Stays, Holds, peers, pool, marks
  <2>4. QED
    BY <1>15, <2>2, <2>3 DEF RemoveClient
<1>16. ASSUME NEW t \in Threads, FdClear(t) PROVE Frame
  <2>1. /\ UNCHANGED <<peers, pool, hands>> /\ (doubled => doubled')
        /\ \/ pc[t] = "clear" /\ Goto(t, "clearing")
           \/ /\ pc[t] = "clearing"
              /\ Goto(t, IF t = "stream" THEN "lookup" ELSE "remove")
    <3>1. CASE ReadWord(t, "clear", "clearing")
      BY <3>1 DEF ReadWord, marks
    <3>2. CASE WriteWord(t, "clearing", IF t = "stream" THEN "lookup" ELSE "remove",
                         word[t] \ {stream_fd[t]})
      BY <3>2 DEF WriteWord
    <3>3. QED
      BY <1>16, <3>1, <3>2 DEF FdClear
  <2>2. QED
    BY <1>2, <1>16, <2>1 DEF Frame, TypeOK, Stays, Holds, peers, pool, hands
<1>17. QED
  BY <1>1, <1>4, <1>5, <1>6, <1>7, <1>8, <1>9, <1>10, <1>11, <1>12, <1>13,
     <1>14, <1>15, <1>16

\* The steps that put a stream in the hand of one thread.
LEMMA OwnKeptByTaking ==
  ASSUME TypeOK, PlaceInv, OwnInv
  PROVE  /\ \A t \in Droppers : Drop(t) => OwnInv'
         /\ GetStreamFd \/ Scan \/ PrepareStream \/ TriggerStream => OwnInv'
         /\ \A t \in Threads : FindStream(t) => OwnInv'
<1> DEFINE Frame(t) == /\ UNCHANGED <<client_arr, fds, made, peer, doubled>>
                       /\ which'[t] <= made
                       /\ \A u \in Threads \ {t} :
                            /\ pc'[u] = pc[u] /\ stream_fd'[u] = stream_fd[u]
                            /\ which'[u] = which[u] /\ idx'[u] = idx[u]
                       /\ UNCHANGED whom
<1>1. ASSUME NEW t \in Threads, Frame(t),
             ~doubled /\ AloneInv /\ Knows(t) => Knows(t)'
      PROVE  OwnInv'
  <2>1. CountInv'
    BY <1>1 DEF OwnInv, CountInv
  <2>2. ~doubled' => AloneInv'
    BY <1>1 DEF OwnInv, AloneInv, StreamOf
  <2>3. ASSUME NEW u \in Threads \ {t}, ~doubled'
        PROVE  Knows(u)'
    <3>1. Stays(u) \/ ~Holds(u)'
      BY <1>1 DEF Stays, Holds
    <3>2. Knows(u)
      BY <1>1, <2>3 DEF OwnInv
    <3>3. QED
      BY <1>1, <3>1, <3>2, KnowsFrame DEF StreamOf
  <2>4. QED
    BY <1>1, <2>1, <2>2, <2>3 DEF OwnInv
<1> USE Numbers, GotoChanges, SlotFacts DEF Threads, Droppers
<1>2. \A f \in Fds : fds[f] \in Nat /\ fds[f] <= made /\ 0 <= made
  BY DEF OwnInv, CountInv, TypeOK
<1>3. ASSUME NEW t \in Droppers, Drop(t) PROVE OwnInv'
  <2>1. whom[t] \in Slots
    BY <1>3 DEF PlaceInv, HandInv, Drop
  <2> DEFINE f == StreamOf(whom[t])
  <2>2. f \in Fds \cup {0} /\ (f > 0 <=> f # 0)
    BY <2>1
  <2>3. AloneInv => (f # 0 => fds[f] # 0)
                    /\ \A s \in Slots : StreamOf(s) = f => s = whom[t] \/ f = 0
    BY <2>1 DEF AloneInv
  <2> HIDE DEF f
  <2>4. /\ stream_fd' = [stream_fd EXCEPT ![t] = f]
        /\ which' = [which EXCEPT ![t] = IF f = 0 THEN 0 ELSE fds[f]]
        /\ Goto(t, IF f > 0 THEN "clear" ELSE "remove")
        /\ UNCHANGED <<client_arr, fds, made, peer, doubled, idx, whom>>
    BY <1>3 DEF Drop, Take, f, pool, peers, marks
  <2>5. Frame(t)
    BY <1>2, <2>2, <2>4 DEF TypeOK
  <2>6. AloneInv => Knows(t)'
    BY <2>2, <2>3, <2>4 DEF TypeOK, Knows, Holds, Means, StreamOf
  <2>7. QED
    BY <1>1, <2>5, <2>6
<1>4. CASE GetStreamFd
  <2>1. Asker \in Slots
    BY <1>4 DEF PlaceInv, HandInv, GetStreamFd, Asker
  <2> DEFINE f == IF client_arr[Asker].here THEN StreamOf(Asker) ELSE 0
  <2>2. f \in Fds \cup {0} /\ (f > 0 <=> f # 0) /\ (f # 0 => f = StreamOf(Asker))
    <3>1. StreamOf(Asker) \in Fds \cup {0} /\ (StreamOf(Asker) > 0 <=> StreamOf(Asker) # 0)
      BY <2>1
    <3>2. f = 0 \/ f = StreamOf(Asker)
      OBVIOUS
    <3> HIDE DEF f
    <3>3. QED
      BY <3>1, <3>2
  <2>3. AloneInv => (f # 0 => fds[f] # 0)
    BY <2>1 DEF AloneInv
  <2> HIDE DEF f
  <2>4. /\ stream_fd' = [stream_fd EXCEPT !["response"] = f]
        /\ which' = [which EXCEPT !["response"] = IF f = 0 THEN 0 ELSE fds[f]]
        /\ Goto("response", IF f > 0 THEN "add" ELSE "paths")
        /\ UNCHANGED <<client_arr, fds, made, peer, doubled, idx, whom>>
    BY <1>4 DEF GetStreamFd, Take, f, pool, peers, marks
  <2>5. Frame("response")
    BY <1>2, <2>2, <2>4 DEF TypeOK
  <2>6. AloneInv => Knows("response")'
    BY <2>2, <2>3, <2>4 DEF TypeOK, Knows, Holds, Means, StreamOf, Asker
  <2>7. QED
    BY <1>1, <2>5, <2>6
<1>5. CASE Scan
  <2>1. CASE turn <= MAX_CLIENTS /\ StreamOf(turn) \in write_set
    <3>1. turn \in Slots /\ StreamOf(turn) \in Fds
      BY <2>1 DEF TypeOK, Slots
    <3>2. AloneInv => fds[StreamOf(turn)] # 0
      BY <3>1 DEF AloneInv
    <3>3. /\ stream_fd' = [stream_fd EXCEPT !["stream"] = StreamOf(turn)]
          /\ which' = [which EXCEPT !["stream"] = fds[StreamOf(turn)]]
          /\ Goto("stream", "prepare")
          /\ UNCHANGED <<client_arr, fds, made, peer, doubled, idx, whom>>
      BY <1>5, <2>1, <3>1 DEF TypeOK, Scan, Take, pool, peers, marks
    <3>4. Frame("stream")
      BY <1>2, <3>1, <3>3 DEF TypeOK
    <3>5. AloneInv => Knows("stream")'
      BY <3>2, <3>3 DEF TypeOK, Knows, Holds
    <3>6. QED
      BY <1>1, <3>4, <3>5
  <2>2. CASE ~(turn <= MAX_CLIENTS /\ StreamOf(turn) \in write_set)
    <3>1. /\ UNCHANGED <<stream_fd, which>>
          /\ pc'["stream"] \in {"scan", "head"}
          /\ pc'["server"] = pc["server"] /\ pc'["response"] = pc["response"]
      BY <1>5, <2>2 DEF TypeOK, Scan
    <3>2. Frame("stream")
      BY <1>5, <3>1 DEF Scan, pool, peers, marks, OwnInv, CountInv
    <3>3. Knows("stream")'
      BY <3>1 DEF Knows, Holds
    <3>4. QED
      BY <1>1, <3>2, <3>3
  <2>3. QED
    BY <2>1, <2>2
<1>6. CASE PrepareStream
  <2> DEFINE found == {s \in SlotOf(stream_fd["stream"]) : client_arr[s].here}
  <2>1. /\ UNCHANGED <<client_arr, fds, made, peer, doubled, whom, stream_fd, which>>
        /\ pc["stream"] = "prepare"
    BY <1>6 DEF PrepareStream, pool, peers, marks
  <2>2. \/ Goto("stream", "clear") /\ UNCHANGED idx
        \/ /\ found # {} /\ idx' = [idx EXCEPT !["stream"] = Min(found)]
           /\ \E l \in {"sendto", "clear"} : Goto("stream", l)
    BY <1>6 DEF PrepareStream, Fails
  <2>3. found # {} => Min(found) \in Slots
                      /\ StreamOf(Min(found)) = stream_fd["stream"]
    <3>1. found \subseteq Slots
      BY DEF SlotOf
    <3>2. QED
      BY <3>1, MinSlot DEF SlotOf
  <2> HIDE DEF found
  <2>4. Frame("stream")
    BY <2>1, <2>2 DEF TypeOK, OwnInv, CountInv
  <2>5. AloneInv /\ Means("stream") /\ found # {} =>
          \A s \in Slots : StreamOf(s) = stream_fd["stream"] => s = Min(found)
    BY <2>3 DEF AloneInv, Means
  <2>6. Knows("stream") => which["stream"] # 0
    BY <2>1 DEF Knows, Holds
  <2>7. AloneInv /\ Knows("stream") => Knows("stream")'
    BY <2>1, <2>2, <2>5, <2>6 DEF TypeOK, Knows, Means, StreamOf
  <2>8. QED
    BY <1>1, <2>4, <2>7
<1>7. CASE TriggerStream
  <2>1. UNCHANGED <<fds, made, hands, peer, doubled>> /\ Goto("response", "answer")
    BY <1>7 DEF TriggerStream, peers, marks
  <2>2. \A s \in Slots : client_arr'[s].stream_fd = StreamOf(s)
    BY <1>7, TriggerChanges DEF StreamOf
  <2>3. \A t \in Threads : which'[t] <= made
    BY <2>1 DEF hands, OwnInv, CountInv
  <2>4. \A t \in Threads : Stays(t) \/ ~Holds(t)'
    BY <2>1 DEF Stays, Holds, hands
  <2>5. QED
    BY <2>1, <2>2, <2>3, <2>4, OwnFrame
<1>8. ASSUME NEW t \in Threads, FindStream(t) PROVE OwnInv'
  <2> DEFINE f == IF t = "stream" THEN stream_fd[t] ELSE StreamOf(idx[t])
             found == IF f = 0 THEN {} ELSE {s \in SlotOf(f) : Alive(s)}
  <2>1. f \in Fds \cup {0} /\ (found # {} => f # 0)
    <3>1. t # "stream" => idx[t] \in Slots
      BY <1>8 DEF PlaceInv, HandInv, FindStream
    <3>2. QED
      BY <3>1 DEF TypeOK
  <2>2. found # {} => Min(found) \in Slots /\ StreamOf(Min(found)) = f
    <3>1. found \subseteq Slots
      BY DEF SlotOf
    <3>2. QED
      BY <3>1, MinSlot DEF SlotOf
  <2>4. /\ t = "stream" => f = stream_fd[t]
        /\ t # "stream" => f = StreamOf(whom[t]) /\ whom[t] \in Slots
    BY <1>8 DEF PlaceInv, HandInv, FindStream
  <2> HIDE DEF f, found
  <2>3. AloneInv /\ found # {} =>
          /\ fds[f] # 0
          /\ \A s \in Slots : StreamOf(s) = f => s = Min(found)
    BY <2>1, <2>2 DEF AloneInv
  <2>5. \/ Goto(t, After(t)) /\ FreeHand(t)
        \/ /\ found # {} /\ idx' = [idx EXCEPT ![t] = Min(found)]
           /\ IF t = "stream" THEN UNCHANGED <<stream_fd, which>> ELSE Take(t, f)
           /\ Goto(t, "close")
    BY <1>8 DEF FindStream, f, found
  <2>6. /\ pc[t] = "lookup"
        /\ UNCHANGED <<client_arr, fds, made, peer, doubled, whom>>
    BY <1>8 DEF FindStream, pool, peers, marks
  <2>7. CASE Goto(t, After(t)) /\ FreeHand(t)
    <3>1. Frame(t)
      BY <1>2, <2>6, <2>7 DEF TypeOK, FreeHand
    <3>2. Knows(t)'
      BY <2>7 DEF TypeOK, Knows, Holds, After
    <3>3. QED
      BY <1>1, <3>1, <3>2
  <2>8. CASE /\ found # {} /\ idx' = [idx EXCEPT ![t] = Min(found)]
             /\ IF t = "stream" THEN UNCHANGED <<stream_fd, which>> ELSE Take(t, f)
             /\ Goto(t, "close")
    <3>1. Frame(t)
      <4>1. which'[t] <= made
        BY <1>2, <2>1, <2>8 DEF TypeOK, Take, OwnInv, CountInv
      <4>2. QED
        BY <2>6, <2>8, <4>1 DEF TypeOK, Take
    <3>2. /\ stream_fd'[t] = f /\ idx'[t] = Min(found) /\ pc'[t] = "close"
          /\ t # "stream" => which'[t] = fds[f]
          /\ t = "stream" => which'[t] = which[t]
      BY <2>1, <2>4, <2>8 DEF TypeOK, Take
    <3>3. AloneInv /\ Knows(t) => which'[t] # 0
      BY <2>3, <2>6, <2>8, <3>2 DEF Knows, Holds
    <3>4. AloneInv /\ t # "stream" => whom'[t] = Min(found)
      BY <2>3, <2>4, <2>6, <2>8
    <3>5. AloneInv /\ Knows(t) => Knows(t)'
      BY <2>2, <2>3, <2>6, <2>8, <3>2, <3>3, <3>4 DEF Knows, StreamOf
    <3>6. QED
      BY <1>1, <3>1, <3>5
  <2>9. QED
    BY <2>5, <2>7, <2>8
<1>9. QED
  BY <1>3, <1>4, <1>5, <1>6, <1>7, <1>8

\* The steps that take a stream from a slot, or give one.
LEMMA OwnKeptByRemoval ==
  ASSUME TypeOK, PlaceInv, OwnInv
  PROVE  /\ \A t \in Droppers : ZeroSlot(t) => OwnInv'
         /\ \A t \in Threads : CloseStream(t) => OwnInv'
<1> USE DEF Threads, Droppers
<1>1. ASSUME NEW t \in Droppers, ZeroSlot(t) PROVE OwnInv'
  <2>1. /\ whom[t] \in Slots /\ peer[whom[t]] = "left"
        /\ \A s \in Slots : s # whom[t] => StreamOf(s)' = StreamOf(s)
        /\ \A s \in Slots : s = whom[t] => StreamOf(s)' = 0
        /\ UNCHANGED <<fds, made, peer, doubled>>
    BY <1>1, ZeroChanges
  <2>2. Done(t)
    BY <1>1 DEF ZeroSlot
  <2>3. CountInv'
    BY <2>1, <2>2 DEF OwnInv, CountInv, Done, FreeHand, TypeOK
  <2>4. ~doubled' => AloneInv'
    BY <2>1 DEF OwnInv, AloneInv
  <2>5. ASSUME NEW u \in Threads, ~doubled' PROVE Knows(u)'
    <3>1. CASE u = t
      <4>1. pc'[u] = "idle"
        BY <2>2, <3>1 DEF Done, Goto, TypeOK
      <4>2. QED
        BY <4>1 DEF Knows, Holds
    <3>2. CASE u # t
      <4>1. /\ pc'[u] = pc[u] /\ stream_fd'[u] = stream_fd[u]
            /\ which'[u] = which[u] /\ idx'[u] = idx[u]
            /\ u \in Droppers => whom'[u] = whom[u]
        BY <2>2, <3>2 DEF Done, FreeHand, Goto, TypeOK
      <4>2. Means(u)' <=> Means(u)
        BY <2>1, <4>1 DEF Means
      <4>3. Holds(u)' <=> Holds(u)
        BY <4>1 DEF Holds
      <4>4. Knows(u) /\ (Holds(u) => stream_fd[u] \in Fds)
        BY <2>1, <2>5 DEF OwnInv, PlaceInv, HandInv, Holds
      <4>5. \A s \in Slots : StreamOf(s)' = stream_fd[u] /\ Holds(u) =>
                               StreamOf(s) = stream_fd[u]
        BY <2>1, <4>4, Numbers
      <4>6. \A s \in Slots : peer[s] = "open" => StreamOf(s)' = StreamOf(s)
        BY <2>1
      <4>7. /\ u = "response" /\ pc[u] \in {"add", "adding"} => whom[u] \in Slots
            /\ pc[u] = "close" => idx[u] \in Slots
        BY DEF PlaceInv, HandInv
      <4>8. QED
        BY <2>1, <4>1, <4>2, <4>3, <4>4, <4>5, <4>6, <4>7 DEF Knows, Holds,
           StreamOf
    <3>3. QED
      BY <3>1, <3>2
  <2>6. QED
    BY <2>3, <2>4, <2>5 DEF OwnInv
<1>2. ASSUME NEW t \in Threads, CloseStream(t) PROVE OwnInv'
  <2> DEFINE f == stream_fd[t]
  <2>1. /\ f \in Fds /\ idx[t] \in Slots
        /\ \A s \in Slots : s # idx[t] => StreamOf(s)' = StreamOf(s)
        /\ \A s \in Slots : s = idx[t] => StreamOf(s)' = 0
        /\ \A g \in Fds : fds'[g] = IF g = f THEN 0 ELSE fds[g]
        /\ UNCHANGED <<made, peer, whom>>
    BY <1>2, CloseChanges
  <2>2. /\ pc[t] = "close" /\ Goto(t, After(t)) /\ FreeHand(t)
        /\ ~doubled' => ~doubled /\ fds[f] = which[t]
    BY <1>2 DEF CloseStream
  <2> HIDE DEF f
  <2>3. CountInv'
    <3>1. made \in Nat /\ \A u \in Threads : which'[u] = 0 \/ which'[u] = which[u]
      BY <2>2 DEF TypeOK, FreeHand
    <3>2. QED
      BY <2>1, <3>1 DEF OwnInv, CountInv
  <2>4. ASSUME ~doubled'
        PROVE  /\ Means(t) /\ which[t] # 0 /\ fds[f] # 0
               /\ \A s \in Slots : StreamOf(s) = f => s = idx[t]
               /\ AloneInv /\ \A u \in Threads : Knows(u)
               /\ \A u \in Droppers : pc[u] = "close" => idx[u] = whom[u]
    <3>1. Means(t) /\ ~doubled /\ fds[f] = which[t]
      BY <2>1, <2>2, <2>4 DEF Means, f
    <3>2. Holds(t)
      BY <2>2 DEF Holds
    <3>3. Knows(t) /\ AloneInv /\ \A u \in Threads : Knows(u)
      BY <3>1 DEF OwnInv
    <3>4. \A s \in Slots : StreamOf(s) = f => s = idx[t]
      BY <2>2, <3>1, <3>3 DEF Knows, f
    <3>5. \A u \in Droppers : pc[u] = "close" => idx[u] = whom[u]
      BY <3>3 DEF Knows
    <3>6. QED
      BY <3>1, <3>2, <3>3, <3>4, <3>5 DEF Knows
  <2>5. ~doubled' => AloneInv'
    <3> SUFFICES ASSUME ~doubled' PROVE AloneInv'
      OBVIOUS
    <3>1. \A s \in Slots : StreamOf(s)' # 0 =>
            s # idx[t] /\ StreamOf(s)' = StreamOf(s) /\ StreamOf(s) # f
            /\ StreamOf(s) \in Fds
      BY <2>1, <2>4, SlotFacts
    <3>2. \A s \in Slots : StreamOf(s)' # 0 => (fds[StreamOf(s)])' # 0
      BY <2>1, <2>4, <3>1 DEF AloneInv, StreamOf
    <3>3. \A s, r \in Slots : StreamOf(s)' = StreamOf(r)' =>
                                s = r \/ StreamOf(s)' = 0
      BY <2>4, <3>1 DEF AloneInv
    <3>4. QED
      BY <3>2, <3>3 DEF AloneInv
  <2>6. ASSUME NEW u \in Threads, ~doubled' PROVE Knows(u)'
    <3>1. CASE u = t
      <4>1. pc'[u] \in {"zero", "scan"}
        BY <2>2, <3>1 DEF After, Goto, TypeOK
      <4>2. QED
        BY <4>1 DEF Knows, Holds
    <3>2. CASE u # t
      <4>1. /\ pc'[u] = pc[u] /\ stream_fd'[u] = stream_fd[u]
            /\ which'[u] = which[u] /\ idx'[u] = idx[u]
            /\ u \in Droppers => whom'[u] = whom[u]
        BY <2>1, <2>2, <3>2 DEF FreeHand, Goto, TypeOK
      <4>2. Holds(u)' <=> Holds(u)
        BY <4>1 DEF Holds
      <4>3. Knows(u) /\ (Holds(u) => stream_fd[u] \in Fds)
        BY <2>4, <2>6 DEF PlaceInv, HandInv, Holds
      <4>4. Holds(u) /\ Means(u)' => Means(u) /\ stream_fd[u] # f
        BY <2>1, <4>1, <4>3 DEF Means, Knows
      <4>5. \A s \in Slots : StreamOf(s)' = stream_fd[u] /\ Holds(u) =>
                               StreamOf(s) = stream_fd[u]
        BY <2>1, <4>3, Numbers
      <4>6. ASSUME NEW s \in Slots, Holds(u), StreamOf(s) = stream_fd[u],
                   peer[s] = "open", stream_fd[u] # f
            PROVE  StreamOf(s)' = StreamOf(s)
        <5>1. CASE s # idx[t]
          BY <2>1, <5>1
        <5>2. CASE s = idx[t] /\ t = "stream"
          <6>1. StreamOf(s) = f
            BY <2>2, <2>4, <2>6, <4>6, <5>2 DEF Knows, f
          <6>2. QED
            BY <4>6, <6>1
        <5>3. CASE s = idx[t] /\ t \in Droppers
          BY <2>2, <2>4, <2>6, <4>6, <5>3 DEF PlaceInv, HandInv, DropperPcs
        <5>4. QED
          BY <5>1, <5>2, <5>3
      <4>7. /\ u = "response" /\ pc[u] \in {"add", "adding"} => whom[u] \in Slots
            /\ pc[u] = "close" => idx[u] \in Slots
        BY DEF PlaceInv, HandInv
      <4>8. QED
        BY <2>1, <4>1, <4>2, <4>3, <4>4, <4>5, <4>6, <4>7 DEF Knows, Holds,
           StreamOf
    <3>3. QED
      BY <3>1, <3>2
  <2>7. QED
    BY <2>3, <2>5, <2>6 DEF OwnInv
<1>3. QED
  BY <1>1, <1>2

LEMMA OwnKeptByCreation ==
  ASSUME TypeOK, PlaceInv, OwnInv, CreateStream
  PROVE  OwnInv'
<1> USE GotoChanges DEF Threads, Droppers
<1>1. /\ UNCHANGED <<peer, hands, doubled>> /\ Asker \in Slots
      /\ pc["response"] = "socket"
  BY DEF CreateStream, marks, PlaceInv, HandInv, Asker
<1>2. CASE Goto("response", "paths") /\ UNCHANGED pool
  <2>1. \A t \in Threads : which'[t] <= made
    BY <1>1 DEF hands, OwnInv, CountInv
  <2>2. \A t \in Threads : Stays(t) \/ ~Holds(t)'
    BY <1>1, <1>2 DEF Stays, Holds, hands
  <2>3. QED
    BY <1>1, <1>2, <2>1, <2>2, OwnFrame DEF pool, StreamOf
<1>3. CASE Goto("response", "get_fd")
  <2>1. pc'["response"] = "get_fd"
    BY <1>3
  <2>2. PICK f \in Fds :
         /\ fds[f] = 0
         /\ \A s \in Slots : s = Asker => StreamOf(s)' = f
         /\ \A s \in Slots : s # Asker => StreamOf(s)' = StreamOf(s)
         /\ \A g \in Fds : fds'[g] = IF g = f THEN made + 1 ELSE fds[g]
         /\ made' = made + 1
    BY <2>1, CreateChanges
  <2>3. made \in Nat /\ \A t \in Threads : which[t] \in Nat /\ which[t] <= made
    BY DEF TypeOK, OwnInv, CountInv
  <2>4. CountInv'
    <3>1. \A g \in Fds : fds[g] \in Nat /\ fds[g] <= made
      BY DEF TypeOK, OwnInv, CountInv
    <3>2. QED
      BY <1>1, <2>2, <2>3, <3>1 DEF CountInv, hands
  <2>5. ~doubled' => AloneInv'
    <3> SUFFICES ASSUME ~doubled' PROVE AloneInv'
      OBVIOUS
    <3>1. AloneInv
      BY <1>1 DEF OwnInv
    <3>2. \A s \in Slots : s # Asker /\ StreamOf(s) # 0 =>
             StreamOf(s) \in Fds /\ StreamOf(s) # f /\ fds[StreamOf(s)] # 0
      BY <2>2, <3>1, SlotFacts DEF AloneInv
    <3>3. \A s \in Slots : StreamOf(s)' # 0 => (fds[StreamOf(s)])' # 0
      BY <2>2, <2>3, <3>2 DEF StreamOf
    <3>4. \A s, r \in Slots : StreamOf(s)' = StreamOf(r)' =>
                                s = r \/ StreamOf(s)' = 0
      BY <2>2, <3>1, <3>2, Numbers DEF AloneInv
    <3>5. QED
      BY <3>3, <3>4 DEF AloneInv
  <2>6. ASSUME NEW u \in Threads, ~doubled' PROVE Knows(u)'
    <3>1. CASE u = "response"
      BY <2>1, <3>1 DEF Knows, Holds
    <3>2. CASE u # "response"
      <4>1. /\ pc'[u] = pc[u] /\ stream_fd'[u] = stream_fd[u]
            /\ which'[u] = which[u] /\ idx'[u] = idx[u]
            /\ u \in Droppers => whom'[u] = whom[u]
        BY <1>1, <1>3, <3>2 DEF hands
      <4>2. Holds(u)' <=> Holds(u)
        BY <4>1 DEF Holds
      <4>3. Knows(u)
        BY <1>1, <2>6 DEF OwnInv
      <4>4. Holds(u) /\ Means(u)' => Means(u) /\ stream_fd[u] # f
        BY <2>2, <2>3, <4>1, <4>3 DEF Means, Knows
      <4>5. \A s \in Slots : StreamOf(s)' = stream_fd[u] /\ stream_fd[u] # f =>
                               StreamOf(s) = stream_fd[u]
        BY <2>2
      <4>6. \A s \in Slots : peer[s] = "open" /\ StreamOf(s) # 0 =>
                               StreamOf(s)' = StreamOf(s)
        BY <1>1, <2>2 DEF PlaceInv, AskInv
      <4>7. /\ pc[u] = "close" => idx[u] \in Slots
            /\ Means(u) => stream_fd[u] # 0
        BY Numbers DEF PlaceInv, HandInv, Means
      <4>8. QED
        BY <1>1, <3>2, <4>1, <4>2, <4>3, <4>4, <4>5, <4>6, <4>7
           DEF Knows, Holds, StreamOf
    <3>3. QED
      BY <3>1, <3>2
  <2>7. QED
    BY <2>4, <2>5, <2>6 DEF OwnInv
<1>4. ASSUME NEW f \in Fds, FailedBind(f), Goto("response", "paths")
      PROVE  OwnInv'
  <2>1. made \in Nat /\ \A t \in Threads : which[t] \in Nat /\ which[t] <= made
    BY DEF TypeOK, OwnInv, CountInv
  <2>2. CountInv'
    <3>1. \A g \in Fds : fds[g] \in Nat /\ fds[g] <= made
      BY DEF TypeOK, OwnInv, CountInv
    <3>2. QED
      BY <1>1, <1>4, <2>1, <3>1 DEF CountInv, hands, FailedBind
  <2>3. ~doubled' => AloneInv'
    <3>1. \A s \in Slots : StreamOf(s)' = StreamOf(s) /\ StreamOf(s) \in Fds \cup {0}
      BY <1>4, SlotFacts DEF FailedBind, StreamOf
    <3>2. \A g \in Fds : fds[g] # 0 => fds'[g] # 0
      BY <1>4, <2>1 DEF FailedBind
    <3>3. QED
      BY <1>1, <3>1, <3>2, Numbers DEF AloneInv, OwnInv
  <2>4. ASSUME NEW u \in Threads, ~doubled' PROVE Knows(u)'
    <3>1. CASE u = "response"
      BY <1>4, <3>1 DEF Knows, Holds
    <3>2. CASE u # "response"
      <4>1. /\ pc'[u] = pc[u] /\ stream_fd'[u] = stream_fd[u]
            /\ which'[u] = which[u] /\ idx'[u] = idx[u]
            /\ u \in Droppers => whom'[u] = whom[u]
        BY <1>1, <1>4, <3>2 DEF hands
      <4>2. Holds(u)' <=> Holds(u)
        BY <4>1 DEF Holds
      <4>3. Knows(u)
        BY <1>1, <2>4 DEF OwnInv
      <4>4. Holds(u) /\ Means(u)' => Means(u)
        BY <1>4, <2>1, <4>1, <4>3 DEF Means, Knows, FailedBind
      <4>5. UNCHANGED <<client_arr, peer>>
        BY <1>1, <1>4 DEF FailedBind
      <4>6. QED
        BY <3>2, <4>1, <4>2, <4>3, <4>4, <4>5 DEF Knows, Holds, StreamOf
    <3>3. QED
      BY <3>1, <3>2
  <2>5. QED
    BY <2>2, <2>3, <2>4 DEF OwnInv
<1>5. QED
  BY <1>2, <1>3, <1>4, CreateEnds

-----------------------------------------------------------------------------
(* Who is served.                                                          *)

\* A step that changes no slot, no descriptor and not strm_set, grants nothing
\* and brings no thread into a place that ServeInv speaks of.
LEMMA ServeFrame ==
  ASSUME TypeOK, PlaceInv, ServeInv,
         UNCHANGED <<client_arr, fds, strm_set>>,
         \A s \in Slots : peer'[s] = "open" => peer[s] = "open",
         promised' \subseteq promised, excused \subseteq excused',
         doubled => doubled', raced => raced',
         \/ pc'["stream"] \notin {"clear", "clearing", "lookup", "close"}
         \/ /\ pc["stream"] \in {"clear", "clearing", "lookup", "close"}
            /\ stream_fd'["stream"] = stream_fd["stream"]
            /\ which'["stream"] = which["stream"],
         pc'["response"] \in {"trigger", "answer"} =>
           pc'["response"] = pc["response"] /\ Asker' = Asker,
         pc["response"] \in {"get_fd", "add", "adding"} =>
           pc'["response"] \in {"get_fd", "add", "adding"} /\ Asker' = Asker
  PROVE  ServeInv'
<1> SUFFICES ASSUME ~doubled'
             PROVE  FaultInv' /\ GrantInv' /\ (~raced' => MemberInv')
  BY DEF ServeInv
<1>1. FaultInv /\ GrantInv /\ (~raced => MemberInv)
  BY DEF ServeInv
<1>2. FaultInv'
  BY <1>1 DEF FaultInv, Means, StreamOf
<1>3. pc["response"] \in {"trigger", "answer"} => Asker \in Slots
  BY DEF PlaceInv, HandInv, Asker, Droppers
<1>4. \A s : /\ Alive(s)' <=> Alive(s)
             /\ Equipped(s)' <=> Equipped(s)
  BY DEF Alive, Equipped, StreamOf
<1>5. GrantInv'
  <2>1. \A s \in promised' \ excused' : Equipped(s)'
    BY <1>1, <1>4 DEF GrantInv
  <2>2. pc'["response"] = "trigger" /\ peer'[Asker'] = "open" =>
          Alive(Asker)' \/ Asker' \in excused'
    BY <1>1, <1>3, <1>4 DEF GrantInv, Alive, StreamOf
  <2>3. pc'["response"] = "answer" /\ peer'[Asker'] = "open" =>
          Equipped(Asker)' \/ Asker' \in excused'
    BY <1>1, <1>3, <1>4 DEF GrantInv, Equipped, Alive, StreamOf
  <2>4. QED
    BY <2>1, <2>2, <2>3 DEF GrantInv
<1>6. ~raced' => MemberInv'
  BY <1>1 DEF MemberInv, StreamOf
<1>7. QED
  BY <1>2, <1>5, <1>6

LEMMA ServeKeptBySmallSteps ==
  ASSUME TypeOK, PlaceInv, ServeInv
  PROVE  /\ \A s \in Slots : Ask(s) \/ Bind(s) \/ Unbind(s) \/ Leave(s) => ServeInv'
         /\ \A s \in Slots : ServerDrops(s) \/ Dequeue(s) => ServeInv'
         /\ Stop \/ FindClient => ServeInv'
         /\ CopySet \/ Select \/ CheckStop \/ Scan \/ SendTo \/ Blocks \/ Unblocks
            \/ StreamEnds => ServeInv'
         /\ \A t \in Droppers : Drop(t) \/ RemoveClient(t) => ServeInv'
         /\ \A t \in Threads : FindStream(t) => ServeInv'
<1> USE GotoChanges DEF Threads, Droppers
<1> DEFINE Still == /\ UNCHANGED <<client_arr, fds, strm_set, excused, doubled, raced>>
                    /\ \A s \in Slots : peer'[s] = "open" => peer[s] = "open"
                    /\ promised' \subseteq promised
           StreamStays == \/ pc'["stream"] \notin {"clear", "clearing", "lookup", "close"}
                          \/ /\ pc["stream"] \in {"clear", "clearing", "lookup", "close"}
                             /\ stream_fd'["stream"] = stream_fd["stream"]
                             /\ which'["stream"] = which["stream"]
           ResponseStays == /\ pc'["response"] \in {"trigger", "answer"} =>
                                 pc'["response"] = pc["response"] /\ Asker' = Asker
                            /\ pc["response"] \in {"get_fd", "add", "adding"} =>
                                 /\ pc'["response"] \in {"get_fd", "add", "adding"}
                                 /\ Asker' = Asker
<1>1. Still /\ StreamStays /\ ResponseStays => ServeInv'
  BY ServeFrame
<1>2. ASSUME NEW s \in Slots, Ask(s) \/ Bind(s) \/ Unbind(s) \/ Leave(s)
      PROVE  Still /\ StreamStays /\ ResponseStays
  BY <1>2 DEF TypeOK, Ask, Bind, Unbind, Leave, pool, marks, history, hands, Asker
<1>3. ASSUME Stop PROVE Still /\ StreamStays /\ ResponseStays
  BY <1>3 DEF Stop, peers, pool, marks, history, hands, Asker
<1>4. ASSUME NEW t \in Droppers, UNCHANGED <<peers, pool, strm_set, history, marks>>,
             \E l \in DropperPcs \cup {"create", "paths"} : Goto(t, l),
             pc[t] \notin {"get_fd", "add", "adding"},
             \A u \in Threads : u # t => stream_fd'[u] = stream_fd[u]
                                         /\ which'[u] = which[u],
             \A u \in Droppers : u # t => whom'[u] = whom[u]
      PROVE  Still /\ StreamStays /\ ResponseStays
  BY <1>4 DEF peers, pool, history, marks, Asker, DropperPcs
<1>5. ASSUME NEW s \in Slots, ServerDrops(s) PROVE ServeInv'
  BY <1>1, <1>4, <1>5 DEF TypeOK, ServerDrops, DropperPcs
<1>6. ASSUME NEW s \in Slots, Dequeue(s) PROVE ServeInv'
  <2>1. StreamStays /\ ResponseStays
    BY <1>6 DEF Dequeue
  <2>2. Still
    BY <1>6 DEF Dequeue, pool, history, marks
  <2>3. QED
    BY <1>1, <2>1, <2>2
<1>7. ASSUME FindClient PROVE Still /\ StreamStays /\ ResponseStays
  BY <1>7 DEF FindClient, peers, pool, hands, history, marks
<1>8. ASSUME CopySet \/ Select \/ CheckStop \/ Scan \/ SendTo \/ Blocks \/ Unblocks
             \/ StreamEnds
      PROVE  Still /\ StreamStays /\ ResponseStays
  <2>1. UNCHANGED <<peers, pool, strm_set, whom, history, marks>>
    BY <1>8 DEF CopySet, Select, CheckStop, Scan, SendTo, Blocks, Unblocks,
       StreamEnds, hands
  <2>2. \/ UNCHANGED pc /\ pc["stream"] = "scan"
        \/ \E l \in {"head", "pselect", "check", "scan", "prepare", "blocked",
                     "stop", "ended"} : Goto("stream", l)
    BY <1>8 DEF CopySet, Select, CheckStop, Scan, SendTo, Blocks, Unblocks,
       StreamEnds
  <2>3. QED
    BY <2>1, <2>2 DEF peers, pool, history, marks, Asker
<1>9. ASSUME NEW t \in Droppers, Drop(t) PROVE ServeInv'
  BY <1>1, <1>4, <1>9 DEF TypeOK, Drop, Take, DropperPcs
<1>10. ASSUME NEW t \in Droppers, RemoveClient(t) PROVE ServeInv'
  BY <1>1, <1>4, <1>10 DEF TypeOK, RemoveClient, Done, FreeHand, DropperPcs
<1>11. ASSUME NEW t \in Droppers, FindStream(t) PROVE ServeInv'
  BY <1>1, <1>4, <1>11 DEF TypeOK, FindStream, After, Take, FreeHand, DropperPcs
<1>12. ASSUME FindStream("stream") PROVE ServeInv'
  BY <1>1, <1>12 DEF FindStream, After, peers, pool, history, marks, Asker
<1>13. \A t \in Threads : FindStream(t) => ServeInv'
  BY <1>11, <1>12
<1>14. QED
  BY <1>1, <1>2, <1>3, <1>5, <1>6, <1>7, <1>8, <1>9, <1>10, <1>13

\* The changes of strm_set.
LEMMA ServeKeptBySets ==
  ASSUME TypeOK, PlaceInv, OwnInv, ServeInv
  PROVE  /\ FdSet => ServeInv'
         /\ \A t \in Threads : FdClear(t) => ServeInv'
<1> USE GotoChanges DEF Threads, Droppers
<1>1. ASSUME NEW t \in Threads, NEW from, NEW to, ReadWord(t, from, to),
             \/ from = "add" /\ to = "adding"
             \/ from = "clear" /\ to = "clearing"
      PROVE  ServeInv'
  <2>1. UNCHANGED <<peers, pool, strm_set, hands, history, marks>>
    BY <1>1 DEF ReadWord
  <2>2. pc[t] = from /\ Goto(t, to)
    BY <1>1 DEF ReadWord
  <2>3. UNCHANGED <<client_arr, fds, strm_set, peer, promised, excused, doubled,
                    raced, stream_fd, which, whom>>
    BY <2>1 DEF peers, pool, hands, history, marks
  <2>4. QED
    BY <1>1, <2>2, <2>3, ServeFrame DEF Asker
<1>2. ASSUME NEW t \in Threads, NEW from, NEW to, NEW new,
             WriteWord(t, from, to, new)
      PROVE  /\ UNCHANGED <<client_arr, fds, peer, promised, excused, stream_fd,
                            which, whom, idx>>
             /\ pc[t] = from /\ strm_set' = new /\ Goto(t, to)
             /\ doubled => doubled'
             /\ raced => raced'
             /\ ~doubled' => ~doubled /\ fds[stream_fd[t]] = which[t]
             /\ ~raced' => ~raced /\ strm_set = word[t]
  BY <1>2 DEF WriteWord, peers, pool, hands, history
<1>3. ASSUME NEW t \in Threads, NEW from, NEW to, NEW new,
             WriteWord(t, from, to, new),
             \/ t = "response" /\ from = "adding" /\ to = "paths"
             \/ t \in Droppers /\ from = "clearing" /\ to = "remove"
             \/ t = "stream" /\ from = "clearing" /\ to = "lookup",
             ~raced' /\ ~doubled' /\ ServeInv => MemberInv'
      PROVE  ServeInv'
  <2> SUFFICES ASSUME ~doubled'
               PROVE  FaultInv' /\ GrantInv' /\ (~raced' => MemberInv')
    BY DEF ServeInv
  <2>1. FaultInv /\ GrantInv
    BY <1>2, <1>3 DEF ServeInv
  <2>2. FaultInv'
    BY <1>2, <1>3, <2>1 DEF FaultInv, Means, StreamOf
  <2>3. GrantInv'
    <3>1. pc'["response"] \in {"trigger", "answer"} =>
            pc'["response"] = pc["response"]
      BY <1>2, <1>3
    <3>2. QED
      BY <1>2, <1>3, <2>1, <3>1 DEF GrantInv, Equipped, Alive, StreamOf, Asker
  <2>4. QED
    BY <1>3, <2>2, <2>3
<1>4. ASSUME FdSet PROVE ServeInv'
  <2>1. CASE ReadWord("response", "add", "adding")
    BY <1>1, <2>1
  <2>2. CASE WriteWord("response", "adding", "paths",
                       word["response"] \cup {stream_fd["response"]})
    <3>1. ASSUME ~raced', ~doubled' PROVE MemberInv'
      <4>1. /\ strm_set' = strm_set \cup {stream_fd["response"]}
            /\ MemberInv /\ pc["response"] = "adding"
        BY <1>2, <2>2, <3>1 DEF ServeInv
      <4>2. Means("response") /\ Knows("response")
        BY <1>2, <2>2, <3>1 DEF Means, OwnInv, PlaceInv, HandInv
      <4>3. Asker \in Slots /\ (peer[Asker] = "open" =>
                                  StreamOf(Asker) = stream_fd["response"])
        BY <4>1, <4>2 DEF Knows, PlaceInv, HandInv, Asker
      <4>4. QED
        BY <1>2, <2>2, <4>1, <4>3 DEF MemberInv, StreamOf
    <3>2. QED
      BY <1>3, <2>2, <3>1
  <2>3. QED
    BY <1>4, <2>1, <2>2 DEF FdSet
<1>5. ASSUME NEW t \in Threads, FdClear(t) PROVE ServeInv'
  <2> DEFINE to == IF t = "stream" THEN "lookup" ELSE "remove"
  <2>1. CASE ReadWord(t, "clear", "clearing")
    BY <1>1, <2>1
  <2>2. CASE WriteWord(t, "clearing", to, word[t] \ {stream_fd[t]})
    <3>1. ASSUME ~raced', ~doubled' PROVE MemberInv'
      <4>1. /\ strm_set' = strm_set \ {stream_fd[t]}
            /\ MemberInv /\ FaultInv /\ pc[t] = "clearing"
        BY <1>2, <2>2, <3>1 DEF ServeInv
      <4>2. Means(t) /\ Knows(t)
        BY <1>2, <2>2, <3>1 DEF Means, OwnInv, PlaceInv, HandInv
      <4>3. \A s \in Slots : peer[s] = "open" /\ StreamOf(s) = stream_fd[t] =>
                               s \in excused
        <5>1. CASE t = "stream"
          BY <4>1, <4>2, <5>1 DEF FaultInv
        <5>2. CASE t \in Droppers
          BY <4>1, <4>2, <5>2 DEF Knows, PlaceInv, HandInv, DropperPcs
        <5>3. QED
          BY <5>1, <5>2
      <4>4. UNCHANGED <<client_arr, peer, excused, whom>>
        BY <1>2, <2>2
      <4>5. pc["response"] \in {"get_fd", "add", "adding"} =>
              pc'["response"] = pc["response"]
        BY <1>2, <1>5, <2>2, <4>1
      <4>6. QED
        BY <4>1, <4>3, <4>4, <4>5 DEF MemberInv, StreamOf, Asker
    <3>2. QED
      BY <1>3, <1>5, <2>2, <3>1
  <2>3. QED
    BY <1>5, <2>1, <2>2 DEF FdClear
<1>6. QED
  BY <1>4, <1>5

\* What excuses the stream thread, and what the response thread grants.
LEMMA ServeKeptByLooks ==
  ASSUME TypeOK, PlaceInv, OwnInv, ServeInv
  PROVE  /\ PrepareStream \/ SendToFails => ServeInv'
         /\ GetStreamFd \/ GetPaths \/ TriggerStream \/ Answer => ServeInv'
<1> USE GotoChanges DEF Threads, Droppers
<1>1. ASSUME UNCHANGED <<client_arr, fds, strm_set, peer, promised, stream_fd,
                         which, whom, doubled, raced>>,
             excused \subseteq excused',
             \E l : Goto("stream", l),
             ~doubled /\ pc'["stream"] = "clear" /\ Means("stream") =>
               \A s \in Slots :
                 peer[s] = "open" /\ StreamOf(s) = stream_fd["stream"] =>
                   s \in excused',
             pc'["stream"] \notin {"clearing", "lookup", "close"}
      PROVE  ServeInv'
  <2> SUFFICES ASSUME ~doubled'
               PROVE  FaultInv' /\ GrantInv' /\ (~raced' => MemberInv')
    BY DEF ServeInv
  <2>1. GrantInv /\ (~raced => MemberInv) /\ ~doubled
    BY <1>1 DEF ServeInv
  <2>2. FaultInv'
    BY <1>1, <2>1 DEF FaultInv, Means, StreamOf
  <2>3. pc'["response"] = pc["response"] /\ Asker' = Asker
    BY <1>1 DEF Asker
  <2>4. GrantInv'
    BY <1>1, <2>1, <2>3 DEF GrantInv, Equipped, Alive, StreamOf, Asker
  <2>5. ~raced' => MemberInv'
    BY <1>1, <2>1, <2>3 DEF MemberInv, StreamOf
  <2>6. QED
    BY <2>2, <2>4, <2>5
<1>2. CASE PrepareStream
  <2> DEFINE found == {s \in SlotOf(stream_fd["stream"]) : client_arr[s].here}
  <2>1. /\ UNCHANGED <<client_arr, fds, strm_set, peer, promised, stream_fd,
                       which, whom, doubled, raced>>
        /\ pc["stream"] = "prepare" /\ stream_fd["stream"] \in Fds
    BY <1>2 DEF PrepareStream, pool, peers, marks, PlaceInv, HandInv
  <2>2. /\ excused \subseteq excused'
        /\ \E l \in {"sendto", "clear"} : Goto("stream", l)
        /\ found # {} /\ pc'["stream"] = "clear" =>
             \/ Min(found) \in excused' \/ ~Alive(Min(found))
    BY <1>2 DEF PrepareStream, Fails
  <2>3. ASSUME ~doubled, pc'["stream"] = "clear", NEW s \in Slots,
               peer[s] = "open", StreamOf(s) = stream_fd["stream"]
        PROVE  s \in excused'
    <3>1. s \in found
      BY <2>3 DEF SlotOf, PlaceInv, SlotInv
    <3>2. found \subseteq Slots
      BY DEF SlotOf
    <3>3. Min(found) \in found
      BY <3>1, <3>2, MinSlot
    <3>4. AloneInv /\ StreamOf(s) # 0
      BY <2>1, <2>3, Numbers DEF OwnInv
    <3>5. Min(found) = s
      BY <2>3, <3>2, <3>3, <3>4 DEF SlotOf, AloneInv
    <3>6. Alive(s)
      BY <3>4, SlotFacts DEF Alive, PlaceInv, SlotInv
    <3>7. QED
      BY <2>2, <2>3, <3>1, <3>5, <3>6
  <2> HIDE DEF found
  <2>4. QED
    BY <1>1, <2>1, <2>2, <2>3
<1>3. CASE SendToFails
  <2>1. UNCHANGED <<client_arr, fds, strm_set, peer, promised, stream_fd,
                    which, whom, doubled, raced>>
    BY <1>3 DEF SendToFails, pool, peers, hands, marks
  <2>2. /\ pc["stream"] \in {"sendto", "blocked"} /\ Goto("stream", "clear")
        /\ excused \subseteq excused'
        /\ Target \in excused' \/ fds[stream_fd["stream"]] = 0
    BY <1>3 DEF SendToFails, Fails
  <2>3. ~doubled /\ Means("stream") =>
          /\ fds[stream_fd["stream"]] # 0
          /\ \A s \in Slots : StreamOf(s) = stream_fd["stream"] => s = Target
    BY <2>2 DEF OwnInv, Knows, Holds, Means, Target
  <2>4. QED
    BY <1>1, <2>1, <2>2, <2>3
<1>4. CASE GetStreamFd
  <2>1. /\ UNCHANGED <<client_arr, fds, strm_set, peer, promised, excused, whom,
                       doubled, raced>>
        /\ pc["response"] = "get_fd" /\ Asker \in Slots
    BY <1>4 DEF GetStreamFd, pool, peers, history, marks, PlaceInv, HandInv,
       Asker
  <2>2. /\ stream_fd'["stream"] = stream_fd["stream"]
        /\ which'["stream"] = which["stream"]
    BY <1>4 DEF GetStreamFd, Take, TypeOK
  <2>3. \E l \in {"add", "paths"} : Goto("response", l)
    BY <1>4 DEF GetStreamFd
  <2>4. peer[Asker] = "open" /\ StreamOf(Asker) # 0 => pc'["response"] = "add"
    BY <1>4, <2>1, SlotFacts DEF GetStreamFd, PlaceInv, SlotInv
  <2>5. pc'["stream"] = pc["stream"] /\ pc'["response"] \in {"add", "paths"}
    BY <2>3
  <2>6. FaultInv => FaultInv'
    BY <2>1, <2>2, <2>5 DEF FaultInv, Means, StreamOf
  <2>7. GrantInv => GrantInv'
    BY <2>1, <2>5 DEF GrantInv, Equipped, Alive, StreamOf, Asker
  <2>8. MemberInv => MemberInv'
    BY <2>1, <2>4, <2>5 DEF MemberInv, StreamOf, Asker
  <2>9. QED
    BY <2>1, <2>6, <2>7, <2>8 DEF ServeInv
<1>5. CASE GetPaths \/ TriggerStream \/ Answer
  <2>1. /\ UNCHANGED <<fds, strm_set, peer, excused, doubled, raced>>
        /\ stream_fd'["stream"] = stream_fd["stream"]
        /\ which'["stream"] = which["stream"]
    BY <1>5 DEF GetPaths, TriggerStream, Answer, Done, FreeHand, TypeOK, pool,
       peers, hands, history, marks
  <2>2. /\ pc["response"] \in {"paths", "trigger", "answer", "deny"}
        /\ \E l \in {"trigger", "deny", "answer", "idle", "drop"} :
             Goto("response", l)
    BY <1>5 DEF GetPaths, TriggerStream, Answer, Done
  <2>3. \A s \in Slots :
          /\ StreamOf(s)' = StreamOf(s)
          /\ client_arr'[s].paths = client_arr[s].paths
          /\ client_arr[s].func => client_arr'[s].func
    BY <1>5, TriggerChanges DEF GetPaths, Answer, pool, StreamOf
  <2>4. pc'["stream"] = pc["stream"] /\ Asker \in Slots
        /\ pc'["response"] \in {"trigger", "deny", "answer", "idle", "drop"}
    BY <2>2 DEF PlaceInv, HandInv, Asker
  <2>5. FaultInv => FaultInv'
    BY <2>1, <2>3, <2>4 DEF FaultInv, Means
  <2>6. MemberInv => MemberInv'
    BY <2>1, <2>2, <2>3, <2>4 DEF MemberInv
  <2>7. \A s \in Slots : (Alive(s) => Alive(s)') /\ (Equipped(s) => Equipped(s)')
    BY <2>3 DEF Alive, Equipped, StreamOf
  <2>8. \A s \in promised' : s \in promised \/ (s = Asker /\ pc["response"] = "answer"
                                                /\ peer[Asker] = "open")
    BY <1>5, <2>4 DEF GetPaths, TriggerStream, Answer, history
  <2>9. pc'["response"] = "trigger" => /\ Asker' = Asker
                                       /\ peer[Asker] = "open" => Alive(Asker)
    <3>1. pc'["response"] = "trigger" => GetPaths /\ client_arr[Asker].paths
      BY <1>5 DEF GetPaths, TriggerStream, Answer, Done
    <3>2. GetPaths => Asker' = Asker
      BY DEF GetPaths, hands, Asker
    <3>3. QED
      BY <2>4, <3>1, <3>2, SlotFacts DEF Alive, PlaceInv, SlotInv
  <2>10. pc'["response"] = "answer" =>
           /\ Asker' = Asker /\ pc["response"] = "trigger"
           /\ peer[Asker] = "open" => client_arr'[Asker].func
    <3>1. pc'["response"] = "answer" => TriggerStream
      BY <1>5 DEF GetPaths, TriggerStream, Answer, Done
    <3>2. TriggerStream => Asker' = Asker /\ pc["response"] = "trigger"
      BY DEF TriggerStream, hands, Asker
    <3>3. QED
      BY <2>4, <3>1, <3>2, TriggerChanges DEF PlaceInv, SlotInv
  <2>11. GrantInv => GrantInv'
    <3> SUFFICES ASSUME GrantInv PROVE GrantInv'
      OBVIOUS
    <3>1. \A s \in promised' \ excused' : Equipped(s)'
      BY <2>1, <2>4, <2>7, <2>8 DEF GrantInv, PlaceInv, SlotInv, TypeOK
    <3>2. pc'["response"] = "trigger" /\ peer[Asker] = "open" =>
            Alive(Asker)' \/ Asker' \in excused'
      BY <2>4, <2>7, <2>9 DEF Alive, StreamOf
    <3>3. pc'["response"] = "answer" /\ peer[Asker] = "open" =>
            Equipped(Asker)' \/ Asker' \in excused'
      BY <2>1, <2>3, <2>4, <2>10, <2>7 DEF GrantInv, Equipped, Alive, StreamOf
    <3>4. QED
      BY <2>1, <2>9, <2>10, <3>1, <3>2, <3>3 DEF GrantInv
  <2>12. QED
    BY <2>1, <2>5, <2>6, <2>11 DEF ServeInv
<1>6. QED
  BY <1>2, <1>3, <1>4, <1>5

\* The steps that take a stream from a slot, or give one.
LEMMA ServeKeptBySlots ==
  ASSUME TypeOK, PlaceInv, OwnInv, ServeInv
  PROVE  /\ CreateStream => ServeInv'
         /\ \A t \in Droppers : ZeroSlot(t) => ServeInv'
         /\ \A t \in Threads : CloseStream(t) => ServeInv'
<1> USE GotoChanges DEF Threads, Droppers
<1>1. ASSUME CreateStream PROVE ServeInv'
  <2>1. /\ UNCHANGED <<peer, strm_set, hands, doubled, raced>> /\ Asker \in Slots
        /\ pc["response"] = "socket"
    BY <1>1 DEF CreateStream, marks, PlaceInv, HandInv, Asker
  <2>2. CASE Goto("response", "paths") /\ UNCHANGED <<pool, promised, excused>>
    BY <2>1, <2>2, ServeFrame DEF pool, hands
  <2>3. CASE Goto("response", "get_fd")
    <3>1. pc'["response"] = "get_fd" /\ pc'["stream"] = pc["stream"]
      BY <2>3
    <3>2. PICK f \in Fds :
         /\ fds[f] = 0
         /\ \A s \in Slots : s = Asker => StreamOf(s)' = f
         /\ \A s \in Slots : s # Asker => /\ StreamOf(s)' = StreamOf(s)
                                          /\ (Equipped(s)' <=> Equipped(s))
         /\ \A g \in Fds : fds'[g] = IF g = f THEN made + 1 ELSE fds[g]
         /\ promised' = promised \ {Asker} /\ excused' = excused \ {Asker}
      BY <1>1, <3>1, CreateChanges DEF Equipped, Alive, StreamOf
    <3>3. which["stream"] <= made /\ made \in Nat /\ which["stream"] \in Nat
      BY DEF TypeOK, OwnInv, CountInv
    <3>4. Means("stream")' => Means("stream") /\ stream_fd["stream"] # f
      BY <2>1, <3>2, <3>3 DEF Means, hands
    <3>5. FaultInv => FaultInv'
      BY <2>1, <3>1, <3>2, <3>4 DEF FaultInv, hands
    <3>6. GrantInv => GrantInv'
      BY <3>1, <3>2 DEF GrantInv, TypeOK
    <3>7. MemberInv => MemberInv'
      BY <2>1, <3>1, <3>2 DEF MemberInv, hands, Asker
    <3>8. QED
      BY <2>1, <3>5, <3>6, <3>7 DEF ServeInv
  <2>4. ASSUME NEW f \in Fds, FailedBind(f), Goto("response", "paths")
        PROVE  ServeInv'
    <3>1. pc'["response"] = "paths" /\ pc'["stream"] = pc["stream"]
      BY <2>4
    <3>2. \A s : /\ StreamOf(s)' = StreamOf(s)
                 /\ Alive(s)' <=> Alive(s)
                 /\ Equipped(s)' <=> Equipped(s)
      BY <2>4 DEF FailedBind, Equipped, Alive, StreamOf
    <3>3. \/ pc["stream"] \notin {"clear", "clearing", "lookup", "close"}
          \/ doubled \/ which["stream"] # 0
      BY DEF OwnInv, Knows, Holds
    <3>4. which["stream"] <= made /\ made \in Nat /\ which["stream"] \in Nat
      BY DEF TypeOK, OwnInv, CountInv
    <3>5. which["stream"] # 0 /\ Means("stream")' => Means("stream")
      BY <2>1, <2>4, <3>4 DEF Means, hands, FailedBind
    <3>6. ~doubled /\ FaultInv => FaultInv'
      BY <2>1, <2>4, <3>1, <3>2, <3>3, <3>5 DEF FaultInv, FailedBind, hands
    <3>7. GrantInv => GrantInv'
      BY <2>4, <3>1, <3>2 DEF GrantInv, FailedBind
    <3>8. MemberInv => MemberInv'
      BY <2>1, <2>4, <3>1, <3>2 DEF MemberInv, FailedBind
    <3>9. QED
      BY <2>1, <3>6, <3>7, <3>8 DEF ServeInv
  <2>5. QED
    BY <1>1, <2>2, <2>3, <2>4, CreateEnds
<1> DEFINE Lost(s) == StreamOf(s)' = 0 /\ (peer[s] = "open" => s \in excused)
           Same(s) == /\ StreamOf(s)' = StreamOf(s)
                      /\ Equipped(s)' <=> Equipped(s)
                      /\ Alive(s)' <=> Alive(s)
<1>2. ASSUME \A s \in Slots : Lost(s) \/ Same(s),
             UNCHANGED <<peer, strm_set, promised, excused, raced>>,
             ~doubled, ~doubled',
             \/ pc'["response"] = pc["response"] /\ Asker' = Asker
             \/ /\ pc'["response"] \in {"idle", "zero"}
                /\ pc["response"] \in DropperPcs,
             pc'["stream"] \in {"clear", "clearing", "lookup", "close"}
             /\ Means("stream")' =>
               /\ pc'["stream"] = pc["stream"] /\ Means("stream")
               /\ stream_fd'["stream"] = stream_fd["stream"]
      PROVE  ServeInv'
  <2>1. FaultInv /\ GrantInv /\ (~raced => MemberInv)
    BY <1>2 DEF ServeInv
  <2>2. FaultInv'
    BY <1>2, <2>1, Numbers DEF FaultInv, Means
  <2>3. pc["response"] \in {"trigger", "answer"} => Asker \in Slots
    BY DEF PlaceInv, HandInv, Asker
  <2>4. \A s \in promised' : s \in Slots /\ peer[s] = "open"
    BY <1>2 DEF PlaceInv, SlotInv, TypeOK
  <2>5. GrantInv'
    BY <1>2, <2>1, <2>3, <2>4 DEF GrantInv
  <2>6. ~raced => MemberInv'
    <3>1. pc["response"] \in {"get_fd", "add", "adding"} =>
            pc'["response"] = pc["response"] /\ Asker' = Asker
      BY <1>2 DEF DropperPcs
    <3>2. QED
      BY <1>2, <2>1, <3>1 DEF MemberInv
  <2>7. QED
    BY <1>2, <2>2, <2>5, <2>6 DEF ServeInv
<1> HIDE DEF Lost, Same
<1>3. ASSUME NEW t \in Droppers, ZeroSlot(t) PROVE ServeInv'
  <2>1. /\ whom[t] \in Slots /\ peer[whom[t]] = "left"
        /\ \A s \in Slots : s = whom[t] => StreamOf(s)' = 0
        /\ \A s \in Slots : s # whom[t] => /\ StreamOf(s)' = StreamOf(s)
                                           /\ client_arr'[s] = client_arr[s]
        /\ UNCHANGED <<peer, fds, strm_set, promised, excused, doubled, raced>>
    BY <1>3, ZeroChanges
  <2>2. pc[t] = "zero" /\ Done(t)
    BY <1>3 DEF ZeroSlot
  <2>3. \A s \in Slots : s # whom[t] => /\ (Equipped(s)' <=> Equipped(s))
                                        /\ (Alive(s)' <=> Alive(s))
    BY <2>1 DEF Equipped, Alive, StreamOf
  <2>4. /\ pc'["stream"] = pc["stream"]
        /\ stream_fd'["stream"] = stream_fd["stream"]
        /\ which'["stream"] = which["stream"]
        /\ \/ pc'["response"] = pc["response"] /\ Asker' = Asker
           \/ pc'["response"] = "idle" /\ pc["response"] = "zero"
    BY <2>2 DEF Done, FreeHand, TypeOK, Asker
  <2>5. Means("stream")' => Means("stream")
    BY <2>1, <2>4 DEF Means
  <2>6. CASE doubled
    BY <2>1, <2>6 DEF ServeInv
  <2>7. CASE ~doubled
    <3>1. \A s \in Slots : Lost(s) \/ Same(s)
      BY <2>1, <2>3 DEF Lost, Same
    <3>2. QED
      BY <1>2, <2>1, <2>4, <2>5, <2>7, <3>1 DEF DropperPcs
  <2>8. QED
    BY <2>6, <2>7
<1>4. ASSUME NEW t \in Threads, CloseStream(t) PROVE ServeInv'
  <2>1. /\ stream_fd[t] \in Fds /\ idx[t] \in Slots
        /\ \A s \in Slots : s = idx[t] => StreamOf(s)' = 0
        /\ \A s \in Slots : s # idx[t] =>
             /\ StreamOf(s)' = StreamOf(s)
             /\ client_arr'[s].paths = client_arr[s].paths
        /\ \A s \in Slots : client_arr'[s].func = client_arr[s].func
        /\ \A f \in Fds : fds'[f] = IF f = stream_fd[t] THEN 0 ELSE fds[f]
        /\ UNCHANGED <<peer, strm_set, whom, promised, excused, raced>>
    BY <1>4, CloseChanges
  <2>2. /\ pc[t] = "close" /\ Goto(t, After(t)) /\ FreeHand(t)
        /\ ~doubled' => ~doubled /\ fds[stream_fd[t]] = which[t]
    BY <1>4 DEF CloseStream
  <2> SUFFICES ASSUME ~doubled' PROVE ServeInv'
    BY DEF ServeInv
  <2>3. Means(t) /\ Knows(t) /\ Knows("stream") /\ FaultInv
    BY <2>1, <2>2 DEF Means, OwnInv, ServeInv
  <2>4. peer[idx[t]] = "open" => idx[t] \in excused
    <3>1. CASE t = "stream"
      BY <2>1, <2>2, <2>3, <3>1 DEF Knows, FaultInv
    <3>2. CASE t \in Droppers
      BY <2>2, <2>3, <3>2 DEF Knows, PlaceInv, HandInv, DropperPcs
    <3>3. QED
      BY <3>1, <3>2
  <2>5. \A s \in Slots : s # idx[t] => /\ (Equipped(s)' <=> Equipped(s))
                                       /\ (Alive(s)' <=> Alive(s))
    BY <2>1 DEF Equipped, Alive, StreamOf
  <2>6. \/ pc'["stream"] = "scan"
        \/ /\ pc'["stream"] = pc["stream"] /\ t # "stream"
           /\ stream_fd'["stream"] = stream_fd["stream"]
           /\ which'["stream"] = which["stream"]
    BY <2>2 DEF After, FreeHand, TypeOK
  <2>7. \/ pc'["response"] = pc["response"] /\ Asker' = Asker
        \/ pc'["response"] = "zero" /\ pc["response"] = "close"
    BY <2>1, <2>2 DEF After, Asker
  <2>8. pc'["stream"] \in {"clear", "clearing", "lookup", "close"}
        /\ Means("stream")' =>
          /\ pc'["stream"] = pc["stream"] /\ Means("stream")
          /\ stream_fd'["stream"] = stream_fd["stream"]
    <3>1. pc["stream"] \in {"clear", "clearing", "lookup", "close"} =>
            which["stream"] # 0
      BY <2>3 DEF Knows, Holds
    <3>2. QED
      BY <2>1, <2>6, <3>1 DEF Means
  <2>9. \A s \in Slots : Lost(s) \/ Same(s)
    BY <2>1, <2>4, <2>5 DEF Lost, Same
  <2>10. QED
    BY <1>2, <2>1, <2>2, <2>7, <2>8, <2>9 DEF DropperPcs
<1>5. QED
  BY <1>1, <1>3, <1>4

-----------------------------------------------------------------------------
(* Who waits, and what the stream thread selects on.                       *)

LEMMA PatientKept ==
  ASSUME TypeOK, PlaceInv, PatientInv, Next
  PROVE  PatientInv'
<1> USE DEF Threads, Droppers
<1>1. ASSUME \A s \in waiting' : s \in waiting \/ peer[s] = "open",
             UNCHANGED <<peer, impatient>>,
             Asker' \in waiting \cup {0, Asker}
      PROVE  PatientInv'
  BY <1>1 DEF PatientInv, TypeOK
<1>2. ASSUME UNCHANGED <<peers, impatient>>, Asker' \in {0, Asker}
      PROVE  PatientInv'
  BY <1>1, <1>2 DEF peers
<1>3. ASSUME NEW s \in Slots, Ask(s) \/ Bind(s) \/ Unbind(s) PROVE PatientInv'
  BY <1>1, <1>3 DEF Ask, Bind, Unbind, hands, history, Asker
<1>4. ASSUME NEW s \in Slots, Leave(s) PROVE PatientInv'
  <2>1. /\ peer' = [peer EXCEPT ![s] = "left"]
        /\ impatient' = (impatient \/ Unanswered(s))
        /\ waiting' = waiting /\ Asker' = Asker
    BY <1>4 DEF Leave, hands, Asker
  <2>2. ~impatient' => ~impatient /\ s \notin waiting /\ Asker # s
    BY <2>1 DEF TypeOK, Unanswered, Asker
  <2>3. Asker \in Slots \cup {0} /\ waiting \subseteq Slots
    BY DEF TypeOK, Asker
  <2>4. QED
    BY <2>1, <2>2, <2>3 DEF PatientInv, TypeOK
<1>5. CASE Stop
  BY <1>2, <1>5 DEF Stop, hands, history, Asker
<1>6. ASSUME NEW s \in Slots, ServerDrops(s) PROVE PatientInv'
  BY <1>2, <1>6 DEF TypeOK, ServerDrops, history, Asker
<1>7. ASSUME NEW t \in Droppers, Disconnect(t) PROVE PatientInv'
  <2>1. CASE FdClear(t)
    BY <1>2, <2>1 DEF FdClear, ReadWord, WriteWord, hands, history, Asker
  <2>2. CASE Drop(t) \/ FindStream(t) \/ CloseStream(t)
    BY <1>2, <2>2 DEF Drop, FindStream, CloseStream, history, Asker
  <2>3. CASE RemoveClient(t) \/ ZeroSlot(t)
    BY <1>2, <2>3 DEF TypeOK, RemoveClient, ZeroSlot, Done, history, Asker
  <2>4. QED
    BY <1>7, <2>1, <2>2, <2>3 DEF Disconnect
<1>8. ASSUME NEW s \in Slots, Dequeue(s) PROVE PatientInv'
  BY <1>1, <1>8 DEF TypeOK, Dequeue, history, Asker
<1>9. CASE FdSet
  BY <1>2, <1>9 DEF FdSet, ReadWord, WriteWord, hands, history, Asker
<1>10. CASE FindClient \/ GetStreamFd \/ GetPaths \/ TriggerStream
  BY <1>2, <1>10 DEF FindClient, GetStreamFd, GetPaths, TriggerStream, hands,
     history, Asker
<1>11. CASE CreateStream
  BY <1>1, <1>11 DEF CreateStream, hands, history, Asker
<1>12. CASE Answer
  BY <1>2, <1>12 DEF TypeOK, Answer, Done, hands, Asker
<1>13. CASE StreamThread
  <2>1. UNCHANGED <<peers, whom, impatient>>
    <3>1. CASE FdClear("stream")
      BY <3>1 DEF FdClear, ReadWord, WriteWord, hands, history
    <3>2. CASE FindStream("stream") \/ CloseStream("stream")
      BY <3>2 DEF FindStream, CloseStream, history
    <3>3. CASE ~FdClear("stream") /\ ~FindStream("stream")
               /\ ~CloseStream("stream")
      BY <1>13, <3>3 DEF StreamThread, CopySet, Select, CheckStop, Scan,
         PrepareStream, SendTo, Blocks, Unblocks, SendToFails, StreamEnds,
         hands, history
    <3>4. QED
      BY <3>1, <3>2, <3>3
  <2>2. QED
    BY <1>2, <2>1 DEF Asker
<1>14. QED
  BY <1>3, <1>4, <1>5, <1>6, <1>7, <1>8, <1>9, <1>10, <1>11, <1>12, <1>13
     DEF Next, Server, Response

LEMMA StopKept ==
  ASSUME TypeOK, PlaceInv, OwnInv, AccountInv, StopInv, Next
  PROVE  StopInv'
<1> USE GotoChanges DEF Threads, Droppers
<1>1. ASSUME UNCHANGED write_set, pc'["stream"] = pc["stream"],
             impatient => impatient', raced => raced', doubled => doubled',
             caught => caught', running' => running,
             pc["stream"] = "pselect" =>
               caught' \/ \A f \in write_set : fds[f] # 0 => fds'[f] # 0
      PROVE  StopInv'
  BY <1>1 DEF StopInv
<1>2. ASSUME UNCHANGED <<write_set, fds, running, marks>>,
             impatient => impatient', pc'["stream"] = pc["stream"]
      PROVE  StopInv'
  BY <1>1, <1>2 DEF marks
<1>3. ASSUME NEW s \in Slots, Ask(s) \/ Bind(s) \/ Unbind(s) \/ Leave(s) PROVE StopInv'
  BY <1>2, <1>3 DEF Ask, Bind, Unbind, Leave, pool, loop, history
<1>4. CASE Stop
  BY <1>1, <1>4 DEF Stop, pool, loop, history, marks
<1>5. ASSUME NEW s \in Slots, ServerDrops(s) \/ Dequeue(s) PROVE StopInv'
  BY <1>2, <1>5 DEF ServerDrops, Dequeue, pool, loop, history
<1>6. ASSUME NEW t \in Threads, FdClear(t) PROVE StopInv'
  <2>1. /\ UNCHANGED <<write_set, fds, running, impatient, caught>>
        /\ raced => raced'
        /\ doubled => doubled'
        /\ pc[t] \in {"clear", "clearing"}
        /\ \E l \in {"clearing", "lookup", "remove"} : Goto(t, l)
    <3>1. CASE ReadWord(t, "clear", "clearing")
      BY <3>1 DEF ReadWord, pool, loop, history, marks
    <3>2. CASE WriteWord(t, "clearing", IF t = "stream" THEN "lookup" ELSE "remove",
                         word[t] \ {stream_fd[t]})
      BY <3>2 DEF WriteWord, pool, loop, history
    <3>3. QED
      BY <1>6, <3>1, <3>2 DEF FdClear
  <2>2. CASE t = "stream"
    BY <2>1, <2>2 DEF StopInv
  <2>3. CASE t # "stream"
    BY <1>1, <2>1, <2>3
  <2>4. QED
    BY <2>2, <2>3
<1>7. CASE FdSet
  <2>1. CASE ReadWord("response", "add", "adding")
    BY <1>2, <2>1 DEF ReadWord, pool, loop, history
  <2>2. CASE WriteWord("response", "adding", "paths",
                       word["response"] \cup {stream_fd["response"]})
    BY <1>1, <2>2 DEF WriteWord, pool, loop, history
  <2>3. QED
    BY <1>7, <2>1, <2>2 DEF FdSet
<1>8. ASSUME NEW t \in Droppers, Drop(t) \/ RemoveClient(t) PROVE StopInv'
  BY <1>2, <1>8 DEF Drop, RemoveClient, Done, pool, loop, history
<1>9. ASSUME NEW t \in Droppers, ZeroSlot(t) PROVE StopInv'
  BY <1>2, <1>9 DEF ZeroSlot, Done, loop, history
<1>10. ASSUME NEW t \in Threads, FindStream(t) PROVE StopInv'
  <2>1. UNCHANGED <<write_set, fds, running, marks, impatient>>
    BY <1>10 DEF FindStream, pool, loop, history
  <2>2. pc[t] = "lookup" /\ (Goto(t, After(t)) \/ Goto(t, "close"))
    BY <1>10 DEF FindStream
  <2>3. CASE t = "stream"
    BY <2>1, <2>2, <2>3 DEF StopInv, After, marks
  <2>4. CASE t # "stream"
    BY <1>2, <2>1, <2>2, <2>4
  <2>5. QED
    BY <2>3, <2>4
<1>11. ASSUME NEW t \in Threads, CloseStream(t) PROVE StopInv'
  <2>1. /\ UNCHANGED <<running, write_set, impatient, raced>>
        /\ \A f \in Fds : fds'[f] = IF f = stream_fd[t] THEN 0 ELSE fds[f]
    BY <1>11, CloseChanges
  <2>2. /\ pc[t] = "close" /\ Goto(t, After(t))
        /\ doubled => doubled'
        /\ caught => caught'
        /\ pc["stream"] = "pselect" /\ stream_fd[t] \in write_set => caught'
    BY <1>11 DEF CloseStream
  <2>3. write_set \subseteq Fds
    BY DEF TypeOK
  <2>4. CASE t = "stream"
    BY <2>1, <2>2, <2>4 DEF StopInv, After
  <2>5. CASE t # "stream"
    BY <1>1, <2>1, <2>2, <2>3, <2>5
  <2>6. QED
    BY <2>4, <2>5
<1>12. CASE FindClient \/ GetStreamFd \/ GetPaths \/ TriggerStream
  <2>1. UNCHANGED <<write_set, fds, running, marks, impatient>>
    BY <1>12 DEF FindClient, GetStreamFd, GetPaths, TriggerStream, pool, loop,
       history
  <2>2. pc'["stream"] = pc["stream"]
    BY <1>12 DEF FindClient, GetStreamFd, GetPaths, TriggerStream
  <2>3. QED
    BY <1>2, <2>1, <2>2
<1>13. CASE CreateStream
  <2>1. /\ UNCHANGED <<write_set, running, doubled, raced, caught, impatient>>
        /\ pc'["stream"] = pc["stream"] /\ pc'["response"] \in {"paths", "get_fd"}
    BY <1>13 DEF CreateStream, loop
  <2>2. \A f \in Fds : fds[f] # 0 => fds'[f] # 0
    <3>1. CASE pc'["response"] = "get_fd"
      <4>1. made + 1 # 0
        BY DEF TypeOK
      <4>2. QED
        BY <1>13, <3>1, <4>1, CreateChanges
    <3>2. CASE pc'["response"] # "get_fd"
      <4>1. made + 1 # 0
        BY DEF TypeOK
      <4>2. QED
        BY <1>13, <3>2, <4>1, CreateEnds DEF FailedBind, pool
    <3>3. QED
      BY <3>1, <3>2
  <2>3. write_set \subseteq Fds
    BY DEF TypeOK
  <2>4. QED
    BY <1>1, <2>1, <2>2, <2>3 DEF marks
<1>14. CASE Answer
  BY <1>2, <1>14 DEF Answer, Done, pool, loop
<1>15. CASE CopySet
  <2>1. UNCHANGED <<fds, marks, impatient, running>>
    BY <1>15 DEF CopySet, pool, history
  <2>2. ~impatient /\ ~doubled /\ ~raced => \A f \in strm_set : fds[f] # 0
    <3>1. ~impatient /\ ~doubled /\ ~raced => strm_set \subseteq Owned /\ AloneInv
      BY DEF AccountInv, SetInv, OwnInv
    <3>2. QED
      BY <3>1 DEF Owned, AloneInv
  <2>3. \/ Goto("stream", "pselect") /\ write_set' = strm_set
        \/ Goto("stream", "stop") /\ ~running
    BY <1>15 DEF CopySet
  <2>4. QED
    BY <2>1, <2>2, <2>3 DEF StopInv, marks
<1>16. CASE Select \/ CheckStop
  <2>1. UNCHANGED <<write_set, fds, marks, impatient, running>>
    BY <1>16 DEF Select, CheckStop, pool, loop, history
  <2>2. \/ /\ pc["stream"] = "pselect"
           /\ (\E f \in write_set : fds[f] = 0) \/ Goto("stream", "check")
           /\ \E l \in {"stop", "check"} : Goto("stream", l)
        \/ /\ pc["stream"] = "check"
           /\ Goto("stream", IF running THEN "scan" ELSE "stop")
    BY <1>16 DEF Select, CheckStop
  <2>3. QED
    BY <2>1, <2>2 DEF StopInv, marks
<1>17. CASE StreamEnds
  BY <1>17 DEF StreamEnds, StopInv, history, marks, pool, loop
<1>18. CASE \/ Scan \/ PrepareStream \/ SendTo \/ Blocks \/ Unblocks
            \/ SendToFails
  <2>1. UNCHANGED <<fds, marks, impatient, running>>
    BY <1>18 DEF Scan, PrepareStream, SendTo, Blocks, Unblocks, SendToFails,
       pool, history
  <2>2. pc["stream"] \in {"scan", "prepare", "sendto", "blocked"}
    BY <1>18 DEF Scan, PrepareStream, SendTo, Blocks, Unblocks, SendToFails
  <2>3. \/ UNCHANGED pc
        \/ \E l \in {"head", "prepare", "scan", "clear", "sendto", "blocked"} :
             Goto("stream", l)
    BY <1>18 DEF Scan, PrepareStream, SendTo, Blocks, Unblocks, SendToFails,
       Fails
  <2>4. QED
    BY <2>1, <2>2, <2>3 DEF StopInv, marks
<1>19. QED
  BY <1>3, <1>4, <1>5, <1>6, <1>7, <1>8, <1>9, <1>10, <1>11, <1>12, <1>13,
     <1>14, <1>15, <1>16, <1>17, <1>18 DEF Next, Server, Response, StreamThread,
     Disconnect

-----------------------------------------------------------------------------
(* The streams that are open, and strm_set.                                *)

\* The response thread drops nobody while no client was impatient.
LEMMA NobodyIsDropped ==
  ASSUME TypeOK, PlaceInv, PatientInv, ~impatient
  PROVE  /\ pc["response"] \in ResponsePcs \cup {"idle"}
         /\ pc["response"] # "idle" => Asker \in Slots /\ peer[Asker] = "open"
<1>1. pc["response"] # "idle" => Asker \in Slots /\ Asker # 0
  BY Numbers DEF PlaceInv, HandInv, Droppers, Asker
<1>2. pc["response"] # "idle" => peer[Asker] = "open"
  BY <1>1 DEF PatientInv
<1>3. pc["response"] \in DropperPcs \ {"idle"} => peer[Asker] = "left"
  BY DEF PlaceInv, HandInv, Droppers, Asker
<1>4. QED
  BY <1>1, <1>2, <1>3 DEF TypeOK

\* A thread that does nothing that AccountInv speaks of.
SlotsRest == \A s \in Slots : StreamOf(s)' = StreamOf(s)
ServerRests == /\ pc'["server"] = pc["server"]
               /\ whom'["server"] = whom["server"]
               /\ stream_fd'["server"] = stream_fd["server"]
               /\ which'["server"] = which["server"]
               /\ \A s \in Slots : client_arr'[s].here = client_arr[s].here
ResponseRests ==
  \/ /\ pc["response"] \notin {"get_fd", "add", "adding"}
     /\ pc'["response"] \notin {"get_fd", "add", "adding"}
  \/ /\ \/ pc'["response"] = pc["response"]
        \/ pc["response"] = "add" /\ pc'["response"] = "adding"
     /\ whom'["response"] = whom["response"]
     /\ stream_fd'["response"] = stream_fd["response"]
     /\ which'["response"] = which["response"]
StreamRests ==
  \/ /\ pc["stream"] \notin {"lookup", "close"}
     /\ pc'["stream"] \notin {"lookup", "close"}
  \/ /\ pc["stream"] \in {"lookup", "close"}
     /\ pc'["stream"] \in {"lookup", "close"}
     /\ stream_fd'["stream"] = stream_fd["stream"]
     /\ which'["stream"] = which["stream"]

LEMMA LeaverFrame ==
  ASSUME TypeOK, PlaceInv, LeaverInv, SlotsRest, UNCHANGED fds, ServerRests
  PROVE  LeaverInv' /\ (Cleared("server")' <=> Cleared("server"))
<1>1. Means("server")' <=> Means("server")
  BY DEF Means, ServerRests
<1>2. Cleared("server")' <=> Cleared("server")
  BY <1>1 DEF Cleared, ServerRests
<1>3. pc["server"] # "idle" => whom["server"] \in Slots
  BY DEF PlaceInv, HandInv, Droppers
<1>4. LeaverInv'
  BY <1>1, <1>2, <1>3 DEF LeaverInv, ServerRests, SlotsRest, StreamOf
<1>5. QED
  BY <1>2, <1>4

LEMMA AdderFrame ==
  ASSUME TypeOK, PlaceInv, AdderInv, SlotsRest, UNCHANGED fds, ResponseRests,
         StreamRests
  PROVE  /\ AdderInv' /\ BeingAdded' = BeingAdded
         /\ Cleared("stream")' <=> Cleared("stream")
         /\ Cleared("stream") => stream_fd'["stream"] = stream_fd["stream"]
<1>1. Cleared("stream")' <=> Cleared("stream")
  BY DEF Cleared, Means, StreamRests
<1>2. Cleared("stream") => stream_fd'["stream"] = stream_fd["stream"]
  BY <1>1 DEF Cleared, StreamRests
<1>3. pc["response"] # "idle" => Asker \in Slots
  BY DEF PlaceInv, HandInv, Droppers, Asker
<1>4. BeingAdded' = BeingAdded
  BY <1>3 DEF BeingAdded, ResponseRests, SlotsRest, StreamOf, Asker
<1>5. /\ pc'["response"] \in {"add", "adding"} =>
           (StreamOf(Asker) = stream_fd["response"] /\ Means("response"))'
      /\ pc'["response"] = "get_fd" => StreamOf(Asker)' # 0
  BY <1>3 DEF AdderInv, ResponseRests, SlotsRest, StreamOf, Asker, Means
<1>6. AdderInv'
  BY <1>1, <1>2, <1>4, <1>5 DEF AdderInv
<1>7. QED
  BY <1>1, <1>2, <1>4, <1>6

LEMMA GoingIs ==
  \A f : f \in Going <=> \E t \in {"server", "stream"} :
                           Cleared(t) /\ stream_fd[t] = f
BY DEF Going

\* A step that changes no slot, no descriptor and not strm_set, and for which
\* the rest is known.
LEMMA AccountFrame ==
  ASSUME AccountInv, SlotsRest, UNCHANGED <<fds, strm_set, leaked>>,
         impatient => impatient', doubled => doubled', raced => raced',
         ~impatient' /\ ~doubled' =>
           /\ LeaverInv' /\ AdderInv'
           /\ BeingAdded \subseteq BeingAdded'
           /\ \A f \in Going' : f \in Going
           /\ \A f \in Going : f \in Going' \/ f \notin Owned
  PROVE  AccountInv'
<1> SUFFICES ASSUME ~impatient', ~doubled'
             PROVE  OpenInv' /\ LeaverInv' /\ AdderInv' /\ (~raced' => SetInv')
  BY DEF AccountInv
<1>1. Owned' = Owned
  BY DEF Owned, SlotsRest
<1>2. OpenInv'
  BY <1>1 DEF AccountInv, OpenInv
<1>3. ~raced' => SetInv'
  BY <1>1 DEF AccountInv, SetInv
<1>4. QED
  BY <1>2, <1>3

LEMMA AccountRest ==
  ASSUME TypeOK, PlaceInv, AccountInv, SlotsRest,
         UNCHANGED <<fds, strm_set, leaked>>,
         impatient => impatient', doubled => doubled', raced => raced',
         ServerRests, ResponseRests, StreamRests
  PROVE  AccountInv'
<1>1. ASSUME ~impatient', ~doubled'
      PROVE  /\ LeaverInv' /\ AdderInv' /\ BeingAdded' = BeingAdded
             /\ \A f : f \in Going' <=> f \in Going
  <2>1. LeaverInv /\ AdderInv
    BY <1>1 DEF AccountInv
  <2>2. LeaverInv' /\ (Cleared("server")' <=> Cleared("server"))
    BY <2>1, LeaverFrame
  <2>3. /\ AdderInv' /\ BeingAdded' = BeingAdded
        /\ Cleared("stream")' <=> Cleared("stream")
        /\ Cleared("stream") => stream_fd'["stream"] = stream_fd["stream"]
    BY <2>1, AdderFrame
  <2>4. \A f : f \in Going' <=> f \in Going
    BY <2>2, <2>3, GoingIs DEF Going, ServerRests
  <2>5. QED
    BY <2>2, <2>3, <2>4
<1>2. QED
  BY <1>1, AccountFrame

\* A step of the server thread that changes neither.
LEMMA AccountByServer ==
  ASSUME TypeOK, PlaceInv, AccountInv, SlotsRest,
         UNCHANGED <<fds, strm_set, leaked>>,
         impatient => impatient', doubled => doubled', raced => raced',
         ResponseRests, StreamRests,
         ~impatient' /\ ~doubled' =>
           /\ LeaverInv'
           /\ Cleared("server")' =>
                Cleared("server") /\ stream_fd'["server"] = stream_fd["server"]
           /\ Cleared("server") =>
                \/ Cleared("server")' /\ stream_fd'["server"] = stream_fd["server"]
                \/ stream_fd["server"] \notin Owned
  PROVE  AccountInv'
<1>1. ASSUME ~impatient', ~doubled'
      PROVE  /\ LeaverInv' /\ AdderInv' /\ BeingAdded' = BeingAdded
             /\ \A f \in Going' : f \in Going
             /\ \A f \in Going : f \in Going' \/ f \notin Owned
  <2>1. AdderInv
    BY <1>1 DEF AccountInv
  <2>2. /\ AdderInv' /\ BeingAdded' = BeingAdded
        /\ Cleared("stream")' <=> Cleared("stream")
        /\ Cleared("stream") => stream_fd'["stream"] = stream_fd["stream"]
    BY <2>1, AdderFrame
  <2>3. \A f \in Going' : f \in Going
    BY <1>1, <2>2, GoingIs DEF Going
  <2>4. \A f \in Going : f \in Going' \/ f \notin Owned
    BY <1>1, <2>2, GoingIs DEF Going
  <2>5. QED
    BY <1>1, <2>2, <2>3, <2>4
<1>2. QED
  BY <1>1, AccountFrame

\* The steps of that kind.
LEMMA AccountKeptBySmallSteps ==
  ASSUME TypeOK, PlaceInv, PatientInv, AccountInv
  PROVE  /\ \A s \in Slots : Ask(s) \/ Bind(s) \/ Unbind(s) \/ Leave(s) \/ Dequeue(s)
                               => AccountInv'
         /\ Stop \/ FindClient \/ GetPaths \/ TriggerStream \/ Answer => AccountInv'
         /\ CopySet \/ Select \/ CheckStop \/ Scan \/ PrepareStream \/ SendTo
            \/ Blocks \/ Unblocks \/ SendToFails \/ StreamEnds => AccountInv'
         /\ \A t \in Threads : ReadWord(t, "clear", "clearing") => AccountInv'
         /\ ReadWord("response", "add", "adding") => AccountInv'
<1> USE GotoChanges DEF Threads, Droppers
<1>1. UNCHANGED client_arr => SlotsRest
  BY DEF SlotsRest, StreamOf
<1>2. ASSUME UNCHANGED <<client_arr, fds, strm_set, doubled, raced, leaked>>,
             impatient => impatient', UNCHANGED <<pc, hands>>
      PROVE  AccountInv'
  BY <1>1, <1>2, AccountRest DEF ServerRests, ResponseRests, StreamRests, hands
<1>3. ASSUME NEW s \in Slots, Ask(s) \/ Bind(s) \/ Unbind(s) \/ Leave(s) PROVE AccountInv'
  BY <1>2, <1>3 DEF Ask, Bind, Unbind, Leave, pool, marks, history
<1>4. ASSUME Stop PROVE AccountInv'
  BY <1>2, <1>4 DEF Stop, pool, marks, history
<1>5. ASSUME NEW s \in Slots, Dequeue(s) PROVE AccountInv'
  <2>1. /\ UNCHANGED <<client_arr, fds, strm_set, doubled, raced, leaked, impatient,
                       stream_fd, which>>
        /\ pc["response"] = "idle" /\ whom' = [whom EXCEPT !["response"] = s]
        /\ \E l \in {"paths", "create"} : Goto("response", l)
    BY <1>5 DEF Dequeue, pool, history, marks
  <2>2. ServerRests /\ ResponseRests /\ StreamRests
    BY <2>1 DEF TypeOK, ServerRests, ResponseRests, StreamRests
  <2>3. QED
    BY <1>1, <2>1, <2>2, AccountRest
<1>6. ASSUME FindClient \/ GetPaths \/ TriggerStream \/ Answer PROVE AccountInv'
  <2>1. UNCHANGED <<fds, strm_set, doubled, raced, leaked, impatient>> /\ SlotsRest
    <3>1. TriggerStream => SlotsRest
      BY TriggerChanges DEF SlotsRest
    <3>2. QED
      BY <1>1, <1>6, <3>1 DEF FindClient, GetPaths, TriggerStream, Answer, pool,
         history, marks
  <2>2. /\ whom'["server"] = whom["server"]
        /\ \A t \in {"server", "stream"} : /\ stream_fd'[t] = stream_fd[t]
                                           /\ which'[t] = which[t]
    BY <1>6 DEF TypeOK, FindClient, GetPaths, TriggerStream, Answer, Done,
       FreeHand, hands
  <2>3. /\ pc["response"] \in {"create", "paths", "trigger", "answer", "deny"}
        /\ \E l \in {"socket", "paths", "trigger", "deny", "answer", "idle",
                     "drop"} : Goto("response", l)
    BY <1>6 DEF FindClient, GetPaths, TriggerStream, Answer, Done
  <2>4. ServerRests /\ ResponseRests /\ StreamRests
    BY <1>6, <2>2, <2>3, TriggerChanges DEF ServerRests, ResponseRests,
       StreamRests, FindClient, GetPaths, Answer, pool
  <2>5. QED
    BY <2>1, <2>4, AccountRest
<1>7. ASSUME \/ CopySet \/ Select \/ CheckStop \/ Scan \/ PrepareStream \/ SendTo
             \/ Blocks \/ Unblocks \/ SendToFails \/ StreamEnds
      PROVE  AccountInv'
  <2>1. UNCHANGED <<client_arr, fds, strm_set, doubled, raced, leaked, impatient, whom>>
    BY <1>7 DEF CopySet, Select, CheckStop, Scan, PrepareStream, SendTo, Blocks,
       Unblocks, SendToFails, StreamEnds, pool, history, marks, hands
  <2>2. \A t \in Droppers : stream_fd'[t] = stream_fd[t] /\ which'[t] = which[t]
    BY <1>7 DEF TypeOK, CopySet, Select, CheckStop, Scan, PrepareStream, SendTo,
       Blocks, Unblocks, SendToFails, StreamEnds, hands, FreeHand, Take
  <2>3. /\ pc["stream"] \notin {"lookup", "close"}
        /\ \/ UNCHANGED pc
           \/ \E l \in StreamPcs \ {"lookup", "close"} : Goto("stream", l)
    BY <1>7 DEF CopySet, Select, CheckStop, Scan, PrepareStream, SendTo, Blocks,
       Unblocks, SendToFails, StreamEnds, Fails, StreamPcs
  <2>4. ServerRests /\ ResponseRests /\ StreamRests
    BY <2>1, <2>2, <2>3 DEF ServerRests, ResponseRests, StreamRests
  <2>5. QED
    BY <1>1, <2>1, <2>4, AccountRest
<1>8. ASSUME NEW t \in Threads \ {"server"},
             \/ ReadWord(t, "clear", "clearing")
             \/ t = "response" /\ ReadWord(t, "add", "adding")
      PROVE  AccountInv'
  <2>1. /\ UNCHANGED <<client_arr, fds, strm_set, doubled, raced, leaked, impatient,
                       hands>>
        /\ \/ pc[t] = "clear" /\ Goto(t, "clearing")
           \/ t = "response" /\ pc[t] = "add" /\ Goto(t, "adding")
    BY <1>8 DEF ReadWord, pool, history, marks
  <2>2. ServerRests /\ ResponseRests /\ StreamRests
    BY <2>1 DEF ServerRests, ResponseRests, StreamRests, hands
  <2>3. QED
    BY <1>1, <2>1, <2>2, AccountRest
<1>9. ASSUME ReadWord("server", "clear", "clearing") PROVE AccountInv'
  <2>1. /\ UNCHANGED <<client_arr, fds, strm_set, doubled, raced, leaked, impatient,
                       hands>>
        /\ pc["server"] = "clear" /\ Goto("server", "clearing")
    BY <1>9 DEF ReadWord, pool, history, marks
  <2>2. ResponseRests /\ StreamRests
    BY <2>1 DEF ResponseRests, StreamRests, hands
  <2>3. Means("server")' <=> Means("server")
    BY <2>1 DEF Means, hands
  <2>4. ~Cleared("server") /\ ~Cleared("server")'
    BY <2>1 DEF Cleared
  <2>5. LeaverInv => LeaverInv'
    BY <2>1, <2>3, <2>4 DEF LeaverInv, hands, StreamOf
  <2>6. QED
    BY <1>1, <2>1, <2>2, <2>4, <2>5, AccountByServer DEF AccountInv
<1>10. \A t \in Threads : ReadWord(t, "clear", "clearing") => AccountInv'
  BY <1>8, <1>9
<1>11. QED
  BY <1>3, <1>4, <1>5, <1>6, <1>7, <1>8, <1>10

\* The response thread drops a client only where one was impatient.
LEMMA AccountKeptByRefusal ==
  ASSUME TypeOK, PlaceInv, PatientInv, Disconnect("response")
  PROVE  AccountInv'
<1>1. pc["response"] \in DropperPcs \ {"idle"}
  BY DEF Disconnect, Drop, FdClear, ReadWord, WriteWord, RemoveClient,
     FindStream, CloseStream, ZeroSlot, DropperPcs
<1>2. impatient
  BY <1>1, NobodyIsDropped DEF DropperPcs, ResponsePcs
<1>3. impatient' = impatient
  BY DEF Disconnect, Drop, FdClear, ReadWord, WriteWord, RemoveClient,
     FindStream, CloseStream, ZeroSlot, history
<1>4. QED
  BY <1>2, <1>3 DEF AccountInv

\* The steps of the server thread towards the removal of a stream.
LEMMA AccountKeptByServer ==
  ASSUME TypeOK, PlaceInv, OwnInv, AccountInv
  PROVE  /\ \A s \in Slots : ServerDrops(s) => AccountInv'
         /\ Drop("server") \/ RemoveClient("server") \/ FindStream("server")
            \/ ZeroSlot("server") => AccountInv'
<1> USE GotoChanges DEF Threads, Droppers
<1>1. UNCHANGED client_arr => SlotsRest
  BY DEF SlotsRest, StreamOf
<1>2. ASSUME \A t \in {"response", "stream"} : /\ pc'[t] = pc[t]
                                               /\ stream_fd'[t] = stream_fd[t]
                                               /\ which'[t] = which[t],
             whom'["response"] = whom["response"]
      PROVE  ResponseRests /\ StreamRests
  BY <1>2 DEF ResponseRests, StreamRests
<1>3. ASSUME NEW s \in Slots, ServerDrops(s) PROVE AccountInv'
  <2>1. /\ UNCHANGED <<client_arr, fds, strm_set, doubled, raced, leaked, impatient,
                       stream_fd, which>>
        /\ whom' = [whom EXCEPT !["server"] = s]
        /\ pc["server"] = "idle" /\ Goto("server", "drop") /\ client_arr[s].here
    BY <1>3 DEF ServerDrops, pool, history, marks
  <2>2. ResponseRests /\ StreamRests
    BY <1>2, <2>1 DEF TypeOK
  <2>3. ~Cleared("server") /\ ~Cleared("server")' /\ whom'["server"] = s
    BY <2>1 DEF TypeOK, Cleared
  <2>4. LeaverInv'
    BY <2>1, <2>3 DEF LeaverInv
  <2>5. QED
    BY <1>1, <2>1, <2>2, <2>3, <2>4, AccountByServer
<1>4. ASSUME Drop("server") PROVE AccountInv'
  <2>1. whom["server"] \in Slots
    BY <1>4 DEF PlaceInv, HandInv, Drop
  <2> DEFINE f == StreamOf(whom["server"])
  <2>2. f \in Fds \cup {0} /\ (f > 0 <=> f # 0)
    BY <2>1, SlotFacts
  <2> HIDE DEF f
  <2>3. /\ UNCHANGED <<client_arr, fds, strm_set, doubled, raced, leaked, impatient, whom>>
        /\ pc["server"] = "drop"
        /\ Goto("server", IF f > 0 THEN "clear" ELSE "remove")
        /\ stream_fd' = [stream_fd EXCEPT !["server"] = f]
        /\ which' = [which EXCEPT !["server"] = IF f = 0 THEN 0 ELSE fds[f]]
    BY <1>4 DEF Drop, Take, f, pool, history, marks
  <2>4. ResponseRests /\ StreamRests
    BY <1>2, <2>3 DEF TypeOK
  <2>5. /\ f # 0 => pc'["server"] = "clear" /\ Means("server")'
        /\ f = 0 => pc'["server"] = "remove" /\ ~Means("server")'
        /\ stream_fd'["server"] = f
    BY <2>2, <2>3, Numbers DEF TypeOK, Means
  <2>6. ~Cleared("server") /\ ~Cleared("server")'
    BY <2>3, <2>5 DEF Cleared
  <2>7. LeaverInv => LeaverInv'
    BY <2>3, <2>5, <2>6 DEF LeaverInv, StreamOf, f
  <2>8. QED
    BY <1>1, <2>3, <2>4, <2>6, <2>7, AccountByServer DEF AccountInv
<1>5. ASSUME RemoveClient("server") PROVE AccountInv'
  <2>1. CASE client_arr[whom["server"]].here
    <3>1. /\ UNCHANGED <<client_arr, fds, strm_set, doubled, raced, leaked, impatient, whom,
                         stream_fd, which>>
          /\ pc["server"] = "remove" /\ Goto("server", "lookup")
      BY <1>5, <2>1 DEF RemoveClient, pool, history, marks
    <3>2. ResponseRests /\ StreamRests
      BY <1>2, <3>1
    <3>3. Means("server")' <=> Means("server")
      BY <3>1 DEF Means
    <3>4. Cleared("server")' <=> Cleared("server")
      BY <3>1, <3>3 DEF Cleared
    <3>5. LeaverInv => LeaverInv'
      BY <3>1, <3>3, <3>4 DEF LeaverInv, StreamOf
    <3>6. QED
      BY <1>1, <3>1, <3>2, <3>4, <3>5, AccountByServer DEF AccountInv
  <2>2. CASE ~client_arr[whom["server"]].here
    <3>1. pc["server"] = "remove" /\ UNCHANGED <<impatient, doubled>>
      BY <1>5 DEF RemoveClient, history, marks
    <3>2. impatient \/ doubled
      BY <2>2, <3>1 DEF AccountInv, LeaverInv
    <3>3. QED
      BY <3>1, <3>2 DEF AccountInv
  <2>3. QED
    BY <2>1, <2>2
<1>6. ASSUME FindStream("server") PROVE AccountInv'
  <2> DEFINE f == StreamOf(whom["server"])
             found == IF f = 0 THEN {} ELSE {s \in SlotOf(f) : Alive(s)}
  <2>1. /\ whom["server"] \in Slots /\ idx["server"] = whom["server"]
        /\ pc["server"] = "lookup"
    BY <1>6 DEF FindStream, PlaceInv, HandInv
  <2>2. f # 0 => whom["server"] \in found
    BY <2>1, SlotFacts DEF SlotOf, Alive, PlaceInv, SlotInv
  <2>3. \/ found = {} /\ Goto("server", "zero") /\ FreeHand("server")
        \/ /\ found # {} /\ Goto("server", "close") /\ Take("server", f)
    BY <1>6, <2>1 DEF FindStream, After
  <2>4. UNCHANGED <<client_arr, fds, strm_set, doubled, raced, leaked, impatient, whom>>
    BY <1>6 DEF FindStream, pool, history, marks
  <2>5. f = 0 => found = {}
    OBVIOUS
  <2>6. f = StreamOf(whom["server"])
    OBVIOUS
  <2> HIDE DEF f, found
  <2>7. ResponseRests /\ StreamRests
    BY <1>2, <2>3, <2>4 DEF TypeOK, FreeHand, Take
  <2>8. ASSUME ~impatient', ~doubled'
        PROVE  /\ LeaverInv'
               /\ Cleared("server")' =>
                    /\ Cleared("server")
                    /\ stream_fd'["server"] = stream_fd["server"]
               /\ Cleared("server") =>
                    \/ /\ Cleared("server")'
                       /\ stream_fd'["server"] = stream_fd["server"]
                    \/ stream_fd["server"] \notin Owned
    <3>1. LeaverInv
      BY <2>4, <2>8 DEF AccountInv
    <3>2. CASE f = 0
      <4>1. pc'["server"] = "zero" /\ ~Cleared("server")'
        BY <2>3, <2>5, <3>2 DEF Cleared
      <4>2. LeaverInv'
        BY <2>1, <2>4, <2>6, <3>1, <3>2, <4>1 DEF LeaverInv, StreamOf
      <4>3. Cleared("server") => stream_fd["server"] \notin Owned
        BY <2>6, <3>1, <3>2, Numbers DEF LeaverInv, Owned, Cleared, Means
      <4>4. QED
        BY <4>1, <4>2, <4>3
    <3>3. CASE f # 0
      <4>1. stream_fd["server"] = f /\ Means("server")
        BY <2>1, <2>6, <3>1, <3>3 DEF LeaverInv
      <4>2. /\ pc'["server"] = "close" /\ stream_fd'["server"] = f
            /\ which'["server"] = fds[f]
        BY <2>2, <2>3, <3>3 DEF Take, TypeOK
      <4>3. Means("server")'
        BY <2>4, <4>1, <4>2 DEF Means
      <4>4. Cleared("server") /\ Cleared("server")'
        BY <2>1, <4>1, <4>2, <4>3 DEF Cleared
      <4>5. LeaverInv'
        BY <2>1, <2>4, <2>6, <3>1, <4>1, <4>2, <4>3, <4>4 DEF LeaverInv,
           StreamOf
      <4>6. QED
        BY <4>1, <4>2, <4>4, <4>5
    <3>4. QED
      BY <3>2, <3>3
  <2>9. QED
    BY <1>1, <2>4, <2>7, <2>8, AccountByServer
<1>7. ASSUME ZeroSlot("server") PROVE AccountInv'
  <2>1. /\ whom["server"] \in Slots
        /\ \A s \in Slots :
              /\ s = whom["server"] => StreamOf(s)' = 0
              /\ s # whom["server"] => /\ StreamOf(s)' = StreamOf(s)
                                       /\ client_arr'[s] = client_arr[s]
        /\ UNCHANGED <<fds, strm_set, impatient, doubled, raced, leaked>>
    BY <1>7, ZeroChanges
  <2>2. pc["server"] = "zero" /\ Done("server")
    BY <1>7 DEF ZeroSlot
  <2>3. ResponseRests /\ StreamRests
    BY <1>2, <2>2 DEF Done, FreeHand, TypeOK
  <2>4. pc'["server"] = "idle" /\ ~Cleared("server") /\ ~Cleared("server")'
    BY <2>2 DEF Done, Cleared
  <2>5. LeaverInv'
    BY <2>4 DEF LeaverInv
  <2>6. CASE impatient \/ doubled
    BY <2>1, <2>6 DEF AccountInv
  <2>7. CASE ~impatient /\ ~doubled
    <3>1. \A s \in Slots : s = whom["server"] => StreamOf(s) = 0
      BY <2>2, <2>7 DEF AccountInv, LeaverInv
    <3>2. SlotsRest
      BY <2>1, <3>1 DEF SlotsRest
    <3>3. QED
      BY <2>1, <2>3, <2>4, <2>5, <3>2, AccountByServer
  <2>8. QED
    BY <2>6, <2>7
<1>8. QED
  BY <1>3, <1>4, <1>5, <1>6, <1>7

\* The changes of strm_set.
LEMMA AccountKeptBySets ==
  ASSUME TypeOK, PlaceInv, OwnInv, PatientInv, AccountInv
  PROVE  /\ \A t \in {"server", "stream"} : FdClear(t) => AccountInv'
         /\ FdSet => AccountInv'
<1> USE GotoChanges DEF Threads, Droppers
<1>1. UNCHANGED client_arr => SlotsRest /\ Owned' = Owned
  BY DEF SlotsRest, StreamOf, Owned
<1>2. ASSUME NEW t \in Threads, NEW from, NEW to, NEW new,
             WriteWord(t, from, to, new)
      PROVE  /\ UNCHANGED <<client_arr, fds, stream_fd, which, whom, leaked,
                        impatient>>
             /\ pc[t] = from /\ strm_set' = new /\ Goto(t, to)
             /\ ~doubled' => /\ ~doubled /\ fds[stream_fd[t]] = which[t]
                             /\ t # "response" => stream_fd[t] \notin BeingAdded
             /\ ~raced' => ~raced /\ strm_set = word[t]
  BY <1>2 DEF WriteWord, peers, pool, hands, history
<1>3. ASSUME UNCHANGED <<client_arr, fds, leaked, impatient>>,
             doubled => doubled', raced => raced',
             ~doubled' /\ ~impatient => LeaverInv' /\ AdderInv',
             ~doubled' /\ ~impatient /\ ~raced' => SetInv'
      PROVE  AccountInv'
  BY <1>1, <1>3 DEF AccountInv, OpenInv
<1>4. ASSUME NEW t \in {"server", "stream"},
             WriteWord(t, "clearing", IF t = "stream" THEN "lookup" ELSE "remove",
                       word[t] \ {stream_fd[t]})
      PROVE  AccountInv'
  <2> DEFINE to == IF t = "stream" THEN "lookup" ELSE "remove"
  <2>1. /\ UNCHANGED <<client_arr, fds, stream_fd, which, whom, leaked,
                        impatient>>
        /\ pc[t] = "clearing" /\ Goto(t, to)
        /\ ~doubled' => ~doubled /\ fds[stream_fd[t]] = which[t]
        /\ ~doubled' => stream_fd[t] \notin BeingAdded
        /\ ~raced' => ~raced /\ strm_set' = strm_set \ {stream_fd[t]}
    BY <1>2, <1>4
  <2>2. stream_fd[t] \in Fds
    BY <2>1 DEF PlaceInv, HandInv
  <2>3. ASSUME ~doubled', ~impatient
        PROVE  /\ LeaverInv' /\ AdderInv'
               /\ Cleared(t)' /\ BeingAdded' = BeingAdded
               /\ \A u \in {"server", "stream"} \ {t} : Cleared(u)' <=> Cleared(u)
    <3>1. Means(t) /\ Knows(t) /\ which[t] # 0
      BY <2>1, <2>2, <2>3 DEF Means, OwnInv, Knows, Holds
    <3>2. Cleared(t)'
      BY <2>1, <3>1 DEF Cleared, Means
    <3>3. LeaverInv /\ AdderInv
      BY <2>1, <2>3 DEF AccountInv
    <3>4. ResponseRests
      BY <2>1 DEF ResponseRests
    <3>5. CASE t = "server"
      <4>1. StreamRests
        BY <2>1, <3>5 DEF StreamRests
      <4>2. /\ AdderInv' /\ BeingAdded' = BeingAdded
            /\ Cleared("stream")' <=> Cleared("stream")
        BY <1>1, <2>1, <3>3, <3>4, <4>1, AdderFrame
      <4>3. \A s \in Slots : StreamOf(s) = stream_fd["server"] => s = whom["server"]
        BY <2>1, <3>1, <3>5 DEF Knows
      <4>4. LeaverInv'
        BY <2>1, <3>1, <3>3, <3>5, <4>3 DEF LeaverInv, Means, StreamOf
      <4>5. QED
        BY <3>2, <3>5, <4>2, <4>4
    <3>6. CASE t = "stream"
      <4>1. ServerRests
        BY <2>1, <3>6 DEF ServerRests
      <4>2. LeaverInv' /\ (Cleared("server")' <=> Cleared("server"))
        BY <1>1, <2>1, <3>3, <4>1, LeaverFrame
      <4>3. pc'["response"] = pc["response"]
        BY <2>1, <3>6
      <4>4. BeingAdded' = BeingAdded
        BY <2>1, <4>3 DEF BeingAdded, StreamOf
      <4>5. AdderInv'
        BY <2>1, <2>3, <3>3, <3>6, <4>3, <4>4 DEF AdderInv, Means, StreamOf,
           Asker
      <4>6. QED
        BY <3>2, <3>6, <4>2, <4>4, <4>5
    <3>7. QED
      BY <3>5, <3>6
  <2>4. ASSUME ~doubled', ~impatient, ~raced' PROVE SetInv'
    <3>1. SetInv
      BY <2>1, <2>4 DEF AccountInv
    <3>2. \A f : f \in Going' <=> f \in Going \/ f = stream_fd[t]
      <4>1. \A f : f \in Going' <=> \E u \in {"server", "stream"} :
                                      Cleared(u)' /\ stream_fd[u] = f
        BY <2>1 DEF Going
      <4>2. ~Cleared(t)
        BY <2>1 DEF Cleared
      <4>3. QED
        BY <2>3, <2>4, <4>1, <4>2, GoingIs
    <3>3. Owned' = Owned /\ strm_set' = strm_set \ {stream_fd[t]}
      BY <1>1, <2>1, <2>4
    <3>4. QED
      BY <2>3, <2>4, <3>1, <3>2, <3>3 DEF SetInv
  <2>5. QED
    BY <1>3, <2>1, <2>3, <2>4
<1>5. ASSUME NEW t \in {"server", "stream"}, FdClear(t) PROVE AccountInv'
  BY <1>4, <1>5, AccountKeptBySmallSteps DEF FdClear
<1>6. ASSUME WriteWord("response", "adding", "paths",
                       word["response"] \cup {stream_fd["response"]})
      PROVE  AccountInv'
  <2> DEFINE f == stream_fd["response"]
  <2>1. /\ UNCHANGED <<client_arr, fds, stream_fd, which, whom, leaked,
                        impatient>>
        /\ pc["response"] = "adding" /\ Goto("response", "paths")
        /\ ~doubled' => ~doubled
        /\ ~raced' => ~raced /\ strm_set' = strm_set \cup {f}
    BY <1>2, <1>6
  <2>2. ServerRests /\ StreamRests
    BY <2>1 DEF ServerRests, StreamRests
  <2>3. ASSUME ~doubled', ~impatient
        PROVE  /\ LeaverInv' /\ AdderInv' /\ BeingAdded' = {}
               /\ \A g : g \in Going' <=> g \in Going
               /\ BeingAdded = {f} /\ f \in Owned /\ f \notin Going
    <3>1. LeaverInv /\ AdderInv
      BY <2>1, <2>3 DEF AccountInv
    <3>2. LeaverInv' /\ (Cleared("server")' <=> Cleared("server"))
      BY <1>1, <2>1, <2>2, <3>1, LeaverFrame
    <3>3. pc'["response"] = "paths" /\ BeingAdded' = {}
      BY <2>1 DEF BeingAdded
    <3>4. AdderInv'
      BY <3>3 DEF AdderInv
    <3>5. Asker \in Slots /\ peer[Asker] = "open"
      BY <2>1, <2>3, NobodyIsDropped
    <3>6. f \in Fds /\ StreamOf(Asker) = f
      BY <2>1, <3>1 DEF AdderInv, PlaceInv, HandInv
    <3>7. f \in Owned
      BY <3>5, <3>6, Numbers DEF Owned
    <3>8. BeingAdded = {f}
      BY <2>1, <3>6 DEF BeingAdded, Asker
    <3>9. Cleared("stream") => stream_fd["stream"] # f
      BY <3>1, <3>8 DEF AdderInv
    <3>10. Cleared("server") => stream_fd["server"] # f
      BY <3>1, <3>5, <3>6 DEF LeaverInv, Cleared, PlaceInv, HandInv, DropperPcs
    <3>11. Cleared("stream")' <=> Cleared("stream")
      BY <2>1 DEF Cleared, Means
    <3>12. \A g : g \in Going' <=> g \in Going
      BY <2>1, <3>2, <3>11, GoingIs DEF Going
    <3>13. f \notin Going
      BY <3>9, <3>10, GoingIs
    <3>14. QED
      BY <3>2, <3>3, <3>4, <3>7, <3>8, <3>12, <3>13
  <2>4. ASSUME ~doubled', ~impatient, ~raced' PROVE SetInv'
    <3>1. SetInv
      BY <2>1, <2>4 DEF AccountInv
    <3>2. Owned' = Owned /\ strm_set' = strm_set \cup {f}
      BY <1>1, <2>1, <2>4
    <3> HIDE DEF f
    <3>3. QED
      BY <2>3, <2>4, <3>1, <3>2 DEF SetInv
  <2>5. QED
    BY <1>3, <2>1, <2>3, <2>4
<1>7. CASE FdSet
  BY <1>6, <1>7, AccountKeptBySmallSteps DEF FdSet
<1>8. QED
  BY <1>5, <1>7

\* What the stream thread and the response thread find in the slots.
LEMMA AccountKeptByLooks ==
  ASSUME TypeOK, PlaceInv, OwnInv, PatientInv, AccountInv
  PROVE  GetStreamFd \/ FindStream("stream") => AccountInv'
<1> USE GotoChanges DEF Threads, Droppers
<1>1. UNCHANGED client_arr => SlotsRest
  BY DEF SlotsRest, StreamOf
<1>2. CASE GetStreamFd
  <2>1. /\ UNCHANGED <<client_arr, fds, strm_set, doubled, raced, leaked, impatient, whom>>
        /\ pc["response"] = "get_fd"
    BY <1>2 DEF GetStreamFd, pool, history, marks
  <2>2. /\ \A t \in {"server", "stream"} :
             pc'[t] = pc[t] /\ stream_fd'[t] = stream_fd[t] /\ which'[t] = which[t]
    BY <1>2 DEF GetStreamFd, Take, TypeOK
  <2>3. ServerRests /\ StreamRests
    BY <2>1, <2>2 DEF ServerRests, StreamRests
  <2>4. ASSUME ~impatient, ~doubled
        PROVE  /\ LeaverInv' /\ AdderInv' /\ BeingAdded' = BeingAdded
               /\ \A f : f \in Going' <=> f \in Going
    <3>1. LeaverInv /\ AdderInv
      BY <2>4 DEF AccountInv
    <3>2. LeaverInv' /\ (Cleared("server")' <=> Cleared("server"))
      BY <1>1, <2>1, <2>3, <3>1, LeaverFrame
    <3>3. Asker \in Slots /\ client_arr[Asker].here /\ StreamOf(Asker) # 0
      BY <2>1, <2>4, <3>1, NobodyIsDropped DEF AdderInv, PlaceInv, SlotInv
    <3>4. StreamOf(Asker) \in Fds /\ StreamOf(Asker) > 0
      BY <3>3, SlotFacts
    <3>5. /\ pc'["response"] = "add"
          /\ stream_fd'["response"] = StreamOf(Asker)
          /\ which'["response"] = fds[StreamOf(Asker)]
      BY <1>2, <3>3, <3>4 DEF GetStreamFd, Take, TypeOK
    <3>6. BeingAdded' = BeingAdded
      BY <2>1, <3>5 DEF BeingAdded, StreamOf
    <3>7. Cleared("stream")' <=> Cleared("stream")
      BY <2>1, <2>2 DEF Cleared, Means
    <3>8. AdderInv'
      BY <2>1, <2>2, <3>1, <3>4, <3>5, <3>6, <3>7 DEF AdderInv, Means, StreamOf,
         Asker
    <3>9. \A f : f \in Going' <=> f \in Going
      BY <2>2, <3>2, <3>7, GoingIs DEF Going
    <3>10. QED
      BY <3>2, <3>6, <3>8, <3>9
  <2>5. QED
    BY <1>1, <2>1, <2>4, AccountFrame
<1>3. CASE FindStream("stream")
  <2> DEFINE f == stream_fd["stream"]
             found == {s \in SlotOf(f) : Alive(s)}
  <2>1. /\ UNCHANGED <<client_arr, fds, strm_set, doubled, raced, leaked, impatient, whom>>
        /\ pc["stream"] = "lookup" /\ f \in Fds
    BY <1>3 DEF FindStream, pool, history, marks, PlaceInv, HandInv
  <2>2. \A t \in Droppers :
             pc'[t] = pc[t] /\ stream_fd'[t] = stream_fd[t] /\ which'[t] = which[t]
    BY <1>3 DEF FindStream, FreeHand, TypeOK
  <2>3. ServerRests /\ ResponseRests
    BY <2>1, <2>2 DEF ServerRests, ResponseRests
  <2>4. \/ found = {} /\ pc'["stream"] = "scan"
        \/ pc'["stream"] = "close" /\ UNCHANGED <<stream_fd, which>>
    BY <1>3, <2>1, Numbers DEF FindStream, After
  <2>5. CASE pc'["stream"] = "close" /\ UNCHANGED <<stream_fd, which>>
    <3>1. StreamRests
      BY <2>1, <2>5 DEF StreamRests
    <3>2. QED
      BY <1>1, <2>1, <2>3, <3>1, AccountRest
  <2>6. CASE found = {} /\ pc'["stream"] = "scan"
    <3>1. f \notin Owned
      <4>1. ASSUME NEW s \in Slots, StreamOf(s) = f PROVE FALSE
        <5>1. Alive(s)
          BY <2>1, <4>1, SlotFacts, Numbers DEF Alive, PlaceInv, SlotInv
        <5>2. QED
          BY <2>6, <4>1, <5>1 DEF SlotOf
      <4>2. QED
        BY <4>1 DEF Owned
    <3>2. ~Cleared("stream")'
      BY <2>6 DEF Cleared
    <3>3. ASSUME ~impatient, ~doubled
          PROVE  /\ LeaverInv' /\ AdderInv' /\ BeingAdded' = BeingAdded
                 /\ \A g \in Going' : g \in Going
                 /\ \A g \in Going : g \in Going' \/ g = f
      <4>1. LeaverInv /\ AdderInv
        BY <3>3 DEF AccountInv
      <4>2. LeaverInv' /\ (Cleared("server")' <=> Cleared("server"))
        BY <1>1, <2>1, <2>3, <4>1, LeaverFrame
      <4>3. BeingAdded' = BeingAdded
        BY <2>1, <2>2 DEF BeingAdded, StreamOf
      <4>4. AdderInv'
        BY <2>1, <2>2, <3>2, <4>1 DEF AdderInv, Means, StreamOf, Asker
      <4>5. \A g : g \in Going' <=> \E t \in {"server", "stream"} :
                                      Cleared(t)' /\ stream_fd'[t] = g
        BY DEF Going
      <4>6. /\ \A g \in Going' : g \in Going
            /\ \A g \in Going : g \in Going' \/ g = f
        BY <2>2, <3>2, <4>2, <4>5, GoingIs
      <4>7. QED
        BY <4>2, <4>3, <4>4, <4>6
    <3> HIDE DEF f
    <3>4. QED
      BY <1>1, <2>1, <3>1, <3>3, AccountFrame
  <2>7. QED
    BY <2>4, <2>5, <2>6
<1>4. QED
  BY <1>2, <1>3

\* A thread that is about to remove a stream and means it by its number.
LEMMA LeaverMeans ==
  ASSUME OwnInv, LeaverInv, ~doubled, NEW t \in {"server", "stream"},
         stream_fd[t] # 0,
         \/ t = "server" /\ pc[t] \in {"clear", "clearing", "remove", "lookup", "close"}
         \/ t = "stream" /\ pc[t] \in {"clear", "clearing", "lookup", "close"}
  PROVE  which[t] # 0
BY DEF OwnInv, Knows, Holds, LeaverInv, Threads, Droppers

LEMMA AccountKeptByCreation ==
  ASSUME TypeOK, PlaceInv, OwnInv, PatientInv, AccountInv, CreateStream
  PROVE  AccountInv'
<1> USE GotoChanges DEF Threads, Droppers
<1>1. /\ UNCHANGED <<peer, strm_set, hands, doubled, raced, impatient>>
      /\ pc["response"] = "socket" /\ Asker \in Slots
  BY DEF CreateStream, marks, PlaceInv, HandInv, Asker
<1>2. CASE Goto("response", "paths") /\ UNCHANGED <<pool, leaked>>
  <2>1. ServerRests /\ ResponseRests /\ StreamRests
    BY <1>1, <1>2 DEF ServerRests, ResponseRests, StreamRests, hands, pool
  <2>2. QED
    BY <1>1, <1>2, <2>1, AccountRest DEF pool, SlotsRest, StreamOf
<1>3. CASE Goto("response", "get_fd")
  <2>1. /\ pc'["response"] = "get_fd"
        /\ \A t \in {"server", "stream"} : pc'[t] = pc[t]
    BY <1>3
  <2>2. PICK f \in Fds :
         /\ fds[f] = 0
         /\ \A s \in Slots : s = Asker => StreamOf(s)' = f
         /\ \A s \in Slots : s # Asker => StreamOf(s)' = StreamOf(s)
         /\ \A s \in Slots : client_arr'[s].here = client_arr[s].here
         /\ \A g \in Fds : fds'[g] = IF g = f THEN made + 1 ELSE fds[g]
         /\ UNCHANGED leaked
    BY <2>1, CreateChanges
  <2> SUFFICES ASSUME ~impatient, ~doubled
               PROVE  OpenInv' /\ LeaverInv' /\ AdderInv' /\ (~raced => SetInv')
    BY <1>1 DEF AccountInv
  <2>3. OpenInv /\ LeaverInv /\ AdderInv /\ AloneInv
    BY DEF AccountInv, OwnInv
  <2>4. peer[Asker] = "open" /\ StreamOf(Asker) = 0
    BY <1>1, NobodyIsDropped DEF PlaceInv, AskInv
  <2>5. \A g : g \in Owned' <=> g \in Owned \/ g = f
    BY <1>1, <2>2, <2>4, Numbers DEF Owned
  <2>6. OpenInv'
    BY <2>2, <2>3, <2>5 DEF OpenInv
  <2>7. ASSUME NEW t \in {"server", "stream"}
        PROVE  /\ Means(t)' /\ stream_fd[t] # f <=> Means(t) /\ stream_fd[t] # f
               /\ Means(t)' => stream_fd[t] # f
    <3>1. made \in Nat /\ which[t] \in Nat /\ which[t] <= made
      BY DEF TypeOK, OwnInv, CountInv
    <3>2. QED
      BY <1>1, <2>2, <3>1 DEF Means, hands
  <2>8. ASSUME NEW t \in {"server", "stream"} PROVE Cleared(t)' <=> Cleared(t)
    <3>1. Cleared(t) => stream_fd[t] # f
      <4>1. Cleared(t) => stream_fd[t] # 0
        BY Numbers DEF Cleared, Means
      <4>2. Cleared(t) => which[t] # 0
        BY <2>3, <4>1, LeaverMeans DEF Cleared
      <4>3. QED
        BY <2>2, <4>2 DEF Cleared, Means
    <3>2. QED
      BY <2>1, <2>7, <3>1 DEF Cleared
  <2>9. pc["server"] # "idle" => whom["server"] \in Slots /\ whom["server"] # Asker
    BY <2>4 DEF PlaceInv, HandInv, DropperPcs, TypeOK
  <2>10. LeaverInv'
    <3>1. StreamOf(whom["server"]) = stream_fd["server"] /\ Means("server")
          /\ whom["server"] \in Slots =>
            \/ StreamOf(whom["server"]) = 0
            \/ Means("server")'
      BY <2>2, <2>3, <2>7 DEF AloneInv
    <3>2. UNCHANGED <<whom, stream_fd, which>>
      BY <1>1 DEF hands
    <3>3. pc["server"] # "idle" =>
            client_arr'[whom["server"]].stream_fd = StreamOf(whom["server"])
      BY <2>2, <2>9 DEF StreamOf
    <3>4. \A s \in Slots : Cleared("server")' /\ StreamOf(s)' = stream_fd["server"] =>
            s = whom["server"]
      BY <2>2, <2>3, <2>7, <2>8 DEF LeaverInv, Cleared
    <3>5. QED
      BY <2>1, <2>2, <2>3, <2>9, <3>1, <3>2, <3>3, <3>4 DEF LeaverInv, StreamOf
  <2>11. BeingAdded' = {f}
    BY <1>1, <2>1, <2>2 DEF BeingAdded, hands, Asker, StreamOf
  <2>12. AdderInv'
    <3>1. Cleared("stream")' => stream_fd'["stream"] # f
      BY <1>1, <2>7 DEF Cleared, hands
    <3>2. StreamOf(Asker)' # 0
      BY <1>1, <2>2, Numbers DEF hands, Asker, StreamOf
    <3>3. QED
      BY <2>1, <2>11, <3>1, <3>2 DEF AdderInv
  <2>13. ~raced => SetInv'
    <3>1. \A g : g \in Going' <=> g \in Going
      BY <1>1, <2>8, GoingIs DEF Going, hands
    <3>2. BeingAdded = {}
      BY <1>1 DEF BeingAdded
    <3>3. QED
      BY <1>1, <2>5, <2>11, <3>1, <3>2 DEF AccountInv, SetInv
  <2>14. QED
    BY <2>6, <2>10, <2>12, <2>13
<1>4. ASSUME NEW f \in Fds, FailedBind(f), Goto("response", "paths")
      PROVE  AccountInv'
  <2>1. /\ \A t \in {"server", "stream"} : pc'[t] = pc[t]
        /\ pc'["response"] = "paths" /\ UNCHANGED client_arr
        /\ \A g \in Fds : fds'[g] = IF g = f THEN made + 1 ELSE fds[g]
        /\ fds[f] = 0 /\ leaked' = leaked \cup {f}
    BY <1>4 DEF FailedBind
  <2> SUFFICES ASSUME ~impatient, ~doubled
               PROVE  OpenInv' /\ LeaverInv' /\ AdderInv' /\ (~raced => SetInv')
    BY <1>1 DEF AccountInv
  <2>2. OpenInv /\ LeaverInv /\ AdderInv /\ AloneInv
    BY DEF AccountInv, OwnInv
  <2>3. Owned' = Owned /\ \A s : StreamOf(s)' = StreamOf(s)
    BY <2>1 DEF Owned, StreamOf
  <2>4. OpenInv'
    BY <2>1, <2>2, <2>3 DEF OpenInv
  <2>5. ASSUME NEW t \in {"server", "stream"}
        PROVE  which[t] # 0 => (Means(t)' <=> Means(t))
    <3>1. made \in Nat /\ which[t] \in Nat /\ which[t] <= made
      BY DEF TypeOK, OwnInv, CountInv
    <3>2. QED
      BY <1>1, <2>1, <3>1 DEF Means, hands
  <2>6. ASSUME NEW t \in {"server", "stream"} PROVE Cleared(t)' <=> Cleared(t)
    <3>1. Cleared(t) \/ Cleared(t)' => stream_fd[t] # 0
      BY <1>1, Numbers DEF Cleared, Means, hands
    <3>2. Cleared(t) \/ Cleared(t)' => which[t] # 0
      BY <2>1, <2>2, <3>1, LeaverMeans DEF Cleared
    <3>3. QED
      BY <2>1, <2>5, <3>2 DEF Cleared
  <2>7. UNCHANGED <<whom, stream_fd, which, client_arr>>
    BY <1>1, <2>1 DEF hands
  <2>8. LeaverInv'
    <3>1. StreamOf(whom["server"]) = stream_fd["server"] /\ Means("server")
          /\ whom["server"] \in Slots =>
            \/ StreamOf(whom["server"]) = 0
            \/ Means("server")'
      BY <2>2, <2>5 DEF AloneInv, Means
    <3>2. pc["server"] # "idle" => whom["server"] \in Slots
      BY DEF PlaceInv, HandInv
    <3>3. QED
      BY <2>1, <2>2, <2>3, <2>6, <2>7, <3>1, <3>2 DEF LeaverInv, StreamOf
  <2>9. BeingAdded' = {} /\ BeingAdded = {}
    BY <1>1, <2>1 DEF BeingAdded
  <2>10. AdderInv'
    BY <2>1, <2>9 DEF AdderInv
  <2>11. ~raced => SetInv'
    <3>1. \A g : g \in Going' <=> g \in Going
      BY <2>6, <2>7, GoingIs DEF Going
    <3>2. QED
      BY <1>1, <2>3, <2>9, <3>1 DEF AccountInv, SetInv
  <2>12. QED
    BY <2>4, <2>8, <2>10, <2>11
<1>5. QED
  BY <1>2, <1>3, <1>4, CreateEnds

LEMMA AccountKeptByClosing ==
  ASSUME TypeOK, PlaceInv, OwnInv, PatientInv, AccountInv, LeakInv,
         NEW t \in {"server", "stream"}, CloseStream(t)
  PROVE  AccountInv'
<1> USE GotoChanges DEF Threads, Droppers
<1> DEFINE f == stream_fd[t]
<1>1. /\ f \in Fds /\ idx[t] \in Slots
      /\ \A s \in Slots : s = idx[t] => StreamOf(s)' = 0
      /\ \A s \in Slots : s # idx[t] => StreamOf(s)' = StreamOf(s)
      /\ \A s \in Slots : client_arr'[s].here = client_arr[s].here
      /\ \A g \in Fds : fds'[g] = IF g = f THEN 0 ELSE fds[g]
      /\ UNCHANGED <<peer, strm_set, whom, impatient, raced, leaked>>
  BY CloseChanges
<1>2. /\ pc[t] = "close"
      /\ ~doubled' => ~doubled /\ fds[f] = which[t]
      /\ pc'[t] = IF t = "stream" THEN "scan" ELSE "zero"
      /\ \A u \in Threads \ {t} : pc'[u] = pc[u] /\ stream_fd'[u] = stream_fd[u]
                                  /\ which'[u] = which[u]
  BY DEF CloseStream, After, FreeHand, TypeOK
<1> HIDE DEF f
<1> SUFFICES ASSUME ~impatient, ~doubled'
             PROVE  OpenInv' /\ LeaverInv' /\ AdderInv' /\ (~raced => SetInv')
  BY <1>1 DEF AccountInv
<1>3. OpenInv /\ LeaverInv /\ AdderInv /\ (~raced => SetInv) /\ AloneInv
      /\ ~doubled /\ \A u \in Threads : Knows(u)
  BY <1>2 DEF AccountInv, OwnInv
<1>4. Means(t) /\ Cleared(t) /\ fds[f] # 0
  BY <1>1, <1>2, <1>3 DEF Means, Cleared, Knows, Holds, f
\* The slot of the stream is the one that it closes.
<1>5. \A s \in Slots : StreamOf(s) = f <=> s = idx[t]
  <2>1. \A s \in Slots : StreamOf(s) = f => s = idx[t]
    BY <1>2, <1>3, <1>4 DEF Knows, f
  <2>2. f \notin leaked
    BY <1>2, <1>3, <1>4 DEF LeakInv, f
  <2>3. \E s \in Slots : StreamOf(s) = f
    BY <1>1, <1>3, <1>4, <2>2 DEF OpenInv, Owned
  <2>4. QED
    BY <2>1, <2>3
<1>6. t = "server" => idx[t] = whom["server"] /\ peer[idx[t]] = "left"
  BY <1>2, <1>3 DEF Knows, PlaceInv, HandInv, DropperPcs
\* Nobody adds it.
<1>7. pc["response"] \in {"get_fd", "add", "adding"} =>
        /\ Asker \in Slots /\ Asker # idx[t] /\ StreamOf(Asker) # f
        /\ Asker' = Asker /\ StreamOf(Asker)' = StreamOf(Asker)
  <2>1. ASSUME pc["response"] \in {"get_fd", "add", "adding"}
        PROVE  Asker \in Slots /\ Asker # idx[t]
    <3>1. Asker \in Slots /\ peer[Asker] = "open"
      BY <2>1, NobodyIsDropped
    <3>2. BeingAdded = {StreamOf(Asker)}
      BY <2>1 DEF BeingAdded, Asker
    <3>3. t = "stream" => f \notin BeingAdded
      BY <1>3, <1>4 DEF AdderInv, f
    <3>4. QED
      BY <1>5, <1>6, <3>1, <3>2, <3>3
  <2>2. Asker' = Asker
    BY <1>1 DEF Asker
  <2>3. QED
    BY <1>1, <1>5, <2>1, <2>2 DEF StreamOf
<1>8. BeingAdded' = BeingAdded
  BY <1>2, <1>7 DEF BeingAdded, Asker
<1>9. \A g : g \in Owned' <=> g \in Owned /\ g # f
  BY <1>1, <1>5, Numbers DEF Owned
<1>10. OpenInv'
  BY <1>1, <1>3, <1>9 DEF OpenInv
\* What the other threads mean.
<1>11. ASSUME NEW u \in Threads \ {t}
       PROVE  /\ Means(u) /\ stream_fd[u] # f => Means(u)'
              /\ Means(u)' /\ which[u] # 0 => Means(u) /\ stream_fd[u] # f
  BY <1>1, <1>2 DEF Means
<1>12. ASSUME NEW u \in {"server", "stream"}
       PROVE  /\ Cleared(u)' => /\ u # t /\ Cleared(u) /\ stream_fd[u] # f
                                /\ stream_fd'[u] = stream_fd[u]
              /\ Cleared(u) /\ stream_fd[u] # f =>
                   Cleared(u)' /\ stream_fd'[u] = stream_fd[u]
  <2>1. CASE u = t
    BY <1>2, <2>1 DEF Cleared, f
  <2>2. CASE u # t
    <3>1. Cleared(u)' => which[u] # 0
      <4>1. Means(u)' => stream_fd[u] # 0
        BY <1>2, <2>2, Numbers DEF Means
      <4>2. QED
        BY <1>2, <1>3, <2>2, <4>1, LeaverMeans DEF Cleared
    <3>2. QED
      BY <1>2, <1>11, <2>2, <3>1 DEF Cleared
  <2>3. QED
    BY <2>1, <2>2
<1>13. \A g : g \in Going' <=> g \in Going /\ g # f
  <2>1. \A g : g \in Going' <=> \E u \in {"server", "stream"} :
                                  Cleared(u)' /\ stream_fd'[u] = g
    BY DEF Going
  <2>2. QED
    BY <1>12, <2>1, GoingIs
<1>14. LeaverInv'
  <2>1. pc["server"] # "idle" => whom["server"] \in Slots
    BY DEF PlaceInv, HandInv
  <2>2. \A s \in Slots : Cleared("server")' /\ StreamOf(s)' = stream_fd'["server"] =>
          s = whom["server"]
    <3>1. Cleared("server")' => stream_fd'["server"] # 0
      BY Numbers DEF Cleared, Means
    <3>2. QED
      BY <1>1, <1>3, <1>12, <3>1 DEF LeaverInv
  <2>3. CASE t = "server"
    BY <1>1, <1>2, <1>3, <1>6, <2>3 DEF LeaverInv, StreamOf, Cleared
  <2>4. CASE t = "stream"
    <3>1. /\ pc'["server"] = pc["server"] /\ whom' = whom
          /\ stream_fd'["server"] = stream_fd["server"]
          /\ which'["server"] = which["server"]
      BY <1>1, <1>2, <2>4
    <3>2. ASSUME pc["server"] # "idle"
          PROVE  \/ client_arr'[whom["server"]].stream_fd = 0
                 \/ /\ client_arr'[whom["server"]].stream_fd = StreamOf(whom["server"])
                    /\ StreamOf(whom["server"]) # f
      BY <1>1, <1>5, <2>1, <3>2 DEF StreamOf
    <3>3. Means("server") /\ stream_fd["server"] # f => Means("server")'
      BY <1>11, <2>4
    <3>4. QED
      BY <1>1, <1>3, <2>1, <2>2, <3>1, <3>2, <3>3 DEF LeaverInv, StreamOf
  <2>5. QED
    BY <2>3, <2>4
<1>15. AdderInv'
  <2>1. /\ pc'["response"] = pc["response"]
        /\ stream_fd'["response"] = stream_fd["response"]
    BY <1>2
  <2>2. pc["response"] \in {"add", "adding"} => Means("response")'
    BY <1>3, <1>7, <1>11 DEF AdderInv
  <2>3. Cleared("stream")' => stream_fd'["stream"] \notin BeingAdded'
    BY <1>3, <1>8, <1>12 DEF AdderInv
  <2>4. QED
    BY <1>3, <1>7, <2>1, <2>2, <2>3 DEF AdderInv
<1>16. ~raced => SetInv'
  <2>1. f \in Going
    BY <1>4, GoingIs DEF f
  <2>2. QED
    BY <1>1, <1>3, <1>8, <1>9, <1>13, <2>1 DEF SetInv
<1>17. QED
  BY <1>10, <1>14, <1>15, <1>16

-----------------------------------------------------------------------------
(* What a failed bind left.                                                *)

LEMMA LeakKept ==
  ASSUME TypeOK, PlaceInv, OwnInv, LeakInv, Next
  PROVE  LeakInv'
<1> USE GotoChanges DEF Threads, Droppers
<1> DEFINE Keeps(t) == stream_fd'[t] = stream_fd[t] /\ which'[t] = which[t]
           Frees(t) == which'[t] = 0
           Takes(t) == \E s \in Slots : stream_fd'[t] = StreamOf(s)
\* A thread takes descriptors from slots only.
<1>1. ASSUME UNCHANGED <<fds, leaked>>, doubled => doubled',
             \A s \in Slots : client_arr'[s].stream_fd \in {0, StreamOf(s)},
             \A t \in Threads : Keeps(t) \/ Frees(t) \/ Takes(t)
      PROVE  LeakInv'
  <2> SUFFICES ASSUME ~doubled' PROVE LeakInv'
    BY DEF LeakInv
  <2>1. /\ \A f \in leaked : fds[f] # 0 /\ f \notin Owned
        /\ \A t \in Threads : Means(t) /\ which[t] # 0 => stream_fd[t] \notin leaked
    BY <1>1 DEF LeakInv
  <2>2. \A f \in leaked' : fds'[f] # 0 /\ f \notin Owned'
    BY <1>1, <2>1 DEF Owned, StreamOf
  <2>3. ASSUME NEW t \in Threads, Means(t)', which'[t] # 0
        PROVE  stream_fd'[t] \notin leaked'
    <3>1. CASE Keeps(t)
      BY <1>1, <2>1, <2>3, <3>1 DEF Means
    <3>2. CASE Takes(t)
      <4>1. stream_fd'[t] \in Owned
        BY <2>3, <3>2, Numbers DEF Means, Owned
      <4>2. QED
        BY <1>1, <2>1, <4>1
    <3>3. QED
      BY <1>1, <2>3, <3>1, <3>2
  <2>4. QED
    BY <2>2, <2>3 DEF LeakInv
<1>2. ASSUME UNCHANGED <<pool, leaked>>, doubled => doubled',
             \A t \in Threads : Keeps(t) \/ Frees(t) \/ Takes(t)
      PROVE  LeakInv'
  BY <1>1, <1>2 DEF pool, StreamOf
<1>3. ASSUME UNCHANGED <<pool, hands, leaked>>, doubled => doubled' PROVE LeakInv'
  BY <1>2, <1>3 DEF hands
<1>4. ASSUME NEW t \in Threads, NEW s \in Slots \cup {0}, UNCHANGED <<pool, marks>>,
             \/ Take(t, StreamOf(s)) /\ s # 0
             \/ FreeHand(t)
             \/ UNCHANGED <<stream_fd, which>>
      PROVE  LeakInv'
  <2>1. CASE Take(t, StreamOf(s)) /\ s # 0
    <3>1. \A u \in Threads : Keeps(u) \/ Takes(u)
      BY <1>4, <2>1 DEF TypeOK, Take
    <3>2. QED
      BY <1>2, <1>4, <3>1 DEF marks
  <2>2. CASE FreeHand(t) \/ UNCHANGED <<stream_fd, which>>
    <3>1. \A u \in Threads : Keeps(u) \/ Frees(u)
      BY <2>2 DEF TypeOK, FreeHand
    <3>2. QED
      BY <1>2, <1>4, <3>1 DEF marks
  <2>3. QED
    BY <1>4, <2>1, <2>2
<1>5. ASSUME NEW s \in Slots, Ask(s) \/ Bind(s) \/ Unbind(s) \/ Leave(s)
      PROVE  LeakInv'
  BY <1>3, <1>5 DEF Ask, Bind, Unbind, Leave, marks
<1>6. CASE Stop \/ FindClient \/ GetPaths
  BY <1>3, <1>6 DEF Stop, FindClient, GetPaths, marks
<1>7. CASE CopySet \/ Select \/ CheckStop \/ Blocks \/ SendToFails \/ StreamEnds
  BY <1>3, <1>7 DEF CopySet, Select, CheckStop, Blocks, SendToFails, StreamEnds,
     marks
<1>8. CASE FdSet
  BY <1>3, <1>8 DEF FdSet, ReadWord, WriteWord, marks
<1>9. ASSUME NEW t \in Threads, FdClear(t) PROVE LeakInv'
  BY <1>3, <1>9 DEF FdClear, ReadWord, WriteWord, marks
<1>10. ASSUME NEW s \in Slots, ServerDrops(s) \/ Dequeue(s) PROVE LeakInv'
  BY <1>4, <1>10 DEF ServerDrops, Dequeue
<1>11. CASE SendTo \/ Unblocks \/ PrepareStream
  BY <1>4, <1>11 DEF SendTo, Unblocks, PrepareStream
<1>12. CASE Answer
  BY <1>4, <1>12 DEF Answer, Done, hands
<1>13. ASSUME NEW t \in Droppers, Drop(t) PROVE LeakInv'
  <2>1. whom[t] \in Slots /\ whom[t] # 0
    BY <1>13, Numbers DEF Drop, PlaceInv, HandInv
  <2>2. QED
    BY <1>4, <1>13, <2>1 DEF Drop
<1>14. ASSUME NEW t \in Droppers, RemoveClient(t) PROVE LeakInv'
  BY <1>4, <1>14 DEF RemoveClient, Done
<1>15. CASE GetStreamFd
  <2>1. Asker \in Slots /\ Asker # 0
    BY <1>15, Numbers DEF GetStreamFd, PlaceInv, HandInv, Asker
  <2>2. /\ UNCHANGED <<pool, marks>>
        /\ Take("response", StreamOf(Asker)) \/ Take("response", 0)
    BY <1>15 DEF GetStreamFd
  <2>3. CASE Take("response", StreamOf(Asker))
    BY <1>4, <2>1, <2>2, <2>3
  <2>4. CASE Take("response", 0)
    <3>1. \A u \in Threads : Keeps(u) \/ Frees(u)
      BY <2>4 DEF TypeOK, Take
    <3>2. QED
      BY <1>2, <2>2, <3>1 DEF marks
  <2>5. QED
    BY <2>2, <2>3, <2>4
<1>16. CASE Scan
  <2>1. /\ UNCHANGED <<pool, marks>>
        /\ \/ UNCHANGED <<stream_fd, which>>
           \/ turn <= MAX_CLIENTS /\ Take("stream", StreamOf(turn))
    <3>1. turn \in Nat
      BY DEF TypeOK
    <3>2. QED
      BY <1>16, <3>1, Numbers DEF Scan
  <2>2. turn <= MAX_CLIENTS => turn \in Slots /\ turn # 0
    BY Numbers DEF TypeOK, Slots
  <2>3. QED
    BY <1>4, <2>1, <2>2
<1>17. ASSUME NEW t \in Threads, FindStream(t) PROVE LeakInv'
  <2>1. t # "stream" => idx[t] \in Slots /\ idx[t] # 0
    BY <1>17, Numbers DEF FindStream, PlaceInv, HandInv
  <2>2. /\ UNCHANGED <<pool, marks>>
        /\ \/ FreeHand(t) \/ UNCHANGED <<stream_fd, which>>
           \/ t # "stream" /\ Take(t, StreamOf(idx[t]))
    BY <1>17 DEF FindStream
  <2>3. QED
    BY <1>4, <2>1, <2>2
<1>18. ASSUME NEW t \in Droppers, ZeroSlot(t) PROVE LeakInv'
  <2>1. /\ \A s \in Slots : client_arr'[s].stream_fd \in {0, StreamOf(s)}
        /\ UNCHANGED <<fds, leaked, doubled>>
    BY <1>18, ZeroChanges DEF StreamOf
  <2>2. \A u \in Threads : Keeps(u) \/ Frees(u)
    BY <1>18 DEF TypeOK, ZeroSlot, Done, FreeHand
  <2>3. QED
    BY <1>1, <2>1, <2>2
<1>19. CASE TriggerStream
  <2>1. \A s \in Slots : client_arr'[s].stream_fd = StreamOf(s)
    BY <1>19, TriggerChanges DEF StreamOf
  <2>2. UNCHANGED <<fds, leaked, doubled, hands>>
    BY <1>19 DEF TriggerStream, marks
  <2>3. QED
    BY <1>1, <2>1, <2>2 DEF hands
<1>20. ASSUME NEW t \in Threads, CloseStream(t) PROVE LeakInv'
  <2> SUFFICES ASSUME ~doubled' PROVE LeakInv'
    BY DEF LeakInv
  <2>1. /\ ~doubled /\ fds[stream_fd[t]] = which[t] /\ pc[t] = "close"
        /\ FreeHand(t)
    BY <1>20 DEF CloseStream
  <2>2. /\ stream_fd[t] \in Fds /\ UNCHANGED leaked
        /\ \A g \in Fds : fds'[g] = IF g = stream_fd[t] THEN 0 ELSE fds[g]
        /\ \A s \in Slots : StreamOf(s)' \in {0, StreamOf(s)}
    BY <1>20, CloseChanges
  <2>3. stream_fd[t] \notin leaked
    BY <2>1, <2>2 DEF OwnInv, Knows, Holds, LeakInv, Means
  <2>4. \A f \in leaked' : fds'[f] # 0 /\ f \notin Owned'
    <3>1. \A f \in leaked : f \in Fds /\ fds[f] # 0 /\ f \notin Owned
      BY <2>1 DEF TypeOK, LeakInv
    <3>2. \A f \in Owned' : f \in Owned
      BY <2>2 DEF Owned
    <3>3. QED
      BY <2>2, <2>3, <3>1, <3>2
  <2>5. ASSUME NEW u \in Threads, Means(u)', which'[u] # 0
        PROVE  stream_fd'[u] \notin leaked'
    <3>1. u # t /\ Keeps(u)
      BY <2>1, <2>5 DEF TypeOK, FreeHand
    <3>2. Means(u)
      BY <2>2, <2>5, <3>1 DEF Means
    <3>3. QED
      BY <2>1, <2>2, <2>5, <3>1, <3>2 DEF LeakInv
  <2>6. QED
    BY <2>4, <2>5 DEF LeakInv
<1>21. CASE CreateStream
  <2>1. UNCHANGED <<hands, doubled>> /\ Asker \in Slots
    BY <1>21 DEF CreateStream, PlaceInv, HandInv, Asker
  <2>2. CASE UNCHANGED <<pool, leaked>>
    BY <1>3, <2>1, <2>2
  <2>3. ASSUME NEW f \in Fds, fds[f] = 0, ~doubled',
               \A g \in Fds : fds'[g] = IF g = f THEN made + 1 ELSE fds[g],
               \/ /\ UNCHANGED leaked
                  /\ \A s \in Slots : StreamOf(s)' \in {f, StreamOf(s)}
               \/ UNCHANGED client_arr /\ leaked' = leaked \cup {f}
        PROVE  LeakInv'
    <3>1. /\ \A g \in leaked : g \in Fds /\ fds[g] # 0 /\ g \notin Owned
          /\ \A t \in Threads : Means(t) /\ which[t] # 0 => stream_fd[t] \notin leaked
          /\ AloneInv
      BY <2>1, <2>3 DEF LeakInv, TypeOK, OwnInv
    <3>2. f \notin leaked /\ f \notin Owned
      BY <2>3, <3>1 DEF AloneInv, Owned
    <3>3. made \in Nat /\ \A t \in Threads : which[t] \in Nat /\ which[t] <= made
      BY DEF TypeOK, OwnInv, CountInv
    <3>4. \A g \in leaked' : fds'[g] # 0
      BY <2>3, <3>1, <3>3
    <3>5. \A g \in leaked' : g \notin Owned'
      BY <2>3, <3>1, <3>2 DEF Owned, StreamOf
    <3>6. ASSUME NEW t \in Threads, Means(t)', which'[t] # 0
          PROVE  stream_fd'[t] \notin leaked'
      <4>1. Means(t) /\ stream_fd[t] # f /\ which[t] # 0
            /\ stream_fd' = stream_fd
        BY <2>1, <2>3, <3>3, <3>6 DEF Means, hands
      <4>2. QED
        BY <2>3, <3>1, <4>1
    <3>7. QED
      BY <3>4, <3>5, <3>6 DEF LeakInv
  <2>4. CASE Goto("response", "get_fd")
    <3>1. pc'["response"] = "get_fd"
      BY <2>4
    <3>2. PICK f \in Fds :
         /\ fds[f] = 0 /\ UNCHANGED leaked
         /\ \A s \in Slots : StreamOf(s)' \in {f, StreamOf(s)}
         /\ \A g \in Fds : fds'[g] = IF g = f THEN made + 1 ELSE fds[g]
      BY <1>21, <3>1, CreateChanges
    <3>3. QED
      BY <2>3, <3>2 DEF LeakInv
  <2>5. ASSUME NEW f \in Fds, FailedBind(f) PROVE LeakInv'
    <3>1. ~doubled' => LeakInv'
      BY <2>3, <2>5 DEF FailedBind
    <3>2. QED
      BY <3>1 DEF LeakInv
  <2>6. QED
    BY <1>21, <2>2, <2>4, <2>5, CreateEnds
<1>22. QED
  BY <1>5, <1>6, <1>7, <1>8, <1>9, <1>10, <1>11, <1>12, <1>13, <1>14, <1>15, <1>16,
     <1>17, <1>18, <1>19, <1>20, <1>21
     DEF Next, Server, Response, StreamThread, Disconnect

-----------------------------------------------------------------------------
(* The invariant, and what follows from it.                                *)

LEMMA Initial == Init => IInv
<1> SUFFICES ASSUME Init PROVE IInv
  OBVIOUS
<1> USE Numbers DEF Threads, Droppers
<1>1. \A s \in Slots : /\ client_arr[s] \in Slot /\ StreamOf(s) = 0
                       /\ client_arr[s].here /\ ~client_arr[s].paths
  BY DEF Init, Slot, Zeroed, StreamOf
<1>2. /\ pc = [t \in Threads |-> IF t = "stream" THEN "head" ELSE "idle"]
      /\ pc["stream"] = "head" /\ pc["server"] = "idle" /\ pc["response"] = "idle"
  BY DEF Init
<1>3. TypeOK
  <2>1. client_arr \in [Slots -> Slot]
    BY DEF Init, Slot, Zeroed
  <2>2. asked \in 0..MaxAsks
    BY StreamsAssumption DEF Init
  <2>3. pc \in [Threads -> DropperPcs \cup ResponsePcs \cup StreamPcs]
    BY <1>2 DEF DropperPcs, ResponsePcs, StreamPcs
  <2>4. /\ pc["stream"] \in StreamPcs /\ pc["server"] \in DropperPcs
        /\ pc["response"] \in DropperPcs
    BY <1>2 DEF DropperPcs, StreamPcs
  <2>5. QED
    BY <2>1, <2>2, <2>3, <2>4 DEF Init, TypeOK
<1>4. PlaceInv
  BY <1>1, <1>2 DEF Init, PlaceInv, HandInv, SlotInv, AskInv
<1>5. OwnInv
  BY <1>1, <1>2 DEF Init, OwnInv, CountInv, AloneInv, Knows, Holds
<1>6. ServeInv
  BY <1>1, <1>2 DEF Init, ServeInv, FaultInv, GrantInv, MemberInv
<1>7. PatientInv
  BY DEF Init, PatientInv, Asker
<1>8. AccountInv
  <2>1. \A t \in {"server", "stream"} : ~Cleared(t)
    BY <1>2 DEF Cleared
  <2>2. Owned = {} /\ Going = {} /\ strm_set = {} /\ \A f \in Fds : fds[f] = 0
    BY <1>1, <2>1 DEF Init, Owned, Going
  <2>3. LeaverInv /\ AdderInv
    BY <1>2, <2>1 DEF LeaverInv, AdderInv
  <2>4. QED
    BY <2>2, <2>3 DEF AccountInv, OpenInv, SetInv
<1>9. StopInv
  BY <1>2 DEF StopInv
<1>10. LeakInv
  BY DEF Init, LeakInv
<1>11. QED
  BY <1>3, <1>4, <1>5, <1>6, <1>7, <1>8, <1>9, <1>10 DEF IInv

LEMMA ClientsKeep ==
  ASSUME IInv, \/ \E s \in Slots : Ask(s) \/ Bind(s) \/ Unbind(s) \/ Leave(s)
               \/ Stop
  PROVE  IInv'
<1>1. Next
  BY DEF Next
<1>2. TypeOK' /\ PlaceInv'
  BY TypeKeptBySmallSteps, PlaceKeptByClients DEF IInv
<1>3. OwnInv' /\ ServeInv'
  BY OwnKeptBySmallSteps, ServeKeptBySmallSteps DEF IInv
<1>4. AccountInv'
  BY AccountKeptBySmallSteps DEF IInv
<1>5. QED
  BY <1>1, <1>2, <1>3, <1>4, PatientKept, StopKept, LeakKept DEF IInv

\* The steps of a removal, by whichever thread.
LEMMA RemovalKeeps ==
  ASSUME IInv, NEW t \in Threads,
         FdClear(t) \/ FindStream(t) \/ CloseStream(t),
         AccountInv'
  PROVE  TypeOK' /\ PlaceInv' /\ OwnInv' /\ ServeInv'
<1>1. CASE FdClear(t)
  BY <1>1, TypeKeptByRemoval, PlaceKeptByRemoval, OwnKeptBySmallSteps,
     ServeKeptBySets DEF IInv
<1>2. CASE FindStream(t)
  BY <1>2, TypeKeptByRemoval, PlaceKeptByRemoval, OwnKeptByTaking,
     ServeKeptBySmallSteps DEF IInv
<1>3. CASE CloseStream(t)
  BY <1>3, TypeKeptByRemoval, PlaceKeptByRemoval, OwnKeptByRemoval,
     ServeKeptBySlots DEF IInv
<1>4. QED
  BY <1>1, <1>2, <1>3

LEMMA DisconnectKeeps ==
  ASSUME IInv, NEW t \in Droppers, Disconnect(t)
  PROVE  IInv'
<1> USE DEF Threads, Droppers
<1>1. Next
  BY DEF Next, Server, Response
<1>2. AccountInv'
  <2>1. CASE t = "response"
    BY <2>1, AccountKeptByRefusal DEF IInv
  <2>2. CASE t = "server"
    BY <2>2, AccountKeptByServer, AccountKeptBySets, AccountKeptByClosing
       DEF IInv, Disconnect
  <2>3. QED
    BY <2>1, <2>2
<1>3. TypeOK' /\ PlaceInv' /\ OwnInv' /\ ServeInv'
  <2>1. CASE FdClear(t) \/ FindStream(t) \/ CloseStream(t)
    BY <1>2, <2>1, RemovalKeeps
  <2>2. CASE Drop(t)
    BY <2>2, TypeKeptByRemoval, PlaceKeptByRemoval, OwnKeptByTaking,
       ServeKeptBySmallSteps DEF IInv
  <2>3. CASE RemoveClient(t)
    BY <2>3, TypeKeptByRemoval, PlaceKeptByRemoval, OwnKeptBySmallSteps,
       ServeKeptBySmallSteps DEF IInv
  <2>4. CASE ZeroSlot(t)
    BY <2>4, TypeKeptByRemoval, PlaceKeptByRemoval, OwnKeptByRemoval,
       ServeKeptBySlots DEF IInv
  <2>5. QED
    BY <2>1, <2>2, <2>3, <2>4 DEF Disconnect
<1>4. QED
  BY <1>1, <1>2, <1>3, PatientKept, StopKept, LeakKept DEF IInv

LEMMA ServerKeeps ==
  ASSUME IInv, Server
  PROVE  IInv'
<1>1. CASE Disconnect("server")
  BY <1>1, DisconnectKeeps DEF Droppers
<1>2. CASE \E s \in Slots : ServerDrops(s)
  <2>1. Next
    BY <1>2 DEF Next, Server
  <2>2. TypeOK' /\ PlaceInv' /\ OwnInv' /\ ServeInv' /\ AccountInv'
    BY <1>2, TypeKeptByStreams, PlaceKeptByRemoval, OwnKeptBySmallSteps,
       ServeKeptBySmallSteps, AccountKeptByServer DEF IInv
  <2>3. QED
    BY <2>1, <2>2, PatientKept, StopKept, LeakKept DEF IInv
<1>3. QED
  BY <1>1, <1>2 DEF Server

LEMMA ResponseKeeps ==
  ASSUME IInv, Response
  PROVE  IInv'
<1>1. CASE Disconnect("response")
  BY <1>1, DisconnectKeeps DEF Droppers
<1>2. CASE ~Disconnect("response")
  <2>1. Next
    BY DEF Next
  <2>2. /\ \/ \E s \in Slots : Dequeue(s)
           \/ FindClient \/ CreateStream \/ GetStreamFd \/ FdSet \/ GetPaths
           \/ TriggerStream \/ Answer
        /\ TypeOK /\ PlaceInv /\ OwnInv /\ ServeInv /\ PatientInv /\ AccountInv
    BY <1>2 DEF Response, IInv
  <2>3. TypeOK' /\ PlaceInv'
    BY <2>2, TypeKeptBySmallSteps, TypeKeptByStreams, PlaceKeptByResponse
  <2>4. OwnInv'
    BY <2>2, OwnKeptBySmallSteps, OwnKeptByTaking, OwnKeptByCreation
  <2>5. ServeInv'
    BY <2>2, ServeKeptBySmallSteps, ServeKeptBySets, ServeKeptByLooks,
       ServeKeptBySlots
  <2>6. AccountInv'
    BY <2>2, AccountKeptBySmallSteps, AccountKeptBySets, AccountKeptByLooks,
       AccountKeptByCreation
  <2>7. QED
    BY <2>1, <2>3, <2>4, <2>5, <2>6, PatientKept, StopKept, LeakKept DEF IInv
<1>3. QED
  BY <1>1, <1>2

LEMMA StreamThreadKeeps ==
  ASSUME IInv, StreamThread
  PROVE  IInv'
<1>1. Next
  BY DEF Next
<1>2. CASE FdClear("stream") \/ FindStream("stream") \/ CloseStream("stream")
  <2>1. AccountInv'
    BY <1>2, AccountKeptBySets, AccountKeptByLooks, AccountKeptByClosing DEF
       IInv
  <2>2. TypeOK' /\ PlaceInv' /\ OwnInv' /\ ServeInv'
    BY <1>2, <2>1, RemovalKeeps DEF Threads
  <2>3. QED
    BY <1>1, <2>1, <2>2, PatientKept, StopKept, LeakKept DEF IInv
<1>3. CASE \/ CopySet \/ Select \/ CheckStop \/ Scan \/ PrepareStream \/ SendTo
           \/ Blocks \/ Unblocks \/ SendToFails \/ StreamEnds
  <2>1. TypeOK /\ PlaceInv /\ OwnInv /\ ServeInv /\ PatientInv /\ AccountInv
    BY DEF IInv
  <2>2. TypeOK' /\ PlaceInv'
    BY <1>3, <2>1, TypeKeptBySmallSteps, TypeKeptByStreams,
       PlaceKeptByStreamThread
  <2>3. OwnInv'
    BY <1>3, <2>1, OwnKeptBySmallSteps, OwnKeptByTaking
  <2>4. ServeInv'
    BY <1>3, <2>1, ServeKeptBySmallSteps, ServeKeptByLooks
  <2>5. AccountInv'
    BY <1>3, <2>1, AccountKeptBySmallSteps
  <2>6. QED
    BY <1>1, <2>2, <2>3, <2>4, <2>5, PatientKept, StopKept, LeakKept DEF IInv
<1>4. QED
  BY <1>2, <1>3 DEF StreamThread

LEMMA StutterKeeps ==
  ASSUME IInv, UNCHANGED vars
  PROVE  IInv'
<1> USE DEF vars, peers, pool, hands, loop, history, marks
<1>1. TypeOK'
  BY DEF IInv, TypeOK
<1>2. PlaceInv'
  BY DEF IInv, PlaceInv, HandInv, SlotInv, AskInv, StreamOf, Asker
<1>3. OwnInv'
  BY DEF IInv, OwnInv, CountInv, AloneInv, Knows, Holds, Means, StreamOf
<1>4. ServeInv'
  BY DEF IInv, ServeInv, FaultInv, GrantInv, MemberInv, Equipped, Alive, Means,
     StreamOf, Asker
<1>5. PatientInv'
  BY DEF IInv, PatientInv, Asker
<1>6. AccountInv'
  BY DEF IInv, AccountInv, OpenInv, LeaverInv, AdderInv, SetInv, Owned, Going,
     Cleared, BeingAdded, Means, StreamOf, Asker
<1>7. StopInv'
  BY DEF IInv, StopInv
<1>8. LeakInv'
  BY DEF IInv, LeakInv, Owned, Means, StreamOf
<1>9. QED
  BY <1>1, <1>2, <1>3, <1>4, <1>5, <1>6, <1>7, <1>8 DEF IInv

\* The threads, the slots, the descriptors and strm_set agree as IInv says,
\* whichever thread comes first (run_server, run_response, run_stream).
THEOREM Invariance == Spec => []IInv
<1>1. IInv /\ [Next]_vars => IInv'
  BY ClientsKeep, ServerKeeps, ResponseKeeps, StreamThreadKeeps, StutterKeeps
     DEF Next
<1>2. QED
  BY Initial, <1>1, PTL DEF Spec

\* Every variable stays within its type; what a thread has in hand is a slot
\* or a descriptor.
THEOREM TypeCorrect == Spec => []TypeOK
<1>1. IInv => TypeOK
  BY DEF IInv
<1>2. QED
  BY Invariance, <1>1, PTL

\* A client that was answered that it has a stream, and is still there, is
\* served, but for the accidents that PromiseIsKept names (set_new_stream,
\* trigger_stream, run_stream).
THEOREM PromisesAreKept == Spec => []PromiseIsKept
<1>1. IInv => PromiseIsKept
  <2> SUFFICES ASSUME IInv, ~raced, ~doubled, NEW s \in promised \ excused
               PROVE  Served(s)
    BY DEF PromiseIsKept
  <2>1. /\ GrantInv /\ MemberInv /\ AloneInv /\ SlotInv
        /\ pc["response"] \in {"get_fd", "add", "adding"} => Asker \notin promised
    BY DEF IInv, ServeInv, OwnInv, PlaceInv, AskInv
  <2>2. s \in Slots /\ peer[s] = "open" /\ client_arr[s].here
    BY <2>1 DEF IInv, TypeOK, SlotInv
  <2>3. Alive(s) /\ client_arr[s].func /\ StreamOf(s) # 0
    BY <2>1, <2>2, SlotFacts DEF GrantInv, Equipped, Alive, IInv
  <2>4. fds[StreamOf(s)] # 0 /\ StreamOf(s) \in strm_set
    BY <2>1, <2>2, <2>3 DEF MemberInv, AloneInv
  <2>5. QED
    BY <2>2, <2>3, <2>4 DEF Served
<1>2. QED
  BY Invariance, <1>1, PTL

\* The stream thread ends only because the player is stopped, but for the
\* causes that StreamThreadStopsForCause names (wait_fd).
THEOREM StopsForCause == Spec => []StreamThreadStopsForCause
<1>1. IInv => StreamThreadStopsForCause
  BY DEF IInv, StopInv, StreamThreadStopsForCause
<1>2. QED
  BY Invariance, <1>1, PTL

\* Each slot with a stream has an open descriptor of its own; what is open and in
\* no slot is what failed binds left, and nothing else; strm_set holds the streams
\* of the slots (create_client_stream, create_socket_uds, remove_client_stream).
THEOREM AllAccounted == Spec => []StreamsAreAccounted
<1>1. IInv => StreamsAreAccounted
  <2> SUFFICES ASSUME IInv, ~impatient, ~doubled
               PROVE  /\ \A s \in Slots : StreamOf(s) # 0 =>
                            fds[StreamOf(s)] # 0 /\ SlotOf(StreamOf(s)) = {s}
                      /\ {f \in Fds : fds[f] # 0} \ Owned = leaked
                      /\ ~raced => /\ strm_set \subseteq Owned \cup BeingRemoved
                                   /\ Owned \subseteq strm_set \cup BeingAdded
                                                      \cup BeingRemoved
    BY DEF StreamsAreAccounted
  <2>1. AloneInv /\ OpenInv /\ (~raced => SetInv)
    BY DEF IInv, OwnInv, AccountInv
  <2>2. Going \subseteq BeingRemoved
    BY DEF Going, BeingRemoved, Cleared, Threads
  <2>3. \A s \in Slots : StreamOf(s) # 0 =>
          fds[StreamOf(s)] # 0 /\ SlotOf(StreamOf(s)) = {s}
    BY <2>1 DEF AloneInv, SlotOf
  <2>4. {f \in Fds : fds[f] # 0} \ Owned = leaked
    BY <2>1 DEF OpenInv, IInv, LeakInv, TypeOK
  <2>5. QED
    BY <2>1, <2>2, <2>3, <2>4 DEF SetInv
<1>2. QED
  BY Invariance, <1>1, PTL

-----------------------------------------------------------------------------
(* What no thread may do to the stream thread and to a client.             *)

\* The stream thread never sleeps in pselect through a stop: SIGUSR1 is blocked
\* outside of pselect, so one that comes between the look at running and
\* pselect, or that trigger_stream sent for another reason, is still pending.
StopWakesPselect == ~running /\ pc["stream"] = "pselect" => signalled

\* A client that is still there loses its stream, by a removal or by a close of
\* its descriptor, through its own fault only, be it promised the stream or
\* not: it did not take the data in time, or its stream was looked at before
\* its function was set.  This rests on no thread having acted on a descriptor
\* that had come to stand for another stream.
LosesStreamByFault ==
  [][\A s \in Slots :
       /\ peer[s] = "open" /\ StreamOf(s) # 0 /\ ~doubled'
       /\ StreamOf(s)' # StreamOf(s) \/ fds'[StreamOf(s)] # fds[StreamOf(s)]
       => s \in excused]_vars

\* Every step keeps StopWakesPselect.
LEMMA WakesKept ==
  ASSUME TypeOK, PlaceInv, StopWakesPselect, Next
  PROVE  StopWakesPselect'
<1> USE GotoChanges DEF Threads, Droppers, StopWakesPselect
<1>1. ASSUME running' = running, signalled' = signalled \/ signalled' = TRUE,
             pc'["stream"] = pc["stream"] \/ pc'["stream"] # "pselect"
      PROVE  StopWakesPselect'
  BY <1>1
<1>2. ASSUME NEW s \in Slots, Ask(s) \/ Bind(s) \/ Unbind(s) \/ Leave(s)
      PROVE  StopWakesPselect'
  BY <1>1, <1>2 DEF Ask, Bind, Unbind, Leave
<1>3. CASE Stop
  BY <1>3 DEF Stop
<1>4. ASSUME NEW s \in Slots, ServerDrops(s) \/ Dequeue(s) PROVE StopWakesPselect'
  BY <1>1, <1>4 DEF ServerDrops, Dequeue
<1>5. ASSUME NEW t \in Threads, FdClear(t) PROVE StopWakesPselect'
  <2>1. /\ UNCHANGED <<running, signalled>>
        /\ \E l \in {"clearing", "lookup", "remove"} : Goto(t, l)
    BY <1>5 DEF FdClear, ReadWord, WriteWord
  <2>2. QED
    BY <1>1, <2>1
<1>6. CASE FdSet
  <2>1. /\ UNCHANGED <<running, signalled>>
        /\ \E l \in {"adding", "paths"} : Goto("response", l)
    BY <1>6 DEF FdSet, ReadWord, WriteWord
  <2>2. QED
    BY <1>1, <2>1
<1>7. ASSUME NEW t \in Droppers, Drop(t) \/ RemoveClient(t) \/ ZeroSlot(t)
      PROVE  StopWakesPselect'
  BY <1>1, <1>7 DEF Drop, RemoveClient, ZeroSlot, Done
<1>8. ASSUME NEW t \in Threads, FindStream(t) \/ CloseStream(t)
      PROVE  StopWakesPselect'
  <2>1. UNCHANGED <<running, signalled>> /\ (Goto(t, After(t)) \/ Goto(t, "close"))
    BY <1>8 DEF FindStream, CloseStream
  <2>2. QED
    BY <1>1, <2>1 DEF After
<1>9. CASE FindClient \/ GetStreamFd \/ GetPaths \/ TriggerStream
  <2>1. /\ running' = running /\ (signalled' = signalled \/ signalled' = TRUE)
        /\ \E l \in ResponsePcs : Goto("response", l)
    BY <1>9 DEF FindClient, GetStreamFd, GetPaths, TriggerStream, ResponsePcs
  <2>2. QED
    BY <1>1, <2>1
<1>10. CASE CreateStream \/ Answer
  <2>1. /\ UNCHANGED <<running, signalled>>
        /\ \E l \in ResponsePcs \cup DropperPcs : Goto("response", l)
    BY <1>10 DEF CreateStream, Answer, Done, ResponsePcs, DropperPcs
  <2>2. QED
    BY <1>1, <2>1
<1>11. CASE CopySet
  BY <1>11 DEF CopySet
<1>12. CASE Select
  <2>1. \E l \in {"stop", "check"} : Goto("stream", l)
    BY <1>12 DEF Select
  <2>2. pc'["stream"] # "pselect"
    BY <2>1
  <2>3. QED
    BY <2>2
<1>13. CASE CheckStop \/ Scan
  <2>1. /\ UNCHANGED <<running, signalled>>
        /\ UNCHANGED pc \/ \E l \in {"scan", "stop", "head", "prepare"} : Goto("stream", l)
    BY <1>13 DEF CheckStop, Scan
  <2>2. QED
    BY <1>1, <2>1
<1>14. CASE PrepareStream \/ SendTo \/ Blocks \/ Unblocks \/ SendToFails
  <2>1. /\ UNCHANGED <<running, signalled>>
        /\ \E l \in {"clear", "sendto", "scan", "blocked"} : Goto("stream", l)
    BY <1>14 DEF PrepareStream, SendTo, Blocks, Unblocks, SendToFails, Fails
  <2>2. QED
    BY <1>1, <2>1
<1>15. CASE StreamEnds
  BY <1>15 DEF StreamEnds
<1>16. QED
  BY <1>2, <1>3, <1>4, <1>5, <1>6, <1>7, <1>8, <1>9, <1>10, <1>11, <1>12, <1>13,
     <1>14, <1>15 DEF Next, Server, Response, StreamThread, Disconnect

\* No stop is lost on the stream thread, whatever it was doing.
THEOREM StopIsHeard == Spec => []StopWakesPselect
<1>1. Init => StopWakesPselect
  BY DEF Init, StopWakesPselect
<1>2. IInv /\ StopWakesPselect /\ [Next]_vars => StopWakesPselect'
  <2>1. ASSUME StopWakesPselect, UNCHANGED vars PROVE StopWakesPselect'
    BY <2>1 DEF StopWakesPselect, vars
  <2>2. QED
    BY <2>1, WakesKept DEF IInv
<1>3. QED
  BY <1>1, <1>2, Invariance, PTL DEF Spec

\* The steps by which a client that is there can lose its stream.
LEMMA OnlyRemovals ==
  ASSUME IInv, Next, NEW s \in Slots, peer[s] = "open", StreamOf(s) # 0,
         StreamOf(s)' # StreamOf(s) \/ fds'[StreamOf(s)] # fds[StreamOf(s)],
         ~doubled'
  PROVE  \E t \in Threads : CloseStream(t)
<1> USE DEF Threads, Droppers, StreamOf, pool
<1>1. TypeOK /\ PlaceInv
  BY DEF IInv
<1>2. ASSUME NEW r \in Slots, Ask(r) \/ Bind(r) \/ Unbind(r) \/ Leave(r) \/ Stop
      PROVE  FALSE
  BY <1>2 DEF Ask, Bind, Unbind, Leave, Stop
<1>3. ASSUME NEW r \in Slots, ServerDrops(r) \/ Dequeue(r) PROVE FALSE
  BY <1>3 DEF ServerDrops, Dequeue
<1>4. ASSUME NEW t \in Threads, FdClear(t) \/ FindStream(t) PROVE FALSE
  BY <1>4 DEF FdClear, ReadWord, WriteWord, FindStream
<1>5. ASSUME NEW t \in Droppers, Drop(t) \/ RemoveClient(t) PROVE FALSE
  BY <1>5 DEF Drop, RemoveClient
<1>6. ASSUME NEW t \in Droppers, ZeroSlot(t) PROVE FALSE
  BY <1>1, <1>6, ZeroChanges
<1>7. ASSUME FindClient \/ GetStreamFd \/ GetPaths \/ FdSet \/ Answer PROVE FALSE
  BY <1>7 DEF FindClient, GetStreamFd, GetPaths, FdSet, ReadWord, WriteWord, Answer
<1>8. ASSUME TriggerStream PROVE FALSE
  <2>1. StreamOf(s)' = StreamOf(s)
    BY <1>1, <1>8, TriggerChanges
  <2>2. fds' = fds
    BY <1>8 DEF TriggerStream
  <2>3. QED
    BY <2>1, <2>2
<1>9. ASSUME CreateStream PROVE FALSE
  <2>1. PICK f \in Fds : /\ fds[f] = 0 /\ StreamOf(s)' = StreamOf(s)
                         /\ \A g \in Fds : fds'[g] = IF g = f THEN made + 1 ELSE fds[g]
    <3>1. CASE Goto("response", "get_fd")
      <4>1. pc'["response"] = "get_fd"
        BY <1>1, <3>1, GotoChanges
      <4>2. s # Asker
        BY <1>1, <1>9 DEF CreateStream, PlaceInv, AskInv
      <4>3. QED
        BY <1>1, <1>9, <4>1, <4>2, CreateChanges
    <3>2. ASSUME NEW f \in Fds, FailedBind(f)
          PROVE  /\ fds[f] = 0 /\ StreamOf(s)' = StreamOf(s)
                 /\ \A g \in Fds : fds'[g] = IF g = f THEN made + 1 ELSE fds[g]
      BY <3>2 DEF FailedBind
    <3>3. QED
      BY <1>1, <1>9, <3>1, <3>2, CreateEnds
  <2>2. doubled' = doubled
    BY <1>9 DEF CreateStream
  <2>3. StreamOf(s) \in Fds /\ fds[StreamOf(s)] # 0
    BY <1>1, <2>2, SlotFacts DEF IInv, OwnInv, AloneInv
  <2>4. QED
    BY <2>1, <2>3
<1>10. ASSUME CopySet \/ Select \/ CheckStop \/ Scan \/ PrepareStream PROVE FALSE
  BY <1>10 DEF CopySet, Select, CheckStop, Scan, PrepareStream
<1>11. ASSUME SendTo \/ Blocks \/ Unblocks \/ SendToFails \/ StreamEnds PROVE FALSE
  BY <1>11 DEF SendTo, Blocks, Unblocks, SendToFails, StreamEnds
<1>12. QED
  BY <1>2, <1>3, <1>4, <1>5, <1>6, <1>7, <1>8, <1>9, <1>10, <1>11
     DEF Next, Server, Response, StreamThread, Disconnect

\* A removal takes the stream of the client it is for.
LEMMA CloseIsFor ==
  ASSUME IInv, NEW t \in Threads, CloseStream(t),
         NEW s \in Slots, peer[s] = "open", StreamOf(s) # 0, ~doubled',
         StreamOf(s)' # StreamOf(s) \/ fds'[StreamOf(s)] # fds[StreamOf(s)]
  PROVE  s \in excused
<1> USE DEF Threads, Droppers
<1>1. TypeOK /\ PlaceInv /\ pc[t] = "close"
  BY DEF IInv, CloseStream
<1>2. ~doubled /\ fds[stream_fd[t]] = which[t]
  BY DEF CloseStream
<1>3. Means(t) /\ AloneInv /\ Knows(t) /\ ServeInv
  BY <1>1, <1>2, CloseChanges DEF IInv, OwnInv, Means
<1>4. StreamOf(s) \in Fds
  BY <1>1, SlotFacts
<1>5. s = idx[t] \/ StreamOf(s) = stream_fd[t]
  BY <1>1, <1>4, CloseChanges
<1>6. CASE t \in {"server", "response"}
  <2>1. s = whom[t]
    BY <1>1, <1>3, <1>5, <1>6 DEF Knows
  <2>2. peer[whom[t]] = "left"
    BY <1>1, <1>6 DEF PlaceInv, HandInv, DropperPcs
  <2>3. QED
    BY <2>1, <2>2
<1>7. CASE t = "stream"
  <2>1. StreamOf(s) = stream_fd["stream"]
    BY <1>1, <1>3, <1>5, <1>7 DEF Knows
  <2>2. QED
    BY <1>1, <1>2, <1>3, <1>7, <2>1 DEF ServeInv, FaultInv
<1>8. QED
  BY <1>6, <1>7

\* For any number of clients and any interleaving of the three threads.
THEOREM LossIsFault == Spec => LosesStreamByFault
<1>1. IInv /\ [Next]_vars =>
        [\A s \in Slots :
           /\ peer[s] = "open" /\ StreamOf(s) # 0 /\ ~doubled'
           /\ StreamOf(s)' # StreamOf(s) \/ fds'[StreamOf(s)] # fds[StreamOf(s)]
           => s \in excused]_vars
  BY OnlyRemovals, CloseIsFor
<1>2. QED
  BY Invariance, <1>1, PTL DEF Spec, LosesStreamByFault
=============================================================================
