--------------------------- MODULE ClientsProofs ---------------------------
(***************************************************************************)
(* Proofs about Clients, for every size of the pool, every number of       *)
(* connections and every set of clients that talk.                         *)
(***************************************************************************)
EXTENDS Clients, FiniteSetTheorems, FunctionTheorems, WellFoundedInduction, TLAPS

Dropping == {"clear", "clearing", "find", "close"}
Busy     == {"broadcast", "size", "copy", "tell", "answer"}

\* What the kernel hands out: stdin is descriptor 0 or closed, a connection
\* that was not accepted has no descriptor, and one that was has at most one.
KernelInv ==
  /\ \A f \in Fds : fds[f] = Stdin => f = 0
  /\ \A f \in Fds : fds[f] \in Conns => fds[f] <= accepted
  /\ \A f, g \in Fds : fds[f] \in Conns /\ fds[f] = fds[g] => f = g

\* What a thread has in hand at each of its places.
PlaceInv ==
  /\ pc["server"] = "accept" => accepted < NConns
  /\ pc["server"] \in {"count", "add"} => whom["server"] = accepted /\ accepted > 0
  /\ pc["server"] = "add" => client_cnt < MAX_CLIENTS
  /\ pc["server"] \in {"set", "setting", "receive"} \cup Dropping =>
       client_fd["server"] # 0
  /\ pc["response"] # "dequeue" => client_fd["response"] # 0
  /\ pc["response"] = "copy" => Len(arr) <= MAX_CLIENTS

\* The slot that a thread is about to clear is still that of the client it
\* drops, the threads drop different clients, and the client that is being
\* added has its own descriptor, which no slot holds yet.
PoolInv ==
  ~doubled =>
    /\ client_cnt = Cardinality(Occupied)
    /\ \A s \in Occupied : fds[client_arr[s].fd] = client_arr[s].id
    /\ \A s, t \in Occupied : client_arr[s].fd = client_arr[t].fd => s = t
    /\ \A t \in Threads : pc[t] = "close" =>
         client_arr[idx[t]] = [fd |-> client_fd[t], id |-> whom[t]]
    /\ pc["server"] = "close" /\ pc["response"] = "close" =>
         client_fd["server"] # client_fd["response"]
    /\ pc["server"] \in {"count", "add"} =>
         /\ fds[client_fd["server"]] = whom["server"]
         /\ \A s \in Occupied : client_arr[s].fd # client_fd["server"]

\* As long as no client hangs up on an unanswered request, the response thread
\* drops nobody: the requests that wait or are served are those of clients that
\* are still there,
InPool(f, c)  == f # 0 /\ \E s \in Slots : client_arr[s] = [fd |-> f, id |-> c]
HasSlot(f)    == f # 0 /\ \E s \in Slots : client_arr[s].fd = f
Served(f, c)  == fds[f] = c /\ peer[c] = "open" /\ inbox[c] = "read"
ServedInv ==
  /\ pc["response"] \notin Dropping
  /\ \A i \in DOMAIN queue : Served(queue[i].fd, queue[i].id)
  /\ pc["response"] \in Busy =>
       /\ whom["response"] \in Conns
       /\ Served(client_fd["response"], whom["response"])
  /\ \A c \in Conns : inbox[c] = "request" => peer[c] = "open"

\* the server thread drops none of these and nobody who is entitled to a slot,
DropInv ==
  pc["server"] \in Dropping =>
    /\ whom["server"] \notin entitled
    /\ \A i \in DOMAIN queue : queue[i].id # whom["server"]
    /\ pc["response"] \in Busy => whom["response"] # whom["server"]
    /\ InPool(client_fd["server"], whom["server"])
EntitledInv ==
  \A c \in entitled : /\ peer[c] = "open" /\ inbox[c] # "garbage"
                      /\ \E f \in Fds : InPool(f, c)

\* and it selects on descriptors of clients in the pool only.
WatchInv ==
  /\ ~doubled
  /\ \A f \in serv_set : HasSlot(f)
  /\ pc["server"] \in {"setting", "clearing"} =>
       \A f \in word["server"] : HasSlot(f)
  /\ pc["server"] = "pselect" => \A f \in read_set : HasSlot(f)
  /\ pc["server"] \in {"set", "setting", "receive"} =>
       HasSlot(client_fd["server"])
  /\ pc["server"] \in {"find", "close"} => client_fd["server"] \notin serv_set
  /\ pc["server"] # "stopped"

PatientInv == ServedInv /\ DropInv /\ EntitledInv /\ WatchInv

\* The client that is being added has not been read from, unlike those whose
\* requests wait or were taken: the response thread is not at work on it.
ReadInv ==
  /\ \A c \in Conns : inbox[c] = "read" => c <= accepted
  /\ \A i \in DOMAIN queue : inbox[queue[i].id] = "read"
  /\ pc["response"] # "dequeue" =>
       whom["response"] \in Conns /\ inbox[whom["response"]] = "read"
  /\ pc["server"] \in {"count", "add", "set", "setting"} =>
       whom["server"] \in Conns /\ inbox[whom["server"]] # "read"

\* With no lost update and no client dropped twice, the set has only what is in
\* the pool, and a client leaves the set before it leaves the pool.
SetInv ==
  /\ \A f \in serv_set : HasSlot(f)
  /\ \A f \in Fds : HasSlot(f) =>
       \/ f \in serv_set
       \/ pc["server"] \in {"set", "setting"} /\ client_fd["server"] = f
       \/ \E t \in Threads :
            pc[t] \in {"clearing", "find", "close"} /\ client_fd[t] = f
  /\ \A t \in Threads :
       pc[t] \in {"find", "close"} /\ InPool(client_fd[t], whom[t]) =>
         client_fd[t] \notin serv_set
  /\ pc["server"] \in {"set", "setting"} =>
       InPool(client_fd["server"], whom["server"])

\* Since a calm broadcast began, nobody entered or left the pool and nobody in
\* it hung up.  The slots in use are the first cnt; the copy has their
\* descriptors, and those told are the clients of the first sent slots.
Broadcasting == {"size", "copy", "tell", "answer"}
CalmInv ==
  ~doubled /\ calm /\ pc["response"] \in Broadcasting =>
    /\ cnt = client_cnt /\ Occupied = 0 .. cnt - 1
    /\ \A s \in Occupied : peer[client_arr[s].id] = "open"
    /\ sent <= cnt
    /\ told = {client_arr[s].id : s \in 0 .. sent - 1}
    /\ pc["response"] \in {"size", "copy"} => sent = 0
    /\ pc["response"] \in {"copy", "tell"} => Len(arr) = cnt
    /\ pc["response"] = "tell" =>
         \A i \in 1 .. cnt : arr[i] = client_arr[i - 1].fd
    /\ pc["response"] = "answer" => sent = cnt

IInv ==
  /\ TypeOK /\ KernelInv /\ PlaceInv /\ ReadInv /\ PoolInv
  /\ ~impatient => PatientInv
  /\ ~doubled /\ ~raced => SetInv

-----------------------------------------------------------------------------

\* A set of numbers that is not empty has a least member, and Min is one.
LEMMA MinIsMember ==
  ASSUME NEW S, S \subseteq Nat, S # {}
  PROVE  Min(S) \in S
<1>1. \E x \in S : \A y \in S : ~(<<y, x>> \in OpToRel(<, Nat))
  BY NatLessThanWellFounded, WFMin
<1>2. \A x, y \in S : x <= y \/ <<y, x>> \in OpToRel(<, Nat)
  BY DEF OpToRel
<1>3. \E x \in S : \A y \in S : x <= y
  BY <1>1, <1>2
<1>4. QED
  BY <1>3 DEF Min

\* A descriptor is free as long as a client remains to be accepted: there are
\* more descriptors than accepted clients and stdin.
LEMMA SomeFree ==
  ASSUME TypeOK, KernelInv, accepted < NConns
  PROVE  LowestFree \in Fds /\ fds[LowestFree] = Free
<1>1. \E f \in Fds : fds[f] = Free
  <2>1. SUFFICES ASSUME \A f \in Fds : fds[f] # Free
                 PROVE  FALSE
    OBVIOUS
  <2> DEFINE h == [f \in Fds |-> IF fds[f] = Stdin THEN 0 ELSE fds[f]]
  <2>2. h \in [Fds -> 0 .. accepted]
    BY <2>1, PoolAssumption DEF TypeOK, KernelInv, Conns, Fds, Stdin, Free
  <2>3. NConns \in Nat /\ accepted \in Nat
    BY PoolAssumption DEF TypeOK
  <2>4. /\ IsFiniteSet(Fds) /\ Cardinality(Fds) = NConns + 1
        /\ IsFiniteSet(0 .. accepted) /\ Cardinality(0 .. accepted) = accepted + 1
    BY <2>3, FS_Interval DEF Fds
  <2>5. PICK f, g \in Fds : f # g /\ h[f] = h[g]
    <3>1. Cardinality(0 .. accepted) < Cardinality(Fds)
      BY <2>3, <2>4
    <3> HIDE DEF h
    <3>2. QED
      BY <2>2, <2>4, <3>1, FS_PigeonHole
  <2>6. QED
    BY <2>1, <2>5, PoolAssumption DEF TypeOK, KernelInv, Conns, Fds, Stdin, Free
<1>2. {f \in Fds : fds[f] = Free} \subseteq Nat
  BY PoolAssumption DEF Fds
<1>3. QED
  BY <1>1, <1>2, MinIsMember DEF LowestFree

\* The slot that find_empty or find_client returns.
LEMMA SlotFound ==
  ASSUME NEW f, SlotOf(f) # {}
  PROVE  Min(SlotOf(f)) \in Slots /\ client_arr[Min(SlotOf(f))].fd = f
<1>1. SlotOf(f) \subseteq Nat
  BY PoolAssumption DEF SlotOf, Slots
<1>2. QED
  BY <1>1, MinIsMember DEF SlotOf

-----------------------------------------------------------------------------
\* Type correctness, one step per action.  The provers that know arithmetic
\* are weak on Boolean variables, so the two halves of TypeOK are kept apart.

BoolTypes ==
  /\ calm \in BOOLEAN /\ doubled \in BOOLEAN /\ raced \in BOOLEAN
  /\ impatient \in BOOLEAN

OtherTypes ==
  /\ peer \in [Conns -> {"new", "open", "closed"}]
  /\ inbox \in [Conns -> {"unsent", "request", "half", "garbage", "read"}]
  /\ odd \subseteq Conns /\ accepted \in 0 .. NConns
  /\ fds \in [Fds -> Conns \cup {Stdin, Free}]
  /\ client_arr \in [Slots -> Slot]
  /\ client_cnt \in Int /\ client_cnt <= MAX_CLIENTS
  /\ serv_set \subseteq Fds \ {0} /\ read_set \subseteq Fds \ {0}
  /\ pc \in [Threads -> ServerPcs \cup ResponsePcs]
  /\ pc["server"] \in ServerPcs /\ pc["response"] \in ResponsePcs
  /\ word \in [Threads -> SUBSET (Fds \ {0})]
  /\ client_fd \in [Threads -> Fds]
  /\ whom \in [Threads -> Conns \cup {Nobody}]
  /\ idx \in [Threads -> Slots] /\ turn \in 0 .. MAX_CLIENTS
  /\ queue \in Seq([fd : Fds \ {0}, id : Conns])
  /\ arr \in Seq(Fds) /\ cnt \in Int /\ sent \in Nat
  /\ told \subseteq Conns /\ audience \subseteq Conns
  /\ entitled \subseteq Conns

\* TypeOK is its two halves.
LEMMA TypeHalves ==
  (TypeOK <=> BoolTypes /\ OtherTypes) /\ (TypeOK' <=> BoolTypes' /\ OtherTypes')
  BY DEF TypeOK, BoolTypes, OtherTypes

\* Sizes of the small sets that the types are made of.
LEMMA Small ==
  /\ MAX_CLIENTS \in Nat \ {0} /\ NConns \in Nat
  /\ 0 \in Slots /\ 0 \in Fds /\ Conns \subseteq Nat \ {0} /\ Fds \subseteq Nat
  /\ "server" \in Threads /\ "response" \in Threads
  /\ \A t \in Threads : Resume(t) \in ServerPcs \cup ResponsePcs
  /\ Resume("server") \in ServerPcs /\ Resume("response") \in ResponsePcs
  BY PoolAssumption DEF Slots, Fds, Conns, Threads, Resume, ServerPcs, ResponsePcs

\* The Boolean half is kept by every step.
LEMMA TypeBool ==
  ASSUME TypeOK, [Next]_vars
  PROVE  BoolTypes'
<1> USE DEF TypeOK, BoolTypes, kernel, pool, cast, locals, ghosts
<1>1. ASSUME NEW t \in Threads, Disconnect(t) PROVE BoolTypes'
  <2>1. CASE FdClear(t)
    BY <2>1 DEF FdClear, ReadWord, WriteWord
  <2>2. CASE FindSlot(t)
    BY <2>2 DEF FindSlot
  <2>3. CASE RemoveClient(t)
    BY <2>3 DEF RemoveClient
  <2>4. QED
    BY <1>1, <2>1, <2>2, <2>3 DEF Disconnect
<1>2. ASSUME NEW c \in Conns, Connect(c) \/ Send(c) \/ HangUp(c) PROVE BoolTypes'
  <2>1. CASE Connect(c)
    BY <2>1 DEF Connect
  <2>2. CASE Send(c)
    BY <2>2 DEF Send
  <2>3. CASE HangUp(c)
    BY <2>3, Zenon DEF HangUp
  <2>4. QED
    BY <1>2, <2>1, <2>2, <2>3
<1>3. CASE Server
  <2>1. CASE CopySet \/ Select \/ Selected \/ Interrupted \/ ReceiveFaults
    BY <2>1 DEF CopySet, Select, Selected, Interrupted, ReceiveFaults
  <2>2. CASE Accept \/ Count \/ AddAborts \/ AddFails
    BY <2>2 DEF Accept, Count, AddAborts, AddFails
  <2>3. CASE AddClient
    BY <2>3 DEF AddClient
  <2>4. CASE FdSet
    BY <2>4 DEF FdSet, ReadWord, WriteWord
  <2>5. CASE Scan
    BY <2>5 DEF Scan
  <2>6. CASE ReceiveRequest \/ ReceiveTimesOut \/ ReceiveFails
    BY <2>6 DEF ReceiveRequest, ReceiveTimesOut, ReceiveFails
  <2>7. QED
    BY <1>1, <1>3, <2>1, <2>2, <2>3, <2>4, <2>5, <2>6, Small DEF Server
<1>4. CASE Response
  <2>1. CASE Dequeue \/ SizeArray \/ CopyArray \/ TellNext \/ Answer
    BY <2>1 DEF Dequeue, SizeArray, CopyArray, TellNext, Answer
  <2>2. CASE ExecuteFaults \/ ExecuteDrops \/ CountAudience
    BY <2>2 DEF ExecuteFaults, ExecuteDrops, CountAudience
  <2>3. QED
    BY <1>1, <1>4, <2>1, <2>2, Small DEF Response
<1>5. CASE UNCHANGED vars
  BY <1>5 DEF vars
<1>6. QED
  BY <1>2, <1>3, <1>4, <1>5 DEF Next

\* disconnect_client, by either thread, keeps the other half.
LEMMA TypeDisconnect ==
  ASSUME TypeOK, PlaceInv, NEW t \in Threads, Disconnect(t)
  PROVE  OtherTypes'
<1> USE Small DEF TypeOK, OtherTypes, kernel, pool, cast, locals, ghosts
<1>1. CASE FdClear(t)
  <2>1. CASE ReadWord(t, "clear", "clearing")
    BY <2>1 DEF ReadWord, Goto, ServerPcs, ResponsePcs, Threads
  <2>2. CASE WriteWord(t, "clearing", "find", word[t] \ {client_fd[t]})
    BY <2>2 DEF WriteWord, Goto, ServerPcs, ResponsePcs, Threads
  <2>3. QED
    BY <1>1, <2>1, <2>2 DEF FdClear
<1>2. CASE FindSlot(t)
  <2>1. CASE SlotOf(client_fd[t]) = {}
    BY <1>2, <2>1 DEF FindSlot, Done, Goto, Threads, Nobody
  <2>2. CASE SlotOf(client_fd[t]) # {}
    <3>1. Min(SlotOf(client_fd[t])) \in Slots
      BY <2>2, SlotFound
    <3>2. /\ idx' = [idx EXCEPT ![t] = Min(SlotOf(client_fd[t]))]
          /\ pc' = [pc EXCEPT ![t] = "close"]
          /\ UNCHANGED <<client_fd, whom, kernel, pool, serv_set, turn, word,
                         read_set, queue, cast, entitled>>
      BY <1>2, <2>2, Zenon DEF FindSlot, Goto
    <3>3. QED
      BY <3>1, <3>2 DEF Threads, ServerPcs, ResponsePcs
  <2>3. QED
    BY <2>1, <2>2
<1>3. CASE RemoveClient(t)
  <2>1. client_arr' \in [Slots -> Slot] /\ fds' \in [Fds -> Conns \cup {Stdin, Free}]
    BY <1>3 DEF RemoveClient, Slot
  <2>2. client_cnt' \in Int /\ client_cnt' <= MAX_CLIENTS
    BY <1>3 DEF RemoveClient
  <2>3. audience' \subseteq Conns
    BY <1>3 DEF RemoveClient
  <2>4. /\ client_fd' \in [Threads -> Fds] /\ idx' \in [Threads -> Slots]
        /\ whom' \in [Threads -> Conns \cup {Nobody}]
    BY <1>3 DEF RemoveClient, Done
  <2>5. /\ pc' \in [Threads -> ServerPcs \cup ResponsePcs]
        /\ pc'["server"] \in ServerPcs /\ pc'["response"] \in ResponsePcs
    BY <1>3 DEF RemoveClient, Done, Goto, Threads
  <2>6. QED
    BY <1>3, <2>1, <2>2, <2>3, <2>4, <2>5 DEF RemoveClient
<1>4. QED
  BY <1>1, <1>2, <1>3 DEF Disconnect

\* So does the server thread: what accept, find_empty and the loop over the
\* slots return is in range.
LEMMA TypeServer ==
  ASSUME TypeOK, KernelInv, PlaceInv, Server
  PROVE  OtherTypes'
<1> USE Small DEF TypeOK, OtherTypes, kernel, pool, cast, locals, ghosts, Goto,
                  Threads, ServerPcs, ResponsePcs
<1>1. CASE CopySet
  BY <1>1 DEF CopySet
<1>2. CASE Select
  BY <1>2 DEF Select
<1>3. CASE Selected
  <2>1. read_set' \subseteq read_set
    BY <1>3 DEF Selected
  <2>2. pc' = [pc EXCEPT !["server"] = pc'["server"]]
        /\ pc'["server"] \in {"accept", "scan"}
    BY <1>3 DEF Selected
  <2>3. /\ turn' = 0
        /\ UNCHANGED <<kernel, pool, serv_set, client_fd, whom, idx, word,
                       queue, cast, entitled>>
    BY <1>3, Zenon DEF Selected
  <2>4. QED
    BY <2>1, <2>2, <2>3
<1>4. CASE Interrupted \/ ReceiveFaults
  <2>1. CASE Interrupted
    BY <2>1 DEF Interrupted
  <2>2. CASE ReceiveFaults
    BY <2>2 DEF ReceiveFaults
  <2>3. QED
    BY <1>4, <2>1, <2>2
<1>5. CASE Accept
  <2>1. accepted < NConns
    BY <1>5 DEF Accept, PlaceInv
  <2>2. LowestFree \in Fds /\ accepted + 1 \in Conns
    BY <2>1, SomeFree DEF Conns
  <2>3. QED
    BY <1>5, <2>1, <2>2 DEF Accept
<1>6. CASE Count
  BY <1>6 DEF Count, Done, Nobody
<1>7. CASE AddAborts
  BY <1>7 DEF AddAborts
<1>8. CASE AddClient
  <2>1. Min(SlotOf(0)) \in Slots
    BY <1>8, SlotFound DEF AddClient
  <2>2. client_fd["server"] \in Fds \ {0} /\ whom["server"] \in Conns
    BY <1>8 DEF AddClient, Asserted, PlaceInv, Conns
  <2>3. client_arr' \in [Slots -> Slot]
    BY <1>8, <2>1, <2>2 DEF AddClient, Slot
  <2>4. client_cnt' \in Int /\ client_cnt' <= MAX_CLIENTS
    BY <1>8 DEF AddClient, PlaceInv
  <2>5. entitled' \subseteq Conns
    BY <1>8, <2>2 DEF AddClient
  <2>6. QED
    BY <1>8, <2>3, <2>4, <2>5 DEF AddClient
<1>9. CASE AddFails
  BY <1>9 DEF AddFails, Done, Nobody
<1>10. CASE FdSet
  <2>1. CASE ReadWord("server", "set", "setting")
    BY <2>1 DEF ReadWord
  <2>2. CASE WriteWord("server", "setting", "scan",
                       word["server"] \cup {client_fd["server"]})
    BY <2>2 DEF WriteWord, PlaceInv
  <2>3. QED
    BY <1>10, <2>1, <2>2 DEF FdSet
<1>11. CASE Scan
  <2>1. CASE turn = MAX_CLIENTS
    BY <1>11, <2>1 DEF Scan, Done, Nobody
  <2>2. CASE turn < MAX_CLIENTS
    <3>1. turn \in Slots /\ turn' = turn + 1
      BY <1>11, <2>2 DEF Scan, Slots
    <3>2. client_arr[turn].fd \in Fds
      BY <3>1 DEF Slot, Empty
    <3>3. QED
      BY <1>11, <2>2, <3>1, <3>2 DEF Scan
  <2>3. QED
    BY <1>11, <2>1, <2>2 DEF Scan
<1>12. CASE ReceiveRequest
  <2>1. Node(client_fd["server"], Received) \in [fd : Fds \ {0}, id : Conns]
    BY <1>12 DEF ReceiveRequest, PlaceInv, Node
  <2>2. queue' \in Seq([fd : Fds \ {0}, id : Conns])
    BY <1>12, <2>1 DEF ReceiveRequest
  <2>3. QED
    BY <1>12, <2>2 DEF ReceiveRequest, Done, Nobody
<1>13. CASE ReceiveTimesOut
  BY <1>13 DEF ReceiveTimesOut, Done, Nobody
<1>14. CASE ReceiveFails
  BY <1>14 DEF ReceiveFails, Nobody
<1>15. CASE Disconnect("server")
  BY <1>15, TypeDisconnect
<1>16. QED
  BY <1>1, <1>2, <1>3, <1>4, <1>5, <1>6, <1>7, <1>8, <1>9, <1>10, <1>11, <1>12,
     <1>13, <1>14, <1>15 DEF Server

\* A function on 1 .. n is a sequence.
LEMMA SequenceOf ==
  ASSUME NEW S, NEW n \in Nat, NEW f \in [1 .. n -> S]
  PROVE  f \in Seq(S)
  OBVIOUS

\* So does the response thread: the copy is never longer than the pool.
LEMMA TypeResponse ==
  ASSUME TypeOK, PlaceInv, Response
  PROVE  OtherTypes'
<1> USE Small DEF TypeOK, OtherTypes, kernel, pool, cast, locals, ghosts, Goto,
                  Threads, ServerPcs, ResponsePcs
<1>1. CASE Dequeue
  <2> DEFINE Reqs == [fd : Fds \ {0}, id : Conns]
  <2>1. Head(queue) \in Reqs /\ Tail(queue) \in Seq(Reqs)
    <3>1. queue \in Seq(Reqs) /\ queue # <<>>
      BY <1>1 DEF Dequeue
    <3> HIDE DEF Reqs
    <3>2. QED
      BY <3>1
  <2>2. QED
    BY <1>1, <2>1 DEF Dequeue
<1>2. CASE CountAudience
  <2>1. Members \subseteq Conns
    BY DEF Members, Occupied, Slot, Empty
  <2>2. audience' \subseteq Members
    BY <1>2 DEF CountAudience
  <2>3. QED
    BY <1>2, <2>1, <2>2 DEF CountAudience
<1>3. CASE SizeArray
  <2>1. arr' \in Seq(Fds)
    BY <1>3 DEF SizeArray
  <2>2. QED
    BY <1>3, <2>1 DEF SizeArray
<1>4. CASE CopyArray
  <2>1. \A i \in DOMAIN arr : client_arr[i - 1].fd \in Fds
    <3>1. Len(arr) \in Nat /\ Len(arr) <= MAX_CLIENTS /\ DOMAIN arr = 1 .. Len(arr)
      BY <1>4 DEF CopyArray, PlaceInv
    <3>2. \A i \in DOMAIN arr : i - 1 \in Slots
      BY <3>1 DEF Slots
    <3>3. \A s \in Slots : client_arr[s].fd \in Fds
      BY DEF Slot, Empty
    <3>4. QED
      BY <3>2, <3>3
  <2>2. arr' \in Seq(Fds)
    <3>1. Len(arr) \in Nat /\ DOMAIN arr = 1 .. Len(arr)
      OBVIOUS
    <3>2. arr' \in [1 .. Len(arr) -> Fds]
      BY <1>4, <2>1, <3>1 DEF CopyArray
    <3>3. QED
      BY <3>1, <3>2, SequenceOf
  <2>3. QED
    BY <1>4, <2>2 DEF CopyArray
<1>5. CASE TellNext
  <2>1. /\ sent' \in Nat /\ told' \subseteq Conns
        /\ pc' \in [Threads -> ServerPcs \cup ResponsePcs]
        /\ pc'["server"] = pc["server"] /\ pc'["response"] \in ResponsePcs
    <3>1. \/ UNCHANGED <<sent, told>>
          \/ \E f \in Fds :
               /\ fds[f] \in Conns
               /\ sent' = sent + 1 /\ told' = told \cup {fds[f]}
      BY <1>5 DEF TellNext, Reaches
    <3>2. sent' \in Nat
      BY <3>1
    <3>3. told' \subseteq Conns
      BY <3>1
    <3>4. pc' = pc \/ pc' = [pc EXCEPT !["response"] = "answer"]
      BY <1>5 DEF TellNext
    <3>5. QED
      BY <3>2, <3>3, <3>4
  <2>2. UNCHANGED <<kernel, pool, serv_set, locals, word, read_set, queue, arr,
                    cnt, audience, entitled>>
    BY <1>5 DEF TellNext
  <2>3. QED
    BY <2>1, <2>2
<1>6. CASE Answer
  BY <1>6 DEF Answer, Done, Nobody
<1>7. CASE Disconnect("response")
  BY <1>7, TypeDisconnect
<1>8. CASE ExecuteFaults \/ ExecuteDrops
  <2>1. CASE ExecuteFaults
    BY <2>1 DEF ExecuteFaults
  <2>2. CASE ExecuteDrops
    BY <2>2 DEF ExecuteDrops, Done, Nobody
  <2>3. QED
    BY <1>8, <2>1, <2>2
<1>9. QED
  BY <1>1, <1>2, <1>3, <1>4, <1>5, <1>6, <1>7, <1>8 DEF Response

\* Every step keeps the types.
LEMMA TypeStep ==
  ASSUME TypeOK, KernelInv, PlaceInv, [Next]_vars
  PROVE  TypeOK'
<1>1. OtherTypes'
  <2> USE Small DEF TypeOK, OtherTypes, kernel, pool, cast, locals, ghosts
  <2>1. ASSUME NEW c \in Conns, Connect(c) PROVE OtherTypes'
    BY <2>1 DEF Connect
  <2>2. ASSUME NEW c \in Conns, Send(c) PROVE OtherTypes'
    BY <2>2 DEF Send
  <2>3. ASSUME NEW c \in Conns, HangUp(c) PROVE OtherTypes'
    BY <2>3 DEF HangUp
  <2>4. CASE UNCHANGED vars
    BY <2>4 DEF vars
  <2>5. QED
    BY <2>1, <2>2, <2>3, <2>4, TypeServer, TypeResponse DEF Next
<1>2. QED
  BY <1>1, TypeBool, TypeHalves

-----------------------------------------------------------------------------
\* Descriptors: only accept hands one out, and it is a free one.

\* Every step keeps KernelInv: accept takes a free descriptor for a new client.
LEMMA KernelStep ==
  ASSUME TypeOK, KernelInv, PlaceInv, [Next]_vars
  PROVE  KernelInv'
<1> USE Small DEF TypeOK, KernelInv, kernel, Conns, Fds, Stdin, Free
<1>1. ASSUME UNCHANGED <<fds, accepted>> PROVE KernelInv'
  BY <1>1
<1>2. ASSUME NEW f \in Fds, fds' = [fds EXCEPT ![f] = Free], accepted' = accepted
      PROVE  KernelInv'
  BY <1>2
<1>3. CASE Accept
  <2>1. accepted < NConns
    BY <1>3 DEF Accept, PlaceInv
  <2>2. LowestFree \in Fds /\ fds[LowestFree] = Free
    BY <2>1, SomeFree
  <2>3. /\ fds' = [fds EXCEPT ![LowestFree] = accepted + 1]
        /\ accepted' = accepted + 1
    BY <1>3 DEF Accept
  <2>4. QED
    BY <2>1, <2>2, <2>3
<1>4. CASE Count
  BY <1>1, <1>2, <1>4 DEF Count
<1>5. CASE AddFails
  BY <1>2, <1>5 DEF AddFails
<1>6. ASSUME NEW t \in Threads, Disconnect(t) PROVE KernelInv'
  <2>1. CASE FdClear(t) \/ FindSlot(t)
    BY <1>1, <2>1 DEF FdClear, FindSlot, ReadWord, WriteWord
  <2>2. CASE RemoveClient(t)
    BY <1>2, <2>2 DEF RemoveClient
  <2>3. QED
    BY <1>6, <2>1, <2>2 DEF Disconnect
<1>7. CASE Server
  <2>1. CASE CopySet \/ Select \/ Selected \/ Interrupted \/ ReceiveFaults
    BY <1>1, <2>1 DEF CopySet, Select, Selected, Interrupted, ReceiveFaults
  <2>2. CASE AddAborts \/ AddClient \/ FdSet \/ Scan
    BY <1>1, <2>2 DEF AddAborts, AddClient, FdSet, ReadWord, WriteWord, Scan
  <2>3. CASE ReceiveRequest \/ ReceiveTimesOut \/ ReceiveFails
    BY <1>1, <2>3 DEF ReceiveRequest, ReceiveTimesOut, ReceiveFails
  <2>4. QED
    BY <1>3, <1>4, <1>5, <1>6, <1>7, <2>1, <2>2, <2>3 DEF Server
<1>8. CASE Response
  <2>1. CASE Dequeue \/ ExecuteFaults \/ ExecuteDrops \/ CountAudience \/ SizeArray
    BY <1>1, <2>1
    DEF Dequeue, ExecuteFaults, ExecuteDrops, CountAudience, SizeArray
  <2>2. CASE CopyArray \/ TellNext \/ Answer
    BY <1>1, <2>2 DEF CopyArray, TellNext, Answer
  <2>3. QED
    BY <1>6, <1>8, <2>1, <2>2 DEF Response
<1>9. ASSUME NEW c \in Conns, Connect(c) \/ Send(c) \/ HangUp(c) PROVE KernelInv'
  BY <1>1, <1>9 DEF Connect, Send, HangUp
<1>10. CASE UNCHANGED vars
  BY <1>1, <1>10 DEF vars
<1>11. QED
  BY <1>7, <1>8, <1>9, <1>10 DEF Next

-----------------------------------------------------------------------------
\* Places of the threads.

\* Every step keeps PlaceInv.
LEMMA PlaceStep ==
  ASSUME TypeOK, PlaceInv, [Next]_vars
  PROVE  PlaceInv'
<1> USE Small DEF TypeOK, PlaceInv, kernel, pool, cast, locals, Dropping,
                  Goto, Done, Threads, Resume
<1>1. ASSUME NEW t \in Threads, Disconnect(t) PROVE PlaceInv'
  <2>1. CASE ReadWord(t, "clear", "clearing")
    BY <2>1 DEF ReadWord
  <2>2. CASE WriteWord(t, "clearing", "find", word[t] \ {client_fd[t]})
    BY <2>2 DEF WriteWord
  <2>3. CASE FindSlot(t) /\ SlotOf(client_fd[t]) = {}
    BY <2>3 DEF FindSlot
  <2>4. CASE FindSlot(t) /\ SlotOf(client_fd[t]) # {}
    <3>1. /\ pc[t] = "find" /\ pc' = [pc EXCEPT ![t] = "close"]
          /\ UNCHANGED <<client_fd, whom, kernel, pool, arr>>
      BY <2>4, Zenon DEF FindSlot, Goto, kernel, cast
    <3>2. QED
      BY <3>1
  <2>5. CASE RemoveClient(t)
    BY <2>5 DEF RemoveClient
  <2>6. QED
    BY <1>1, <2>1, <2>2, <2>3, <2>4, <2>5 DEF Disconnect, FdClear, FindSlot
<1>2. CASE Server
  <2>1. CASE CopySet \/ Select \/ Interrupted \/ ReceiveFaults
    BY <2>1 DEF CopySet, Select, Interrupted, ReceiveFaults
  <2>2. CASE Selected
    <3>1. /\ Backlog # {} => accepted < NConns
      BY DEF Backlog, Conns
    <3>2. /\ pc' = [pc EXCEPT !["server"] = pc'["server"]]
          /\ \/ pc'["server"] = "accept" /\ Backlog # {}
             \/ pc'["server"] = "scan"
      BY <2>2 DEF Selected
    <3>3. UNCHANGED <<client_fd, whom, kernel, pool, arr>>
      BY <2>2, Zenon DEF Selected, cast
    <3>4. QED
      BY <3>1, <3>2, <3>3
  <2>3. CASE Accept
    BY <2>3 DEF Accept
  <2>4. CASE Count \/ AddAborts \/ AddFails
    BY <2>4 DEF Count, AddAborts, AddFails
  <2>5. CASE AddClient
    BY <2>5 DEF AddClient, Asserted
  <2>6. CASE FdSet
    BY <2>6 DEF FdSet, ReadWord, WriteWord
  <2>7. CASE Scan
    BY <2>7 DEF Scan
  <2>8. CASE ReceiveRequest \/ ReceiveTimesOut \/ ReceiveFails
    BY <2>8 DEF ReceiveRequest, ReceiveTimesOut, ReceiveFails
  <2>9. QED
    BY <1>1, <1>2, <2>1, <2>2, <2>3, <2>4, <2>5, <2>6, <2>7, <2>8 DEF Server
<1>3. CASE Response
  <2>1. CASE Dequeue
    <3> DEFINE Reqs == [fd : Fds \ {0}, id : Conns]
    <3>1. Head(queue).fd # 0
      <4>1. queue \in Seq(Reqs) /\ queue # <<>>
        BY <2>1 DEF Dequeue
      <4>2. Head(queue) \in Reqs
        <5> HIDE DEF Reqs
        <5>1. QED
          BY <4>1
      <4>3. QED
        BY <4>2
    <3>2. QED
      BY <2>1, <3>1 DEF Dequeue
  <2>2. CASE ExecuteFaults \/ ExecuteDrops \/ CountAudience
    BY <2>2 DEF ExecuteFaults, ExecuteDrops, CountAudience
  <2>3. CASE SizeArray
    <3>1. client_cnt > 0 => Len(arr') = client_cnt
      BY <2>3 DEF SizeArray
    <3>2. QED
      BY <2>3, <3>1 DEF SizeArray
  <2>4. CASE CopyArray \/ TellNext \/ Answer
    BY <2>4 DEF CopyArray, TellNext, Answer
  <2>5. QED
    BY <1>1, <1>3, <2>1, <2>2, <2>3, <2>4 DEF Response
<1>4. ASSUME NEW c \in Conns, Connect(c) \/ Send(c) \/ HangUp(c) PROVE PlaceInv'
  BY <1>4 DEF Connect, Send, HangUp
<1>5. CASE UNCHANGED vars
  BY <1>5 DEF vars
<1>6. QED
  BY <1>2, <1>3, <1>4, <1>5 DEF Next

-----------------------------------------------------------------------------
\* The pool.  Most actions neither touch it nor bring a thread to a place
\* where PoolInv says something of it.

\* Such an action keeps PoolInv.
LEMMA PoolFrame ==
  ASSUME TypeOK, PoolInv, UNCHANGED <<fds, pool, doubled>>,
         \A t \in Threads : pc'[t] = "close" =>
           pc[t] = "close" /\ idx'[t] = idx[t] /\ client_fd'[t] = client_fd[t]
             /\ whom'[t] = whom[t],
         pc'["server"] \in {"count", "add"} =>
           /\ pc["server"] \in {"count", "add"}
           /\ client_fd'["server"] = client_fd["server"]
           /\ whom'["server"] = whom["server"]
  PROVE  PoolInv'
  BY Small DEF PoolInv, Occupied, pool

\* The slots are finitely many.
LEMMA OccupiedFinite == IsFiniteSet(Slots) /\ Cardinality(Slots) = MAX_CLIENTS
                          /\ IsFiniteSet(Occupied) /\ Cardinality(Occupied) \in Nat
<1>1. IsFiniteSet(Slots) /\ Cardinality(Slots) = MAX_CLIENTS
  BY Small, FS_Interval DEF Slots
<1>2. QED
  BY <1>1, FS_Subset, FS_CardinalityType DEF Occupied

\* What a slot holds.
LEMMA SlotTypes ==
  ASSUME TypeOK, NEW s \in Slots
  PROVE  /\ client_arr[s].fd \in Fds
         /\ client_arr[s].fd # 0 => client_arr[s].id \in Conns
         /\ client_arr[s] = [fd |-> client_arr[s].fd, id |-> client_arr[s].id]
  BY Small DEF TypeOK, Slot, Empty

\* The slot that is found is that of the client to drop, or a client is doubled.
LEMMA PoolFind ==
  ASSUME TypeOK, PlaceInv, PoolInv, NEW t \in Threads, FindSlot(t)
  PROVE  PoolInv'
<1> USE Small DEF TypeOK, kernel, pool, cast, Goto
<1>1. CASE SlotOf(client_fd[t]) = {}
  BY <1>1, PoolFrame DEF FindSlot, Done, Resume, Threads
<1>2. CASE SlotOf(client_fd[t]) # {}
  <2> DEFINE s == Min(SlotOf(client_fd[t]))
  <2>1. s \in Slots /\ client_arr[s].fd = client_fd[t]
    BY <1>2, SlotFound
  <2>2. /\ pc[t] = "find" /\ pc' = [pc EXCEPT ![t] = "close"]
        /\ idx' = [idx EXCEPT ![t] = s]
        /\ UNCHANGED <<fds, client_arr, client_cnt, client_fd, whom>>
    BY <1>2, Zenon DEF FindSlot, Goto, kernel, pool
  <2>3. ~doubled' => /\ ~doubled
                     /\ client_arr[s].id = whom[t]
                     /\ ~(pc[Other(t)] = "close" /\ client_fd[Other(t)] = client_fd[t])
    BY <1>2, Zenon DEF FindSlot
  <2> HIDE DEF s
  <2>4. client_arr[s] = [fd |-> client_arr[s].fd, id |-> client_arr[s].id]
    BY <2>1, SlotTypes
  <2>5. QED
    BY <2>1, <2>2, <2>3, <2>4 DEF PoolInv, Occupied, Threads, Other
<1>3. QED
  BY <1>1, <1>2

\* Clearing the slot keeps the count and leaves the other slots as they were.
LEMMA PoolRemove ==
  ASSUME TypeOK, PlaceInv, PoolInv, NEW t \in Threads, RemoveClient(t), ~doubled
  PROVE  /\ ~doubled'
         /\ PoolInv'
         /\ idx[t] \in Occupied
         /\ client_arr[idx[t]] = [fd |-> client_fd[t], id |-> whom[t]]
         /\ Occupied' = Occupied \ {idx[t]}
         /\ \A s \in Occupied' : /\ client_arr'[s] = client_arr[s]
                                 /\ client_arr[s].fd # client_fd[t]
<1> USE Small DEF TypeOK, pool, ghosts, Goto
<1>1. /\ pc[t] = "close" /\ idx[t] \in Slots /\ client_fd[t] # 0
      /\ client_arr[idx[t]] = [fd |-> client_fd[t], id |-> whom[t]]
  BY DEF RemoveClient, PoolInv, PlaceInv, Threads, Dropping
<1>2. idx[t] \in Occupied
  BY <1>1 DEF Occupied
<1>3. client_arr' = [client_arr EXCEPT ![idx[t]] = Empty] /\ client_cnt' = client_cnt - 1
  BY DEF RemoveClient
<1>4. Occupied' = Occupied \ {idx[t]}
  BY <1>1, <1>3 DEF Occupied, Empty
<1>5. \A s \in Occupied' : /\ client_arr'[s] = client_arr[s]
                           /\ client_arr[s].fd # client_fd[t]
  <2>1. \A s \in Occupied' : s \in Slots /\ s # idx[t] /\ s \in Occupied
    BY <1>4 DEF Occupied
  <2>2. QED
    BY <1>1, <1>2, <1>3, <2>1 DEF PoolInv
<1>6. Cardinality(Occupied') = Cardinality(Occupied) - 1
  BY <1>2, <1>4, OccupiedFinite, FS_RemoveElement
<1>7. /\ fds' = [fds EXCEPT ![client_fd[t]] = Free] /\ client_fd[t] \in Fds
      /\ \A u \in Threads \ {t} : /\ pc'[u] = pc[u] /\ idx'[u] = idx[u]
                                  /\ client_fd'[u] = client_fd[u]
                                  /\ whom'[u] = whom[u]
      /\ pc'[t] \in {"scan", "dequeue"}
  BY DEF RemoveClient, Done, Resume
<1>8. \A s \in Occupied' : s \in Slots /\ client_arr[s].fd \in Fds /\ s \in Occupied
  BY <1>4, SlotTypes DEF Occupied
<1>9. ~doubled'
  BY DEF RemoveClient
<1>10. PoolInv'
  <2>1. client_cnt' = Cardinality(Occupied')
    BY <1>3, <1>6 DEF PoolInv
  <2>2. \A s \in Occupied' : fds'[client_arr'[s].fd] = client_arr'[s].id
    BY <1>5, <1>7, <1>8 DEF PoolInv
  <2>3. \A s, u \in Occupied' : client_arr'[s].fd = client_arr'[u].fd => s = u
    BY <1>5, <1>8 DEF PoolInv
  <2>4. \A u \in Threads : pc'[u] = "close" =>
          client_arr'[idx'[u]] = [fd |-> client_fd'[u], id |-> whom'[u]]
    <3>1. SUFFICES ASSUME NEW u \in Threads, pc'[u] = "close"
                   PROVE  client_arr'[idx'[u]] = [fd |-> client_fd'[u], id |-> whom'[u]]
      OBVIOUS
    <3>2. u # t /\ pc[u] = "close"
      BY <1>7, <3>1
    <3>3. client_fd[u] # client_fd[t]
      BY <1>1, <3>2 DEF PoolInv, Threads
    <3>4. client_arr[idx[u]] = [fd |-> client_fd[u], id |-> whom[u]]
      BY <3>2 DEF PoolInv
    <3>5. idx[u] # idx[t]
      BY <1>1, <3>3, <3>4
    <3>6. QED
      BY <1>3, <1>7, <3>2, <3>4, <3>5
  <2>5. ~(pc'["server"] = "close" /\ pc'["response"] = "close")
    BY <1>7 DEF Threads
  <2>6. pc'["server"] \in {"count", "add"} =>
          /\ fds'[client_fd'["server"]] = whom'["server"]
          /\ \A s \in Occupied' : client_arr'[s].fd # client_fd'["server"]
    <3>1. SUFFICES ASSUME pc'["server"] \in {"count", "add"}
                   PROVE  /\ fds'[client_fd'["server"]] = whom'["server"]
                          /\ \A s \in Occupied' : client_arr'[s].fd # client_fd'["server"]
      OBVIOUS
    <3>2. t # "server"
      BY <1>7, <3>1
    <3>3. pc["server"] \in {"count", "add"} /\ client_fd'["server"] = client_fd["server"]
            /\ whom'["server"] = whom["server"]
      BY <1>7, <3>1, <3>2
    <3>4. client_fd["server"] # client_fd[t]
      BY <1>1, <1>2, <3>3 DEF PoolInv
    <3>5. QED
      BY <1>5, <1>7, <1>8, <3>3, <3>4 DEF PoolInv
  <2>7. QED
    BY <2>1, <2>2, <2>3, <2>4, <2>5, <2>6 DEF PoolInv
<1>11. QED
  BY <1>1, <1>2, <1>4, <1>5, <1>9, <1>10

\* disconnect_client keeps PoolInv.
LEMMA PoolDisconnect ==
  ASSUME TypeOK, PlaceInv, PoolInv, NEW t \in Threads, Disconnect(t)
  PROVE  PoolInv'
<1>1. CASE FdClear(t)
  BY <1>1, Small, PoolFrame
  DEF FdClear, ReadWord, WriteWord, Goto, TypeOK, kernel, pool, locals, ghosts, Threads
<1>2. CASE FindSlot(t)
  BY <1>2, PoolFind
<1>3. CASE RemoveClient(t)
  <2>1. CASE doubled
    BY <1>3, <2>1 DEF RemoveClient, ghosts, PoolInv
  <2>2. CASE ~doubled
    BY <1>3, <2>2, PoolRemove
  <2>3. QED
    BY <2>1, <2>2
<1>4. QED
  BY <1>1, <1>2, <1>3 DEF Disconnect

\* accept() returns a descriptor that no slot holds.
LEMMA PoolAccept ==
  ASSUME TypeOK, KernelInv, PlaceInv, PoolInv, Accept
  PROVE  PoolInv'
<1> USE Small DEF TypeOK, pool, Goto
<1>1. LowestFree \in Fds /\ fds[LowestFree] = Free
  BY SomeFree DEF Accept, PlaceInv
<1>2. /\ pc' = [pc EXCEPT !["server"] = "count"]
      /\ fds' = [fds EXCEPT ![LowestFree] = accepted + 1]
      /\ client_fd' = [client_fd EXCEPT !["server"] = LowestFree]
      /\ whom' = [whom EXCEPT !["server"] = accepted + 1]
      /\ UNCHANGED <<client_arr, client_cnt, idx>> /\ doubled' = doubled
  BY DEF Accept, ghosts
<1>3. ~doubled => \A s \in Occupied : client_arr[s].fd # LowestFree
  <2>1. \A s \in Occupied : s \in Slots /\ client_arr[s].id # Free
    BY SlotTypes DEF Occupied, Free
  <2>2. QED
    BY <1>1, <2>1 DEF PoolInv
<1>4. Occupied' = Occupied /\ \A s \in Occupied : s \in Slots /\ client_arr[s].fd \in Fds
  BY <1>2, SlotTypes DEF Occupied
<1>5. QED
  BY <1>1, <1>2, <1>3, <1>4 DEF PoolInv, Threads

\* A descriptor that is closed outside of remove_client is in no slot: it is
\* that of the client at hand, or descriptor 0.
LEMMA PoolClose ==
  ASSUME TypeOK, PlaceInv, PoolInv, NEW f \in Fds,
         f = 0 \/ (f = client_fd["server"] /\ pc["server"] \in {"count", "add"}),
         fds' = [fds EXCEPT ![f] = Free], Done("server", "copy"),
         UNCHANGED <<pool, doubled>>
  PROVE  PoolInv'
<1> USE Small DEF TypeOK, pool, Goto, Done
<1>1. ~doubled => \A s \in Occupied : s \in Slots /\ client_arr[s].fd \in Fds
                                       /\ client_arr[s].fd # f
  BY SlotTypes DEF Occupied, PoolInv
<1>2. Occupied' = Occupied
  BY DEF Occupied
<1>3. QED
  BY <1>1, <1>2 DEF PoolInv, Threads

\* add_client puts the new client into an empty slot, and counts it.
LEMMA PoolAdd ==
  ASSUME TypeOK, PlaceInv, PoolInv, AddClient
  PROVE  PoolInv'
<1> USE Small DEF TypeOK, pool, Goto
<1>1. SUFFICES ASSUME ~doubled' PROVE PoolInv'
  BY DEF PoolInv
<1>2. ~doubled
  BY <1>1 DEF AddClient
<1> DEFINE s0 == Min(SlotOf(0))
           f  == client_fd["server"]
           c  == whom["server"]
<1>3. s0 \in Slots /\ client_arr[s0].fd = 0
  BY SlotFound DEF AddClient
<1>4. /\ pc["server"] = "add" /\ pc' = [pc EXCEPT !["server"] = "set"]
      /\ client_arr' = [client_arr EXCEPT ![s0] = [fd |-> f, id |-> c]]
      /\ client_cnt' = client_cnt + 1
      /\ UNCHANGED <<fds, client_fd, whom, idx>>
  BY DEF AddClient, kernel, locals
<1> HIDE DEF s0
<1>5. f \in Fds /\ f > 0 /\ fds[f] = c /\ \A s \in Occupied : client_arr[s].fd # f
  BY <1>2, <1>4 DEF AddClient, Asserted, PoolInv
<1>6. s0 \notin Occupied /\ Occupied' = Occupied \cup {s0}
  BY <1>3, <1>4, <1>5 DEF Occupied
<1>7. Cardinality(Occupied') = Cardinality(Occupied) + 1
  BY <1>6, OccupiedFinite, FS_AddElement
<1>8. \A s \in Occupied : client_arr'[s] = client_arr[s] /\ s \in Slots
  BY <1>3, <1>4, <1>6 DEF Occupied
<1>9. client_arr'[s0].fd = f /\ client_arr'[s0].id = c
  BY <1>3, <1>4
<1>10. client_cnt' = Cardinality(Occupied')
  BY <1>2, <1>4, <1>7, OccupiedFinite DEF PoolInv
<1>11. \A s \in Occupied' : fds'[client_arr'[s].fd] = client_arr'[s].id
  BY <1>2, <1>4, <1>5, <1>6, <1>8, <1>9 DEF PoolInv
<1>12. \A s, t \in Occupied' : client_arr'[s].fd = client_arr'[t].fd => s = t
  BY <1>2, <1>5, <1>6, <1>8, <1>9 DEF PoolInv
<1>13. \A t \in Threads : pc'[t] = "close" =>
         client_arr'[idx'[t]] = [fd |-> client_fd'[t], id |-> whom'[t]]
  <2>1. SUFFICES ASSUME NEW t \in Threads, pc'[t] = "close"
                 PROVE  client_arr'[idx'[t]] = [fd |-> client_fd'[t], id |-> whom'[t]]
    OBVIOUS
  <2>2. pc[t] = "close" /\ client_fd[t] # 0
    BY <1>4, <2>1 DEF PlaceInv, Dropping, Threads
  <2>3. client_arr[idx[t]] = [fd |-> client_fd[t], id |-> whom[t]]
    BY <1>2, <2>2 DEF PoolInv
  <2>4. idx[t] # s0
    BY <1>3, <2>2, <2>3
  <2>5. QED
    BY <1>3, <1>4, <2>3, <2>4
<1>14. pc'["server"] = "set"
  BY <1>4
<1>15. QED
  BY <1>10, <1>11, <1>12, <1>13, <1>14 DEF PoolInv

\* Every step keeps PoolInv.
LEMMA PoolStep ==
  ASSUME TypeOK, KernelInv, PlaceInv, PoolInv, [Next]_vars
  PROVE  PoolInv'
<1>1. CASE Server
  <2> USE Small DEF TypeOK, kernel, pool, locals, ghosts, Goto, Done, Threads
  <2>1. CASE CopySet \/ Select \/ Interrupted \/ ReceiveFaults
    BY <2>1, PoolFrame DEF CopySet, Select, Interrupted, ReceiveFaults
  <2>2. CASE Selected
    <3>1. /\ pc' = [pc EXCEPT !["server"] = pc'["server"]]
          /\ pc'["server"] \in {"accept", "scan"}
          /\ UNCHANGED <<fds, pool, doubled, idx, client_fd, whom>>
      BY <2>2 DEF Selected
    <3>2. QED
      BY <3>1, PoolFrame
  <2>3. CASE Accept
    BY <2>3, PoolAccept
  <2>4. CASE Count
    <3>1. CASE pc'["server"] = "add"
      BY <2>4, <3>1, PoolFrame DEF Count
    <3>2. CASE pc'["server"] # "add"
      <4>1. /\ Done("server", "copy") /\ UNCHANGED <<pool, doubled>>
            /\ pc["server"] = "count"
            /\ \/ fds' = [fds EXCEPT ![client_fd["server"]] = Free]
               \/ fds' = [fds EXCEPT ![0] = Free]
        BY <2>4, <3>2 DEF Count
      <4> HIDE DEF Done, pool
      <4>2. QED
        BY <4>1, PoolClose
    <3>3. QED
      BY <3>1, <3>2
  <2>5. CASE AddAborts \/ FdSet
    BY <2>5, PoolFrame DEF AddAborts, FdSet, ReadWord, WriteWord
  <2>6. CASE AddClient
    BY <2>6, PoolAdd
  <2>7. CASE AddFails
    <3>1. Done("server", "copy") /\ UNCHANGED <<pool, doubled>> /\ pc["server"] = "add"
            /\ fds' = [fds EXCEPT ![client_fd["server"]] = Free]
      BY <2>7 DEF AddFails
    <3> HIDE DEF Done, pool
    <3>2. QED
      BY <3>1, PoolClose
  <2>8. CASE Scan
    BY <2>8, PoolFrame DEF Scan
  <2>9. CASE ReceiveRequest \/ ReceiveTimesOut \/ ReceiveFails
    BY <2>9, PoolFrame DEF ReceiveRequest, ReceiveTimesOut, ReceiveFails
  <2>10. QED
    BY <1>1, <2>1, <2>2, <2>3, <2>4, <2>5, <2>6, <2>7, <2>8, <2>9, PoolDisconnect
    DEF Server
<1>2. CASE Response
  <2> USE Small DEF TypeOK, kernel, pool, locals, ghosts, Goto, Done, Threads
  <2>1. CASE Dequeue
    BY <2>1, PoolFrame DEF Dequeue
  <2>2. CASE CountAudience \/ SizeArray
    BY <2>2, PoolFrame DEF CountAudience, SizeArray
  <2>3. CASE CopyArray \/ TellNext
    BY <2>3, PoolFrame DEF CopyArray, TellNext
  <2>4. CASE ExecuteFaults \/ ExecuteDrops \/ Answer
    BY <2>4, PoolFrame DEF ExecuteFaults, ExecuteDrops, Answer
  <2>5. QED
    BY <1>2, <2>1, <2>2, <2>3, <2>4, PoolDisconnect DEF Response
<1>3. ASSUME NEW c \in Conns, Connect(c) \/ Send(c) \/ HangUp(c) PROVE PoolInv'
  BY <1>3, PoolFrame DEF Connect, Send, HangUp, kernel, locals, ghosts
<1>4. CASE UNCHANGED vars
  BY <1>4, PoolFrame DEF vars, kernel, locals, ghosts
<1>5. QED
  BY <1>1, <1>2, <1>3, <1>4 DEF Next

-----------------------------------------------------------------------------
\* Patient clients.

\* The descriptor of a client in the pool is open, and it is that client's.
LEMMA SlotIsOpen ==
  ASSUME TypeOK, PoolInv, ~doubled, NEW f, HasSlot(f)
  PROVE  f \in Fds \ {0} /\ fds[f] \in Conns /\ InPool(f, fds[f])
<1>1. PICK s \in Slots : client_arr[s].fd = f
  BY DEF HasSlot
<1>2. s \in Occupied /\ f \in Fds /\ f # 0
  BY <1>1, SlotTypes DEF HasSlot, Occupied
<1>3. fds[f] = client_arr[s].id
  BY <1>1, <1>2 DEF PoolInv
<1>4. QED
  BY <1>1, <1>2, <1>3, SlotTypes DEF InPool

\* The same for a client that is known to be in the pool.
LEMMA InPoolIsOpen ==
  ASSUME TypeOK, PoolInv, ~doubled, NEW f, NEW c, InPool(f, c)
  PROVE  HasSlot(f) /\ f \in Fds \ {0} /\ fds[f] = c /\ c \in Conns
<1>1. PICK s \in Slots : client_arr[s] = [fd |-> f, id |-> c]
  BY DEF InPool
<1>2. s \in Occupied /\ HasSlot(f)
  BY <1>1 DEF InPool, HasSlot, Occupied
<1>3. fds[f] = c
  BY <1>1, <1>2 DEF PoolInv
<1>4. QED
  BY <1>2, <1>3, SlotIsOpen

\* Requests name descriptors above 0 and clients.
LEMMA QueueTypes ==
  ASSUME TypeOK, NEW i \in DOMAIN queue
  PROVE  queue[i].fd \in Fds \ {0} /\ queue[i].id \in Conns
<1> DEFINE Reqs == [fd : Fds \ {0}, id : Conns]
<1>1. queue \in Seq(Reqs)
  BY DEF TypeOK
<1>2. queue[i] \in Reqs
  <2> HIDE DEF Reqs
  <2>1. QED
    BY <1>1
<1>3. QED
  BY <1>2

\* While the count is right connect_new_client closes nothing but descriptor 0,
\* and find_empty finds a slot.
LEMMA CountIsRight ==
  ASSUME TypeOK, PlaceInv, PoolInv, ~doubled
  PROVE  client_cnt >= 0 /\ (pc["server"] = "add" => SlotOf(0) # {})
<1>1. client_cnt = Cardinality(Occupied)
  BY DEF PoolInv
<1>2. pc["server"] = "add" => SlotOf(0) # {}
  <2>1. SUFFICES ASSUME pc["server"] = "add", SlotOf(0) = {} PROVE FALSE
    OBVIOUS
  <2>2. Occupied = Slots
    BY <2>1 DEF Occupied, SlotOf
  <2>3. QED
    BY <1>1, <2>1, <2>2, OccupiedFinite, Small DEF PlaceInv, TypeOK
<1>3. QED
  BY <1>1, <1>2, OccupiedFinite

\* So connect_new_client closes no client's descriptor but 0.
LEMMA CountCloses ==
  ASSUME TypeOK, PlaceInv, PoolInv, ~doubled, Count
  PROVE  \A f \in Fds \ {0} : fds'[f] = fds[f]
  BY CountIsRight, Small DEF Count, TypeOK

\* Served in the state after a step.
StillServed(f, c) == fds'[f] = c /\ peer'[c] = "open" /\ inbox'[c] = "read"

\* What keeps the requests that wait or are served those of clients that are
\* there: no descriptor but 0 closes, no client that was read from changes.
LEMMA ServedFrame ==
  ASSUME TypeOK, PlaceInv, ServedInv,
         queue' = queue,
         pc'["response"] \notin Dropping,
         pc'["response"] \in Busy =>
           /\ pc["response"] \in Busy
           /\ client_fd'["response"] = client_fd["response"]
           /\ whom'["response"] = whom["response"],
         \A f \in Fds \ {0} : fds[f] # Free => fds'[f] = fds[f],
         peer' = peer,
         \A c \in Conns : /\ inbox[c] = "read" => inbox'[c] = "read"
                          /\ inbox'[c] = "request" => inbox[c] = "request"
  PROVE  ServedInv'
<1>1. ASSUME NEW f \in Fds \ {0}, NEW c \in Conns, Served(f, c)
      PROVE  StillServed(f, c)
  <2>1. c # Free
    BY Small DEF Free
  <2>2. QED
    BY <1>1, <2>1 DEF Served, StillServed
<1>2. \A i \in DOMAIN queue' : StillServed(queue'[i].fd, queue'[i].id)
  BY <1>1, QueueTypes DEF ServedInv
<1>3. pc'["response"] \in Busy =>
        /\ whom'["response"] \in Conns
        /\ StillServed(client_fd'["response"], whom'["response"])
  BY <1>1, Small DEF ServedInv, PlaceInv, TypeOK, Busy
<1>4. \A c \in Conns : inbox'[c] = "request" => peer'[c] = "open"
  BY DEF ServedInv
<1>5. QED
  BY <1>2, <1>3, <1>4 DEF ServedInv, Served, StillServed

\* What the server thread does to the requests that wait or are served.
LEMMA ServedServer ==
  ASSUME TypeOK, KernelInv, PlaceInv, PoolInv, PatientInv, Server
  PROVE  ServedInv'
<1> USE Small DEF TypeOK, PatientInv, kernel, pool, locals, Goto, Done, Threads
<1>0. ~doubled
  BY DEF WatchInv
<1>1. CASE CopySet \/ Select \/ Interrupted \/ ReceiveFaults
  BY <1>1, ServedFrame DEF CopySet, Select, Interrupted, ReceiveFaults, ServedInv
<1>2. CASE Selected
  <2>1. /\ pc' = [pc EXCEPT !["server"] = pc'["server"]]
        /\ UNCHANGED <<kernel, queue, client_fd, whom>>
    BY <1>2 DEF Selected
  <2>2. QED
    BY <2>1, ServedFrame DEF ServedInv
<1>3. CASE Accept
  <2>1. LowestFree \in Fds /\ fds[LowestFree] = Free
    BY <1>3, SomeFree DEF Accept, PlaceInv
  <2>2. QED
    BY <1>3, <2>1, ServedFrame DEF Accept, ServedInv
<1>4. CASE Count
  <2>1. \A f \in Fds \ {0} : fds'[f] = fds[f]
    BY <1>0, <1>4, CountCloses
  <2>2. QED
    BY <1>4, <2>1, ServedFrame DEF Count, ServedInv
<1>5. CASE AddAborts \/ AddClient
  BY <1>5, ServedFrame DEF AddAborts, AddClient, ServedInv
<1>6. CASE AddFails
  BY <1>0, <1>6, CountIsRight DEF AddFails
<1>7. CASE FdSet
  BY <1>7, ServedFrame DEF FdSet, ReadWord, WriteWord, ServedInv
<1>8. CASE Scan
  BY <1>8, ServedFrame DEF Scan, ServedInv
<1>9. CASE ReceiveRequest
  <2> DEFINE f == client_fd["server"]
             c == fds[f]
  <2>1. f \in Fds \ {0} /\ c \in Conns /\ inbox[c] = "request" /\ peer[c] = "open"
    BY <1>9 DEF ReceiveRequest, Received, PlaceInv, ServedInv
  <2>2. /\ inbox' = [inbox EXCEPT ![c] = "read"]
        /\ queue' = Append(queue, [fd |-> f, id |-> c])
        /\ peer' = peer /\ fds' = fds /\ pc'["response"] = pc["response"]
        /\ client_fd'["response"] = client_fd["response"]
        /\ whom'["response"] = whom["response"]
    BY <1>9 DEF ReceiveRequest, Received, Node
  <2> HIDE DEF f, c
  <2>3. ASSUME NEW g \in Fds, NEW d \in Conns, Served(g, d) PROVE StillServed(g, d)
    BY <2>2, <2>3 DEF Served, StillServed
  <2>4. StillServed(f, c)
    BY <2>1, <2>2 DEF StillServed, f, c
  <2>5. \A i \in DOMAIN queue' : StillServed(queue'[i].fd, queue'[i].id)
    <3>1. SUFFICES ASSUME NEW i \in DOMAIN queue'
                   PROVE  StillServed(queue'[i].fd, queue'[i].id)
      OBVIOUS
    <3>2. \/ i \in DOMAIN queue /\ queue'[i] = queue[i]
          \/ queue'[i] = [fd |-> f, id |-> c]
      BY <2>2, <3>1
    <3>3. CASE i \in DOMAIN queue /\ queue'[i] = queue[i]
      <4>1. Served(queue[i].fd, queue[i].id)
        BY <3>3 DEF ServedInv
      <4>2. queue[i].fd \in Fds /\ queue[i].id \in Conns
        BY <3>3, QueueTypes
      <4>3. QED
        BY <2>3, <3>3, <4>1, <4>2
    <3>4. CASE queue'[i] = [fd |-> f, id |-> c]
      BY <2>4, <3>4
    <3>5. QED
      BY <3>2, <3>3, <3>4
  <2>6. pc'["response"] \in Busy =>
          /\ whom'["response"] \in Conns
          /\ StillServed(client_fd'["response"], whom'["response"])
    BY <2>2, <2>3 DEF ServedInv
  <2>7. \A d \in Conns : inbox'[d] = "request" => peer'[d] = "open"
    BY <2>2 DEF ServedInv
  <2>8. pc'["response"] \notin Dropping
    BY <2>2 DEF ServedInv
  <2>9. QED
    BY <2>5, <2>6, <2>7, <2>8 DEF ServedInv, Served, StillServed
<1>10. CASE ReceiveTimesOut
  BY <1>10, ServedFrame DEF ReceiveTimesOut, ServedInv
<1>11. CASE ReceiveFails
  BY <1>11, ServedFrame DEF ReceiveFails, ServedInv
<1>12. CASE FdClear("server")
  BY <1>12, ServedFrame DEF FdClear, ReadWord, WriteWord, ServedInv
<1>13. CASE FindSlot("server")
  <2>1. /\ pc'["response"] = pc["response"]
        /\ client_fd'["response"] = client_fd["response"]
        /\ whom'["response"] = whom["response"]
        /\ UNCHANGED <<kernel, queue>>
    BY <1>13 DEF FindSlot
  <2>2. QED
    BY <2>1, ServedFrame DEF ServedInv
<1>14. CASE RemoveClient("server")
  <2> DEFINE f == client_fd["server"]
             c == whom["server"]
  <2>1. pc["server"] = "close" /\ InPool(f, c)
    BY <1>14 DEF RemoveClient, DropInv, Dropping
  <2>2. fds[f] = c
    BY <1>0, <2>1, InPoolIsOpen
  <2>3. /\ fds' = [fds EXCEPT ![f] = Free] /\ peer' = peer /\ inbox' = inbox
        /\ queue' = queue /\ pc'["response"] = pc["response"]
        /\ client_fd'["response"] = client_fd["response"]
        /\ whom'["response"] = whom["response"]
    BY <1>14 DEF RemoveClient
  <2> HIDE DEF f, c
  <2>4. ASSUME NEW g \in Fds, NEW d \in Conns, d # c, Served(g, d) PROVE StillServed(g, d)
    BY <2>2, <2>3, <2>4 DEF Served, StillServed
  <2>5. \A i \in DOMAIN queue' : StillServed(queue'[i].fd, queue'[i].id)
    BY <2>1, <2>3, <2>4, QueueTypes DEF ServedInv, DropInv, Dropping, c
  <2>6. pc'["response"] \in Busy =>
          /\ whom'["response"] \in Conns
          /\ StillServed(client_fd'["response"], whom'["response"])
    BY <2>1, <2>3, <2>4 DEF ServedInv, DropInv, Dropping, c
  <2>7. QED
    BY <2>3, <2>5, <2>6 DEF ServedInv, Served, StillServed
<1>15. QED
  BY <1>1, <1>2, <1>3, <1>4, <1>5, <1>6, <1>7, <1>8, <1>9, <1>10, <1>11, <1>12,
     <1>13, <1>14 DEF Server, Disconnect

\* What leaves the set, its copies and the slots alone keeps WatchInv.
LEMMA WatchFrame ==
  ASSUME WatchInv, UNCHANGED <<doubled, serv_set, word, read_set, client_arr>>,
         pc'["server"] = pc["server"], client_fd'["server"] = client_fd["server"]
  PROVE  WatchInv'
  BY DEF WatchInv, HasSlot

\* What leaves the slots alone, and serves nobody new, keeps DropInv.
LEMMA DropFrame ==
  ASSUME DropInv, client_arr' = client_arr, entitled' \subseteq entitled,
         pc'["server"] = pc["server"], client_fd'["server"] = client_fd["server"],
         whom'["server"] = whom["server"],
         \A i \in DOMAIN queue' : \E j \in DOMAIN queue : queue'[i].id = queue[j].id,
         pc'["response"] \in Busy =>
           \/ pc["response"] \in Busy /\ whom'["response"] = whom["response"]
           \/ \E j \in DOMAIN queue : whom'["response"] = queue[j].id
  PROVE  DropInv'
  BY DEF DropInv, InPool

\* What leaves the slots and the clients alone keeps EntitledInv.
LEMMA EntitledFrame ==
  ASSUME EntitledInv, client_arr' = client_arr,
         \A c \in entitled' : c \in entitled /\ peer'[c] = peer[c]
                            /\ (inbox'[c] = inbox[c] \/ inbox'[c] # "garbage")
  PROVE  EntitledInv'
  BY DEF EntitledInv, InPool

\* The clients.  One that hangs up while it has a request that is unanswered is
\* impatient; one that has none is none of those served.
LEMMA PatientClients ==
  ASSUME TypeOK, PoolInv, PatientInv, NEW c \in Conns,
         Connect(c) \/ Send(c) \/ HangUp(c), ~impatient'
  PROVE  PatientInv'
<1> USE Small DEF TypeOK, kernel, pool, locals, ghosts
<1>1. WatchInv'
  <2>1. UNCHANGED <<doubled, serv_set, word, read_set, client_arr, pc, client_fd>>
    BY DEF Connect, Send, HangUp
  <2>2. QED
    BY <2>1, WatchFrame DEF PatientInv
<1>2. CASE Connect(c)
  <2>1. /\ peer[c] = "new" /\ peer' = [peer EXCEPT ![c] = "open"]
        /\ UNCHANGED <<inbox, fds, queue, pc, client_fd, whom, entitled, client_arr>>
    BY <1>2 DEF Connect
  <2>2. ServedInv'
    BY <2>1, QueueTypes DEF PatientInv, ServedInv, Served
  <2>3. DropInv'
    BY <2>1, DropFrame DEF PatientInv
  <2>4. EntitledInv'
    BY <2>1, EntitledFrame DEF PatientInv, EntitledInv
  <2>5. QED
    BY <1>1, <2>2, <2>3, <2>4 DEF PatientInv
<1>3. CASE Send(c)
  <2>1. /\ peer[c] = "open" /\ inbox[c] = "unsent"
        /\ UNCHANGED <<peer, fds, queue, pc, client_fd, whom, client_arr>>
    BY <1>3 DEF Send
  <2>2. PICK m \in {"request", "half", "garbage"} :
          /\ inbox' = [inbox EXCEPT ![c] = m]
          /\ entitled' = IF m = "garbage" THEN entitled \ {c} ELSE entitled
    BY <1>3 DEF Send
  <2>3. ServedInv'
    BY <2>1, <2>2, QueueTypes DEF PatientInv, ServedInv, Served
  <2>4. DropInv'
    BY <2>1, <2>2, DropFrame DEF PatientInv
  <2>5. EntitledInv'
    <3>1. \A e \in entitled' : e \in entitled /\ (e = c => inbox'[e] # "garbage")
      BY <2>1, <2>2
    <3>2. \A e : e # c => inbox'[e] = inbox[e]
      BY <2>2
    <3>3. QED
      BY <2>1, <3>1, <3>2, EntitledFrame DEF PatientInv
  <2>6. QED
    BY <1>1, <2>3, <2>4, <2>5 DEF PatientInv
<1>4. CASE HangUp(c)
  <2>1. /\ peer' = [peer EXCEPT ![c] = "closed"]
        /\ entitled' = entitled \ {c}
        /\ UNCHANGED <<inbox, fds, queue, pc, client_fd, whom, client_arr>>
    BY <1>4 DEF HangUp
  <2>2. ~Unanswered(c)
    BY <1>4, Zenon DEF HangUp
  <2>3. /\ inbox[c] # "request"
        /\ \A i \in DOMAIN queue : queue[i].id # c
        /\ pc["response"] \in Busy => whom["response"] # c
    BY <2>2 DEF Unanswered, Busy
  <2>4. ServedInv'
    BY <2>1, <2>3, QueueTypes DEF PatientInv, ServedInv, Served
  <2>5. DropInv'
    BY <2>1, DropFrame DEF PatientInv
  <2>6. EntitledInv'
    <3>1. \A e \in entitled' : e \in entitled /\ peer'[e] = peer[e]
      BY <2>1
    <3>2. QED
      BY <2>1, <3>1, EntitledFrame DEF PatientInv
  <2>7. QED
    BY <1>1, <2>4, <2>5, <2>6 DEF PatientInv
<1>5. QED
  BY <1>2, <1>3, <1>4

\* The response thread answers clients that are there, and drops none.
LEMMA PatientResponse ==
  ASSUME TypeOK, PlaceInv, PoolInv, PatientInv, Response
  PROVE  PatientInv'
<1> USE Small DEF TypeOK, kernel, pool, locals, ghosts, Goto, Done, Threads
<1>1. CASE Dequeue
  <2>1. /\ queue # <<>> /\ queue' = Tail(queue)
        /\ pc' = [pc EXCEPT !["response"] = "broadcast"]
        /\ client_fd' = [client_fd EXCEPT !["response"] = Head(queue).fd]
        /\ whom' = [whom EXCEPT !["response"] = Head(queue).id]
        /\ UNCHANGED <<kernel, client_arr, serv_set, word, read_set, doubled, entitled>>
    BY <1>1 DEF Dequeue
  <2>2. /\ 1 \in DOMAIN queue /\ Head(queue) = queue[1]
        /\ \A i \in DOMAIN queue' : i + 1 \in DOMAIN queue /\ queue'[i] = queue[i + 1]
    BY <2>1
  <2>3. ServedInv'
    <3>1. /\ queue[1].id \in Conns /\ Served(queue[1].fd, queue[1].id)
      BY <2>2, QueueTypes DEF PatientInv, ServedInv
    <3>2. pc'["response"] = "broadcast" /\ client_fd'["response"] = queue[1].fd
            /\ whom'["response"] = queue[1].id
      BY <2>1, <2>2
    <3>3. \A i \in DOMAIN queue' : Served(queue'[i].fd, queue'[i].id)
      BY <2>2 DEF PatientInv, ServedInv
    <3>4. QED
      BY <2>1, <3>1, <3>2, <3>3 DEF PatientInv, ServedInv, Served, Dropping
  <2>4. DropInv'
    <3>1. whom'["response"] = queue[1].id
      BY <2>1, <2>2
    <3>2. \A i \in DOMAIN queue' : \E j \in DOMAIN queue : queue'[i].id = queue[j].id
      BY <2>2
    <3>3. pc'["server"] = pc["server"] /\ client_fd'["server"] = client_fd["server"]
            /\ whom'["server"] = whom["server"]
      BY <2>1
    <3>4. QED
      BY <2>1, <2>2, <3>1, <3>2, <3>3, DropFrame DEF PatientInv
  <2>5. WatchInv'
    BY <2>1, WatchFrame DEF PatientInv
  <2>6. EntitledInv'
    BY <2>1, EntitledFrame DEF PatientInv
  <2>7. QED
    BY <2>3, <2>4, <2>5, <2>6 DEF PatientInv
<1>2. ASSUME pc["response"] \in Busy, pc'["response"] \in Busy \cup {"dequeue", "faulted"},
             pc'["server"] = pc["server"],
             client_fd'["server"] = client_fd["server"],
             whom'["server"] = whom["server"],
             pc'["response"] \in Busy => UNCHANGED <<client_fd, whom>>,
             UNCHANGED <<peer, inbox, accepted, fds, queue, client_arr,
                         serv_set, word, read_set, doubled, entitled>>
      PROVE  PatientInv'
  <2>1. ServedInv'
    BY <1>2 DEF PatientInv, ServedInv, Served, Busy, Dropping
  <2>2. DropInv'
    BY <1>2, DropFrame DEF PatientInv
  <2>3. WatchInv'
    BY <1>2, WatchFrame DEF PatientInv
  <2>4. EntitledInv'
    BY <1>2, EntitledFrame DEF PatientInv
  <2>5. QED
    BY <2>1, <2>2, <2>3, <2>4 DEF PatientInv
<1>3. CASE CountAudience
  BY <1>2, <1>3 DEF CountAudience, Busy
<1>4. CASE SizeArray
  BY <1>2, <1>4 DEF SizeArray, Busy
<1>5. CASE CopyArray
  BY <1>2, <1>5 DEF CopyArray, Busy
<1>6. CASE TellNext
  BY <1>2, <1>6 DEF TellNext, Busy
<1>7. CASE Answer
  <2>1. pc["response"] = "answer" /\ Reaches(client_fd["response"])
    BY <1>7 DEF Answer, PatientInv, ServedInv, Served, Busy, Reaches
  <2>2. QED
    BY <1>2, <1>7, <2>1 DEF Answer, Busy
<1>8. CASE Disconnect("response")
  BY <1>8 DEF PatientInv, ServedInv, Dropping, Disconnect, FdClear, ReadWord,
              WriteWord, FindSlot, RemoveClient
<1>9. CASE ExecuteFaults \/ ExecuteDrops
  BY <1>2, <1>9 DEF ExecuteFaults, ExecuteDrops, Busy
<1>10. QED
  BY <1>1, <1>3, <1>4, <1>5, <1>6, <1>7, <1>8, <1>9 DEF Response

\* The client that the server thread is about to drop is one that hung up or
\* sent what is no message: neither entitled nor served.
LEMMA DropReceive ==
  ASSUME TypeOK, PlaceInv, PoolInv, PatientInv, ReceiveFails
  PROVE  DropInv'
<1> USE Small DEF TypeOK, PatientInv, kernel, pool, locals, Goto
<1> DEFINE f == client_fd["server"]
           c == fds[f]
<1>1. pc["server"] = "receive" /\ HasSlot(f) /\ ~doubled
  BY DEF ReceiveFails, WatchInv
<1>2. f \in Fds \ {0} /\ c \in Conns /\ InPool(f, c)
  BY <1>1, SlotIsOpen
<1>3. inbox[c] = "garbage" \/ (peer[c] = "closed" /\ inbox[c] # "request")
  BY <1>2 DEF ReceiveFails, Lost, Received, Conns, Free
<1>4. /\ whom' = [whom EXCEPT !["server"] = c]
      /\ UNCHANGED <<client_fd, client_arr, queue, entitled>>
      /\ pc' = [pc EXCEPT !["server"] = "clear"]
  BY <1>2 DEF ReceiveFails, Received, ghosts
<1> HIDE DEF f
<1>5. c \notin entitled
  BY <1>3 DEF EntitledInv
<1>6. \A i \in DOMAIN queue : queue[i].id # c
  BY <1>3 DEF ServedInv, Served
<1>7. pc["response"] \in Busy => whom["response"] # c
  BY <1>3 DEF ServedInv, Served
<1>8. whom'["server"] = c /\ whom'["response"] = whom["response"] /\ client_fd'["server"] = f
        /\ pc'["response"] = pc["response"]
  BY <1>4, Small DEF f
<1>9. InPool(f, c)
  BY <1>2
<1> HIDE DEF c
<1>10. QED
  BY <1>4, <1>5, <1>6, <1>7, <1>8, <1>9 DEF DropInv, InPool

\* The server thread keeps DropInv.
LEMMA DropServer ==
  ASSUME TypeOK, PlaceInv, PoolInv, PatientInv, Server
  PROVE  DropInv'
<1> USE Small DEF TypeOK, PatientInv, kernel, pool, locals, ghosts, Goto, Done, Threads
<1>1. ASSUME pc["server"] \in Dropping, UNCHANGED <<client_arr, entitled, queue, client_fd, whom>>,
             pc'["response"] = pc["response"]
      PROVE  DropInv'
  BY <1>1 DEF DropInv, InPool
<1>2. CASE CopySet \/ Select \/ Interrupted \/ ReceiveFaults
  BY <1>2 DEF CopySet, Select, Interrupted, ReceiveFaults, DropInv, Dropping
<1>3. CASE Selected
  <2>1. pc'["server"] \in {"accept", "scan"}
    BY <1>3 DEF Selected
  <2>2. QED
    BY <2>1 DEF DropInv, Dropping
<1>4. CASE Accept \/ Count \/ AddAborts
  BY <1>4 DEF Accept, Count, AddAborts, DropInv, Dropping
<1>5. CASE AddClient
  BY <1>5 DEF AddClient, DropInv, Dropping
<1>6. CASE AddFails \/ FdSet
  BY <1>6 DEF AddFails, FdSet, ReadWord, WriteWord, DropInv, Dropping
<1>7. CASE Scan
  BY <1>7 DEF Scan, DropInv, Dropping
<1>8. CASE ReceiveRequest \/ ReceiveTimesOut
  BY <1>8 DEF ReceiveRequest, ReceiveTimesOut, DropInv, Dropping
<1>9. CASE FdClear("server")
  BY <1>1, <1>9 DEF FdClear, ReadWord, WriteWord, Dropping
<1>10. CASE FindSlot("server") /\ SlotOf(client_fd["server"]) = {}
  BY <1>10 DEF FindSlot, Resume, DropInv, Dropping
<1>11. CASE FindSlot("server") /\ SlotOf(client_fd["server"]) # {}
  <2>1. /\ pc["server"] = "find" /\ pc'["response"] = pc["response"]
        /\ UNCHANGED <<client_arr, entitled, queue, client_fd, whom>>
    BY <1>11 DEF FindSlot
  <2>2. QED
    BY <1>1, <2>1 DEF Dropping
<1>12. CASE RemoveClient("server")
  BY <1>12 DEF RemoveClient, Resume, DropInv, Dropping
<1>13. QED
  BY <1>2, <1>3, <1>4, <1>5, <1>6, <1>7, <1>8, <1>9, <1>10, <1>11, <1>12, DropReceive
  DEF Server, Disconnect, FindSlot

\* Clients that are entitled to their slot keep it.
LEMMA EntitledServer ==
  ASSUME TypeOK, PlaceInv, PoolInv, PatientInv, Server
  PROVE  EntitledInv'
<1> USE Small DEF TypeOK, PatientInv, kernel, pool, ghosts
<1>1. CASE CopySet \/ Select \/ Interrupted \/ ReceiveFaults
  BY <1>1, EntitledFrame DEF CopySet, Select, Interrupted, ReceiveFaults
<1>2. CASE Selected
  BY <1>2, EntitledFrame DEF Selected
<1>3. CASE Accept \/ Count \/ AddAborts \/ AddFails
  BY <1>3, EntitledFrame DEF Accept, Count, AddAborts, AddFails
<1>4. CASE AddClient
  <2> DEFINE s0 == Min(SlotOf(0))
             f  == client_fd["server"]
             c  == whom["server"]
  <2>1. s0 \in Slots /\ client_arr[s0].fd = 0 /\ f \in Fds /\ f # 0
    BY <1>4, SlotFound DEF AddClient, Asserted
  <2>2. /\ client_arr' = [client_arr EXCEPT ![s0] = [fd |-> f, id |-> c]]
        /\ entitled' = entitled \cup
             {d \in {c} : peer[d] = "open" /\ inbox[d] # "garbage"}
        /\ UNCHANGED <<peer, inbox>>
    BY <1>4 DEF AddClient
  <2> HIDE DEF s0, f, c
  <2>3. \A e \in entitled' : peer'[e] = "open" /\ inbox'[e] # "garbage"
    BY <2>2 DEF EntitledInv
  <2>4. client_arr'[s0] = [fd |-> f, id |-> c]
    BY <2>1, <2>2
  <2>5. ASSUME NEW e \in entitled
        PROVE  \E g \in Fds : g # 0 /\ \E s \in Slots : client_arr'[s] = [fd |-> g, id |-> e]
    <3>1. PICK g \in Fds : InPool(g, e)
      BY <2>5 DEF EntitledInv
    <3>2. PICK s \in Slots : client_arr[s] = [fd |-> g, id |-> e]
      BY <3>1 DEF InPool
    <3>3. s # s0 /\ g # 0
      BY <2>1, <3>1, <3>2 DEF InPool
    <3>4. client_arr'[s] = [fd |-> g, id |-> e]
      BY <2>2, <3>2, <3>3
    <3>5. QED
      BY <3>3, <3>4
  <2>6. \A e \in entitled' \ entitled : e = c
    BY <2>2
  <2>7. QED
    BY <2>1, <2>3, <2>4, <2>5, <2>6 DEF EntitledInv, InPool
<1>5. CASE FdSet
  BY <1>5, EntitledFrame DEF FdSet, ReadWord, WriteWord
<1>6. CASE Scan
  BY <1>6, EntitledFrame DEF Scan
<1>7. CASE ReceiveRequest \/ ReceiveTimesOut \/ ReceiveFails
  <2>1. /\ UNCHANGED <<client_arr, entitled, peer>>
        /\ \A e \in Conns : inbox'[e] = inbox[e] \/ inbox'[e] = "read"
    BY <1>7 DEF ReceiveRequest, ReceiveTimesOut, ReceiveFails
  <2>2. QED
    BY <2>1, EntitledFrame
<1>8. CASE FdClear("server") \/ FindSlot("server")
  BY <1>8, EntitledFrame DEF FdClear, ReadWord, WriteWord, FindSlot
<1>9. CASE RemoveClient("server")
  <2>1. ~doubled /\ pc["server"] = "close"
    BY <1>9 DEF WatchInv, RemoveClient
  <2>2. /\ client_arr[idx["server"]] = [fd |-> client_fd["server"], id |-> whom["server"]]
        /\ whom["server"] \notin entitled
    BY <2>1 DEF PoolInv, DropInv, Dropping
  <2>3. /\ client_arr' = [client_arr EXCEPT ![idx["server"]] = Empty]
        /\ UNCHANGED <<entitled, peer, inbox>>
    BY <1>9 DEF RemoveClient
  <2>4. ASSUME NEW e \in entitled
        PROVE  \E g \in Fds : g # 0 /\ \E s \in Slots : client_arr'[s] = [fd |-> g, id |-> e]
    <3>1. PICK g \in Fds : InPool(g, e)
      BY <2>4 DEF EntitledInv
    <3>2. PICK s \in Slots : client_arr[s] = [fd |-> g, id |-> e]
      BY <3>1 DEF InPool
    <3>3. s # idx["server"] /\ g # 0
      BY <2>2, <2>4, <3>1, <3>2 DEF InPool
    <3>4. client_arr'[s] = [fd |-> g, id |-> e]
      BY <2>3, <3>2, <3>3
    <3>5. QED
      BY <3>3, <3>4
  <2>5. QED
    BY <2>3, <2>4 DEF EntitledInv, InPool
<1>10. QED
  BY <1>1, <1>2, <1>3, <1>4, <1>5, <1>6, <1>7, <1>8, <1>9 DEF Server, Disconnect

\* The server thread selects on descriptors of clients in the pool only.
LEMMA WatchServer ==
  ASSUME TypeOK, PlaceInv, PoolInv, PatientInv, Server
  PROVE  WatchInv'
<1> USE Small DEF TypeOK, PatientInv, kernel, pool, ghosts, locals, Goto, Done
<1>0. ~doubled
  BY DEF WatchInv
<1>1. ASSUME UNCHANGED <<doubled, serv_set, client_arr>>,
             pc'["server"] \in {"copy", "blocked", "accept", "count", "add",
                                "scan", "clear", "aborted", "faulted"}
      PROVE  WatchInv'
  BY <1>1 DEF WatchInv, HasSlot
<1>2. CASE CopySet
  BY <1>2 DEF CopySet, WatchInv, HasSlot
<1>3. CASE Select
  <2>1. \A f \in read_set : fds[f] # Free
    BY <1>0, <1>3, SlotIsOpen DEF Select, WatchInv, Conns, Free
  <2>2. QED
    BY <1>1, <1>3, <2>1 DEF Select
<1>4. CASE Selected \/ Interrupted \/ ReceiveFaults
  BY <1>1, <1>4 DEF Selected, Interrupted, ReceiveFaults
<1>5. CASE Accept \/ AddAborts \/ AddFails
  BY <1>1, <1>5 DEF Accept, AddAborts, AddFails
<1>6. CASE Count
  BY <1>1, <1>6 DEF Count
<1>7. CASE AddClient
  <2> DEFINE s0 == Min(SlotOf(0))
  <2>1. s0 \in Slots /\ client_arr[s0].fd = 0
    BY <1>7, SlotFound DEF AddClient
  <2>2. /\ client_arr' = [client_arr EXCEPT ![s0] =
                            [fd |-> client_fd["server"], id |-> whom["server"]]]
        /\ UNCHANGED <<doubled, serv_set, client_fd>>
        /\ pc'["server"] = "set" /\ client_fd["server"] # 0
    BY <1>7 DEF AddClient, Asserted
  <2> HIDE DEF s0
  <2>3. \A f : HasSlot(f) => \E s \in Slots : client_arr'[s].fd = f
    BY <2>1, <2>2 DEF HasSlot
  <2>4. client_arr'[s0].fd = client_fd["server"]
    BY <2>1, <2>2
  <2>5. QED
    BY <2>1, <2>2, <2>3, <2>4 DEF WatchInv, HasSlot
<1>8. CASE FdSet
  <2>1. CASE ReadWord("server", "set", "setting")
    BY <2>1 DEF ReadWord, WatchInv, HasSlot
  <2>2. CASE WriteWord("server", "setting", "scan",
                       word["server"] \cup {client_fd["server"]})
    BY <2>2 DEF WriteWord, WatchInv, HasSlot
  <2>3. QED
    BY <1>8, <2>1, <2>2 DEF FdSet
<1>9. CASE Scan
  <2>1. CASE pc'["server"] = "receive"
    <3>1. /\ turn \in Slots /\ client_fd'["server"] = client_arr[turn].fd
          /\ client_arr[turn].fd # 0
          /\ UNCHANGED <<doubled, serv_set, client_arr>>
      BY <1>9, <2>1 DEF Scan, Slots
    <3>2. QED
      BY <2>1, <3>1 DEF WatchInv, HasSlot
  <2>2. CASE pc'["server"] # "receive"
    BY <1>1, <1>9, <2>2 DEF Scan
  <2>3. QED
    BY <2>1, <2>2
<1>10. CASE ReceiveRequest \/ ReceiveTimesOut \/ ReceiveFails
  BY <1>1, <1>10 DEF ReceiveRequest, ReceiveTimesOut, ReceiveFails
<1>11. CASE FdClear("server")
  <2>1. CASE ReadWord("server", "clear", "clearing")
    BY <2>1 DEF ReadWord, WatchInv, HasSlot
  <2>2. CASE WriteWord("server", "clearing", "find",
                       word["server"] \ {client_fd["server"]})
    BY <2>2 DEF WriteWord, WatchInv, HasSlot
  <2>3. QED
    BY <1>11, <2>1, <2>2 DEF FdClear
<1>12. CASE FindSlot("server")
  <2>1. CASE SlotOf(client_fd["server"]) = {}
    BY <1>1, <1>12, <2>1 DEF FindSlot, Resume
  <2>2. CASE SlotOf(client_fd["server"]) # {}
    <3> DEFINE s == Min(SlotOf(client_fd["server"]))
    <3>1. s \in Slots /\ client_arr[s].fd = client_fd["server"]
      BY <2>2, SlotFound
    <3>2. /\ pc["server"] = "find" /\ pc'["server"] = "close"
          /\ UNCHANGED <<serv_set, client_arr, client_fd>>
          /\ doubled' = \/ doubled
                        \/ client_arr[s].id # whom["server"]
                        \/ /\ pc["response"] = "close"
                           /\ client_fd["response"] = client_fd["server"]
      BY <1>12, <2>2 DEF FindSlot, Other
    <3> HIDE DEF s
    <3>3. client_arr[s].id = whom["server"]
      <4>1. PICK r \in Slots :
              client_arr[r] = [fd |-> client_fd["server"], id |-> whom["server"]]
        BY <3>2 DEF DropInv, Dropping, InPool
      <4>2. r = s
        BY <1>0, <3>1, <3>2, <4>1 DEF PoolInv, Occupied, PlaceInv, Dropping
      <4>3. QED
        BY <4>1, <4>2
    <3>4. pc["response"] # "close"
      BY DEF ServedInv, Dropping
    <3>5. ~doubled'
      BY <1>0, <3>2, <3>3, <3>4, Zenon
    <3>6. QED
      BY <3>2, <3>5 DEF WatchInv, HasSlot
  <2>3. QED
    BY <2>1, <2>2
<1>13. CASE RemoveClient("server")
  <2>1. /\ pc["server"] = "close" /\ pc'["server"] = "scan"
        /\ client_arr' = [client_arr EXCEPT ![idx["server"]] = Empty]
        /\ UNCHANGED <<doubled, serv_set>>
    BY <1>13 DEF RemoveClient, Resume
  <2>2. client_arr[idx["server"]].fd = client_fd["server"]
    <3>1. client_arr[idx["server"]] = [fd |-> client_fd["server"], id |-> whom["server"]]
      BY <1>0, <2>1 DEF PoolInv
    <3>2. QED
      BY <3>1
  <2>3. \A f \in serv_set : f # client_fd["server"] /\ HasSlot(f)
    BY <2>1 DEF WatchInv
  <2>4. \A f \in serv_set : f # 0 /\ \E s \in Slots : client_arr'[s].fd = f
    BY <2>1, <2>2, <2>3 DEF HasSlot
  <2>5. QED
    BY <2>1, <2>4 DEF WatchInv, HasSlot
<1>14. QED
  BY <1>2, <1>3, <1>4, <1>5, <1>6, <1>7, <1>8, <1>9, <1>10, <1>11, <1>12, <1>13
  DEF Server, Disconnect

\* What happened once has happened.
LEMMA HistoryIsForGood ==
  ASSUME [Next]_vars
  PROVE  /\ impatient => impatient'
         /\ doubled => doubled'
         /\ raced => raced'
<1> DEFINE Kept == (impatient => impatient') /\ (doubled => doubled') /\ (raced => raced')
<1> USE DEF ghosts, cast, kernel, pool, locals
<1>0. ASSUME NEW t, NEW from, NEW to, NEW new,
             ReadWord(t, from, to) \/ WriteWord(t, from, to, new)
      PROVE  Kept
  <2>1. CASE ReadWord(t, from, to)
    BY <2>1 DEF ReadWord
  <2>2. CASE WriteWord(t, from, to, new)
    <3>1. raced' = (raced \/ serv_set # word[t]) /\ UNCHANGED <<doubled, impatient>>
      BY <2>2 DEF WriteWord
    <3>2. QED
      BY <3>1, Zenon
  <2>3. QED
    BY <1>0, <2>1, <2>2
<1>1. ASSUME NEW t \in Threads, Disconnect(t) PROVE Kept
  <2>1. CASE FdClear(t)
    BY <1>0, <2>1 DEF FdClear
  <2>2. CASE FindSlot(t)
    <3>1. UNCHANGED <<raced, impatient>>
      BY <2>2 DEF FindSlot
    <3>2. CASE SlotOf(client_fd[t]) = {}
      BY <2>2, <3>1, <3>2 DEF FindSlot
    <3>3. CASE SlotOf(client_fd[t]) # {}
      <4>1. ~doubled' => ~doubled
        BY <2>2, <3>3, Zenon DEF FindSlot
      <4>2. QED
        BY <3>1, <4>1
    <3>4. QED
      BY <3>2, <3>3
  <2>3. CASE RemoveClient(t)
    BY <2>3 DEF RemoveClient
  <2>4. QED
    BY <1>1, <2>1, <2>2, <2>3 DEF Disconnect
<1>2. CASE Server
  <2>1. CASE \/ CopySet \/ Select \/ Selected \/ Interrupted \/ ReceiveFaults
             \/ Accept \/ Count
    BY <2>1 DEF CopySet, Select, Selected, Interrupted, ReceiveFaults, Accept, Count
  <2>2. CASE AddAborts \/ AddClient \/ AddFails \/ Scan
    BY <2>2 DEF AddAborts, AddClient, AddFails, Scan
  <2>3. CASE FdSet
    BY <1>0, <2>3 DEF FdSet
  <2>4. CASE ReceiveRequest \/ ReceiveTimesOut \/ ReceiveFails
    BY <2>4 DEF ReceiveRequest, ReceiveTimesOut, ReceiveFails
  <2>5. QED
    BY <1>1, <1>2, <2>1, <2>2, <2>3, <2>4, Small DEF Server
<1>3. CASE Response
  <2>1. CASE \/ Dequeue \/ ExecuteFaults \/ ExecuteDrops
             \/ CountAudience \/ SizeArray \/ CopyArray \/ TellNext \/ Answer
    BY <2>1 DEF Dequeue, ExecuteFaults, ExecuteDrops, CountAudience, SizeArray,
       CopyArray, TellNext, Answer
  <2>2. QED
    BY <1>1, <1>3, <2>1, Small DEF Response
<1>4. ASSUME NEW c \in Conns, Connect(c) \/ Send(c) \/ HangUp(c) PROVE Kept
  <2>1. CASE Connect(c) \/ Send(c)
    BY <2>1 DEF Connect, Send
  <2>2. CASE HangUp(c)
    <3>1. (impatient => impatient') /\ UNCHANGED <<raced, doubled>>
      BY <2>2, Zenon DEF HangUp
    <3>2. QED
      BY <3>1
  <2>3. QED
    BY <1>4, <2>1, <2>2
<1>5. CASE UNCHANGED vars
  BY <1>5 DEF vars
<1>6. QED
  BY <1>2, <1>3, <1>4, <1>5 DEF Next

\* Every step keeps PatientInv.
LEMMA PatientStep ==
  ASSUME IInv, [Next]_vars, ~impatient'
  PROVE  PatientInv'
<1>1. TypeOK /\ KernelInv /\ PlaceInv /\ PoolInv /\ PatientInv
  BY HistoryIsForGood DEF IInv
<1>2. CASE Server
  BY <1>1, <1>2, ServedServer, DropServer, EntitledServer, WatchServer DEF PatientInv
<1>3. CASE Response
  BY <1>1, <1>3, PatientResponse
<1>4. ASSUME NEW c \in Conns, Connect(c) \/ Send(c) \/ HangUp(c) PROVE PatientInv'
  BY <1>1, <1>4, PatientClients
<1>5. CASE UNCHANGED vars
  <2>1. UNCHANGED <<kernel, client_arr, serv_set, pc, client_fd, whom, word,
                    read_set, queue, doubled, entitled>>
    BY <1>5 DEF vars, pool, locals, ghosts
  <2>2. ServedInv'
    BY <1>1, <2>1 DEF PatientInv, ServedInv, Served, kernel
  <2>3. DropInv' /\ EntitledInv' /\ WatchInv'
    BY <1>1, <2>1, DropFrame, EntitledFrame, WatchFrame DEF PatientInv, kernel
  <2>4. QED
    BY <2>2, <2>3 DEF PatientInv
<1>6. QED
  BY <1>2, <1>3, <1>4, <1>5 DEF Next

-----------------------------------------------------------------------------
\* Who has been read from.

\* What reads from nobody, and adds nobody, keeps ReadInv.
LEMMA ReadFrame ==
  ASSUME TypeOK, ReadInv, accepted' = accepted,
         \A c \in Conns : inbox'[c] = "read" <=> inbox[c] = "read",
         \A i \in DOMAIN queue' : \E j \in DOMAIN queue : queue'[i].id = queue[j].id,
         pc'["response"] # "dequeue" =>
           \/ pc["response"] # "dequeue" /\ whom'["response"] = whom["response"]
           \/ \E j \in DOMAIN queue : whom'["response"] = queue[j].id,
         pc'["server"] \in {"count", "add", "set", "setting"} =>
           /\ pc["server"] \in {"count", "add", "set", "setting"}
           /\ whom'["server"] = whom["server"]
  PROVE  ReadInv'
  BY QueueTypes DEF ReadInv

\* A client is read from only while the server thread adds none.
LEMMA ReadReceive ==
  ASSUME TypeOK, KernelInv, PlaceInv, ReadInv,
         ReceiveRequest \/ ReceiveTimesOut \/ ReceiveFails
  PROVE  ReadInv'
<1> USE Small DEF TypeOK, kernel, pool, locals, ghosts, Goto, Done, Threads
<1>1. \A c \in Conns : inbox'[c] = inbox[c] \/ (inbox'[c] = "read" /\ c = Received)
  BY DEF ReceiveRequest, ReceiveTimesOut, ReceiveFails
<1>2. /\ pc'["server"] \in {"scan", "clear"} /\ accepted' = accepted
      /\ pc'["response"] = pc["response"] /\ whom'["response"] = whom["response"]
  BY DEF ReceiveRequest, ReceiveTimesOut, ReceiveFails
<1>3. Received \in Conns => Received <= accepted
  BY DEF Received, KernelInv
<1>4. \A i \in DOMAIN queue' : inbox'[queue'[i].id] = "read"
  <2>1. CASE ReceiveRequest
    <3>1. /\ Received \in Conns /\ inbox' = [inbox EXCEPT ![Received] = "read"]
          /\ queue' = Append(queue, [fd |-> client_fd["server"], id |-> Received])
      BY <2>1 DEF ReceiveRequest, Node
    <3>2. SUFFICES ASSUME NEW i \in DOMAIN queue' PROVE inbox'[queue'[i].id] = "read"
      OBVIOUS
    <3>3. \/ i \in DOMAIN queue /\ queue'[i] = queue[i]
          \/ queue'[i] = [fd |-> client_fd["server"], id |-> Received]
      BY <3>1, <3>2
    <3>4. CASE i \in DOMAIN queue /\ queue'[i] = queue[i]
      BY <3>1, <3>4, QueueTypes DEF ReadInv
    <3>5. CASE queue'[i] = [fd |-> client_fd["server"], id |-> Received]
      BY <3>1, <3>5
    <3>6. QED
      BY <3>3, <3>4, <3>5
  <2>2. CASE ReceiveTimesOut \/ ReceiveFails
    <3>1. queue' = queue
      BY <2>2 DEF ReceiveTimesOut, ReceiveFails
    <3>2. QED
      BY <1>1, <3>1, QueueTypes DEF ReadInv
  <2>3. QED
    BY <2>1, <2>2
<1>5. QED
  BY <1>1, <1>2, <1>3, <1>4 DEF ReadInv

\* disconnect_client keeps ReadInv.
LEMMA ReadDisconnect ==
  ASSUME TypeOK, ReadInv, NEW t \in Threads, Disconnect(t)
  PROVE  ReadInv'
<1> USE Small DEF TypeOK, kernel, pool, locals, ghosts, Goto, Done, Threads, Resume
<1>1. CASE FdClear(t)
  BY <1>1, ReadFrame DEF FdClear, ReadWord, WriteWord
<1>2. CASE FindSlot(t) /\ SlotOf(client_fd[t]) = {}
  BY <1>2, ReadFrame DEF FindSlot
<1>3. CASE FindSlot(t) /\ SlotOf(client_fd[t]) # {}
  <2>1. /\ pc[t] = "find" /\ pc' = [pc EXCEPT ![t] = "close"]
        /\ UNCHANGED <<accepted, inbox, queue, whom>>
    BY <1>3, Zenon DEF FindSlot, Goto, kernel
  <2>2. QED
    BY <2>1, ReadFrame
<1>4. CASE RemoveClient(t)
  BY <1>4, ReadFrame DEF RemoveClient
<1>5. QED
  BY <1>1, <1>2, <1>3, <1>4 DEF Disconnect, FindSlot

\* Every step keeps ReadInv.
LEMMA ReadStep ==
  ASSUME TypeOK, KernelInv, PlaceInv, ReadInv, [Next]_vars
  PROVE  ReadInv'
<1> USE Small DEF TypeOK, kernel, pool, locals, ghosts, Goto, Done, Threads
<1>1. CASE Server
  <2>1. CASE CopySet \/ Select \/ Interrupted \/ ReceiveFaults
    BY <2>1, ReadFrame DEF CopySet, Select, Interrupted, ReceiveFaults
  <2>2. CASE Selected
    <3>1. /\ pc' = [pc EXCEPT !["server"] = pc'["server"]]
          /\ pc'["server"] \in {"accept", "scan"}
          /\ UNCHANGED <<accepted, inbox, queue, whom>>
      BY <2>2 DEF Selected
    <3>2. QED
      BY <3>1, ReadFrame
  <2>3. CASE Accept
    <3>1. accepted < NConns
      BY <2>3 DEF Accept, PlaceInv
    <3>2. accepted + 1 \in Conns /\ inbox[accepted + 1] # "read"
      BY <3>1 DEF ReadInv, Conns
    <3>3. QED
      BY <2>3, <3>2 DEF Accept, ReadInv
  <2>4. CASE Count
    BY <2>4, ReadFrame DEF Count
  <2>5. CASE AddAborts \/ AddClient \/ AddFails
    BY <2>5, ReadFrame DEF AddAborts, AddClient, AddFails
  <2>6. CASE FdSet
    BY <2>6, ReadFrame DEF FdSet, ReadWord, WriteWord
  <2>7. CASE Scan
    BY <2>7, ReadFrame DEF Scan
  <2>8. QED
    BY <1>1, <2>1, <2>2, <2>3, <2>4, <2>5, <2>6, <2>7, ReadReceive, ReadDisconnect
    DEF Server
<1>2. CASE Response
  <2>1. CASE Dequeue
    <3>1. /\ queue # <<>> /\ queue' = Tail(queue)
          /\ pc' = [pc EXCEPT !["response"] = "broadcast"]
          /\ whom' = [whom EXCEPT !["response"] = Head(queue).id]
          /\ UNCHANGED <<accepted, inbox>>
      BY <2>1 DEF Dequeue
    <3>2. /\ 1 \in DOMAIN queue /\ Head(queue) = queue[1]
          /\ \A i \in DOMAIN queue' : i + 1 \in DOMAIN queue /\ queue'[i] = queue[i + 1]
      BY <3>1
    <3>3. /\ whom'["response"] = queue[1].id
          /\ \A i \in DOMAIN queue' : \E j \in DOMAIN queue : queue'[i].id = queue[j].id
          /\ pc'["server"] = pc["server"] /\ whom'["server"] = whom["server"]
      BY <3>1, <3>2
    <3>4. QED
      BY <3>1, <3>2, <3>3, ReadFrame
  <2>2. CASE CountAudience \/ SizeArray
    BY <2>2, ReadFrame DEF CountAudience, SizeArray
  <2>3. CASE CopyArray \/ TellNext
    BY <2>3, ReadFrame DEF CopyArray, TellNext
  <2>4. CASE ExecuteFaults \/ ExecuteDrops \/ Answer
    BY <2>4, ReadFrame DEF ExecuteFaults, ExecuteDrops, Answer
  <2>5. QED
    BY <1>2, <2>1, <2>2, <2>3, <2>4, ReadDisconnect DEF Response
<1>3. ASSUME NEW c \in Conns, Connect(c) \/ Send(c) \/ HangUp(c) PROVE ReadInv'
  <2>1. \A d \in Conns : inbox'[d] = "read" <=> inbox[d] = "read"
    BY <1>3 DEF Connect, Send, HangUp
  <2>2. QED
    BY <1>3, <2>1, ReadFrame DEF Connect, Send, HangUp
<1>4. CASE UNCHANGED vars
  BY <1>4, ReadFrame DEF vars
<1>5. QED
  BY <1>1, <1>2, <1>3, <1>4 DEF Next

-----------------------------------------------------------------------------
\* The descriptor set.

\* What leaves the set and the slots alone keeps SetInv.
LEMMA SetFrame ==
  ASSUME SetInv, UNCHANGED <<client_arr, serv_set>>,
         \A t \in Threads :
           pc[t] \in {"set", "setting", "clearing", "find", "close"} \/
           pc'[t] \in {"set", "setting", "clearing", "find", "close"} =>
             pc'[t] = pc[t] /\ client_fd'[t] = client_fd[t] /\ whom'[t] = whom[t]
  PROVE  SetInv'
<1>1. \A f \in serv_set' : HasSlot(f)
  BY DEF SetInv
<1>2. \A f \in Fds : HasSlot(f) =>
        \/ f \in serv_set'
        \/ pc'["server"] \in {"set", "setting"} /\ client_fd'["server"] = f
        \/ \E t \in Threads :
             pc'[t] \in {"clearing", "find", "close"} /\ client_fd'[t] = f
  BY Small DEF SetInv
<1>3. \A t \in Threads : pc'[t] \in {"find", "close"} =>
        /\ pc[t] \in {"find", "close"} /\ client_fd'[t] = client_fd[t] /\ whom'[t] = whom[t]
  OBVIOUS
<1>4. pc'["server"] \in {"set", "setting"} =>
        /\ pc["server"] \in {"set", "setting"}
        /\ client_fd'["server"] = client_fd["server"]
        /\ whom'["server"] = whom["server"]
  BY Small
<1>5. QED
  BY <1>1, <1>2, <1>3, <1>4 DEF SetInv, HasSlot, InPool

\* A slot that is not cleared goes on to hold what it holds.
LEMMA SetRemove ==
  ASSUME TypeOK, PlaceInv, ReadInv, PoolInv, SetInv, ~doubled, NEW t \in Threads, RemoveClient(t)
  PROVE  SetInv'
<1> USE Small DEF TypeOK, Goto, Done, Threads, Resume
<1> DEFINE f == client_fd[t]
<1>1. /\ pc[t] = "close" /\ pc'[t] \in {"scan", "dequeue"}
      /\ idx[t] \in Slots /\ client_arr[idx[t]] = [fd |-> f, id |-> whom[t]]
      /\ f # 0
  BY DEF RemoveClient, PoolInv, PlaceInv, Dropping
<1>2. /\ client_arr' = [client_arr EXCEPT ![idx[t]] = Empty]
      /\ serv_set' = serv_set
      /\ \A u \in Threads \ {t} : /\ pc'[u] = pc[u] /\ client_fd'[u] = client_fd[u]
                                  /\ whom'[u] = whom[u]
  BY DEF RemoveClient
<1>3. InPool(f, whom[t]) /\ f \notin serv_set
  BY <1>1 DEF InPool, SetInv
<1>4. \A s \in Slots : client_arr[s].fd = f => s = idx[t]
  BY <1>1 DEF PoolInv, Occupied
<1>5. \A s \in Slots : s # idx[t] => client_arr'[s] = client_arr[s]
  BY <1>2
<1>6. client_arr'[idx[t]] = Empty
  BY <1>1, <1>2
<1> HIDE DEF f
<1>7. \A g \in serv_set' : g # 0 /\ \E s \in Slots : client_arr'[s].fd = g
  BY <1>1, <1>2, <1>3, <1>5 DEF SetInv, HasSlot
<1>8. ASSUME NEW g \in Fds, g # 0, NEW s \in Slots, client_arr'[s].fd = g
      PROVE  \/ g \in serv_set'
             \/ pc'["server"] \in {"set", "setting"} /\ client_fd'["server"] = g
             \/ \E u \in Threads :
                  pc'[u] \in {"clearing", "find", "close"} /\ client_fd'[u] = g
  <2>1. s # idx[t] /\ client_arr[s].fd = g /\ g # f
    BY <1>4, <1>5, <1>6, <1>8 DEF Empty
  <2>2. \/ g \in serv_set
        \/ pc["server"] \in {"set", "setting"} /\ client_fd["server"] = g
        \/ \E u \in Threads :
             pc[u] \in {"clearing", "find", "close"} /\ client_fd[u] = g
    BY <1>8, <2>1 DEF SetInv, HasSlot
  <2>3. CASE g \in serv_set
    BY <1>2, <2>3
  <2>4. CASE pc["server"] \in {"set", "setting"} /\ client_fd["server"] = g
    BY <1>1, <1>2, <2>4
  <2>5. ASSUME NEW u \in Threads, pc[u] \in {"clearing", "find", "close"},
               client_fd[u] = g
        PROVE  \E v \in Threads :
                 pc'[v] \in {"clearing", "find", "close"} /\ client_fd'[v] = g
    BY <1>2, <2>1, <2>5 DEF f
  <2>6. QED
    BY <2>2, <2>3, <2>4, <2>5
<1>9. ASSUME NEW g, NEW c, NEW s \in Slots, g # 0, client_arr'[s] = [fd |-> g, id |-> c]
      PROVE  client_arr[s] = [fd |-> g, id |-> c]
  BY <1>5, <1>6, <1>9 DEF Empty
<1>10. \A u \in Threads : pc'[u] \in {"find", "close"} =>
         /\ pc[u] \in {"find", "close"} /\ client_fd'[u] = client_fd[u]
         /\ whom'[u] = whom[u]
  BY <1>1, <1>2
<1>11. \A u \in Threads :
         /\ pc'[u] \in {"find", "close"}
         /\ client_fd'[u] # 0
         /\ \E s \in Slots : client_arr'[s] = [fd |-> client_fd'[u], id |-> whom'[u]]
         => client_fd'[u] \notin serv_set'
  BY <1>2, <1>9, <1>10 DEF SetInv, InPool
<1>12. pc'["server"] \in {"set", "setting"} =>
         /\ client_fd'["server"] # 0
         /\ \E s \in Slots :
              client_arr'[s] = [fd |-> client_fd'["server"], id |-> whom'["server"]]
  <2>1. SUFFICES ASSUME pc'["server"] \in {"set", "setting"}
                 PROVE  /\ client_fd'["server"] # 0
                        /\ \E s \in Slots : client_arr'[s] =
                             [fd |-> client_fd'["server"], id |-> whom'["server"]]
    OBVIOUS
  <2>2. /\ t # "server" /\ pc["server"] \in {"set", "setting"}
        /\ client_fd'["server"] = client_fd["server"] /\ whom'["server"] = whom["server"]
    BY <1>1, <1>2, <2>1
  <2>3. PICK s \in Slots :
          client_arr[s] = [fd |-> client_fd["server"], id |-> whom["server"]]
    BY <2>2 DEF SetInv, InPool
  <2>4. whom["server"] # whom[t]
    BY <1>1, <2>2 DEF ReadInv
  <2>5. s # idx[t]
    BY <1>1, <2>3, <2>4
  <2>6. QED
    BY <1>5, <2>2, <2>3, <2>5 DEF SetInv, InPool
<1>13. QED
  BY <1>7, <1>8, <1>11, <1>12 DEF SetInv, HasSlot, InPool

\* A client that is not found is in no slot, so that nobody has to watch it.
LEMMA SetFind ==
  ASSUME TypeOK, SetInv, NEW t \in Threads, FindSlot(t)
  PROVE  SetInv'
<1> USE Small DEF TypeOK, kernel, pool, Goto, Done, Threads, Resume
<1>1. CASE SlotOf(client_fd[t]) = {}
  <2>1. /\ pc[t] = "find" /\ pc'[t] \in {"scan", "dequeue"}
        /\ UNCHANGED <<client_arr, serv_set>>
        /\ \A u \in Threads \ {t} : /\ pc'[u] = pc[u] /\ client_fd'[u] = client_fd[u]
                                    /\ whom'[u] = whom[u]
    BY <1>1 DEF FindSlot
  <2>2. ~HasSlot(client_fd[t])
    BY <1>1 DEF HasSlot, SlotOf
  <2>3. \A f \in Fds : HasSlot(f) =>
          \/ f \in serv_set'
          \/ pc'["server"] \in {"set", "setting"} /\ client_fd'["server"] = f
          \/ \E u \in Threads :
               pc'[u] \in {"clearing", "find", "close"} /\ client_fd'[u] = f
    BY <2>1, <2>2 DEF SetInv
  <2>4. \A u \in Threads : pc'[u] \in {"set", "setting", "find", "close"} => u # t
    BY <2>1
  <2>5. QED
    BY <2>1, <2>3, <2>4 DEF SetInv, HasSlot, InPool
<1>2. CASE SlotOf(client_fd[t]) # {}
  <2>1. /\ pc[t] = "find" /\ pc' = [pc EXCEPT ![t] = "close"]
        /\ UNCHANGED <<client_arr, serv_set, client_fd, whom>>
    BY <1>2, Zenon DEF FindSlot, Goto, pool
  <2>2. \A f \in Fds : HasSlot(f) =>
          \/ f \in serv_set'
          \/ pc'["server"] \in {"set", "setting"} /\ client_fd'["server"] = f
          \/ \E u \in Threads :
               pc'[u] \in {"clearing", "find", "close"} /\ client_fd'[u] = f
    BY <2>1 DEF SetInv
  <2>3. QED
    BY <2>1, <2>2 DEF SetInv, HasSlot, InPool
<1>3. QED
  BY <1>1, <1>2

\* A client that is added is watched from then on, or is about to be.
LEMMA SetAdd ==
  ASSUME TypeOK, PlaceInv, ReadInv, SetInv, AddClient
  PROVE  SetInv'
<1> USE Small DEF TypeOK, kernel, pool, locals, Goto, Threads
<1> DEFINE s0 == Min(SlotOf(0))
           f  == client_fd["server"]
           c  == whom["server"]
<1>1. s0 \in Slots /\ client_arr[s0].fd = 0 /\ f # 0
  BY SlotFound DEF AddClient, Asserted
<1>2. /\ pc["server"] = "add" /\ pc' = [pc EXCEPT !["server"] = "set"]
      /\ client_arr' = [client_arr EXCEPT ![s0] = [fd |-> f, id |-> c]]
      /\ UNCHANGED <<serv_set, client_fd, whom>>
  BY DEF AddClient
<1> HIDE DEF s0, f, c
<1>3. client_arr'[s0] = [fd |-> f, id |-> c]
  BY <1>1, <1>2
<1>4. \A s \in Slots : s # s0 => client_arr'[s] = client_arr[s]
  BY <1>2
<1>5. \A g \in serv_set' : g # 0 /\ \E s \in Slots : client_arr'[s].fd = g
  BY <1>1, <1>2, <1>4 DEF SetInv, HasSlot
<1>6. ASSUME NEW g \in Fds, g # 0, NEW s \in Slots, client_arr'[s].fd = g
      PROVE  \/ g \in serv_set'
             \/ pc'["server"] \in {"set", "setting"} /\ client_fd'["server"] = g
             \/ \E u \in Threads :
                  pc'[u] \in {"clearing", "find", "close"} /\ client_fd'[u] = g
  <2>1. CASE s = s0
    BY <1>2, <1>3, <1>6, <2>1 DEF f
  <2>2. CASE s # s0
    <3>1. HasSlot(g)
      BY <1>4, <1>6, <2>2 DEF HasSlot
    <3>2. QED
      BY <1>2, <3>1 DEF SetInv
  <2>3. QED
    BY <2>1, <2>2
<1>7. ASSUME NEW u \in Threads, pc'[u] \in {"find", "close"}, client_fd'[u] # 0,
             NEW s \in Slots,
             client_arr'[s] = [fd |-> client_fd'[u], id |-> whom'[u]]
      PROVE  client_fd'[u] \notin serv_set'
  <2>1. u = "response" /\ pc[u] \in {"find", "close"}
    BY <1>2, <1>7
  <2>2. whom[u] # c
    BY <1>2, <2>1 DEF ReadInv, c
  <2>3. s # s0
    BY <1>2, <1>3, <1>7, <2>2
  <2>4. InPool(client_fd[u], whom[u])
    BY <1>2, <1>4, <1>7, <2>3 DEF InPool
  <2>5. QED
    BY <1>2, <2>1, <2>4 DEF SetInv
<1>8. /\ client_fd'["server"] # 0
      /\ \E s \in Slots : client_arr'[s] =
           [fd |-> client_fd'["server"], id |-> whom'["server"]]
  BY <1>1, <1>2, <1>3 DEF f, c
<1>9. QED
  BY <1>5, <1>6, <1>7, <1>8 DEF SetInv, HasSlot, InPool

\* Writing the word that was read changes one bit if nobody wrote in between.
LEMMA WriteIsExact ==
  ASSUME NEW t, NEW from, NEW to, NEW new, WriteWord(t, from, to, new), ~raced'
  PROVE  word[t] = serv_set /\ serv_set' = new
<1>1. serv_set' = new /\ raced' = (raced \/ serv_set # word[t])
  BY DEF WriteWord
<1>2. QED
  BY <1>1, Zenon

\* FD_SET of the client that is being added: the response thread drops another.
LEMMA SetFdSet ==
  ASSUME TypeOK, PlaceInv, ReadInv, PoolInv, SetInv, ~doubled, ~raced', FdSet
  PROVE  SetInv'
<1> USE Small DEF TypeOK, pool, locals, Goto, Threads
<1>1. CASE ReadWord("server", "set", "setting")
  BY <1>1 DEF ReadWord, SetInv, HasSlot, InPool
<1>2. CASE WriteWord("server", "setting", "scan",
                     word["server"] \cup {client_fd["server"]})
  <2>1. serv_set' = serv_set \cup {client_fd["server"]}
    BY <1>2, WriteIsExact
  <2>2. /\ pc["server"] = "setting" /\ pc' = [pc EXCEPT !["server"] = "scan"]
        /\ UNCHANGED <<client_arr, client_fd, whom>>
    BY <1>2 DEF WriteWord
  <2>3. InPool(client_fd["server"], whom["server"])
    BY <2>2 DEF SetInv
  <2>4. \A f \in serv_set' : HasSlot(f)
    BY <2>1, <2>3, InPoolIsOpen DEF SetInv
  <2>5. \A f \in Fds : HasSlot(f) =>
          \/ f \in serv_set'
          \/ \E u \in Threads :
               pc'[u] \in {"clearing", "find", "close"} /\ client_fd'[u] = f
    BY <2>1, <2>2 DEF SetInv
  <2>6. ASSUME NEW u \in Threads, pc'[u] \in {"find", "close"},
               InPool(client_fd[u], whom[u])
        PROVE  client_fd[u] \notin serv_set'
    <3>1. u = "response" /\ pc[u] \in {"find", "close"}
      BY <2>2, <2>6
    <3>2. whom[u] # whom["server"]
      BY <2>2, <3>1 DEF ReadInv
    <3>3. client_fd[u] # client_fd["server"]
      BY <2>3, <2>6, <3>2, InPoolIsOpen
    <3>4. QED
      BY <2>1, <2>6, <3>1, <3>3 DEF SetInv
  <2>7. QED
    BY <2>2, <2>4, <2>5, <2>6 DEF SetInv, HasSlot, InPool
<1>3. QED
  BY <1>1, <1>2 DEF FdSet

\* FD_CLR of a client that is being dropped.
LEMMA SetFdClear ==
  ASSUME TypeOK, SetInv, ~raced', NEW t \in Threads, FdClear(t)
  PROVE  SetInv'
<1> USE Small DEF TypeOK, pool, locals, Goto, Threads
<1>1. CASE ReadWord(t, "clear", "clearing")
  BY <1>1 DEF ReadWord, SetInv, HasSlot, InPool
<1>2. CASE WriteWord(t, "clearing", "find", word[t] \ {client_fd[t]})
  <2>1. serv_set' = serv_set \ {client_fd[t]}
    BY <1>2, WriteIsExact
  <2>2. /\ pc[t] = "clearing" /\ pc' = [pc EXCEPT ![t] = "find"]
        /\ UNCHANGED <<client_arr, client_fd, whom>>
    BY <1>2 DEF WriteWord
  <2>3. \A f \in serv_set' : HasSlot(f)
    BY <2>1 DEF SetInv
  <2>4. \A f \in Fds : HasSlot(f) =>
          \/ f \in serv_set'
          \/ pc'["server"] \in {"set", "setting"} /\ client_fd'["server"] = f
          \/ \E u \in Threads :
               pc'[u] \in {"clearing", "find", "close"} /\ client_fd'[u] = f
    BY <2>1, <2>2 DEF SetInv
  <2>5. \A u \in Threads :
          pc'[u] \in {"find", "close"} /\ InPool(client_fd[u], whom[u]) =>
            client_fd[u] \notin serv_set'
    BY <2>1, <2>2 DEF SetInv
  <2>6. pc'["server"] \in {"set", "setting"} => pc["server"] \in {"set", "setting"}
    BY <2>2
  <2>7. QED
    BY <2>2, <2>3, <2>4, <2>5, <2>6 DEF SetInv, HasSlot, InPool
<1>3. QED
  BY <1>1, <1>2 DEF FdClear

\* Every step keeps SetInv, until a client is doubled or an update is lost.
LEMMA SetStep ==
  ASSUME TypeOK, PlaceInv, ReadInv, PoolInv, SetInv, ~doubled, ~raced', [Next]_vars
  PROVE  SetInv'
<1> USE Small DEF TypeOK, kernel, pool, locals, Goto, Done, Threads
<1>1. ASSUME NEW t \in Threads, Disconnect(t) PROVE SetInv'
  BY <1>1, SetFdClear, SetFind, SetRemove DEF Disconnect
<1>2. CASE Server
  <2>1. CASE CopySet \/ Select \/ Interrupted \/ ReceiveFaults
    BY <2>1, SetFrame DEF CopySet, Select, Interrupted, ReceiveFaults
  <2>2. CASE Selected
    <3>1. /\ pc' = [pc EXCEPT !["server"] = pc'["server"]]
          /\ pc["server"] = "blocked" /\ pc'["server"] \in {"accept", "scan"}
          /\ UNCHANGED <<client_arr, serv_set, client_fd, whom>>
      BY <2>2 DEF Selected
    <3>2. QED
      BY <3>1, SetFrame
  <2>3. CASE Accept
    BY <2>3, SetFrame DEF Accept
  <2>4. CASE Count
    BY <2>4, SetFrame DEF Count
  <2>5. CASE AddAborts \/ AddFails
    BY <2>5, SetFrame DEF AddAborts, AddFails
  <2>6. CASE Scan
    BY <2>6, SetFrame DEF Scan
  <2>7. CASE ReceiveRequest \/ ReceiveTimesOut
    BY <2>7, SetFrame DEF ReceiveRequest, ReceiveTimesOut
  <2>8. CASE ReceiveFails
    BY <2>8, SetFrame DEF ReceiveFails
  <2>9. QED
    BY <1>1, <1>2, <2>1, <2>2, <2>3, <2>4, <2>5, <2>6, <2>7, <2>8, SetAdd, SetFdSet
    DEF Server
<1>3. CASE Response
  <2>1. CASE Dequeue
    BY <2>1, SetFrame DEF Dequeue
  <2>2. CASE CountAudience \/ SizeArray
    BY <2>2, SetFrame DEF CountAudience, SizeArray
  <2>3. CASE CopyArray \/ TellNext
    BY <2>3, SetFrame DEF CopyArray, TellNext
  <2>4. CASE ExecuteFaults \/ ExecuteDrops \/ Answer
    BY <2>4, SetFrame DEF ExecuteFaults, ExecuteDrops, Answer
  <2>5. QED
    BY <1>1, <1>3, <2>1, <2>2, <2>3, <2>4 DEF Response
<1>4. ASSUME NEW c \in Conns, Connect(c) \/ Send(c) \/ HangUp(c) PROVE SetInv'
  <2>1. UNCHANGED <<client_arr, serv_set, pc, client_fd, whom>>
    BY <1>4 DEF Connect, Send, HangUp
  <2>2. QED
    BY <2>1, SetFrame
<1>5. CASE UNCHANGED vars
  <2>1. UNCHANGED <<client_arr, serv_set, pc, client_fd, whom>>
    BY <1>5 DEF vars
  <2>2. QED
    BY <2>1, SetFrame
<1>6. QED
  BY <1>2, <1>3, <1>4, <1>5 DEF Next

-----------------------------------------------------------------------------
\* The broadcast that nothing disturbs.

\* A step that leaves the broadcast alone, or ends it, and does not touch the
\* pool or a member's end, keeps CalmInv.
LEMMA CalmFrame ==
  ASSUME TypeOK, CalmInv,
         doubled => doubled',
         \/ pc'["response"] = pc["response"]
         \/ pc'["response"] \notin Broadcasting,
         UNCHANGED <<arr, cnt, sent, told>>,
         calm' => /\ calm /\ UNCHANGED pool
                  /\ \A c \in Conns : peer[c] = "open" => peer'[c] = "open"
  PROVE  CalmInv'
<1>1. SUFFICES ASSUME ~doubled', calm', pc'["response"] \in Broadcasting
               PROVE  CalmInv'
  BY DEF CalmInv
<1>2. /\ ~doubled /\ calm /\ pc'["response"] = pc["response"]
      /\ UNCHANGED <<client_arr, client_cnt, arr, cnt, sent, told>>
      /\ Occupied' = Occupied
  BY <1>1 DEF pool, Occupied
<1>3. \A s \in Occupied : peer'[client_arr[s].id] = "open"
  BY <1>1, <1>2, SlotTypes DEF CalmInv, Occupied
<1>4. QED
  BY <1>1, <1>2, <1>3 DEF CalmInv

\* The server thread and the clients: a client that comes, goes or hangs up
\* ends the calm.
LEMMA CalmOthers ==
  ASSUME TypeOK, CalmInv, [Next]_vars,
         \/ Server
         \/ \E c \in Conns : Connect(c) \/ Send(c) \/ HangUp(c)
  PROVE  CalmInv'
<1> USE DEF kernel, pool, cast
<1>1. doubled => doubled'
  BY HistoryIsForGood
<1>2. ASSUME NEW c \in Conns, Connect(c) \/ Send(c) \/ HangUp(c) PROVE CalmInv'
  <2>1. CASE Connect(c)
    <3>1. UNCHANGED <<pc, pool, cast>>
      BY <2>1 DEF Connect
    <3>2. \A d \in Conns : peer[d] = "open" => peer'[d] = "open"
      BY <2>1 DEF Connect, TypeOK
    <3>3. QED
      BY <1>1, <3>1, <3>2, CalmFrame
  <2>2. CASE Send(c)
    <3>1. UNCHANGED <<pc, pool, cast, peer>>
      BY <2>2 DEF Send
    <3>2. QED
      BY <1>1, <3>1, CalmFrame
  <2>3. CASE HangUp(c)
    <3>1. ~calm' /\ UNCHANGED <<pc, arr, cnt, sent, told>>
      BY <2>3 DEF HangUp
    <3>2. QED
      BY <1>1, <3>1, CalmFrame
  <2>4. QED
    BY <1>2, <2>1, <2>2, <2>3
<1>3. ASSUME Server PROVE CalmInv'
  <2>1. pc'["response"] = pc["response"] /\ UNCHANGED <<arr, cnt, sent, told>>
    <3>1. CASE Disconnect("server")
      <4>1. pc'["response"] = pc["response"]
        BY <3>1, Small DEF Disconnect, FdClear, ReadWord, WriteWord, FindSlot,
           RemoveClient, Goto, Done, TypeOK
      <4>2. UNCHANGED <<arr, cnt, sent, told>>
        BY <3>1 DEF Disconnect, FdClear, ReadWord, WriteWord, FindSlot, RemoveClient
      <4>3. QED
        BY <4>1, <4>2
    <3>2. CASE CopySet \/ Select \/ Selected \/ Interrupted \/ ReceiveFaults \/ Accept
      BY <3>2, Small DEF CopySet, Select, Selected, Interrupted, ReceiveFaults,
         Accept, Goto, TypeOK
    <3>3. CASE Count \/ AddAborts \/ AddClient \/ AddFails
      BY <3>3, Small DEF Count, AddAborts, AddClient, AddFails, Goto, Done, TypeOK
    <3>4. CASE FdSet \/ Scan
      BY <3>4, Small DEF FdSet, ReadWord, WriteWord, Scan, Goto, Done, TypeOK
    <3>5. CASE ReceiveRequest \/ ReceiveTimesOut \/ ReceiveFails
      BY <3>5, Small DEF ReceiveRequest, ReceiveTimesOut, ReceiveFails, Goto, Done, TypeOK
    <3>6. QED
      BY <1>3, <3>1, <3>2, <3>3, <3>4, <3>5 DEF Server
  <2>2. ~calm' \/ UNCHANGED <<calm, pool, peer>>
    <3>1. CASE Disconnect("server")
      BY <3>1 DEF Disconnect, FdClear, ReadWord, WriteWord, FindSlot, RemoveClient
    <3>2. CASE CopySet \/ Select \/ Selected \/ Interrupted \/ ReceiveFaults \/ Accept
      BY <3>2 DEF CopySet, Select, Selected, Interrupted, ReceiveFaults, Accept
    <3>3. CASE Count \/ AddAborts \/ AddClient \/ AddFails
      BY <3>3 DEF Count, AddAborts, AddClient, AddFails
    <3>4. CASE FdSet \/ Scan
      BY <3>4 DEF FdSet, ReadWord, WriteWord, Scan
    <3>5. CASE ReceiveRequest \/ ReceiveTimesOut \/ ReceiveFails
      BY <3>5 DEF ReceiveRequest, ReceiveTimesOut, ReceiveFails
    <3>6. QED
      BY <1>3, <3>1, <3>2, <3>3, <3>4, <3>5 DEF Server
  <2>3. QED
    BY <1>1, <2>1, <2>2, CalmFrame
<1>4. QED
  BY <1>2, <1>3

\* In a calm broadcast the copy has the members' descriptors, which are theirs
\* and open, so that no send of the loop fails and each one tells its client.
LEMMA CalmTell ==
  ASSUME TypeOK, PoolInv, CalmInv, TellNext, ~doubled', calm'
  PROVE  CalmInv'
<1>1. /\ ~doubled /\ calm /\ pc["response"] = "tell"
      /\ UNCHANGED <<client_arr, client_cnt, arr, cnt, peer, fds, doubled, calm>>
      /\ Occupied' = Occupied
  BY DEF TellNext, pool, kernel, ghosts, Occupied
<1>2. /\ cnt = client_cnt /\ Occupied = 0 .. cnt - 1
      /\ \A s \in Occupied : peer[client_arr[s].id] = "open"
      /\ sent <= cnt /\ told = {client_arr[s].id : s \in 0 .. sent - 1}
      /\ Len(arr) = cnt /\ \A i \in 1 .. cnt : arr[i] = client_arr[i - 1].fd
  BY <1>1 DEF CalmInv, Broadcasting
<1>3. cnt \in Int /\ sent \in Nat /\ "response" \in Threads
  BY Small DEF TypeOK
<1>4. CASE ToldAll
  <2>1. pc'["response"] = "answer" /\ UNCHANGED <<sent, told>> /\ sent = cnt
    BY <1>1, <1>2, <1>3, <1>4 DEF TellNext, ToldAll, Goto, TypeOK
  <2>2. QED
    BY <1>1, <1>2, <2>1 DEF CalmInv
<1>5. CASE ~ToldAll
  <2>1. sent < cnt /\ sent \in Occupied /\ arr[sent + 1] = client_arr[sent].fd
    BY <1>2, <1>3, <1>5 DEF ToldAll
  <2>2. PICK f \in Fds :
          /\ f = client_arr[sent].fd
          /\ \/ /\ Reaches(f)
                /\ sent' = sent + 1 /\ told' = told \cup {fds[f]}
                /\ UNCHANGED pc
             \/ /\ ~Reaches(f)
                /\ Goto("response", "answer")
                /\ UNCHANGED <<sent, told>>
    BY <1>2, <1>5, <2>1 DEF TellNext
  <2>3. fds[f] = client_arr[sent].id /\ client_arr[sent].id \in Conns
    BY <1>1, <2>1, <2>2, SlotTypes DEF PoolInv, Occupied
  <2>4. Reaches(f)
    BY <1>2, <2>1, <2>3 DEF Reaches
  <2>5. /\ sent' = sent + 1 /\ UNCHANGED pc
        /\ told' = told \cup {client_arr[sent].id}
    BY <2>2, <2>3, <2>4
  <2>6. 0 .. sent' - 1 = (0 .. sent - 1) \cup {sent}
    BY <1>3, <2>5
  <2>7. told' = {client_arr[s].id : s \in 0 .. sent' - 1}
    BY <1>2, <2>5, <2>6
  <2>8. sent' <= cnt
    BY <1>3, <2>1, <2>5
  <2>9. QED
    BY <1>1, <1>2, <2>5, <2>7, <2>8 DEF CalmInv
<1>6. QED
  BY <1>4, <1>5

\* The steps of the response thread before the loop.
LEMMA CalmBegins ==
  ASSUME TypeOK, PoolInv, CalmInv, CountAudience \/ SizeArray \/ CopyArray,
         ~doubled', calm'
  PROVE  CalmInv'
<1>1. /\ ~doubled /\ "response" \in Threads /\ cnt \in Int
      /\ UNCHANGED <<client_arr, client_cnt, peer, fds, doubled>>
      /\ Occupied' = Occupied
  BY Small DEF CountAudience, SizeArray, CopyArray, pool, kernel, ghosts, Occupied, TypeOK
<1>2. client_cnt \in Nat
  BY <1>1, OccupiedFinite DEF PoolInv
<1>3. CASE CountAudience
  <2>1. /\ cnt' = client_cnt /\ sent' = 0 /\ told' = {} /\ pc'["response"] = "size"
        /\ Occupied = 0 .. client_cnt - 1
        /\ Members = {c \in Members : peer[c] = "open"}
    BY <1>1, <1>3 DEF CountAudience, Goto, TypeOK
  <2>2. \A s \in Occupied : peer[client_arr[s].id] = "open"
    BY <2>1 DEF Members
  <2>3. QED
    BY <1>1, <1>2, <2>1, <2>2 DEF CalmInv
<1>4. CASE SizeArray
  <2>1. /\ pc["response"] = "size" /\ UNCHANGED <<cnt, sent, told, calm>>
        /\ arr' = [i \in 1 .. client_cnt |-> 0]
        /\ pc'["response"] =
             IF cnt < 0 \/ client_cnt <= 0 THEN "answer" ELSE "copy"
    BY <1>1, <1>4 DEF SizeArray, Goto, TypeOK
  <2>2. /\ cnt = client_cnt /\ Occupied = 0 .. cnt - 1 /\ sent = 0
        /\ \A s \in Occupied : peer[client_arr[s].id] = "open"
        /\ told = {client_arr[s].id : s \in 0 .. sent - 1}
    BY <1>1, <2>1 DEF CalmInv, Broadcasting
  <2>3. Len(arr') = cnt /\ (pc'["response"] = "answer" => cnt = 0)
    BY <1>2, <2>1, <2>2
  <2>4. QED
    BY <1>1, <1>2, <2>1, <2>2, <2>3 DEF CalmInv
<1>5. CASE CopyArray
  <2>1. /\ pc["response"] = "copy" /\ UNCHANGED <<cnt, sent, told, calm>>
        /\ arr' = [i \in DOMAIN arr |-> client_arr[i - 1].fd]
        /\ pc'["response"] = "tell"
    BY <1>1, <1>5 DEF CopyArray, Goto, TypeOK
  <2>2. /\ cnt = client_cnt /\ Occupied = 0 .. cnt - 1 /\ sent <= cnt
        /\ \A s \in Occupied : peer[client_arr[s].id] = "open"
        /\ told = {client_arr[s].id : s \in 0 .. sent - 1}
        /\ Len(arr) = cnt
    BY <1>1, <2>1 DEF CalmInv, Broadcasting
  <2>3. DOMAIN arr = 1 .. cnt /\ Len(arr') = cnt
    BY <1>2, <2>1, <2>2 DEF TypeOK
  <2>4. QED
    BY <1>1, <2>1, <2>2, <2>3 DEF CalmInv
<1>6. QED
  BY <1>3, <1>4, <1>5

\* The response thread.
LEMMA CalmResponse ==
  ASSUME TypeOK, PoolInv, CalmInv, [Next]_vars, Response
  PROVE  CalmInv'
<1> USE DEF kernel, pool, cast
<1>1. doubled => doubled'
  BY HistoryIsForGood
<1>2. SUFFICES ASSUME ~doubled', calm' PROVE CalmInv'
  BY DEF CalmInv
<1>3. CASE CountAudience \/ SizeArray \/ CopyArray
  BY <1>2, <1>3, CalmBegins
<1>4. CASE TellNext
  BY <1>2, <1>4, CalmTell
<1>5. CASE Answer
  BY <1>2, <1>5 DEF Answer
<1>6. CASE Dequeue
  <2>1. pc'["response"] = "broadcast"
    BY <1>6, Small DEF Dequeue, Goto, TypeOK
  <2>2. QED
    BY <2>1 DEF CalmInv, Broadcasting
<1>7. CASE Disconnect("response")
  <2>1. pc'["response"] \notin Broadcasting
    BY <1>7, Small DEF Disconnect, FdClear, ReadWord, WriteWord, FindSlot,
       RemoveClient, Goto, Done, Resume, TypeOK, Broadcasting
  <2>2. QED
    BY <2>1 DEF CalmInv
<1>8. CASE ExecuteFaults \/ ExecuteDrops
  <2>1. pc'["response"] \in {"faulted", "dequeue"}
    BY <1>8, Small DEF ExecuteFaults, ExecuteDrops, Goto, Done, TypeOK
  <2>2. QED
    BY <2>1 DEF CalmInv, Broadcasting
<1>9. QED
  BY <1>3, <1>4, <1>5, <1>6, <1>7, <1>8 DEF Response

-----------------------------------------------------------------------------
\* The invariant, and what follows from it.

\* The initial state has the invariant.
LEMMA Initially ==
  ASSUME Init PROVE IInv
<1> USE Small DEF Init
<1>1. TypeOK
  <2>1. OtherTypes
    BY DEF OtherTypes, ServerPcs, ResponsePcs, Slot, Threads, Nobody
  <2>2. QED
    BY <2>1, TypeHalves DEF BoolTypes
<1>2. KernelInv
  BY DEF KernelInv, Conns, Fds, Stdin, Free
<1>3. PlaceInv
  BY DEF PlaceInv, Dropping, Threads
<1>4. PoolInv
  <2>1. Occupied = {} /\ Cardinality(Occupied) = 0
    <3>1. Occupied = {}
      BY DEF Occupied, Empty
    <3>2. QED
      BY <3>1, FS_EmptySet
  <2>2. \A t \in Threads : pc[t] \notin {"close", "count", "add"}
    BY DEF Threads
  <2>3. QED
    BY <2>1, <2>2 DEF PoolInv
<1>5. PatientInv
  <2>1. pc["server"] = "copy" /\ pc["response"] = "dequeue"
    BY DEF Threads
  <2>2. QED
    BY <2>1 DEF PatientInv, ServedInv, DropInv, EntitledInv, WatchInv, Dropping, Busy
<1>6. ReadInv
  BY DEF ReadInv, Threads
<1>7. SetInv
  <2>1. \A t \in Threads : pc[t] \in {"copy", "dequeue"}
    BY DEF Threads
  <2>2. \A f : ~HasSlot(f)
    BY DEF HasSlot, Empty
  <2>3. QED
    BY <2>1, <2>2 DEF SetInv
<1>8. QED
  BY <1>1, <1>2, <1>3, <1>4, <1>5, <1>6, <1>7 DEF IInv

\* The inductive invariant holds in every reachable state.
THEOREM Invariance == Spec => []IInv
<1>1. Init => IInv
  BY Initially
<1>2. IInv /\ [Next]_vars => IInv'
  <2>1. SUFFICES ASSUME IInv, [Next]_vars PROVE IInv'
    OBVIOUS
  <2>2. TypeOK' /\ KernelInv' /\ PlaceInv' /\ ReadInv' /\ PoolInv'
    BY <2>1, TypeStep, KernelStep, PlaceStep, ReadStep, PoolStep DEF IInv
  <2>3. ~impatient' => PatientInv'
    BY <2>1, PatientStep
  <2>4. ~doubled' /\ ~raced' => SetInv'
    BY <2>1, HistoryIsForGood, SetStep DEF IInv
  <2>5. QED
    BY <2>2, <2>3, <2>4 DEF IInv
<1>3. QED
  BY <1>1, <1>2, PTL DEF Spec

\* Types, for every size of the pool: client_cnt never exceeds MAX_CLIENTS, a
\* slot with a descriptor has a client, accept always finds a descriptor.
THEOREM TypeCorrect == Spec => []TypeOK
<1>1. IInv => TypeOK
  BY DEF IInv
<1>2. QED
  BY <1>1, Invariance, PTL

\* As long as no client is removed twice, or one in place of another, the count,
\* the slots and the kernel's descriptors agree.
THEOREM PoolIsConsistent == Spec => []PoolAgrees
<1>1. IInv => PoolAgrees
  BY DEF IInv, PoolInv, PoolAgrees
<1>2. QED
  BY <1>1, Invariance, PTL

\* If clients wait for their answers, none loses its slot by what others do.
THEOREM OpenClientsStay == Spec => []OpenClientIsKept
<1>1. IInv => OpenClientIsKept
  <2>1. SUFFICES ASSUME IInv, ~impatient, NEW c \in entitled PROVE c \in Members
    BY DEF OpenClientIsKept
  <2>2. PICK f \in Fds : InPool(f, c)
    BY <2>1 DEF IInv, PatientInv, EntitledInv
  <2>3. PICK s \in Slots : client_arr[s] = [fd |-> f, id |-> c] /\ f # 0
    BY <2>2 DEF InPool
  <2>4. QED
    BY <2>3 DEF Members, Occupied
<1>2. QED
  BY <1>1, Invariance, PTL

\* If clients wait for their answers, each request in the queue or in hand names
\* the descriptor of the client that sent it.
THEOREM RequestsKeepSender == Spec => []RequestNamesItsSender
<1>1. IInv => RequestNamesItsSender
  BY DEF IInv, PatientInv, ServedInv, Served, RequestNamesItsSender, Busy
<1>2. QED
  BY <1>1, Invariance, PTL

\* pselect never fails on a closed descriptor unless a client hung up on an
\* unanswered request.
THEOREM StopsForAReason == Spec => []StopsOnlyAfterImpatience
<1>1. IInv => StopsOnlyAfterImpatience
  BY DEF IInv, PatientInv, WatchInv, StopsOnlyAfterImpatience
<1>2. QED
  BY <1>1, Invariance, PTL

\* With no lost update and no client dropped twice, the server thread selects on
\* the clients in the pool and on nothing else.
THEOREM PoolIsWatched == Spec => []MembersAreWatched
<1>1. IInv => MembersAreWatched
  <2>1. SUFFICES ASSUME IInv, ~doubled, ~raced PROVE MembersAreWatched
    BY DEF MembersAreWatched
  <2> DEFINE members == {client_arr[s].fd : s \in Occupied}
  <2>2. SetInv /\ TypeOK
    BY <2>1 DEF IInv
  <2>3. \A f : f \in members <=> HasSlot(f)
    BY DEF Occupied, HasSlot
  <2>4. members \subseteq Fds
    BY <2>2, SlotTypes DEF Occupied
  <2> HIDE DEF members
  <2>5. serv_set \subseteq members \cup BeingDropped
    BY <2>2, <2>3 DEF SetInv
  <2>6. members \subseteq serv_set \cup BeingAdded \cup BeingDropped
    BY <2>2, <2>3, <2>4 DEF SetInv, BeingAdded, BeingDropped
  <2>7. QED
    BY <2>5, <2>6 DEF MembersAreWatched, members
<1>2. QED
  BY <1>1, Invariance, PTL

\* If the slots in use were the first ones and nobody came, went or hung up
\* while the response thread broadcast, it told every client in the pool; no
\* client may ever have been removed twice.
THEOREM CalmIsHeard == Spec => []CalmBroadcastReachesAll
<1>1. Init => CalmInv
  BY DEF Init, CalmInv
<1>2. IInv /\ CalmInv /\ [Next]_vars => CalmInv'
  <2>1. SUFFICES ASSUME IInv, CalmInv, [Next]_vars PROVE CalmInv'
    OBVIOUS
  <2>2. TypeOK /\ PoolInv
    BY <2>1 DEF IInv
  <2>3. CASE UNCHANGED vars
    BY <2>1, <2>2, <2>3, CalmFrame DEF vars, kernel, pool, cast, ghosts
  <2>4. QED
    BY <2>1, <2>2, <2>3, CalmOthers, CalmResponse DEF Next
<1>3. CalmInv => CalmBroadcastReachesAll
  BY DEF CalmInv, CalmBroadcastReachesAll, Members, Broadcasting
<1>4. QED
  BY <1>1, <1>2, <1>3, Invariance, PTL DEF Spec

-----------------------------------------------------------------------------
(* Descriptor 0, and whose descriptors are closed.                         *)

\* A client that is not in the pool yet is not counted, standard input is only
\* closed when there is a client too many, and descriptor 0 is a connection
\* only while the server thread has just accepted it.
StdinInv ==
  /\ client_cnt <= accepted
  /\ pc["server"] \in {"count", "add"} => client_cnt < accepted
  /\ fds[0] # Stdin => accepted > MAX_CLIENTS
  /\ fds[0] \in Conns =>
       /\ pc["server"] \in {"count", "add", "aborted"}
       /\ client_fd["server"] = 0 /\ fds[0] = whom["server"]
  /\ pc["server"] \in {"count", "add"} /\ client_fd["server"] = 0 =>
       accepted > MAX_CLIENTS + 1
  /\ pc["server"] = "aborted" => accepted > MAX_CLIENTS + 1

\* The assertion of add_client cannot fail, and does not end the server,
\* before a client was turned away and another one came: the descriptor that
\* connect_new_client closes by mistake must be handed out again.
AbortsOnlyWhenFull ==
  accepted <= MAX_CLIENTS + 1 => DescriptorIsPositive /\ pc["server"] # "aborted"

\* As long as no client was removed twice, or one in place of another, a thread
\* closes a connection only in the name of the client it belongs to, and that
\* client is no longer in the pool: no slot is left to name a descriptor that
\* the kernel may give to someone else.
ClosesItsOwn ==
  [][\A f \in Fds :
       fds[f] \in Conns /\ fds'[f] # fds[f] /\ ~doubled =>
         /\ fds'[f] = Free /\ fds[f] \notin Members'
         /\ \E t \in Threads : /\ pc[t] \in {"count", "add", "close"}
                              /\ client_fd[t] = f /\ whom[t] = fds[f]]_vars

\* Steps that leave alone what StdinInv speaks of.
LEMMA StdinFrame ==
  ASSUME StdinInv, UNCHANGED <<client_cnt, accepted, fds>>,
         \/ UNCHANGED <<pc, client_fd, whom>>
         \/ /\ pc["server"] \notin {"count", "add", "aborted"}
            /\ pc'["server"] \notin {"count", "add", "aborted"}
         \/ /\ pc'["server"] = pc["server"]
            /\ client_fd'["server"] = client_fd["server"]
            /\ whom'["server"] = whom["server"]
  PROVE  StdinInv'
  BY DEF StdinInv

\* disconnect_client closes no descriptor 0.
LEMMA StdinDisconnect ==
  ASSUME TypeOK, PlaceInv, StdinInv, NEW t \in Threads, Disconnect(t)
  PROVE  StdinInv'
<1> USE Small DEF TypeOK, kernel, pool, locals, Goto, Done, Threads, Resume
<1>1. CASE FdClear(t)
  BY <1>1, StdinFrame DEF FdClear, ReadWord, WriteWord
<1>2. CASE FindSlot(t) /\ SlotOf(client_fd[t]) = {}
  BY <1>2, StdinFrame DEF FindSlot
<1>3. CASE FindSlot(t) /\ SlotOf(client_fd[t]) # {}
  <2>1. /\ pc[t] = "find" /\ pc' = [pc EXCEPT ![t] = "close"]
        /\ UNCHANGED <<client_cnt, accepted, fds, client_fd, whom>>
    BY <1>3, Zenon DEF FindSlot, Goto, kernel, pool
  <2>2. QED
    BY <2>1, StdinFrame
<1>4. CASE RemoveClient(t)
  <2>1. client_fd[t] # 0
    BY <1>4 DEF RemoveClient, PlaceInv, Dropping, ResponsePcs, ServerPcs
  <2>2. fds'[0] = fds[0] /\ client_cnt' = client_cnt - 1 /\ accepted' = accepted
    BY <1>4, <2>1 DEF RemoveClient
  <2>3. \/ t = "response" /\ pc'["server"] = pc["server"]
           /\ client_fd'["server"] = client_fd["server"]
           /\ whom'["server"] = whom["server"]
        \/ pc["server"] = "close" /\ pc'["server"] = "scan"
    BY <1>4 DEF RemoveClient
  <2>4. QED
    BY <2>2, <2>3 DEF StdinInv
<1>5. QED
  BY <1>1, <1>2, <1>3, <1>4 DEF Disconnect, FindSlot

\* The server thread closes descriptor 0 only when the pool is full.
LEMMA StdinServer ==
  ASSUME TypeOK, KernelInv, PlaceInv, StdinInv, Server
  PROVE  StdinInv'
<1> USE Small DEF TypeOK, kernel, pool, locals, Goto, Done, Threads
<1>1. CASE CopySet \/ Select \/ Interrupted \/ ReceiveFaults
  BY <1>1, StdinFrame DEF CopySet, Select, Interrupted, ReceiveFaults
<1>2. CASE Selected
  <2>1. /\ pc["server"] = "blocked" /\ pc'["server"] \in {"accept", "scan"}
        /\ UNCHANGED <<client_cnt, accepted, fds>>
    BY <1>2 DEF Selected
  <2>2. QED
    BY <2>1, StdinFrame
<1>3. CASE Accept
  <2>1. LowestFree \in Fds /\ fds[LowestFree] = Free
    BY <1>3, SomeFree DEF Accept, PlaceInv
  <2>2. /\ accepted' = accepted + 1 /\ client_cnt' = client_cnt
        /\ fds' = [fds EXCEPT ![LowestFree] = accepted + 1]
        /\ client_fd'["server"] = LowestFree /\ whom'["server"] = accepted + 1
        /\ pc["server"] = "accept" /\ pc'["server"] = "count"
    BY <1>3 DEF Accept
  <2>3. CASE LowestFree = 0
    <3>1. fds[0] # Stdin
      BY <2>1, <2>3 DEF Stdin, Free
    <3>2. QED
      BY <2>2, <2>3, <3>1 DEF StdinInv
  <2>4. CASE LowestFree # 0
    <3>1. fds'[0] = fds[0]
      BY <2>1, <2>2, <2>4
    <3>2. QED
      BY <2>2, <2>4, <3>1 DEF StdinInv
  <2>5. QED
    BY <2>3, <2>4
<1>4. CASE Count
  <2>1. /\ UNCHANGED <<client_cnt, accepted>> /\ pc["server"] = "count"
        /\ \/ /\ client_cnt < 0 /\ pc'["server"] = "copy"
              /\ fds' = [fds EXCEPT ![client_fd["server"]] = Free]
           \/ /\ client_cnt >= MAX_CLIENTS /\ pc'["server"] = "copy"
              /\ fds' = [fds EXCEPT ![0] = Free]
           \/ /\ pc'["server"] = "add" /\ UNCHANGED <<fds, client_fd, whom>>
    BY <1>4 DEF Count
  <2>2. client_cnt < accepted
    BY <2>1 DEF StdinInv
  <2>3. CASE client_cnt < 0 /\ pc'["server"] = "copy"
             /\ fds' = [fds EXCEPT ![client_fd["server"]] = Free]
    <3>1. CASE client_fd["server"] = 0
      BY <2>1, <2>2, <2>3, <3>1 DEF StdinInv, Conns, Free
    <3>2. CASE client_fd["server"] # 0
      BY <2>1, <2>2, <2>3, <3>2 DEF StdinInv
    <3>3. QED
      BY <3>1, <3>2
  <2>4. CASE client_cnt >= MAX_CLIENTS /\ pc'["server"] = "copy"
             /\ fds' = [fds EXCEPT ![0] = Free]
    <3>1. fds'[0] = Free /\ accepted > MAX_CLIENTS
      BY <2>2, <2>4
    <3>2. QED
      BY <2>1, <2>2, <2>4, <3>1 DEF StdinInv, Conns, Free
  <2>5. CASE pc'["server"] = "add" /\ UNCHANGED <<fds, client_fd, whom>>
    BY <2>1, <2>2, <2>5 DEF StdinInv
  <2>6. QED
    BY <2>1, <2>3, <2>4, <2>5
<1>5. CASE AddAborts
  <2>1. client_fd["server"] \in Fds
    OBVIOUS
  <2>2. client_fd["server"] = 0
    BY <1>5, <2>1 DEF AddAborts, Asserted, Fds
  <2>3. QED
    BY <1>5, <2>2 DEF AddAborts, StdinInv
<1>6. CASE AddClient
  <2>1. /\ client_cnt' = client_cnt + 1 /\ accepted' = accepted /\ fds' = fds
        /\ pc["server"] = "add" /\ pc'["server"] = "set" /\ client_fd["server"] # 0
    BY <1>6 DEF AddClient, Asserted
  <2>2. QED
    BY <2>1 DEF StdinInv
<1>7. CASE AddFails
  <2>1. /\ UNCHANGED <<client_cnt, accepted>> /\ client_fd["server"] # 0
        /\ fds' = [fds EXCEPT ![client_fd["server"]] = Free]
        /\ pc["server"] = "add" /\ pc'["server"] = "copy"
    BY <1>7 DEF AddFails, Asserted
  <2>2. fds'[0] = fds[0]
    BY <2>1
  <2>3. QED
    BY <2>1, <2>2 DEF StdinInv
<1>8. CASE FdSet
  BY <1>8, StdinFrame DEF FdSet, ReadWord, WriteWord
<1>9. CASE Scan
  BY <1>9, StdinFrame DEF Scan
<1>10. CASE ReceiveRequest \/ ReceiveTimesOut \/ ReceiveFails
  BY <1>10, StdinFrame DEF ReceiveRequest, ReceiveTimesOut, ReceiveFails
<1>11. QED
  BY <1>1, <1>2, <1>3, <1>4, <1>5, <1>6, <1>7, <1>8, <1>9, <1>10,
     StdinDisconnect DEF Server

\* Every step keeps StdinInv.
LEMMA StdinStep ==
  ASSUME TypeOK, KernelInv, PlaceInv, StdinInv, [Next]_vars
  PROVE  StdinInv'
<1> USE Small DEF TypeOK, kernel, pool, locals, Goto, Done, Threads
<1>1. CASE Response
  <2>1. CASE Dequeue
    BY <2>1, StdinFrame DEF Dequeue
  <2>2. CASE CountAudience \/ SizeArray \/ CopyArray \/ TellNext
    BY <2>2, StdinFrame DEF CountAudience, SizeArray, CopyArray, TellNext
  <2>3. CASE ExecuteFaults \/ ExecuteDrops \/ Answer
    BY <2>3, StdinFrame DEF ExecuteFaults, ExecuteDrops, Answer
  <2>4. QED
    BY <1>1, <2>1, <2>2, <2>3, StdinDisconnect DEF Response
<1>2. ASSUME NEW c \in Conns, Connect(c) \/ Send(c) \/ HangUp(c) PROVE StdinInv'
  BY <1>2, StdinFrame DEF Connect, Send, HangUp
<1>3. CASE UNCHANGED vars
  BY <1>3, StdinFrame DEF vars
<1>4. QED
  BY <1>1, <1>2, <1>3, StdinServer DEF Next

\* StdinInv holds in every reachable state.
LEMMA StdinInvariance == Spec => []StdinInv
<1>1. Init => StdinInv
  BY Small DEF Init, StdinInv, Threads, Stdin, Conns
<1>2. IInv /\ StdinInv /\ [Next]_vars => StdinInv'
  BY StdinStep DEF IInv
<1>3. QED
  BY <1>1, <1>2, Invariance, PTL DEF Spec

\* For every size of the pool: no abort with MAX_CLIENTS + 1 connections or
\* fewer.  MCClientsDescriptor shows the abort with one more.
THEOREM AbortsLate == Spec => []AbortsOnlyWhenFull
<1>1. IInv /\ StdinInv => AbortsOnlyWhenFull
  <2>1. SUFFICES ASSUME IInv, StdinInv, accepted <= MAX_CLIENTS + 1
                 PROVE  DescriptorIsPositive /\ pc["server"] # "aborted"
    BY DEF AbortsOnlyWhenFull
  <2>2. TypeOK
    BY <2>1 DEF IInv
  <2>3. client_fd["server"] \in Fds /\ accepted \in 0 .. NConns
    BY <2>2, Small DEF TypeOK
  <2>4. QED
    BY <2>1, <2>3, Small DEF StdinInv, DescriptorIsPositive, Fds
<1>2. QED
  BY <1>1, Invariance, StdinInvariance, PTL

\* The client that a thread is about to close is not in another slot.
LEMMA NotInPool ==
  ASSUME TypeOK, KernelInv, PoolInv, ~doubled, NEW f \in Fds, fds[f] \in Conns,
         \A s \in Occupied : client_arr[s].fd # f
  PROVE  fds[f] \notin Members
<1>1. SUFFICES ASSUME NEW s \in Occupied, client_arr[s].id = fds[f] PROVE FALSE
  BY DEF Members
<1>2. client_arr[s].fd \in Fds /\ fds[client_arr[s].fd] = client_arr[s].id
  BY SlotTypes DEF PoolInv, Occupied
<1>3. QED
  BY <1>1, <1>2 DEF KernelInv

\* disconnect_client closes the descriptor of the client it was called for.
LEMMA RemoveCloses ==
  ASSUME IInv, NEW t \in Threads, RemoveClient(t), ~doubled,
         NEW f \in Fds, fds[f] \in Conns, fds'[f] # fds[f]
  PROVE  /\ fds'[f] = Free /\ fds[f] \notin Members'
         /\ pc[t] = "close" /\ client_fd[t] = f /\ whom[t] = fds[f]
<1> USE DEF IInv
<1>1. /\ fds' = [fds EXCEPT ![client_fd[t]] = Free] /\ pc[t] = "close"
      /\ client_arr' = [client_arr EXCEPT ![idx[t]] = Empty]
  BY DEF RemoveClient
<1>2. /\ client_fd[t] \in Fds /\ idx[t] \in Slots /\ fds \in [Fds -> Conns \cup {Stdin, Free}]
      /\ client_arr \in [Slots -> Slot] /\ client_fd[t] # 0
  BY <1>1 DEF TypeOK, PlaceInv, Dropping, Threads, ResponsePcs, ServerPcs
<1>3. client_fd[t] = f /\ fds'[f] = Free
  BY <1>1, <1>2
<1>4. client_arr[idx[t]] = [fd |-> f, id |-> whom[t]] /\ idx[t] \in Occupied
  BY <1>1, <1>2, <1>3 DEF PoolInv, Occupied
<1>5. whom[t] = fds[f]
  BY <1>4 DEF PoolInv
<1>6. ASSUME NEW s \in Slots, client_arr'[s].fd # 0, client_arr'[s].id = fds[f]
      PROVE  FALSE
  <2>1. s # idx[t] /\ client_arr'[s] = client_arr[s] /\ s \in Occupied
    BY <1>1, <1>2, <1>6 DEF Empty, Occupied
  <2>2. client_arr[s].fd \in Fds /\ fds[client_arr[s].fd] = fds[f]
    BY <1>6, <2>1, SlotTypes DEF PoolInv
  <2>3. client_arr[s].fd = f
    BY <2>2 DEF KernelInv
  <2>4. QED
    BY <1>4, <2>1, <2>3 DEF PoolInv
<1>7. fds[f] \notin Members'
  BY <1>6 DEF Members, Occupied
<1>8. QED
  BY <1>1, <1>3, <1>5, <1>7

\* So does the server thread with a client that it could not let in.
LEMMA RefusalCloses ==
  ASSUME IInv, StdinInv, Count \/ AddFails, ~doubled,
         NEW f \in Fds, fds[f] \in Conns, fds'[f] # fds[f]
  PROVE  /\ fds'[f] = Free /\ fds[f] \notin Members'
         /\ pc["server"] \in {"count", "add"}
         /\ client_fd["server"] = f /\ whom["server"] = fds[f]
<1> USE Small DEF IInv
<1>1. /\ fds \in [Fds -> Conns \cup {Stdin, Free}] /\ client_fd["server"] \in Fds
  BY DEF TypeOK
<1>2. /\ pc["server"] \in {"count", "add"} /\ client_arr' = client_arr
      /\ \/ fds' = [fds EXCEPT ![client_fd["server"]] = Free]
         \/ fds' = [fds EXCEPT ![0] = Free]
         \/ fds' = fds
  BY DEF Count, AddFails, pool
<1>3. fds'[f] = Free /\ (f = client_fd["server"] \/ f = 0)
  BY <1>1, <1>2
<1>4. f = client_fd["server"]
  BY <1>3 DEF StdinInv
<1>5. /\ fds[f] = whom["server"]
      /\ \A s \in Occupied : client_arr[s].fd # f
  BY <1>2, <1>4 DEF PoolInv
<1>6. fds[f] \notin Members
  BY <1>5, NotInPool
<1>7. Members' = Members
  BY <1>2 DEF Members, Occupied
<1>8. QED
  BY <1>2, <1>3, <1>4, <1>5, <1>6, <1>7

\* Nothing else closes a descriptor, and accept takes a free one.
LEMMA OthersClose ==
  ASSUME IInv, [Next]_vars, NEW f \in Fds, fds[f] \in Conns, fds'[f] # fds[f]
  PROVE  Count \/ AddFails \/ \E t \in Threads : RemoveClient(t)
<1> USE Small DEF IInv, TypeOK, kernel
<1>1. ASSUME NEW t \in Threads, Disconnect(t) PROVE RemoveClient(t)
  BY <1>1 DEF Disconnect, FdClear, ReadWord, WriteWord, FindSlot
<1>2. CASE Server
  <2>1. ASSUME Accept PROVE FALSE
    <3>1. LowestFree \in Fds /\ fds[LowestFree] = Free
      BY <2>1, SomeFree DEF Accept, PlaceInv
    <3>2. fds' = [fds EXCEPT ![LowestFree] = accepted + 1]
      BY <2>1 DEF Accept
    <3>3. QED
      BY <3>1, <3>2 DEF Conns, Free
  <2>2. QED
    BY <1>1, <1>2, <2>1 DEF Server, CopySet, Select, Selected, Interrupted,
       ReceiveFaults,
       AddAborts, AddClient, FdSet, ReadWord, WriteWord, Scan, ReceiveRequest,
       ReceiveTimesOut, ReceiveFails
<1>3. CASE Response
  BY <1>1, <1>3 DEF Response, Dequeue, ExecuteFaults, ExecuteDrops,
     CountAudience, SizeArray, CopyArray, TellNext, Answer
<1>4. ASSUME NEW c \in Conns, Connect(c) \/ Send(c) \/ HangUp(c) PROVE FALSE
  BY <1>4 DEF Connect, Send, HangUp
<1>5. ASSUME UNCHANGED vars PROVE FALSE
  BY <1>5 DEF vars
<1>6. QED
  BY <1>2, <1>3, <1>4, <1>5 DEF Next

\* For every size of the pool and every interleaving of the two threads: while
\* no client has been removed twice, a connection is closed by a thread that
\* drops its client and together with the slot that names it.
THEOREM ClosesOnlyItsOwn == Spec => ClosesItsOwn
<1> DEFINE Closes ==
      \A f \in Fds :
        fds[f] \in Conns /\ fds'[f] # fds[f] /\ ~doubled =>
          /\ fds'[f] = Free /\ fds[f] \notin Members'
          /\ \E t \in Threads : /\ pc[t] \in {"count", "add", "close"}
                               /\ client_fd[t] = f /\ whom[t] = fds[f]
<1>1. IInv /\ StdinInv /\ [Next]_vars => [Closes]_vars
  <2>1. SUFFICES ASSUME IInv, StdinInv, [Next]_vars, NEW f \in Fds,
                        fds[f] \in Conns, fds'[f] # fds[f], ~doubled
                 PROVE  /\ fds'[f] = Free /\ fds[f] \notin Members'
                        /\ \E t \in Threads :
                             /\ pc[t] \in {"count", "add", "close"}
                             /\ client_fd[t] = f /\ whom[t] = fds[f]
    OBVIOUS
  <2>2. CASE Count \/ AddFails
    BY <2>1, <2>2, RefusalCloses, Small
  <2>3. ASSUME NEW t \in Threads, RemoveClient(t)
        PROVE  /\ fds'[f] = Free /\ fds[f] \notin Members'
               /\ pc[t] = "close" /\ client_fd[t] = f /\ whom[t] = fds[f]
    BY <2>1, <2>3, RemoveCloses
  <2>4. QED
    BY <2>1, <2>2, <2>3, OthersClose
<1> HIDE DEF Closes
<1>2. Spec => [][Closes]_vars
  BY <1>1, Invariance, StdinInvariance, PTL DEF Spec
<1>3. QED
  BY <1>2 DEF Closes, ClosesItsOwn
=============================================================================
