------------------------------ MODULE Clients ------------------------------
(***************************************************************************)
(* The pool of clients of the server (client/client.c) and the two threads *)
(* that change it: run_server accepts clients, receives their messages and *)
(* drops those that hang up; run_response tells every client of a command, *)
(* answers the one that asked, and drops it when that fails.  Descriptors  *)
(* are numbers that the kernel hands out again, lowest first.              *)
(*                                                                         *)
(* Clients are numbered in the order in which they connect.  They send     *)
(* commands, not stream requests (stream_fd stays 0), read what they are   *)
(* sent (slow clients are a matter of Requests), and the queue has room.   *)
(***************************************************************************)
EXTENDS Integers, Sequences, FiniteSetsExt

CONSTANTS
  MAX_CLIENTS,   \* slots of client_arr
  NConns,        \* bound: how many clients ever connect
  Talkers        \* bound: those that send a message; the others never do

ASSUME PoolAssumption ==
  MAX_CLIENTS \in Nat \ {0} /\ NConns \in Nat /\ Talkers \subseteq 1 .. NConns

VARIABLES
  peer,        \* the client's end of each connection
  inbox,       \* what the client sent and the server has not received
  odd,         \* clients whose message unpacks, but names no known request
  accepted,    \* how many connections accept() returned
  fds,         \* the process's descriptor table
  client_arr,  \* the slots: client_fd, and the client that was put there
  client_cnt,
  serv_set,    \* descriptors that the server thread selects on
  pc,          \* where the two threads are
  client_fd,   \* the descriptor each thread works on
  whom,        \* the client each thread believes it to be
  idx,         \* the slot each thread found
  turn,        \* the server's loop over the slots
  word,        \* serv_set as a thread read it to change one bit
  read_set,    \* the server's copy of serv_set
  queue,       \* requests: descriptor and client
  arr,         \* the response thread's copy of client_arr
  cnt,         \* its first look at client_cnt
  sent,        \* how many of them it has sent to
  told,        \* clients that this broadcast reached
  audience,    \* clients it should reach: there from its start, never gone
  calm,        \* no hole and no change in the pool since the broadcast began
  doubled,     \* some client was removed twice, or in place of another
  raced,       \* some update of serv_set was lost
  entitled,    \* clients with a right to a slot: let in, and well behaved
  impatient    \* some client hung up on an unanswered request

kernel == <<peer, inbox, odd, accepted, fds>>
pool   == <<client_arr, client_cnt>>
cast   == <<arr, cnt, sent, told, audience, calm>>
locals == <<client_fd, whom, idx, turn>>
ghosts == <<doubled, raced, entitled, impatient>>
vars == <<kernel, pool, serv_set, pc, locals, word, read_set, queue, cast,
          ghosts>>

Conns   == 1 .. NConns
Slots   == 0 .. MAX_CLIENTS - 1
Fds     == 0 .. NConns             \* enough for stdin and every client
Nobody  == 0
Stdin   == -1
Free    == -2
Threads == {"server", "response"}
Empty   == [fd |-> 0, id |-> Nobody]

Occupied   == {s \in Slots : client_arr[s].fd # 0}
Members    == {client_arr[s].id : s \in Occupied}
Backlog    == {c \in Conns : peer[c] # "new" /\ c > accepted}
LowestFree == Min({f \in Fds : fds[f] = Free})

\* send() succeeds on a descriptor whose other end is open.
Reaches(f) == fds[f] \in Conns /\ peer[fds[f]] = "open"
Readable(f) ==
  /\ fds[f] \in Conns
  /\ \/ peer[fds[f]] = "closed"
     \/ inbox[fds[f]] \in {"request", "half", "garbage"}

\* assert() and a memory fault end the whole process.
Alive == \A t \in Threads : pc[t] \notin {"aborted", "faulted"}
Goto(t, l) == pc' = [pc EXCEPT ![t] = l]

\* A thread is done with a client: what it held of it is dead, and forgotten.
Done(t, next) ==
  /\ Goto(t, next)
  /\ client_fd' = [client_fd EXCEPT ![t] = 0]
  /\ whom' = [whom EXCEPT ![t] = Nobody]
  /\ idx' = [idx EXCEPT ![t] = 0]

Init ==
  /\ peer = [c \in Conns |-> "new"] /\ inbox = [c \in Conns |-> "unsent"]
  /\ odd = {} /\ accepted = 0
  /\ fds = [f \in Fds |-> IF f = 0 THEN Stdin ELSE Free]
  /\ client_arr = [s \in Slots |-> Empty] /\ client_cnt = 0
  /\ serv_set = {} /\ read_set = {}
  /\ pc = [t \in Threads |-> IF t = "server" THEN "copy" ELSE "dequeue"]
  /\ client_fd = [t \in Threads |-> 0] /\ whom = [t \in Threads |-> Nobody]
  /\ idx = [t \in Threads |-> 0] /\ turn = 0
  /\ word = [t \in Threads |-> {}]
  /\ queue = <<>> /\ arr = <<>> /\ cnt = 0 /\ sent = 0
  /\ told = {} /\ audience = {} /\ calm = FALSE
  /\ doubled = FALSE /\ raced = FALSE /\ entitled = {}
  /\ impatient = FALSE

-----------------------------------------------------------------------------
(* The clients.  A message is a command, only the first half of one, or    *)
(* bytes that are no message.  A command is odd if it comes without data,  *)
(* or if its number or its type is none that the server knows: it unpacks, *)
(* and receive_message lets it pass.                                       *)

Connect(c) ==
  /\ Alive /\ peer[c] = "new" /\ \A d \in 1 .. c - 1 : peer[d] # "new"
  /\ peer' = [peer EXCEPT ![c] = "open"]
  /\ UNCHANGED <<inbox, odd, accepted, fds, pool, serv_set, pc, locals, word,
                 read_set, queue, cast, ghosts>>

\* The server has not closed its end.  What else a client does, it does alone.
Attached(c) == Alive /\ (c > accepted \/ \E f \in Fds : fds[f] = c)

Send(c) ==
  /\ c \in Talkers /\ peer[c] = "open" /\ inbox[c] = "unsent" /\ Attached(c)
  /\ \E m \in {"request", "half", "garbage"} :
       /\ inbox' = [inbox EXCEPT ![c] = m]
       /\ entitled' = IF m = "garbage" THEN entitled \ {c} ELSE entitled
       /\ odd' \in IF m = "request" THEN {odd, odd \cup {c}} ELSE {odd}
  /\ UNCHANGED <<peer, accepted, fds, pool, serv_set, pc, locals, word,
                 read_set, queue, cast, doubled, raced, impatient>>

Unanswered(c) ==
  \/ inbox[c] = "request"
  \/ \E i \in DOMAIN queue : queue[i].id = c
  \/ whom["response"] = c
       /\ pc["response"] \in {"broadcast", "size", "copy", "tell", "answer"}

HangUp(c) ==
  /\ peer[c] = "open" /\ Attached(c)
  /\ peer' = [peer EXCEPT ![c] = "closed"]
  /\ impatient' = (impatient \/ Unanswered(c))
  /\ entitled' = entitled \ {c}
  /\ audience' = audience \ {c} /\ calm' = FALSE
  /\ UNCHANGED <<inbox, odd, accepted, fds, pool, serv_set, pc, locals, word,
                 read_set, queue, arr, cnt, sent, told, doubled, raced>>

-----------------------------------------------------------------------------
(* update_fd_set changes one bit of a word that both threads write without *)
(* a lock: it reads the word, and writes it with the bit changed.          *)

ReadWord(t, from, to) ==
  /\ Alive /\ pc[t] = from
  /\ word' = [word EXCEPT ![t] = serv_set]
  /\ Goto(t, to)
  /\ UNCHANGED <<kernel, pool, serv_set, locals, read_set, queue, cast,
                 ghosts>>

WriteWord(t, from, to, new) ==
  /\ Alive /\ pc[t] = from
  /\ serv_set' = new
  /\ raced' = (raced \/ serv_set # word[t])
  /\ word' = [word EXCEPT ![t] = {}]
  /\ Goto(t, to)
  /\ UNCHANGED <<kernel, pool, locals, read_set, queue, cast, doubled,
                 entitled, impatient>>

\* Mutant: the bit is not cleared.
FdClear_Forgotten(t) ==
  \/ ReadWord(t, "clear", "clearing")
  \/ WriteWord(t, "clearing", "find", word[t])

FdClear(t) ==
  \/ ReadWord(t, "clear", "clearing")
  \/ WriteWord(t, "clearing", "find", word[t] \ {client_fd[t]})

-----------------------------------------------------------------------------
(* disconnect_client and remove_client, called by either thread.  The slot *)
(* is looked up under one lock and cleared under another.                  *)

SlotOf(f) == {s \in Slots : client_arr[s].fd = f}
Other(t)  == IF t = "server" THEN "response" ELSE "server"

\* Where disconnect_client returns to.
Resume(t) == IF t = "server" THEN "scan" ELSE "dequeue"

FindSlot(t) ==
  /\ Alive /\ pc[t] = "find"
  /\ \/ /\ SlotOf(client_fd[t]) = {}
        /\ Done(t, Resume(t))
        /\ UNCHANGED doubled
     \/ /\ SlotOf(client_fd[t]) # {}
        /\ LET s == Min(SlotOf(client_fd[t]))
               o == Other(t)
           IN /\ idx' = [idx EXCEPT ![t] = s]
              /\ doubled' = \/ doubled
                            \/ client_arr[s].id # whom[t]
                            \/ pc[o] = "close" /\ client_fd[o] = client_fd[t]
        /\ Goto(t, "close")
        /\ UNCHANGED <<client_fd, whom>>
  /\ UNCHANGED <<kernel, pool, serv_set, turn, word, read_set, queue, cast,
                 raced, entitled, impatient>>

\* Mutant: client_cnt-- is missing.
RemoveClient_Uncounted(t) ==
  /\ Alive /\ pc[t] = "close"
  /\ fds' = [fds EXCEPT ![client_fd[t]] = Free]
  /\ client_cnt' = client_cnt
  /\ client_arr' = [client_arr EXCEPT ![idx[t]] = Empty]
  /\ Done(t, Resume(t))
  /\ calm' = FALSE
  /\ audience' = audience \ {fds[client_fd[t]], client_arr[idx[t]].id}
  /\ UNCHANGED <<peer, inbox, odd, accepted, serv_set, turn, word, read_set,
                 queue, arr, cnt, sent, told, ghosts>>

RemoveClient(t) ==
  /\ Alive /\ pc[t] = "close"
  /\ fds' = [fds EXCEPT ![client_fd[t]] = Free]
  /\ client_cnt' = client_cnt - 1
  /\ client_arr' = [client_arr EXCEPT ![idx[t]] = Empty]
  /\ Done(t, Resume(t))
  /\ calm' = FALSE
  /\ audience' = audience \ {fds[client_fd[t]], client_arr[idx[t]].id}
  /\ UNCHANGED <<peer, inbox, odd, accepted, serv_set, turn, word, read_set,
                 queue, arr, cnt, sent, told, ghosts>>

Disconnect(t) == FdClear(t) \/ FindSlot(t) \/ RemoveClient(t)

-----------------------------------------------------------------------------
(* run_server.  pselect works on a copy of serv_set: it fails at once if a *)
(* descriptor of the copy is closed, and a signal makes the thread copy    *)
(* again.                                                                  *)

CopySet ==
  /\ Alive /\ pc["server"] = "copy"
  /\ read_set' = serv_set
  /\ Goto("server", "pselect")
  /\ UNCHANGED <<kernel, pool, serv_set, locals, word, queue, cast, ghosts>>

Select ==
  /\ Alive /\ pc["server"] = "pselect"
  /\ Goto("server", IF \E f \in read_set : fds[f] = Free
                      THEN "stopped" ELSE "blocked")
  /\ UNCHANGED <<kernel, pool, serv_set, locals, word, read_set, queue, cast,
                 ghosts>>

Selected ==
  /\ Alive /\ pc["server"] = "blocked"
  /\ LET ready == {f \in read_set : Readable(f)}
     IN /\ Backlog # {} \/ ready # {}
        /\ read_set' = ready
  /\ Goto("server", IF Backlog # {} THEN "accept" ELSE "scan")
  /\ turn' = 0
  /\ UNCHANGED <<kernel, pool, serv_set, client_fd, whom, idx, word, queue,
                 cast, ghosts>>

Interrupted ==
  /\ Alive /\ pc["server"] = "blocked"
  /\ Goto("server", "copy")
  /\ UNCHANGED <<kernel, pool, serv_set, locals, word, read_set, queue, cast,
                 ghosts>>

\* connect_new_client: accept() returns the lowest free descriptor.
Accept ==
  /\ Alive /\ pc["server"] = "accept"
  /\ accepted' = accepted + 1
  /\ fds' = [fds EXCEPT ![LowestFree] = accepted + 1]
  /\ client_fd' = [client_fd EXCEPT !["server"] = LowestFree]
  /\ whom' = [whom EXCEPT !["server"] = accepted + 1]
  /\ Goto("server", "count")
  /\ UNCHANGED <<peer, inbox, odd, pool, serv_set, idx, turn, word, read_set,
                 queue, cast, ghosts>>

\* connect_new_client returns 0 for a client too many, so the notice goes to
\* descriptor 0, and it is descriptor 0 that is closed.
Count ==
  /\ Alive /\ pc["server"] = "count"
  /\ \/ /\ client_cnt < 0
        /\ fds' = [fds EXCEPT ![client_fd["server"]] = Free]
        /\ Done("server", "copy")
     \/ /\ client_cnt >= MAX_CLIENTS
        /\ fds' = [fds EXCEPT ![0] = Free]
        /\ Done("server", "copy")
     \/ /\ client_cnt \in 0 .. MAX_CLIENTS - 1
        /\ Goto("server", "add")
        /\ UNCHANGED <<fds, client_fd, whom, idx>>
  /\ UNCHANGED <<peer, inbox, odd, accepted, pool, serv_set, turn, word,
                 read_set, queue, cast, ghosts>>

\* Mutant: descriptor 0 is admitted.
Asserted_Weakly == client_fd["server"] >= 0

\* assert(client_fd > 0)
Asserted == client_fd["server"] > 0

AddAborts ==
  /\ Alive /\ pc["server"] = "add" /\ ~Asserted
  /\ Goto("server", "aborted")
  /\ UNCHANGED <<kernel, pool, serv_set, locals, word, read_set, queue, cast,
                 ghosts>>

AddClient ==
  /\ Alive /\ pc["server"] = "add" /\ Asserted
  /\ SlotOf(0) # {}
  /\ client_arr' = [client_arr EXCEPT ![Min(SlotOf(0))] =
                      [fd |-> client_fd["server"], id |-> whom["server"]]]
  /\ client_cnt' = client_cnt + 1
  /\ entitled' = entitled \cup
       {c \in {whom["server"]} : peer[c] = "open" /\ inbox[c] # "garbage"}
  /\ calm' = FALSE
  /\ Goto("server", "set")
  /\ UNCHANGED <<kernel, serv_set, locals, word, read_set, queue, arr, cnt,
                 sent, told, audience, doubled, raced, impatient>>

AddFails ==
  /\ Alive /\ pc["server"] = "add" /\ Asserted
  /\ SlotOf(0) = {}
  /\ fds' = [fds EXCEPT ![client_fd["server"]] = Free]
  /\ Done("server", "copy")
  /\ UNCHANGED <<peer, inbox, odd, accepted, pool, serv_set, turn, word,
                 read_set, queue, cast, ghosts>>

\* Mutant: the bit is not set.
FdSet_Forgotten ==
  \/ ReadWord("server", "set", "setting")
  \/ WriteWord("server", "setting", "scan",
               word["server"])

FdSet ==
  \/ ReadWord("server", "set", "setting")
  \/ WriteWord("server", "setting", "scan",
               word["server"] \cup {client_fd["server"]})

\* One turn of the loop over the slots: find_client and fd_ready.
Scan ==
  /\ Alive /\ pc["server"] = "scan"
  /\ \/ /\ turn = MAX_CLIENTS
        /\ Done("server", "copy")
        /\ turn' = 0
     \/ /\ turn < MAX_CLIENTS
        /\ turn' = turn + 1
        /\ LET f == client_arr[turn].fd
           IN \/ /\ f > 0 /\ f \in read_set
                 /\ client_fd' = [client_fd EXCEPT !["server"] = f]
                 /\ Goto("server", "receive")
              \/ /\ f = 0 \/ f \notin read_set
                 /\ UNCHANGED <<client_fd, pc>>
        /\ UNCHANGED <<whom, idx>>
  /\ UNCHANGED <<kernel, pool, serv_set, word, read_set, queue, cast, ghosts>>

\* The rest of the turn: receive_message, on the connection that the descriptor
\* is now (the response thread may have closed it).
Received == fds[client_fd["server"]]

\* Mutant: client_fd and client_id are swapped.
Node_Swapped(f, c) == [fd |-> c, id |-> f]
Node(f, c) == [fd |-> f, id |-> c]

ReceiveRequest ==
  /\ Alive /\ pc["server"] = "receive"
  /\ Received \in Conns /\ inbox[Received] = "request"
  /\ inbox' = [inbox EXCEPT ![Received] = "read"]
  /\ queue' = Append(queue, Node(client_fd["server"], Received))
  /\ Done("server", "scan")
  /\ UNCHANGED <<peer, odd, accepted, fds, pool, serv_set, turn, word,
                 read_set, cast, ghosts>>

\* run_server logs data[0] of what it received, and there is none.
ReceiveFaults ==
  /\ Alive /\ pc["server"] = "receive"
  /\ Received \in odd /\ inbox[Received] = "request"
  /\ Goto("server", "faulted")
  /\ UNCHANGED <<kernel, pool, serv_set, locals, word, read_set, queue, cast,
                 ghosts>>

\* A receive times out before a message or half way through it: the client is
\* left alone.
ReceiveTimesOut ==
  /\ Alive /\ pc["server"] = "receive"
  /\ Received \in Conns /\ peer[Received] = "open"
  /\ inbox[Received] \in {"half", "unsent", "read"}
  /\ inbox' = [inbox EXCEPT ![Received] = IF @ = "half" THEN "read" ELSE @]
  /\ Done("server", "scan")
  /\ UNCHANGED <<peer, odd, accepted, fds, pool, serv_set, turn, word,
                 read_set, queue, cast, ghosts>>

\* Mutant: a time-out is an error like any other.
Lost_OnTimeout(c) ==
  \/ c = Free
  \/ c \in Conns /\ inbox[c] # "request"

\* What makes receive_message fail otherwise: no connection, end of file, or
\* bytes that cannot be unpacked.
Lost(c) ==
  \/ c = Free
  \/ c \in Conns /\ inbox[c] = "garbage"
  \/ c \in Conns /\ peer[c] = "closed" /\ inbox[c] # "request"

ReceiveFails ==
  /\ Alive /\ pc["server"] = "receive"
  /\ Lost(Received)
  /\ inbox' = [c \in Conns |->
                 IF c = Received /\ inbox[c] # "unsent" THEN "read"
                 ELSE inbox[c]]
  /\ whom' = [whom EXCEPT !["server"] =
                IF Received \in Conns THEN Received ELSE Nobody]
  /\ Goto("server", "clear")
  /\ UNCHANGED <<peer, odd, accepted, fds, pool, serv_set, client_fd, idx,
                 turn, word, read_set, queue, cast, ghosts>>

Server ==
  \/ CopySet \/ Select \/ Selected \/ Interrupted
  \/ Accept \/ Count \/ AddAborts \/ AddClient \/ AddFails \/ FdSet
  \/ Scan \/ ReceiveRequest \/ ReceiveFaults \/ ReceiveTimesOut \/ ReceiveFails
  \/ Disconnect("server")

-----------------------------------------------------------------------------
(* run_response: send_broadcast_message, then send_response.               *)

\* dequeue returns NULL once the player stops.
Dequeue ==
  /\ Alive /\ pc["response"] = "dequeue" /\ pc["server"] # "stopped"
  /\ queue # <<>>
  /\ client_fd' = [client_fd EXCEPT !["response"] = Head(queue).fd]
  /\ whom' = [whom EXCEPT !["response"] = Head(queue).id]
  /\ queue' = Tail(queue)
  /\ Goto("response", "broadcast")
  /\ UNCHANGED <<kernel, pool, serv_set, idx, turn, word, read_set, cast,
                 ghosts>>

\* execute_command on an odd command.  One of a number out of range is called
\* through what lies behind the table of handlers: the process ends, or goes on
\* to broadcast.  One of an unknown type is dropped, and nobody hears of it.
ExecuteFaults ==
  /\ Alive /\ pc["response"] = "broadcast" /\ whom["response"] \in odd
  /\ Goto("response", "faulted")
  /\ UNCHANGED <<kernel, pool, serv_set, locals, word, read_set, queue, cast,
                 ghosts>>

ExecuteDrops ==
  /\ Alive /\ pc["response"] = "broadcast" /\ whom["response"] \in odd
  /\ odd' = odd \ {whom["response"]}
  /\ Done("response", "dequeue")
  /\ UNCHANGED <<peer, inbox, accepted, fds, pool, serv_set, turn, word,
                 read_set, queue, cast, ghosts>>

\* client_cnt = get_client_cnt(client_pool)
CountAudience ==
  /\ Alive /\ pc["response"] = "broadcast"
  /\ cnt' = client_cnt /\ sent' = 0 /\ told' = {}
  /\ audience' = {c \in Members : peer[c] = "open"}
  /\ calm' = (Occupied = 0 .. client_cnt - 1 /\ audience' = Members)
  /\ odd' = odd \ {whom["response"]}
  /\ Goto("response", "size")
  /\ UNCHANGED <<peer, inbox, accepted, fds, pool, serv_set, locals, word,
                 read_set, queue, arr, ghosts>>

\* get_client_arr counts again, and there is nothing to copy for none.
SizeArray ==
  /\ Alive /\ pc["response"] = "size"
  /\ arr' = [i \in 1 .. client_cnt |-> 0]
  /\ Goto("response", IF cnt < 0 \/ client_cnt <= 0 THEN "answer" ELSE "copy")
  /\ UNCHANGED <<kernel, pool, serv_set, locals, word, read_set, queue, cnt,
                 sent, told, audience, calm, ghosts>>

\* The first slots are copied, as many as there are clients.
CopyArray ==
  /\ Alive /\ pc["response"] = "copy"
  /\ arr' = [i \in DOMAIN arr |-> client_arr[i - 1].fd]
  /\ Goto("response", "tell")
  /\ UNCHANGED <<kernel, pool, serv_set, locals, word, read_set, queue, cnt,
                 sent, told, audience, calm, ghosts>>

\* Mutant: the loop ends one client early.
ToldAll_Early == sent >= cnt - 1
ToldAll == sent >= cnt

\* One turn of the loop over the copy; the first send that fails ends it.  The
\* loop runs to the first count: if the copy is shorter, it reads what lies
\* behind it, which may be any number.
TellNext ==
  /\ Alive /\ pc["response"] = "tell"
  /\ \/ /\ ToldAll
        /\ Goto("response", "answer")
        /\ UNCHANGED <<sent, told>>
     \/ /\ ~ToldAll
        /\ \E f \in Fds :
             /\ sent < Len(arr) => f = arr[sent + 1]
             /\ \/ /\ Reaches(f)
                   /\ sent' = sent + 1 /\ told' = told \cup {fds[f]}
                   /\ UNCHANGED pc
                \/ /\ ~Reaches(f)
                   /\ Goto("response", "answer")
                   /\ UNCHANGED <<sent, told>>
  /\ UNCHANGED <<kernel, pool, serv_set, locals, word, read_set, queue, arr,
                 cnt, audience, calm, ghosts>>

Answer ==
  /\ Alive /\ pc["response"] = "answer"
  /\ \/ /\ Reaches(client_fd["response"])
        /\ Done("response", "dequeue")
     \/ /\ ~Reaches(client_fd["response"])
        /\ Goto("response", "clear")
        /\ UNCHANGED <<client_fd, whom, idx>>
  /\ arr' = <<>> /\ cnt' = 0 /\ sent' = 0
  /\ told' = {} /\ audience' = {} /\ calm' = FALSE
  /\ UNCHANGED <<kernel, pool, serv_set, turn, word, read_set, queue, ghosts>>

Response ==
  \/ Dequeue \/ ExecuteFaults \/ ExecuteDrops
  \/ CountAudience \/ SizeArray \/ CopyArray \/ TellNext \/ Answer
  \/ Disconnect("response")

Next ==
  \/ \E c \in Conns : Connect(c) \/ Send(c) \/ HangUp(c)
  \/ Server
  \/ Response

Spec == Init /\ [][Next]_vars

-----------------------------------------------------------------------------
ServerPcs == {"copy", "pselect", "blocked", "accept", "count", "add", "set",
              "setting", "scan", "receive", "clear", "clearing", "find",
              "close", "stopped", "aborted", "faulted"}
ResponsePcs == {"dequeue", "broadcast", "size", "copy", "tell", "answer",
                "clear", "clearing", "find", "close", "faulted"}
Slot == {Empty} \cup [fd : Fds \ {0}, id : Conns]

\* The variables stay within their types; in particular a slot never holds a
\* client without a descriptor, and there are never more than MAX_CLIENTS.
TypeOK ==
  /\ peer \in [Conns -> {"new", "open", "closed"}]
  /\ inbox \in [Conns -> {"unsent", "request", "half", "garbage", "read"}]
  /\ odd \subseteq Conns /\ accepted \in 0 .. NConns
  /\ fds \in [Fds -> Conns \cup {Stdin, Free}]
  /\ client_arr \in [Slots -> Slot]
  /\ client_cnt \in Int /\ client_cnt <= MAX_CLIENTS
  /\ serv_set \subseteq Fds \ {0} /\ read_set \subseteq Fds \ {0}
  /\ pc \in [Threads -> ServerPcs \cup ResponsePcs]
  /\ pc["server"] \in ServerPcs /\ pc["response"] \in ResponsePcs
  /\ word \in [Threads -> SUBSET (Fds \ {0})]
  /\ client_fd \in [Threads -> Fds]
  /\ whom \in [Threads -> Conns \cup {Nobody}]
  /\ idx \in [Threads -> Slots] /\ turn \in 0 .. MAX_CLIENTS
  /\ queue \in Seq([fd : Fds \ {0}, id : Conns])
  /\ arr \in Seq(Fds) /\ cnt \in Int /\ sent \in Nat
  /\ told \subseteq Conns /\ audience \subseteq Conns
  /\ entitled \subseteq Conns /\ impatient \in BOOLEAN
  /\ calm \in BOOLEAN /\ doubled \in BOOLEAN /\ raced \in BOOLEAN

\* Two threads change the pool and look slots up under one lock to clear them
\* under the next.  As long as they never drop the same client both, nor one
\* in place of another, client_cnt counts the occupied slots, no two slots
\* share a descriptor, and each descriptor is that of the client in the slot.
PoolAgrees ==
  ~doubled =>
    /\ client_cnt = Cardinality(Occupied)
    /\ \A s \in Occupied : fds[client_arr[s].fd] = client_arr[s].id
    /\ \A s, t \in Occupied : client_arr[s].fd = client_arr[t].fd => s = t

\* As long as no client hangs up on a request that is not answered, a client
\* with a slot keeps it until it hangs up or sends what is no message: nothing
\* that the response thread does, or that happens to other clients, drops it.
OpenClientIsKept ==
  ~impatient => entitled \subseteq Members

\* Under the same condition each request that waits or is being served still
\* names the descriptor of the client that sent it.
RequestNamesItsSender ==
  ~impatient =>
    /\ \A i \in DOMAIN queue : fds[queue[i].fd] = queue[i].id
    /\ pc["response"] \in {"broadcast", "size", "copy", "tell", "answer"} =>
         fds[client_fd["response"]] = whom["response"]

\* pselect fails on a closed descriptor, and the player stops, only after a
\* client hung up on an unanswered request: the server thread itself never
\* closes a descriptor that it goes on to select on.
StopsOnlyAfterImpatience == pc["server"] = "stopped" => impatient

\* A broadcast reaches every client, if the slots had no hole when it began, no
\* client came, went or hung up before it ended, and no client was ever removed
\* twice: a slot whose descriptor the other thread closed may name a number that
\* was handed to someone else.
CalmBroadcastReachesAll ==
  ~doubled /\ calm /\ pc["response"] = "answer" => Members = told

\* The server thread selects on the descriptors of the clients in the pool and
\* on no other, except for the one that a thread is adding or dropping: no
\* client goes unheard, and none that left is selected on.  It holds as long as
\* no client was removed twice and no update of serv_set was lost between the
\* two threads' unlocked writes.
BeingAdded ==
  IF pc["server"] \in {"set", "setting"} THEN {client_fd["server"]} ELSE {}
BeingDropped ==
  {client_fd[t] : t \in
     {u \in Threads : pc[u] \in {"clearing", "find", "close"}}}
MembersAreWatched ==
  ~doubled /\ ~raced =>
    LET members == {client_arr[s].fd : s \in Occupied}
    IN /\ serv_set \subseteq members \cup BeingDropped
       /\ members \subseteq serv_set \cup BeingAdded \cup BeingDropped

\* What the code says, and does not hold.
\* run_response: "Broadcast to all clients which command is executed".  The
\* first client_cnt slots are copied: after a client in a lower slot has left,
\* the last client is not among them, and descriptor 0 in the empty slot makes
\* send fail, which ends the loop.  So a client may hear of nothing although
\* everyone in the pool is there to listen.
BroadcastReachesAll ==
  pc["response"] = "answer" /\ (\A c \in Members : peer[c] = "open")
    => audience \subseteq told

\* add_client: assert(client_fd > 0).  A client too many makes the server close
\* descriptor 0, which accept() then returns for the next client.
DescriptorIsPositive == pc["server"] = "add" => client_fd["server"] > 0
=============================================================================
