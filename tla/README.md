# odroid-player in TLA+

This directory holds a specification of the server of odroid-player
(`src/src/server`) and of its client library (`src/src/client`), the
configurations that model-check it and machine-checked proofs about it. The
server plays a list of media files by running one `gst-launch-1.0` process after
another, and takes commands from clients over a Unix socket.

## 1. The system

| Component | Source | State | Operations |
|---|---|---|---|
| Play thread | `player/player.c` (`run_player`, `spawn_child`, `forward_playlist`, `backward_playlist`) | `child_pid`, `child_paused`, `child_stopped`, `pending_command` under `play_mutex`; locals `pid`, `pending` | fork a child for the current file, publish its pid, `waitpid`, choose the next file, announce it |
| Commands | `agmp/agmp_cmds.c`, `command_player` | the same | PLAY (resume or replay), STOP, PAUSE, NEXT, PREV: store the command, signal thread and child |
| Playlist | `playlist/playlist.c` | `cur_idx`, `filenum`, `loop` | move by one, within bounds |
| Request queue | `utils/queue.c` | list, `size`, `running`, mutex and condition variable | `enqueue`, `dequeue` |
| Server thread | `server/server.c`, `receive/receive.c`, `utils/fd_set.c` | `serv_set`, its copy `read_set` | select, accept, receive, enqueue, disconnect |
| Response thread | `response/response.c`, `send/send.c` | the request in hand | take a request, execute it, broadcast it, answer it with resends, disconnect |
| Client pool | `client/client.c` | `client_arr` with holes, `client_cnt` under `client_mutex` | add, look up, remove, copy for a broadcast; streams of a client |
| Stream thread | `stream/stream.c`, streams in `client/client.c` and `response.c` | `strm_set`, stream fields of a slot | send the position to each stream that can be written; remove one that cannot |
| Start and stop | `main.c`, `init_player`, `start_player`, `set_player_running`, `interrupt_handler`, `wait_player`, `clear_player` | `running`, `queue->running`, the threads | create, flag, signal, join, free |
| Watchdog | `utils/watchdog.c` | a pending signal, a count of waits | exit the process if a stop takes longer than its time-out |
| Options | `main.c` | the file list | collect files before anything starts |
| Client library, commands | `client/opc/opclient.c`, `response/`, `utils/opc_utils.c` | `msg_idx`, an alarm | send a command, wait for its answer, connect, destroy |
| Client library, receiver | `client/opc/receive/receive.c`, `utils/queue.c`, `monitor/` | connection, two queues, `monitor->play` | sort messages into queues, notice the end of the connection, reconnect |
| Command line client | `client/` outside `opc` | keyboard, terminal | one command per key, a listener for notices, a reader of the stream |
| Player child | `gst-launch-1.0`, external | a process | plays one file, obeys signals |
| Old front end | `agmp/agmplayer.c` and neighbours | a GStreamer pipeline | none: linked, but `prepare_player` ignores the callback it is given and nothing else calls it |

How they meet: clients talk to the server thread by a length and a payload;
the server thread hands requests to the response thread through the queue; the
response thread calls `command_player`, which shares `play_mutex` and
`play_cond` with the play thread and signals the child; response thread, play
thread and server thread all send to the clients' descriptors; server,
response and stream thread all change the pool and the descriptor sets; any
thread that ends, and the SIGINT handler, calls `set_player_running(false)`,
which clears two flags in two critical sections and wakes four threads by
three different means. On the client's side the thread that calls the library
and the receive thread share two queues and the connection, and an alarm jumps
out of whatever the calling thread was doing.

What is hard about it: the child's life (fork, publication of the pid, pause,
death) is seen by two threads through three variables; waits on condition
variables that depend on flags changed under other locks; sends in two parts by
three threads without a lock; descriptors that are reused as soon as they are
closed and looked up under one lock to be used under another; a flag that is read
only behind a wait; streams that
three threads create, serve and remove; time-outs, late answers and reconnects
in the client; a signal handler that takes locks, and its watchdog; stop.
`PROJECT.json` lists each of these hazards at its line, with the
property that covers it or the reason why none does yet.

What makes each part correct: one child at a time, silence after STOP, pause
that can always be undone, the right neighbour of a track; requests served once
and in order, nobody asleep over one; messages whole; clients dropped only for
their own fault, the pool consistent with the descriptors; a promised stream
served; a call answered with its own answer or failed, and always ended; nothing
used after it is freed, a stop that ends.

## 2. Modules

| Module | Models | Checked by | Proved in |
|---|---|---|---|
| `Playback` | the promise of the player: tracks, one at a time, a choice of neighbour in the silence between two | as a property of `Player` | |
| `Player` | play thread, child processes, `command_player` and the commands, stop and clean-up | `MCPlayer` | `PlayerProofs` |
| `Mailbox` | the promise of the request queue: first come, first served, answers in order | as a property of `Requests` | |
| `Requests` | server, response and play thread around queue and sockets, stop of the queue | `MCRequests` | `RequestsProofs` |
| `Clients` | the pool, descriptors, accept, broadcast and disconnect by two threads | `MCClients` | `ClientsProofs` |
| `Streams` | streams: creation, the stream thread's loop, removal by three threads | `MCStreams` | `StreamsProofs` |
| `Stop` | creation of the threads, the SIGINT handler, the watchdog, join and free | `MCStop` | `StopProofs` |
| `Calls` | the promise of the client library: a call returns its own answer or fails | as a property of `OpClient` | |
| `OpClient` | the client library: calls, alarm, receive thread, queues, reconnect, end | `MCOpClient` | `OpClientProofs` |

The modules cut the program along its threads' shared state, so that each can be
checked with all interleavings: `Player` has the play state, `Requests` the
queue and the sockets' contents, `Clients` the pool and the descriptors,
`Streams` the second descriptor set and the stream fields of the pool, `Stop` the
locks and the signals. Where one leaves something out, it says which other has it.

### Player

The variables are those of `t_player` and `t_playlist` by their names. `playPc`
is where the play thread is in `run_player` (`head` and `wait`: its loop at
lines 571-586 and `pthread_cond_wait`; `spawn`, `publish`, `waitpid`, `cleanup`,
`decide`: lines 605-707). An action is one critical section of `play_mutex`, or
the code between two of them. `proc` is the kernel's view of each pid (`none`,
`running`, `stopped`, `terminating`, `stopped_term`, `dead` for a zombie); the
effect of SIGCONT, SIGTERM and SIGSTOP on it is `Sigcont`, `Sigterm`, `Sigstop`.
A SIGSTOP after a SIGTERM may find the process already past it: both outcomes
are allowed. `pid` and `pending`, locals of `run_player`, are set back once they are
dead. `fork` may fail.

The response thread is its loop, `dequeue` and one call of a `cmd_*` function,
which computes its answer from an earlier look at the playlist; any command may
come at any time. `dequeue` looks at `queue_running` behind its wait only
(`MayDequeue`), so that a stop whose signal comes before the wait is lost on it.
`Callers` are those who call `set_player_running(false)`: the stream and the server
thread as they end, and handlers of SIGINT (`Stoppers`), each in three steps: the
flag, the queue with its signal, `play_cond` with its own. The play and the response
thread make the same call in `EndSignals`, `PlayExit` and `RespExit`. Main joins all
four threads in `WaitPlayer`. The stream thread may be stuck in `sendto` for good
(`StreamBlocks`), and main with it. `ClearPlayer` may end in `crashed`, because
`pthread_join` of an already joined thread is undefined.

`ShutdownUnlessStuck` says how a stop can fail to end the program: the child is
paused, the response thread has missed the signal (`StopMissed`), or the stream
thread is blocked (`StreamBlocked`), from then on. Each of the three is reachable.
`ShutdownTerminates`, which the run `player_shutdown` refutes, has the last two of them
only: what the comment in `clear_player` promises is about the child.

Not in it: `play_time` and the other clocks; the announcements of tracks, which
are in `Requests`; reuse of a pid while `child_pid` still holds it.

### Requests

One action is one critical section, one send or one `pselect`. `known` is the
server thread's last sight of `queue->size`, which `enqueue` tests before it
takes the mutex. A message is two sends; `half[c]` is the message of which
client `c` has the length only, and `torn` collects the clients that got a part
out of place. A send may time out (SO_SNDTIMEO), in either part. Three threads
call `set_player_running(false)`, each at any point of its loop.
`SelectInterrupted` is the EINTR of `pselect`, `WakeSpuriously` that of
`pthread_cond_wait`. `troubled`, a history variable, holds the clients that
were refused, were too slow or were told of a track while a request was served.

Here clients stay connected, sit in the first slots and send whole requests.
What they do otherwise is in `Clients`.

### Clients

`fds` is the process's descriptor table: descriptor 0 is stdin, and `accept`
returns the lowest free number. The other descriptors that the server holds for
good (log, listening socket) are left out, so numbers 1, 2, ... stand for the
first free ones above them. Clients are numbered in the order in which they
connect; `client_arr[s].id` is the client in a slot. `peer` and `inbox` are the
client's side: it sends a request, half of one, or bytes that cannot be
unpacked, and hangs up at any time. A request may be odd: it unpacks, but comes
without data, or with a command or a type that the server does not know. `odd` holds
the clients that sent one. `run_server` logs `data[0]` of it and
`execute_command` looks its command up in a table without testing the number, so
that the process may end there (`ReceiveFaults`, `ExecuteFaults`; pc `faulted`);
a type that is unknown is dropped without a broadcast or an answer (`ExecuteDrops`);
else it is served as any other.

`disconnect_client` is called by both threads and is four steps: read the word
of `serv_set`, write it back with a bit cleared (`FD_CLR` on shared memory
without a lock: a data race, of which a lost update is a possible outcome),
look the slot up under the lock, and under the lock again close the
descriptor, count down and clear the slot. `wait_fd` copies the set in one step
and enters `pselect` in another. `send_broadcast_message` counts, `get_client_arr`
counts again and copies, and the loop sends to one slot after the other; where
the loop runs behind the copy the descriptor it reads is arbitrary.
What a thread held of a client it is done with is set back to 0: it is dead and
would only multiply states.

History variables: `doubled` (a client was removed twice, or one in place of
another), `raced` (an update of `serv_set` was lost), `impatient` (a client hung
up before its request was answered), `entitled` (clients with a slot that
did nothing wrong), `audience`, `told` and `calm` for the current broadcast.

Left out: streams, which are in `Streams`; the limit of the queue and slow
clients (both in `Requests`); the notices sent to a client before it is dropped
and SIGPIPE, which is blocked; stop, except that of `pselect` on a
closed descriptor (`stopped`).

### Streams

Every client has its slot from the start, and at most one request for a stream in
the queue. `pc` says where each of the three threads is: the server and the
response thread drop a client in the steps of `disconnect_client` and
`remove_client` (`drop`, `clear`, `clearing`, `remove`, `lookup`, `close`, `zero`);
the response thread creates a stream in those of `set_new_stream` (`create`,
`socket`, `get_fd`, `add`, `adding`), reads the paths, sets the function
(`trigger`) and answers; the stream thread goes round `run_stream`. Between any two
of them the pool's lock is free. `CreateStream` has three outcomes: a stream, no
socket, and a socket that `create_socket_uds` leaves open because it could not be
bound; these are in `leaked`. `box` is the end that the client makes: one that is not
bound yet, and one it never bound before it left, is a path that does not exist, on
which the server keeps the stream; one that it bound and closed, by `Unbind` or as it
leaves, is refused, and the stream is removed. `strm_set` is changed by reading a word and
writing it back, without a lock. `whom`, `stream_fd` and `idx` are the locals of
these functions.

`fds` gives each open stream a number that is never used twice, and `which` is the
number of the stream that a thread means by the descriptor it holds: with them the
history variable `doubled` notes that a thread acted on a descriptor that stands
for another stream by now. `raced` notes a lost update of `strm_set`, `caught` a
stream closed between the copy of the set and the `pselect` on it (EBADF, on which
`wait_fd` stops the player), `impatient` a client that left before its answer,
`excused` the clients that did not take what was sent to them, and those whose
stream the stream thread met between `set_new_stream` and `trigger_stream`, where
it has no function and is removed. The sockets of the streams have no time-out: a
client that does not read lets `sendto` block, with SIGUSR1 blocked.

Left out: the broadcast before the command (in `Clients`), the data that is sent,
the requests for anything but the time, clients that come after the start.

### Stop

`Early` are the threads that `start_player` creates before the watchdog; the play
thread comes after it. What threads do is reduced to taking and freeing the
mutexes; `held` says who has which. SIGINT may be delivered to any thread, its
handler then runs on top of it (`handler`): it signals the watchdog, passes the
three critical sections of `set_player_running`, and signals again; meanwhile its
thread does not run, so that a mutex this thread holds is never freed. The same
three sections, called by a thread that ends or by main, are `setter`. SIGCHLD or
SIGINT ends the watchdog's wait with EINTR, and its thread. `exit` is how the
process ends: `failure` by the watchdog, `aborted` by the assertion in the handler
that the watchdog exists, `undefined` by `pthread_kill` for a detached thread that
has ended, or through the freed player.

### OpClient

`mainPc` is where the program's thread is: in a call (`send_length`,
`send_payload`, then `check`, `dequeue`, `wait`, `woken`, `taken` under the alarm)
or in `set_monitor` and `opc_destroy`. All the calls of the interface differ in the
command and the form of the answer only; here they are one, and a command is its
number `msg_idx`. `Alarm` is SIGALRM: its handler jumps back to `opc_set_timeout`
from wherever the thread is, also out of a critical section, and frees the mutex of
the queue whoever holds it. So `enqueue` is three steps: `HandleAnswer` tests the
size, takes the mutex and walks to the last node, `LinkAnswer` links the new one,
`CountAnswer` sets the size, signals and frees the mutex. `freed` says that an alarm
freed the mutex between two of them: then a call may take the node before it is
counted, or the last node on which the next is hung, and `Counted` is what the size
can be after the two threads' unlocked changes, -1 standing for the largest
`size_t`. The section of the call in `dequeue_conditional` stays one step: the orders in
which its two assignments and those of `enqueue` can come are among the outcomes of
`LinkAnswer`, `Counted` and `Alarm`. `wedged` says that `monitor_mutex` was left locked, `left` that a waiter jumped out
of `pthread_cond_wait`, in which case a later signal may go to the waiter that is no
more (`SignalCmd`). `recvPc` is the receive thread in `run_receiver`, with `err` for
what makes it give up (`ReceiveFails` is any error of `recv` that is neither a
time-out nor a lost connection), the notices of `notice_reconnect` (`closed`, `flush`,
`connected`, `flush_connected`) and `opc_connect` between them; `listenPc` is the thread that takes notices (one that has
ended is one that takes no more), and `undone` what it is when it looks at a client that
has been freed.

A connection has a number (`epoch`); `inbox` and `wire` are the parts of messages
under way in either direction. The server is external: it executes whole commands
in order, may speak of its own accord, may get an announcement between the length
and the payload of an answer (as `Requests` shows), may be full, and may go away.
History variables: `freed`, `skipped`, and, begun anew with each connection, `garbled`
and `cut`.

Left out: the contents of commands and answers, a jump out of `malloc` or `free`, which
leaves the allocator's lock behind, how the listener sleeps and is told to end, that the
command line client calls `opc_destroy` with no thread to join when it fails early.

## 3. Runs

Bounds are named in the modules or the MC modules.

| Run | Bounds | What it shows |
|---|---|---|
| `player` | 2 pids, 3 files, no handler, fair | all of Player's safety and liveness, and that it implements `Playback`. Two pids suffice to see a second child and the reuse of a pid; three files give a first, a middle and a last one. The stream and the server thread stop the player, each at any time; a handler of SIGINT takes the same three steps, and a third caller only makes the run longer |
| `player_restart` | the same with one handler | STOP or PAUSE to a stopped player starts the current file (finding) |
| `player_shutdown` | the same with one handler, fair | a stop while the child is paused, or with a PAUSE in hand, never ends, with nobody else in the way (finding) |
| `requests` | 2 clients with 2 and 1 requests, `QUEUE_SIZE` 1, 2 sends per answer, track announcements | order, bound, no sleeper over a request, whole messages unless one of three named things happened, implements `Mailbox`. Three requests fill the queue, its reserve of one, and the server's hand, so that refusal happens |
| `requests_live` | 2 clients, 1 request each, `QUEUE_SIZE` 0, one stopper, fair | each request is settled; a stop reaches a waiting response thread |
| `requests_whole` | 2 clients, 1 request each, `QUEUE_SIZE` 0, track announcements | between the two parts of an announcement the client gets a part of a broadcast, with no time-out (finding) |
| `clients` | 2 slots, 4 clients, the second and third of which send | the pool, the descriptor set and the clients' connections agree, and who can hurt whom. Four clients are needed for a client too many and for one that comes after it; two slots for a hole, and for two threads at work on different clients. One odd request per client at a time |
| `clients_broadcast` | 2 slots, 3 clients | a hole in the pool cuts the broadcast off (finding) |
| `clients_descriptor` | as `clients` | after a client too many descriptor 0 is handed to a client and the assertion fails (finding) |
| `streams` | 2 clients of which one may leave, 2 requests, 2 streams at a time, fair | promised streams are served, none is lost or shared, what ends the stream thread, and that it ends. With two clients one stream's descriptor can become the other's while a thread still holds it; two requests also let one client ask again after its stream was removed |
| `stop` | 1 of the three early threads, 2 interrupts, a watchdog of 2 waits, fair | nothing is used after it is freed; a handler ends or the process does. The early threads are alike; a second interrupt can meet the handler of the first, or what is left of its signals |
| `opclient` | 2 connections, 2 commands or server messages, `QUEUE_SIZE` 1, fair | implements `Calls`; the order of commands and notices; every call returns; the program ends. Two commands let the answer to one be late for the other; two connections give one reconnect; two places let an event stand behind the notice of the connection it came on, and the two notices of an end and a reconnect fill the queue, so that refusal and flush happen. A node that is hung on one that was taken away, and so lost, needs three commands: the theorems cover it, the run does not |

Deadlock is not checked: the program ends, and a server whose clients have all
gone, or a client whose user does nothing, waits for ever by design.

Several properties have the form "unless ...": the unlocked sends, the lookup
under one lock and removal under another, the unlocked descriptor sets, the jump
out of critical sections and the signals do break the stronger statement, and the
properties say exactly what has to happen
first. `PoolAgrees` and `MembersAreWatched` need a client that both threads drop (it hangs
up while it is being answered); `OpenClientIsKept`, `RequestNamesItsSender` and
`StopsOnlyAfterImpatience` show that without such a client nobody else loses a
connection, gets another's answer, or sees the player stop because `pselect` met
a closed descriptor. `PromiseIsKept`, `StreamThreadStopsForCause` and
`StreamsAreAccounted` do the same for streams; `InterruptIsBounded` names what takes
the watchdog out of action; `ReceiverEndsForCause`, `ReconnectIsToldFirst` and
`ClientEnds` name what the alarm, a full queue and a torn message do to a client;
`ShutdownUnlessStuck` names what holds up the end of the server.
`CalmBroadcastReachesAll` rests on no client having been removed twice, too.

Findings, in short: (1) STOP or PAUSE restarts a stopped player; (2) a stop while
paused hangs; (3) messages of two threads mix on one socket; (4) a broadcast stops
at the first hole of the pool; (5) a client too many closes descriptor 0, and later
aborts the server.

Met on the way, and allowed for in the properties rather than claimed as errors: a
command between `fork` and the store of the pid signals nobody
(`player.c:619-629`); the stop signal of the queue is lost if the response thread
has not begun to wait (`queue.c:163`), which is why `StopReachesWaiter` speaks of a
thread that waits and `ShutdownUnlessStuck` excepts `StopMissed`; the socket of a
failed `bind` is never closed (`socket.c:26`), which `StreamsAreAccounted` excepts; a
message that unpacks but makes no sense may end the server (`server.c:119`,
`response.c:154`); the test that gives `dequeue_conditional` of the client library its
name, a later answer behind the first one, never refuses anything as long as one
thread at a time makes calls (`ConditionNeverMet`).


## 4. Fairness

`Player`: the play, the response and the main thread take their next step when they
can; a call of `set_player_running` that has begun goes on; once `running` is clear
the stream and the server thread leave their loops, since SIGUSR1 takes them out of
`pselect` (that it is not lost is proved, `StopIsHeard` of `RequestsProofs` and of
`StreamsProofs`), unless the stream thread is blocked; a process that is neither
stopped nor reaped ends some day (media end, SIGTERM is obeyed). Nothing is
assumed of clients, of Ctrl-C, of `fork`, or of spurious wake-ups.

`Requests`: weak fairness of the
server thread and of the response thread and, once the player stops, of each
call of `set_player_running(false)`, whose locks are held for a few statements
only. Interrupts and spurious wake-ups are not fair. `Clients` states safety
only; `MembersAreWatched` is the safety part of "a client that hangs up is noticed".

`Streams`: the stream thread takes its next step, except in `pselect` with no
descriptor and no signal, and in `sendto` to a client that does not read. Nothing is
assumed of the other threads: the stop of the stream thread does not depend on them.

`Stop`: the watchdog's waits end (a time-out, or a signal); main goes on where it can;
critical sections of a thread that runs end; the handlers, the exit of the watchdog
and the release of `play_mutex` by the play thread, which takes another mutex inside,
are strongly fair, since a mutex that others take and free over and over is obtained
at last. Nobody has to leave his loop, and no signal has to come.

`OpClient`: the calling thread and the receive thread go on where they
can; an alarm that is set goes off. Nothing is assumed of the server, of the listener, of
the user or of failures of `recv`.

## 5. Proofs

TLAPS proves the following for every value of the constants. Each proof module
begins with the inductive invariant `IInv` of its component and the theorem
`Invariance`; the properties that the runs check follow. Then come properties that
are stated in the proof module itself, each beside the invariant it needs on top of
`IInv`: TLC found nothing against them, nor against those invariants, at the bounds of the
component's runs, and no run repeats them because the theorems say more.

`PlayerProofs` (any set of pids, any playlist length, any number of handlers).
The invariant `IInv` is
`TypeOK /\ ProcInv /\ PidInv /\ PauseInv /\ StopInv /\ NoLostWakeup /\ MainInv`:
which processes exist at each place of the play thread, that `child_pid` is the
local `pid` or 0, that a stopped process is recorded as paused, what
`child_stopped` says of the play thread, and what has been joined when main goes
on. `AtMostOneChild`, `PausedChildCanBeResumed`, `StoppedMeansSilent` and
`ClearFindsNoChild` follow from it; none of them is inductive alone. Under `IInv`
each action is a step or a stutter of `Playback` (`Implements`). Beyond the runs:
the pid that a command signals is that of the only process there is, or of one that
was reaped a moment ago and not yet forgotten (`SignalsReachOwnChild`); the current
file changes only between two processes (`TracksChangeInSilence`); a stop is
final, whatever is commanded after it (`StopEndsPlaylist`); and a response thread that
waits though the player is to stop has missed the signal, or a thread is just about to
send it (`StopMissedOrComes`, with `FlagsInv` on the two flags): the loss that
`StopMissed` names is the only way in which it can sleep through a stop.

`RequestsProofs` (any number of clients and requests, any queue size and number
of resends). `IInv` is
`TypeOK /\ HandInv /\ SizeInv /\ NoStrandedRequest /\ FrameInv /\ OrderInv`:
which thread has a request in hand, that `size` and `known` describe the list up
to the one request of reserve, which half-sent message each client may have at
each place of the sender, and that a client's requests in hand and queue are
numbered in their order, above its last answer. From it: `QueueBounded`,
`WholeUnlessTroubled`, `AnswersInOrder`, and that `Requests` implements `Mailbox`.
`FrameInv` also says that whose answer is sent again, or refused by a notice, is `troubled`
already; without that, why a request is let go could not be told from the step alone.
`AnswersInOrder` says that no client is answered twice or out of the order of its requests;
the order among clients is what `Mailbox` states.

Beyond the runs, the life of a request from end to end: it comes in through the server thread,
once and in turn (`EnterInOrder`), is in one place at a time (`OnePlace`), and
is let go for one of four named reasons (`LeaveWithCause`); with `Bounded` and `InOrder` this
leaves the code no way to lose, repeat or overtake. And no stop of the player
is lost on the server thread, between its look at `running` and `pselect` or
elsewhere (`StopIsHeard`): SIGUSR1 is blocked but in `pselect`, and whoever clears
`running` sends it afterwards.

`ClientsProofs` (any number of slots, connections and talking clients). `IInv`
has an unconditional part and two conditional ones.
`TypeOK /\ KernelInv /\ PlaceInv /\ ReadInv /\ PoolInv` always hold: which
descriptors the kernel has given to whom (so that, by the pigeonhole principle,
`accept` finds one), what each thread has in hand at each of its places, that
nobody has been read from who is not yet in the pool, and that a slot a thread is
about to clear still is that of the client it drops, as long as nobody was
`doubled`. `SetInv` needs `~doubled` and `~raced`: a client leaves the set before it
leaves the pool; the write of a word that nobody else wrote changes one bit.
`PatientInv` needs `~impatient`, and implies `~doubled`: whoever waits for an
answer is there to get it, so the response thread drops nobody, and whom the
server thread drops is neither entitled nor served. `PoolAgrees`,
`MembersAreWatched`, `OpenClientIsKept`, `RequestNamesItsSender` and
`StopsOnlyAfterImpatience` follow; as they stand none is inductive, because a step
that breaks them is prepared several steps before, by the other thread.

`CalmBroadcastReachesAll` has an invariant of its own, `CalmInv`: as long as nobody
came, went or hung up since the broadcast began, the slots in use are the first
`cnt`, the copy holds their descriptors, and those told are the clients of the first
`sent`. The attempt to prove it showed that the property, as it was first stated, is
false from three slots on. A response thread that removes a client for the second
time empties a slot that has a new owner; the kernel then gives his
descriptor, which is closed, to another client; two slots name one descriptor, and a
broadcast sends to it twice and to the other client not at all. The runs have two slots, which is too
few for this. The property now requires `~doubled`, as its neighbours do.

Beyond the runs: the assertion of `add_client` cannot fail before `MAX_CLIENTS + 2`
connections have come (`AbortsLate`, with `StdinInv`, which says when descriptor 0 can be
a connection), which bounds the finding of `clients_descriptor` from the other side; and as long as
no client was removed twice nobody closes a connection that is not that of the client he
drops, or that a slot still names (`ClosesOnlyItsOwn`).

`StopProofs` (any threads before the watchdog, any time-out, any number of
interrupts). `IInv` is `TypeOK /\ JoinInv /\ MainInv /\ HandlerInv`: once main has
joined, or failed to create a thread, which threads are over; what main's own
call of `set_player_running` has to do with its place; that a thread with a handler
is alive. `FreedIsUnused` follows: a worker does not end under its own handler,
and the watchdog, which nobody joins, is in one only if an interrupt struck it.

Beyond the runs, the locks and the watchdog. `HoldInv`, `ExcludeInv` and `PassedInv`
(what a thread may hold in which call, that no two threads hold the same, what a
handler cannot hold any more) give `OneHolder`: one living holder for each mutex, and only the play
thread holds two, always in the same order, so that threads never wait in a circle.
A handler can still wait for the thread it interrupted. `StuckOnItself` says that this is
the only way to be stuck, unless handlers overlap: the holder is its own thread, or
one that needs nothing that thread holds. That is what the watchdog is for, and
`HandlersAreWatched` (with `WatchInv`, on the order in which the two signals of a
handler are sent and taken) says that it does watch from the first `pthread_kill` on,
and that it never counts down on a program that is not in a handler. `overlap`, a freed player
and an interrupt that hit the watchdog are the exceptions, and each of them is
reachable.

`OpClientProofs` (any bounds). `IInv` has eleven parts: `TypeOK`; `SizeInv` (what
`cmdSize`, `seen` and `tail` say of the queue as long as no alarm `freed` its mutex
inside `enqueue`; after that the size may be below the length, or below zero, and
`TypeOK` says so); `AnswerInv` (every
answer on the wire, in hand or in the queue is that of an executed command);
`SaidInv` and `LinkInv` (what may be under way at each state of the connection);
`InboxInv` and `StepInv` (the parts of commands in the stream, in relation to the place
of the sender, and their order above `done`); `FlowInv` (the parts of messages, as
long as nothing was `garbled` and the receive thread has not given up); `ReceiverEndsForCause`,
with its five causes; `TellInv` (where the notice of a
reconnect is) and `ReconnectIsToldFirst`. From it: `CommandsInStep`, and under it
each step of `OpClient` is a step or a stutter of `Calls` (`Implements`).

Beyond the runs: what a call returns is the answer to the last command sent
(`OwnAnswer`) and commands are executed in turn (`ExecutedInTurn`), both by way of the refinement, so
that they also show that `Calls` promises enough; a caller does not sleep over
an answer in the queue, unless the receive thread is about to signal it or a wait was
`left` before and may have taken the signal (`AnswerIsHeard`); the queues pass their
limit by one node at the most, however often an alarm jumped out of a critical section,
the command queue as long as its mutex was not `freed` (`BoundedQueues`, with
`BoundInv`); answers lie in the queue in the order of their commands and above the
one taken last (`AnswersAreInOrder`, with `RiseInv`, which says the same of the
answers that are on the wire or in the hand of the receive thread), so that what a
call skips as out of date always lies before its own answer; and `ConditionNeverMet`, on the
branch of `dequeue_conditional` that this makes dead.

`StreamsProofs` (any number of clients, requests and streams, any set of clients
that may leave). `IInv` is
`TypeOK /\ PlaceInv /\ OwnInv /\ ServeInv /\ PatientInv /\ AccountInv /\ LeakInv
/\ StopInv`.
`PlaceInv` says what each thread has in hand at each of its places, and holds
always. `OwnInv` needs `~doubled`: a descriptor stands for one stream in one slot,
and a thread that is about to act on it knows that slot; the numbers that `which`
keeps are never used again, so a descriptor that was closed and given out again
does not mean the same. Under it `ServeInv` says that the stream of a client that is
still there is removed for that client's own fault only, and that its descriptor
is in `strm_set`, or being added. `PatientInv` says, as in
`Clients`, that the response thread drops nobody while no client left with its
request unanswered; `AccountInv`, that every open stream is in a slot, or one that
a failed bind left, and in `strm_set` but for those that are being added or removed
(`Going`), needs that, and `LeakInv`, that nobody has such a socket in hand:
else the server thread clears a slot in which the response thread has just made a
stream, and nobody closes it any more. `StopInv` says
that `pselect` gets no closed descriptor. `PromiseIsKept`,
`StreamThreadStopsForCause` and `StreamsAreAccounted` follow; each is broken by
steps of two threads, the first of which keeps it, so none is inductive alone.

Beyond the runs: the stream thread never sleeps in `pselect` through a stop
(`StopIsHeard`), which is the safety half of `StreamThreadEnds`; and no step of any
thread takes the stream from a client that is still there, but for that client's own
fault (`LossIsFault`), be it promised or not.

Assumptions: only the named `ASSUME`s on the constants in the modules, which TLC
evaluates in every run.

Model-checked only: liveness under fairness (`TerminatedIsReaped`,
`StoppedPlayerWakes`, `ShutdownUnlessStuck`, `RequestIsSettled`,
`StopReachesWaiter`, `StreamThreadEnds`, `InterruptIsBounded`, `CallReturns`,
`ClientEnds`) and the properties marked as findings, which do not hold. The prover
does not reason about ENABLED. Every invariant and every safety property of an
action that a run checks is stated by a theorem.

## 6. Not modelled

- `agmplayer.c`, `agmp_utils.c` and the rest of the old front end: dead code. `main`
  passes `agmp_message_callback` to `prepare_player`, which ignores it; `agmp_handle`
  stays NULL, and nothing else calls into these files.
- The collection of the file list in `main.c`: sequential parsing before any thread
  exists. Its index check (`main.c:93`) admits one file more than the list holds.
- The playback position (`get_player_position`): a difference of wall-clock times,
  read without effect on any state that the properties speak of.
- The serialisation code in `message/`, which is generated, the loggers, and the
  formatting of answers and of the terminal.
- `socket.c` on both sides: straight-line calls of `socket`, `bind`, `listen` and
  `setsockopt`. What they return is an outcome in the models that use them, a failed
  `bind` of a stream, which leaves its socket open, among them.
- The examples (`oled`, `web`, `ir`): programs on top of the client library, without
  a protocol of their own.
- A message that a receive cuts at a byte other than between length and payload; the
  reuse by an unrelated process of a pid that `child_pid` still holds.
