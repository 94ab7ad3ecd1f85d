-------------------------------- MODULE Stop --------------------------------
(***************************************************************************)
(* How the server starts and stops: start_player creates the threads, the  *)
(* handler of SIGINT tells them to stop, on top of whatever its thread was *)
(* doing, a watchdog thread ends the process if the handler does not come  *)
(* to its end, and main joins the threads and frees the player.            *)
(*                                                                         *)
(* The work of the threads is left out, but for the mutexes they hold at   *)
(* times: a handler that runs on a thread waits for itself if it needs a   *)
(* mutex that this thread holds.  SIGINT and SIGCHLD are delivered to any  *)
(* thread that exists, since none blocks them.                             *)
(***************************************************************************)
EXTENDS Integers, Sequences

CONSTANTS
  Early,     \* threads created before the watchdog: strm, serv, resp
  TICKS,     \* 100 ms waits of the watchdog: WATCHDOG_TIMEOUT * 10
  MaxInts    \* bound: how often the user interrupts

ASSUME StopAssumption ==
  /\ \A i \in DOMAIN Early : Early[i] \in {"strm", "serv", "resp"}
  /\ Early \in Seq({"strm", "serv", "resp"})
  /\ TICKS \in Nat \ {0} /\ MaxInts \in Nat

VARIABLES
  running,   \* player->running
  created,   \* how many threads start_player has created
  failed,    \* did it fail to create one?
  life,      \* the threads that are created: "none", "running", "ended"
  mainPc,    \* where main is
  held,      \* mutexes each thread holds
  handler,   \* where the handler on top of each thread is
  setter,    \* where the thread's own call of set_player_running(false) is
  wtdgPc,    \* watchdog thread
  ticks,     \*   waits it made for this SIGUSR1
  pending,   \*   signals it has not taken
  ints,      \* interrupts so far
  overlap,   \* did an interrupt come before the watchdog was done with the
             \*   one before? (history)
  struck,    \* did an interrupt hit the watchdog thread? (history)
  freed,     \* is the player freed?
  exit       \* how the process ended, "none" while it has not

threads == <<created, failed, life, mainPc>>
locks == <<held, setter>>
watchdog == <<wtdgPc, ticks, pending>>
history == <<ints, overlap, struck>>
vars == <<running, threads, locks, handler, watchdog, history, freed, exit>>

Order == Early \o <<"wtdg", "play">>
Workers == {Order[i] : i \in DOMAIN Order} \ {"wtdg"}
Threads == Workers \cup {"main", "wtdg"}

\* The three critical sections of set_player_running, in their order.
Sections == {"player", "queue", "play"}
Mutexes == Sections \cup {"client"}
After == [player |-> "queue", queue |-> "play", play |-> "none"]

Init ==
  /\ running = TRUE
  /\ created = 0 /\ failed = FALSE /\ mainPc = "create"
  /\ life = [t \in Threads |-> IF t = "main" THEN "running" ELSE "none"]
  /\ held = [t \in Threads |-> {}]
  /\ handler = [t \in Threads |-> "none"]
  /\ setter = [t \in Threads |-> "none"]
  /\ wtdgPc = "wait" /\ ticks = 0 /\ pending = {}
  /\ ints = 0 /\ overlap = FALSE /\ struck = FALSE
  /\ freed = FALSE /\ exit = "none"

Alive == exit = "none"
Unlocked(m) == \A t \in Threads : m \notin held[t]

\* A thread goes on with its own work while no handler is on top of it.
Runs(t) == Alive /\ life[t] = "running" /\ handler[t] = "none"

-----------------------------------------------------------------------------
(* The handler of SIGINT.                                                  *)

Handling == {t \in Threads : handler[t] # "none"}

\* SIGINT is blocked in a thread that runs its handler.
Interrupt(t) ==
  /\ Runs(t) /\ ints < MaxInts
  /\ handler' = [handler EXCEPT ![t] = "start"]
  /\ ints' = ints + 1
  /\ overlap' = (overlap \/ Handling # {} \/ pending # {})
  /\ struck' = (struck \/ t = "wtdg")
  /\ UNCHANGED <<running, threads, locks, watchdog, freed, exit>>

\* pthread_kill for the watchdog thread, asserted to have been created.  It
\* is detached: once it has ended, its id means nothing.  Nor does g_player,
\* where the handler finds that id, once the player is freed.
SignalWatchdog(s) ==
  CASE freed \/ life["wtdg"] = "ended" ->
         exit' \in {exit, "undefined"} /\ UNCHANGED pending
    [] ~freed /\ life["wtdg"] = "none" -> exit' = "aborted" /\ UNCHANGED pending
    [] ~freed /\ life["wtdg"] = "running" ->
         pending' = pending \cup {s} /\ UNCHANGED exit

\* Mutant: the watchdog is not told.
HandlerStarts_Unwatched(t) ==
  /\ Alive /\ handler[t] = "start"
  /\ handler' = [handler EXCEPT ![t] = "player"]
  /\ UNCHANGED <<running, threads, locks, watchdog, history, freed, exit>>

HandlerStarts(t) ==
  /\ Alive /\ handler[t] = "start"
  /\ SignalWatchdog("USR1")
  /\ handler' = [handler EXCEPT ![t] = "player"]
  /\ UNCHANGED <<running, threads, locks, wtdgPc, ticks, history, freed>>

\* One section of set_player_running(false): it waits for the mutex, even if
\* it is the thread beneath that holds it.
HandlerSets(t) ==
  /\ Alive /\ handler[t] \in Sections
  /\ Unlocked(handler[t])
  /\ running' = (running /\ handler[t] # "player")
  /\ handler' = [handler EXCEPT ![t] = IF @ = "play" THEN "stop" ELSE After[@]]
  /\ UNCHANGED <<threads, locks, watchdog, history, freed, exit>>

\* What the handler interrupted on the watchdog thread may fail with EINTR.
HandlerStops(t) ==
  /\ Alive /\ handler[t] = "stop"
  /\ SignalWatchdog("USR2")
  /\ handler' = [handler EXCEPT ![t] = "none"]
  /\ \/ UNCHANGED life
     \/ /\ t = "wtdg" /\ wtdgPc # "broadcast"
        /\ life' = [life EXCEPT ![t] = "ended"]
  /\ UNCHANGED <<running, created, failed, mainPc, locks, wtdgPc, ticks, history,
                 freed>>

Handle(t) == HandlerStarts(t) \/ HandlerSets(t) \/ HandlerStops(t)

-----------------------------------------------------------------------------
(* The worker threads: critical sections, and the end of each.             *)

\* run_player asks whether the player runs while it holds play_mutex.
Lock(t) ==
  /\ t \in Workers /\ Runs(t) /\ setter[t] = "none"
  /\ \E m \in IF t = "play" THEN {"player", "play"} ELSE Mutexes :
       /\ \/ held[t] = {}
          \/ t = "play" /\ held[t] = {"play"} /\ m = "player"
       /\ Unlocked(m)
       /\ held' = [held EXCEPT ![t] = @ \cup {m}]
  /\ UNCHANGED <<running, threads, setter, handler, watchdog, history, freed,
                 exit>>

Unlock(t) ==
  /\ t \in Workers /\ Runs(t) /\ setter[t] = "none" /\ held[t] # {}
  /\ held' = [held EXCEPT ![t] =
                IF "player" \in @ THEN @ \ {"player"} ELSE {}]
  /\ UNCHANGED <<running, threads, setter, handler, watchdog, history, freed,
                 exit>>

\* A thread leaves its loop when it is told to or for reasons of its own, and
\* calls set_player_running(false).
Finish(t) ==
  /\ t \in Workers /\ Runs(t) /\ setter[t] = "none" /\ held[t] = {}
  /\ setter' = [setter EXCEPT ![t] = "player"]
  /\ UNCHANGED <<running, threads, held, handler, watchdog, history, freed,
                 exit>>

SetterLocks(t) ==
  /\ Runs(t) /\ setter[t] # "none" /\ held[t] = {}
  /\ Unlocked(setter[t])
  /\ held' = [held EXCEPT ![t] = {setter[t]}]
  /\ UNCHANGED <<running, threads, setter, handler, watchdog, history, freed,
                 exit>>

SetterUnlocks(t) ==
  /\ Runs(t) /\ setter[t] # "none" /\ held[t] # {}
  /\ running' = (running /\ setter[t] # "player")
  /\ held' = [held EXCEPT ![t] = {}]
  /\ setter' = [setter EXCEPT ![t] = After[@]]
  /\ IF setter[t] = "play"
     THEN IF t = "main"
          THEN mainPc' = "lock" /\ UNCHANGED life
          ELSE life' = [life EXCEPT ![t] = "ended"] /\ UNCHANGED mainPc
     ELSE UNCHANGED <<life, mainPc>>
  /\ UNCHANGED <<created, failed, handler, watchdog, history, freed, exit>>

-----------------------------------------------------------------------------
(* main: start_player, wait_player, clear_player.                          *)

\* pthread_create may fail; what runs by then is not joined.
CreateThread ==
  /\ Runs("main") /\ mainPc = "create" /\ created < Len(Order)
  /\ \/ /\ life' = [life EXCEPT ![Order[created + 1]] = "running"]
        /\ created' = created + 1
        /\ mainPc' = IF created + 1 = Len(Order) THEN "join" ELSE "create"
        /\ UNCHANGED <<failed, setter>>
     \/ /\ failed' = TRUE
        /\ mainPc' = "clear" /\ setter' = [setter EXCEPT !["main"] = "player"]
        /\ UNCHANGED <<life, created>>
  /\ UNCHANGED <<running, held, handler, watchdog, history, freed, exit>>

\* Mutant: the first thread is not joined.
Joined_NotFirst == \A t \in Workers \ {Order[1]} : life[t] = "ended"
Joined == \A t \in Workers : life[t] = "ended"

WaitPlayer ==
  /\ Runs("main") /\ mainPc = "join"
  /\ Joined
  /\ mainPc' = "clear" /\ setter' = [setter EXCEPT !["main"] = "player"]
  /\ UNCHANGED <<running, created, failed, life, held, handler, watchdog,
                 history, freed, exit>>

\* After set_player_running(false): a child that is left is killed under
\* play_mutex, and the play thread is joined if there is one.
KillChild ==
  /\ Runs("main")
  /\ \/ /\ mainPc = "lock" /\ Unlocked("play")
        /\ held' = [held EXCEPT !["main"] = {"play"}] /\ mainPc' = "kill"
     \/ /\ mainPc = "kill"
        /\ held' = [held EXCEPT !["main"] = {}] /\ mainPc' = "join_play"
  /\ UNCHANGED <<running, created, failed, life, setter, handler, watchdog,
                 history, freed, exit>>

FreePlayer ==
  /\ Runs("main") /\ mainPc = "join_play"
  /\ life["play"] \in {"none", "ended"}
  /\ freed' = TRUE /\ mainPc' = "return"
  /\ UNCHANGED <<running, created, failed, life, locks, handler, watchdog,
                 history, exit>>

Return ==
  /\ Runs("main") /\ mainPc = "return"
  /\ exit' = "success"
  /\ UNCHANGED <<running, threads, locks, handler, watchdog, history, freed>>

-----------------------------------------------------------------------------
(* run_watchdog.  Of two signals the one with the lower number comes first. *)

Took(s) ==
  /\ s \in pending /\ (s = "USR2" => "USR1" \notin pending)
  /\ pending' = pending \ {s}

\* sigwaitinfo: SIGUSR2 alone is passed over.
AwaitStart ==
  /\ Runs("wtdg") /\ wtdgPc = "wait"
  /\ \/ Took("USR1") /\ wtdgPc' = "watch"
     \/ Took("USR2") /\ UNCHANGED wtdgPc
  /\ ticks' = 0
  /\ UNCHANGED <<running, threads, locks, handler, history, freed, exit>>

\* Mutant: the loop runs to i <= WATCHDOG_TIMEOUT * 10.
Watch_OneMore ==
  /\ Runs("wtdg") /\ wtdgPc = "watch" /\ ticks <= TICKS
  /\ \/ /\ pending = {} \/ Took("USR1")
        /\ pending' = pending \ {"USR1"}
        /\ ticks' = ticks + 1 /\ UNCHANGED wtdgPc
     \/ Took("USR2") /\ wtdgPc' = "wait" /\ ticks' = 0
  /\ UNCHANGED <<running, threads, locks, handler, history, freed, exit>>

\* sigtimedwait: a time-out, and another SIGUSR1 too, is one turn of the loop.
Watch ==
  /\ Runs("wtdg") /\ wtdgPc = "watch" /\ ticks < TICKS
  /\ \/ /\ pending = {} \/ Took("USR1")
        /\ pending' = pending \ {"USR1"}
        /\ ticks' = ticks + 1 /\ UNCHANGED wtdgPc
     \/ Took("USR2") /\ wtdgPc' = "wait" /\ ticks' = 0
  /\ UNCHANGED <<running, threads, locks, handler, history, freed, exit>>

\* Not triggered: it tells the clients, and exits.
Expire ==
  /\ Runs("wtdg")
  /\ \/ /\ wtdgPc = "watch" /\ ticks = TICKS
        /\ wtdgPc' = "broadcast" /\ UNCHANGED exit
     \/ /\ wtdgPc = "broadcast" /\ Unlocked("client")
        /\ exit' = "failure" /\ UNCHANGED wtdgPc
  /\ UNCHANGED <<running, threads, locks, handler, ticks, pending, history,
                 freed>>

\* SIGCHLD: whatever wait it hits fails with EINTR, and the thread ends.
WatchdogInterrupted ==
  /\ Runs("wtdg") /\ wtdgPc \in {"wait", "watch"} /\ life["play"] = "running"
  /\ life' = [life EXCEPT !["wtdg"] = "ended"]
  /\ UNCHANGED <<running, created, failed, mainPc, locks, handler, watchdog,
                 history, freed, exit>>

-----------------------------------------------------------------------------
Main == CreateThread \/ WaitPlayer \/ KillChild \/ FreePlayer \/ Return
Worker(t) == Lock(t) \/ Unlock(t) \/ Finish(t) \/ SetterLocks(t)
             \/ SetterUnlocks(t)
Watchdog == AwaitStart \/ Watch \/ Expire

Next ==
  \/ \E t \in Threads : Interrupt(t) \/ Handle(t) \/ Worker(t)
  \/ Main \/ Watchdog \/ WatchdogInterrupted

Spec == Init /\ [][Next]_vars

\* The handlers and the watchdog run, critical sections end, main creates the
\* threads, and a mutex that is freed over and over is obtained at last.
\* Nothing is assumed of what the threads do besides.
FairSpec ==
  /\ Spec
  /\ WF_vars(AwaitStart \/ Watch) /\ SF_vars(Expire) /\ WF_vars(Main)
  /\ SF_vars(\E t \in Threads : Handle(t))
  /\ \A t \in Threads : WF_vars(Unlock(t) \/ SetterUnlocks(t))
  /\ SF_vars(Unlock("play") /\ held'["play"] = {})

-----------------------------------------------------------------------------
(* Properties.                                                             *)

TypeOK ==
  /\ running \in BOOLEAN
  /\ created \in 0..Len(Order) /\ failed \in BOOLEAN
  /\ life \in [Threads -> {"none", "running", "ended"}]
  /\ mainPc \in {"create", "join", "clear", "lock", "kill", "join_play",
                 "return"}
  /\ held \in [Threads -> SUBSET Mutexes]
  /\ handler \in [Threads -> Sections \cup {"none", "start", "stop"}]
  /\ setter \in [Threads -> Sections \cup {"none"}]
  /\ wtdgPc \in {"wait", "watch", "broadcast"} /\ ticks \in 0..TICKS
  /\ pending \subseteq {"USR1", "USR2"}
  /\ ints \in 0..MaxInts /\ overlap \in BOOLEAN /\ struck \in BOOLEAN
  /\ freed \in BOOLEAN
  /\ exit \in {"none", "success", "failure", "aborted", "undefined"}

\* When the player is freed no thread works on it any more, and no handler
\* does, unless a thread could not be created, so that the others were not
\* joined, or SIGINT hit the watchdog thread, which nobody joins.  main alone
\* can be in a handler then, if SIGINT comes between the free and the return
\* (clear_player, wait_player).
FreedIsUnused ==
  freed /\ ~failed /\ ~struck =>
    /\ \A t \in Workers : life[t] = "ended"
    /\ Handling \subseteq {"main"}

\* A handler comes to its end, or the process does: whatever mutex its thread
\* held, the watchdog sees to that.  It cannot once SIGCHLD or SIGINT has been
\* delivered to its own thread, nor if a second interrupt comes before it has
\* taken the SIGUSR2 of the first: then the SIGUSR2 of one handler is taken
\* for that of the other, or a handler that is stuck sits on the mutex that
\* the broadcast needs (run_watchdog).
InterruptIsBounded ==
  Handling # {} ~>
    \/ Handling = {} \/ ~Alive
    \/ life["wtdg"] = "ended" \/ struck \/ overlap
=============================================================================
