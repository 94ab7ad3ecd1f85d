----------------------------- MODULE StopProofs -----------------------------
(***************************************************************************)
(* Proofs about Stop, for any order of the early threads, length of the    *)
(* watchdog's wait and number of interrupts: types, that the player is not *)
(* used after it is freed, who holds which mutex, what a handler waits     *)
(* for, and that the watchdog watches it.                                  *)
(***************************************************************************)
EXTENDS Stop, TLAPS

\* main goes on after the join only when the workers have ended, unless it
\* could not create one of them.
Late == {"clear", "lock", "kill", "join_play", "return"}
JoinInv == mainPc \in Late /\ ~failed => \A t \in Workers : life[t] = "ended"

\* main calls set_player_running(false) at one place, and frees the player
\* last.
MainInv == /\ setter["main"] # "none" => mainPc = "clear"
           /\ freed => mainPc = "return"

\* A handler is on top of a thread that lives.
HandlerInv == /\ \A t \in Threads : handler[t] # "none" => life[t] = "running"
              /\ handler["wtdg"] # "none" => struck

IInv == TypeOK /\ JoinInv /\ MainInv /\ HandlerInv

-----------------------------------------------------------------------------
LEMMA OrderFacts ==
  /\ Len(Order) \in Nat /\ Len(Order) > 0
  /\ \A i \in 1..Len(Order) : Order[i] \in Threads
  /\ "main" \in Threads /\ "wtdg" \in Threads /\ "play" \in Workers
  /\ "main" \notin Workers /\ "wtdg" \notin Workers
  /\ Workers \subseteq Threads /\ Threads = Workers \cup {"main", "wtdg"}
<1> DEFINE S == {"strm", "serv", "resp", "wtdg", "play"}
<1>1. Early \in Seq(S) /\ <<"wtdg", "play">> \in Seq(S)
      /\ Len(<<"wtdg", "play">>) = 2
  BY StopAssumption
<1>2. /\ Order \in Seq(S) /\ Len(Order) = Len(Early) + 2
      /\ Len(Early) \in Nat /\ DOMAIN Order = 1..Len(Order)
      /\ Order[Len(Order)] = "play"
  BY <1>1 DEF Order
<1>3. \A i \in 1..Len(Order) : Order[i] \in S
  BY <1>2
<1>4. "play" \in Workers /\ "main" \notin Workers /\ "wtdg" \notin Workers
  BY <1>2, <1>3 DEF Workers
<1>5. \A i \in 1..Len(Order) : Order[i] \in Threads
  BY <1>2 DEF Threads, Workers
<1> QED
  BY <1>2, <1>4, <1>5 DEF Threads

LEMMA SectionFacts ==
  /\ Sections \subseteq Mutexes
  /\ \A m \in Sections : After[m] \in Sections \cup {"none"}
  /\ After["play"] = "none" /\ After["player"] # "none" /\ After["queue"] # "none"
  /\ "none" \notin Sections /\ "stop" \notin Sections /\ "start" \notin Sections
BY DEF Sections, Mutexes, After

LEMMA Initial == Init => IInv
<1> SUFFICES ASSUME Init PROVE IInv
  OBVIOUS
<1> USE OrderFacts, StopAssumption
<1>1. /\ life \in [Threads -> {"none", "running", "ended"}]
      /\ held \in [Threads -> SUBSET Mutexes]
      /\ handler \in [Threads -> Sections \cup {"none", "start", "stop"}]
      /\ setter \in [Threads -> Sections \cup {"none"}]
  BY DEF Init
<1>2. created \in 0..Len(Order) /\ ticks \in 0..TICKS /\ ints \in 0..MaxInts
  BY DEF Init
<1>3. /\ running \in BOOLEAN /\ failed \in BOOLEAN /\ freed \in BOOLEAN
      /\ overlap \in BOOLEAN /\ struck \in BOOLEAN
      /\ mainPc = "create" /\ wtdgPc = "wait" /\ exit = "none"
      /\ pending \subseteq {"USR1", "USR2"}
  BY DEF Init
<1>4. TypeOK
  BY <1>1, <1>2, <1>3, Zenon DEF TypeOK
<1>5. JoinInv /\ MainInv /\ HandlerInv
  BY DEF Init, JoinInv, MainInv, HandlerInv, Late
<1> QED
  BY <1>4, <1>5 DEF IInv

-----------------------------------------------------------------------------
(* The steps.                                                              *)

LEMMA SignalWatchdogType ==
  ASSUME TypeOK, NEW s \in {"USR1", "USR2"}, SignalWatchdog(s)
  PROVE  /\ pending' \subseteq {"USR1", "USR2"}
         /\ exit' \in {"none", "success", "failure", "aborted", "undefined"}
<1> USE OrderFacts DEF TypeOK
<1>1. life["wtdg"] \in {"none", "running", "ended"}
  OBVIOUS
<1>2. CASE freed \/ life["wtdg"] = "ended"
  BY <1>2 DEF SignalWatchdog
<1>3. CASE ~freed /\ life["wtdg"] = "none"
  BY <1>3 DEF SignalWatchdog
<1>4. CASE ~freed /\ life["wtdg"] = "running"
  BY <1>4 DEF SignalWatchdog
<1> QED
  BY <1>1, <1>2, <1>3, <1>4

LEMMA InterruptKeeps ==
  ASSUME IInv, NEW t \in Threads, Interrupt(t)
  PROVE  IInv'
<1> USE OrderFacts, StopAssumption
<1>1. TypeOK /\ JoinInv /\ MainInv /\ HandlerInv
  BY DEF IInv
<1>2. TypeOK'
  BY <1>1 DEF TypeOK, Interrupt, Runs, Handling, threads, locks, watchdog
<1>3. JoinInv' /\ MainInv'
  BY <1>1 DEF JoinInv, MainInv, Interrupt, threads, locks
<1>4. HandlerInv'
  BY <1>1 DEF TypeOK, HandlerInv, Interrupt, Runs, threads
<1> QED
  BY <1>2, <1>3, <1>4 DEF IInv

LEMMA HandleKeeps ==
  ASSUME IInv, NEW t \in Threads, Handle(t)
  PROVE  IInv'
<1> USE OrderFacts, SectionFacts
<1>0. TypeOK /\ JoinInv /\ MainInv /\ HandlerInv
  BY DEF IInv
<1>1. CASE HandlerStarts(t)
  <2>1. /\ pending' \subseteq {"USR1", "USR2"}
        /\ exit' \in {"none", "success", "failure", "aborted", "undefined"}
    BY <1>0, <1>1, SignalWatchdogType DEF HandlerStarts
  <2>2. handler' \in [Threads -> Sections \cup {"none", "start", "stop"}]
    BY <1>0, <1>1 DEF HandlerStarts, TypeOK, Sections
  <2>3. TypeOK'
    BY <1>0, <1>1, <2>1, <2>2 DEF TypeOK, HandlerStarts, threads, locks, history
  <2>4. JoinInv' /\ MainInv'
    BY <1>0, <1>1 DEF JoinInv, MainInv, HandlerStarts, threads, locks
  <2>5. HandlerInv'
    BY <1>0, <1>1 DEF TypeOK, HandlerInv, HandlerStarts, threads, history
  <2> QED
    BY <2>3, <2>4, <2>5 DEF IInv
<1>2. CASE HandlerSets(t)
  <2>1. handler' \in [Threads -> Sections \cup {"none", "start", "stop"}]
    BY <1>0, <1>2 DEF HandlerSets, TypeOK
  <2>2. TypeOK'
    BY <1>0, <1>2, <2>1
       DEF TypeOK, HandlerSets, threads, locks, watchdog, history
  <2>3. JoinInv' /\ MainInv'
    BY <1>0, <1>2 DEF JoinInv, MainInv, HandlerSets, threads, locks
  <2>4. HandlerInv'
    BY <1>0, <1>2 DEF TypeOK, HandlerInv, HandlerSets, threads, history
  <2> QED
    BY <2>2, <2>3, <2>4 DEF IInv
<1>3. CASE HandlerStops(t)
  <2>1. /\ pending' \subseteq {"USR1", "USR2"}
        /\ exit' \in {"none", "success", "failure", "aborted", "undefined"}
    BY <1>0, <1>3, SignalWatchdogType DEF HandlerStops
  <2>2. /\ handler' \in [Threads -> Sections \cup {"none", "start", "stop"}]
        /\ life' \in [Threads -> {"none", "running", "ended"}]
    BY <1>0, <1>3 DEF HandlerStops, TypeOK
  <2>3. TypeOK'
    BY <1>0, <1>3, <2>1, <2>2 DEF TypeOK, HandlerStops, locks, history
  <2>4. JoinInv' /\ MainInv'
    BY <1>0, <1>3 DEF TypeOK, JoinInv, MainInv, HandlerStops, locks
  <2>5. HandlerInv'
    BY <1>0, <1>3 DEF TypeOK, HandlerInv, HandlerStops, history
  <2> QED
    BY <2>3, <2>4, <2>5 DEF IInv
<1> QED
  BY <1>1, <1>2, <1>3 DEF Handle

LEMMA WorkerKeeps ==
  ASSUME IInv, NEW t \in Threads, Worker(t)
  PROVE  IInv'
<1> USE OrderFacts, SectionFacts
<1>0. TypeOK /\ JoinInv /\ MainInv /\ HandlerInv
  BY DEF IInv
<1>1. CASE Lock(t)
  <2>1. held' \in [Threads -> SUBSET Mutexes]
    BY <1>0, <1>1 DEF Lock, TypeOK, Mutexes, Sections
  <2>2. TypeOK'
    BY <1>0, <1>1, <2>1 DEF TypeOK, Lock, threads, watchdog, history
  <2>3. JoinInv' /\ MainInv' /\ HandlerInv'
    BY <1>0, <1>1 DEF JoinInv, MainInv, HandlerInv, Lock, threads, history
  <2> QED
    BY <2>2, <2>3 DEF IInv
<1>2. CASE Unlock(t)
  <2>1. held' \in [Threads -> SUBSET Mutexes]
    BY <1>0, <1>2 DEF Unlock, TypeOK
  <2>2. TypeOK'
    BY <1>0, <1>2, <2>1 DEF TypeOK, Unlock, threads, watchdog, history
  <2>3. JoinInv' /\ MainInv' /\ HandlerInv'
    BY <1>0, <1>2 DEF JoinInv, MainInv, HandlerInv, Unlock, threads, history
  <2> QED
    BY <2>2, <2>3 DEF IInv
<1>3. CASE Finish(t)
  <2>1. setter' \in [Threads -> Sections \cup {"none"}]
    BY <1>0, <1>3 DEF Finish, TypeOK, Sections
  <2>2. TypeOK'
    BY <1>0, <1>3, <2>1 DEF TypeOK, Finish, threads, watchdog, history
  <2>3. JoinInv' /\ HandlerInv'
    BY <1>0, <1>3 DEF JoinInv, HandlerInv, Finish, threads, history
  <2>4. MainInv'
    BY <1>0, <1>3 DEF TypeOK, MainInv, Finish, threads
  <2> QED
    BY <2>2, <2>3, <2>4 DEF IInv
<1>4. CASE SetterLocks(t)
  <2>1. held' \in [Threads -> SUBSET Mutexes]
    BY <1>0, <1>4 DEF SetterLocks, TypeOK
  <2>2. TypeOK'
    BY <1>0, <1>4, <2>1 DEF TypeOK, SetterLocks, threads, watchdog, history
  <2>3. JoinInv' /\ MainInv' /\ HandlerInv'
    BY <1>0, <1>4
       DEF JoinInv, MainInv, HandlerInv, SetterLocks, threads, history
  <2> QED
    BY <2>2, <2>3 DEF IInv
<1>5. CASE SetterUnlocks(t)
  <2>1. /\ held' \in [Threads -> SUBSET Mutexes]
        /\ setter' \in [Threads -> Sections \cup {"none"}]
        /\ life' \in [Threads -> {"none", "running", "ended"}]
    BY <1>0, <1>5 DEF SetterUnlocks, TypeOK
  <2>2. TypeOK'
    BY <1>0, <1>5, <2>1 DEF TypeOK, SetterUnlocks, watchdog, history
  <2>3. setter[t] # "none" /\ life[t] = "running" /\ handler[t] = "none"
    BY <1>5 DEF SetterUnlocks, Runs
  <2>4. JoinInv'
    BY <1>0, <1>5, <2>3 DEF TypeOK, JoinInv, MainInv, SetterUnlocks, Late
  <2>5. MainInv'
    BY <1>0, <1>5, <2>3 DEF TypeOK, MainInv, SetterUnlocks
  <2>6. HandlerInv'
    BY <1>0, <1>5, <2>3 DEF TypeOK, HandlerInv, SetterUnlocks, history
  <2> QED
    BY <2>2, <2>4, <2>5, <2>6 DEF IInv
<1> QED
  BY <1>1, <1>2, <1>3, <1>4, <1>5 DEF Worker

LEMMA MainKeeps ==
  ASSUME IInv, Main
  PROVE  IInv'
<1> USE OrderFacts, SectionFacts
<1>0. TypeOK /\ JoinInv /\ MainInv /\ HandlerInv
  BY DEF IInv
<1>1. CASE CreateThread
  <2>1. created \in Nat /\ created < Len(Order) /\ created + 1 \in 1..Len(Order)
    BY <1>0, <1>1 DEF TypeOK, CreateThread
  <2>2. /\ created' \in 0..Len(Order)
        /\ life' \in [Threads -> {"none", "running", "ended"}]
        /\ setter' \in [Threads -> Sections \cup {"none"}]
    BY <1>0, <1>1, <2>1 DEF TypeOK, CreateThread, Sections
  <2>3. TypeOK'
    BY <1>0, <1>1, <2>2 DEF TypeOK, CreateThread, watchdog, history
  <2>4. JoinInv' /\ MainInv'
    BY <1>0, <1>1 DEF TypeOK, JoinInv, MainInv, CreateThread, Late
  <2>5. HandlerInv'
    BY <1>0, <1>1, <2>1 DEF TypeOK, HandlerInv, CreateThread, history
  <2> QED
    BY <2>3, <2>4, <2>5 DEF IInv
<1>2. CASE WaitPlayer
  <2>1. setter' \in [Threads -> Sections \cup {"none"}]
    BY <1>0, <1>2 DEF TypeOK, WaitPlayer, Sections
  <2>2. TypeOK'
    BY <1>0, <1>2, <2>1 DEF TypeOK, WaitPlayer, watchdog, history
  <2>3. JoinInv' /\ MainInv' /\ HandlerInv'
    BY <1>0, <1>2
       DEF TypeOK, JoinInv, MainInv, HandlerInv, WaitPlayer, Joined, history
  <2> QED
    BY <2>2, <2>3 DEF IInv
<1>3. CASE KillChild
  <2>1. held' \in [Threads -> SUBSET Mutexes]
    BY <1>0, <1>3 DEF TypeOK, KillChild, Mutexes, Sections
  <2>2. TypeOK'
    BY <1>0, <1>3, <2>1 DEF TypeOK, KillChild, watchdog, history
  <2>3. JoinInv' /\ MainInv' /\ HandlerInv'
    BY <1>0, <1>3 DEF JoinInv, MainInv, HandlerInv, KillChild, Late, history
  <2> QED
    BY <2>2, <2>3 DEF IInv
<1>4. CASE FreePlayer
  <2>1. TypeOK'
    BY <1>0, <1>4 DEF TypeOK, FreePlayer, locks, watchdog, history
  <2>2. JoinInv' /\ MainInv' /\ HandlerInv'
    BY <1>0, <1>4
       DEF JoinInv, MainInv, HandlerInv, FreePlayer, Late, locks, history
  <2> QED
    BY <2>1, <2>2 DEF IInv
<1>5. CASE Return
  BY <1>0, <1>5 DEF IInv, TypeOK, JoinInv, MainInv, HandlerInv, Return, threads,
                    locks, watchdog, history
<1> QED
  BY <1>1, <1>2, <1>3, <1>4, <1>5 DEF Main

LEMMA WatchdogKeeps ==
  ASSUME IInv, Watchdog \/ WatchdogInterrupted
  PROVE  IInv'
<1> USE OrderFacts, StopAssumption
<1>0. TypeOK /\ JoinInv /\ MainInv /\ HandlerInv
  BY DEF IInv
<1>1. CASE AwaitStart
  <2>1. pending' \subseteq pending
    BY <1>1 DEF AwaitStart, Took
  <2>2. wtdgPc' \in {"wait", "watch", "broadcast"}
    BY <1>0, <1>1 DEF TypeOK, AwaitStart
  <2>3. ticks' \in 0..TICKS
    BY <1>1 DEF AwaitStart
  <2>4. TypeOK'
    BY <1>0, <1>1, <2>1, <2>2, <2>3
       DEF TypeOK, AwaitStart, threads, locks, history
  <2>5. JoinInv' /\ MainInv' /\ HandlerInv'
    BY <1>0, <1>1
       DEF JoinInv, MainInv, HandlerInv, AwaitStart, threads, locks, history
  <2> QED
    BY <2>4, <2>5 DEF IInv
<1>2. CASE Watch
  <2>1. pending' \subseteq pending
    BY <1>2 DEF Watch, Took
  <2>2. wtdgPc' \in {"wait", "watch", "broadcast"}
    BY <1>0, <1>2 DEF TypeOK, Watch
  <2>3. ticks' \in 0..TICKS
    BY <1>0, <1>2 DEF TypeOK, Watch
  <2>4. TypeOK'
    BY <1>0, <1>2, <2>1, <2>2, <2>3
       DEF TypeOK, Watch, threads, locks, history
  <2>5. JoinInv' /\ MainInv' /\ HandlerInv'
    BY <1>0, <1>2
       DEF JoinInv, MainInv, HandlerInv, Watch, threads, locks, history
  <2> QED
    BY <2>4, <2>5 DEF IInv
<1>3. CASE Expire
  <2>1. TypeOK'
    BY <1>0, <1>3 DEF TypeOK, Expire, threads, locks, history
  <2>2. JoinInv' /\ MainInv' /\ HandlerInv'
    BY <1>0, <1>3
       DEF JoinInv, MainInv, HandlerInv, Expire, threads, locks, history
  <2> QED
    BY <2>1, <2>2 DEF IInv
<1>4. CASE WatchdogInterrupted
  <2>1. life' \in [Threads -> {"none", "running", "ended"}]
    BY <1>0, <1>4 DEF TypeOK, WatchdogInterrupted
  <2>2. TypeOK'
    BY <1>0, <1>4, <2>1
       DEF TypeOK, WatchdogInterrupted, locks, watchdog, history
  <2>3. JoinInv' /\ MainInv'
    BY <1>0, <1>4 DEF TypeOK, JoinInv, MainInv, WatchdogInterrupted, locks
  <2>4. HandlerInv'
    BY <1>0, <1>4 DEF TypeOK, HandlerInv, WatchdogInterrupted, Runs, history
  <2> QED
    BY <2>2, <2>3, <2>4 DEF IInv
<1> QED
  BY <1>1, <1>2, <1>3, <1>4 DEF Watchdog

LEMMA StutterKeeps ==
  ASSUME IInv, UNCHANGED vars
  PROVE  IInv'
BY DEF IInv, TypeOK, JoinInv, MainInv, HandlerInv, vars, threads, locks, watchdog,
       history

-----------------------------------------------------------------------------
\* The inductive invariant holds in every reachable state.
THEOREM Invariance == Spec => []IInv
<1>1. IInv /\ [Next]_vars => IInv'
  BY InterruptKeeps, HandleKeeps, WorkerKeeps, MainKeeps, WatchdogKeeps,
     StutterKeeps DEF Next
<1> QED
  BY Initial, <1>1, PTL DEF Spec

\* Every variable stays within its type; the watchdog never waits longer than
\* its time-out (run_watchdog).
THEOREM TypeCorrect == Spec => []TypeOK
<1>1. IInv => TypeOK
  BY DEF IInv
<1> QED
  BY Invariance, <1>1, PTL

\* Nobody works on the player when it is freed, but for the two exceptions
\* that FreedIsUnused names (clear_player, wait_player).
THEOREM NotUsedWhenFreed == Spec => []FreedIsUnused
<1>1. IInv => FreedIsUnused
  <2> SUFFICES ASSUME IInv, freed, ~failed, ~struck
               PROVE  /\ \A t \in Workers : life[t] = "ended"
                      /\ Handling \subseteq {"main"}
    BY DEF FreedIsUnused
  <2>1. \A t \in Workers : life[t] = "ended"
    BY DEF IInv, MainInv, JoinInv, Late
  <2>2. \A t \in Threads : handler[t] # "none" => t = "main"
    BY <2>1, OrderFacts DEF IInv, HandlerInv
  <2> QED
    BY <2>1, <2>2 DEF Handling
<1> QED
  BY Invariance, <1>1, PTL

-----------------------------------------------------------------------------
(* Who holds which mutex.                                                  *)

\* What a thread may hold, and which call it is in while it does.
HoldInv ==
  /\ life["main"] = "running"
  /\ held["wtdg"] = {} /\ setter["wtdg"] = "none"
  /\ \A t \in Threads : held[t] # {} => life[t] = "running"
  /\ \A t \in Threads : \/ held[t] = {}
                        \/ \E m \in Mutexes : held[t] = {m}
                        \/ t = "play" /\ held[t] = {"play", "player"}
  /\ mainPc = "kill" => held["main"] = {"play"} /\ setter["main"] = "none"
  /\ held["main"] # {} => setter["main"] # "none" \/ mainPc = "kill"

\* No two threads hold the same mutex.
ExcludeInv == \A t, u \in Threads : t # u => held[t] \cap held[u] = {}

\* The mutexes of the sections that a handler has behind it.
Passed(pc) == CASE pc = "queue" -> {"player"}
                [] pc = "play" -> {"player", "queue"}
                [] pc = "stop" -> Sections
                [] OTHER -> {}
PassedInv == \A t \in Threads : held[t] \cap Passed(handler[t]) = {}

\* Without an overlap there is one handler at most.
AloneInv == ~overlap => \A t, u \in Handling : t = u

\* A mutex is held by one thread, which lives.  Only the play thread holds two
\* at once, and these two, so that no two threads wait for one another
\* (get_player_running, set_player_running, run_player, clear_player).
MutexesExclude ==
  \A t \in Threads :
    /\ held[t] # {} => life[t] = "running"
    /\ \A m \in held[t] : \A u \in Threads \ {t} : m \notin held[u]
    /\ \A m, n \in held[t] : m # n => t = "play" /\ {m, n} = {"play", "player"}

\* A handler that has to wait for a mutex waits for the thread it interrupted,
\* for ever, or for one that runs, and that needs nothing the interrupted one
\* holds: only player_mutex is ever asked for by a thread that has a mutex.  So,
\* interrupts apart that come before the watchdog is done with the one before,
\* a handler is stuck on its own thread or not at all (set_player_running).
HandlerWaitsForItself ==
  Alive /\ ~overlap =>
    \A t \in Handling : \A u \in Threads \ {t} :
      handler[t] \in held[u] => Runs(u) /\ "player" \notin held[t]

-----------------------------------------------------------------------------
(* The watchdog and the handler.                                           *)

\* As long as interrupts do not overlap the two signals of a handler reach the
\* watchdog in their order, and both are taken before the next.
WatchInv ==
  Alive /\ ~overlap /\ ~freed /\ life["wtdg"] # "ended" =>
    /\ \A t \in Threads : handler[t] = "start" => pending = {} /\ wtdgPc = "wait"
    /\ \A t \in Threads : handler[t] \in Sections \cup {"stop"} =>
         /\ life["wtdg"] = "running"
         /\ \/ pending = {"USR1"} /\ wtdgPc = "wait"
            \/ pending = {} /\ wtdgPc # "wait"
    /\ Handling = {} =>
         \/ pending = {} /\ wtdgPc = "wait"
         \/ pending = {"USR1", "USR2"} /\ wtdgPc = "wait"
         \/ pending = {"USR2"} /\ wtdgPc # "wait"
    /\ life["wtdg"] = "none" => pending = {} /\ wtdgPc = "wait"

\* A handler that has called pthread_kill is watched: the watchdog counts, or
\* has the signal to do so.  And the watchdog counts, or tells the clients that
\* the server ends, only for a handler, which may have come to its end since.
\* Not so when an interrupt comes before the watchdog is done with the one
\* before, when the watchdog thread has ended, or when the player is freed
\* (signal_handler, run_watchdog).
HandlerIsWatched ==
  Alive /\ ~overlap /\ ~freed /\ life["wtdg"] # "ended" =>
    /\ \A t \in Handling : handler[t] # "start" =>
                             "USR1" \in pending \/ wtdgPc # "wait"
    /\ wtdgPc # "wait" => Handling # {} \/ "USR2" \in pending

-----------------------------------------------------------------------------
HoldFrame == UNCHANGED <<held, life, mainPc, setter>>

LEMMA HoldStep ==
  ASSUME IInv, HoldInv, [Next]_vars
  PROVE  HoldInv'
<1> USE OrderFacts, SectionFacts
<1>0. TypeOK /\ MainInv
  BY DEF IInv
<1>1. HoldFrame => HoldInv'
  BY DEF HoldFrame, HoldInv
<1>2. CASE \E t \in Threads : Interrupt(t)
  BY <1>1, <1>2 DEF Interrupt, HoldFrame, threads, locks
<1>3. CASE \E t \in Threads : HandlerStarts(t) \/ HandlerSets(t)
  BY <1>1, <1>3 DEF HandlerStarts, HandlerSets, HoldFrame, threads, locks
<1>4. CASE AwaitStart \/ Watch \/ Expire \/ Return \/ UNCHANGED vars
  BY <1>1, <1>4 DEF AwaitStart, Watch, Expire, Return, HoldFrame, threads,
                    locks, vars
<1>5. ASSUME UNCHANGED <<held, mainPc, setter>>,
             life' = [life EXCEPT !["wtdg"] = "ended"]
      PROVE  HoldInv'
  BY <1>0, <1>5 DEF TypeOK, HoldInv
<1>6. ASSUME NEW t \in Threads, HandlerStops(t)
      PROVE  HoldInv'
  <2>1. UNCHANGED <<held, mainPc, setter>>
    BY <1>6 DEF HandlerStops, locks
  <2>2. life' = life \/ life' = [life EXCEPT !["wtdg"] = "ended"]
    BY <1>6 DEF HandlerStops
  <2> QED
    BY <1>1, <1>5, <2>1, <2>2 DEF HoldFrame
<1>7. CASE WatchdogInterrupted
  BY <1>5, <1>7 DEF WatchdogInterrupted, locks
<1>8. ASSUME NEW t \in Threads, Lock(t)
      PROVE  HoldInv'
  <2>1. PICK m \in Mutexes :
          /\ held' = [held EXCEPT ![t] = @ \cup {m}]
          /\ \/ held[t] = {}
             \/ t = "play" /\ held[t] = {"play"} /\ m = "player"
    <3>1. (IF t = "play" THEN {"player", "play"} ELSE Mutexes) \subseteq Mutexes
      BY DEF Mutexes, Sections
    <3> QED
      BY <1>8, <3>1 DEF Lock
  <2>2. \/ held'[t] = {m}
        \/ t = "play" /\ held'[t] = {"play", "player"}
    <3>1. held'[t] = held[t] \cup {m}
      BY <1>0, <2>1 DEF TypeOK
    <3>2. CASE held[t] = {}
      BY <3>1, <3>2
    <3>3. CASE t = "play" /\ held[t] = {"play"} /\ m = "player"
      BY <3>1, <3>3
    <3> QED
      BY <2>1, <3>2, <3>3
  <2>3. \A u \in Threads : u # t => held'[u] = held[u]
    BY <1>0, <2>1 DEF TypeOK
  <2>4. /\ t # "main" /\ t # "wtdg" /\ life[t] = "running"
        /\ UNCHANGED <<life, mainPc, setter>>
    BY <1>8 DEF Lock, Runs, threads
  <2>5. \A u \in Threads : \/ held'[u] = {}
                           \/ \E n \in Mutexes : held'[u] = {n}
                           \/ u = "play" /\ held'[u] = {"play", "player"}
    BY <2>2, <2>3 DEF HoldInv
  <2> QED
    BY <2>3, <2>4, <2>5 DEF HoldInv
<1>9. ASSUME NEW t \in Threads, Unlock(t)
      PROVE  HoldInv'
  <2>1. held' = [held EXCEPT ![t] = IF "player" \in @ THEN @ \ {"player"} ELSE {}]
    BY <1>9 DEF Unlock
  <2>2. held'[t] = {} \/ held'[t] = {"play"}
    BY <1>0, <2>1 DEF TypeOK, HoldInv
  <2>3. \A u \in Threads : u # t => held'[u] = held[u]
    BY <1>0, <2>1 DEF TypeOK
  <2>4. /\ t # "main" /\ t # "wtdg" /\ life[t] = "running" /\ "play" \in Mutexes
        /\ UNCHANGED <<life, mainPc, setter>>
    BY <1>9 DEF Unlock, Runs, threads, Mutexes, Sections
  <2> QED
    BY <2>2, <2>3, <2>4 DEF HoldInv
<1>10. ASSUME NEW t \in Threads, Finish(t)
       PROVE  HoldInv'
  <2>1. t # "main" /\ t # "wtdg" /\ UNCHANGED <<held, life, mainPc>>
        /\ setter' = [setter EXCEPT ![t] = "player"]
    BY <1>10 DEF Finish, threads
  <2> QED
    BY <1>0, <2>1 DEF TypeOK, HoldInv
<1>11. ASSUME NEW t \in Threads, SetterLocks(t)
       PROVE  HoldInv'
  <2>1. /\ setter[t] \in Mutexes /\ setter[t] # "none"
        /\ held' = [held EXCEPT ![t] = {setter[t]}]
        /\ life[t] = "running" /\ t # "wtdg"
        /\ UNCHANGED <<life, mainPc, setter>>
    BY <1>0, <1>11 DEF SetterLocks, Runs, TypeOK, HoldInv, threads
  <2>2. t = "main" => mainPc # "kill"
    BY <2>1 DEF HoldInv
  <2> QED
    BY <1>0, <2>1, <2>2 DEF TypeOK, HoldInv
<1>12. ASSUME NEW t \in Threads, SetterUnlocks(t)
       PROVE  HoldInv'
  <2>1. /\ held' = [held EXCEPT ![t] = {}] /\ setter[t] # "none" /\ t # "wtdg"
        /\ setter' = [setter EXCEPT ![t] = After[setter[t]]]
        /\ t = "main" => UNCHANGED life
        /\ life' = life \/ life' = [life EXCEPT ![t] = "ended"]
        /\ mainPc' = mainPc \/ mainPc' = "lock"
        /\ t # "main" => UNCHANGED mainPc
    BY <1>0, <1>12 DEF SetterUnlocks, TypeOK, HoldInv
  <2>2. t = "main" => mainPc' # "kill"
    BY <1>0, <2>1 DEF MainInv
  <2>3. \A u \in Threads : \/ held'[u] = {}
                           \/ u # t /\ held'[u] = held[u]
    BY <1>0, <2>1 DEF TypeOK
  <2>4. \A u \in Threads : u # t => life'[u] = life[u] /\ setter'[u] = setter[u]
    BY <1>0, <2>1 DEF TypeOK
  <2>5. life'["main"] = "running"
    BY <2>1, <2>4 DEF HoldInv
  <2>6. mainPc' = "kill" => t # "main" /\ mainPc = "kill"
    BY <2>1, <2>2
  <2>7. held'["main"] # {} => t # "main" /\ mainPc' = mainPc
    BY <2>1, <2>3
  <2> QED
    BY <2>1, <2>3, <2>4, <2>5, <2>6, <2>7 DEF HoldInv
<1>13. CASE CreateThread
  <2>1. created + 1 \in 1..Len(Order)
    BY <1>0, <1>13 DEF TypeOK, CreateThread
  <2>2. /\ mainPc' # "kill" /\ mainPc = "create" /\ UNCHANGED held
        /\ setter' = setter \/ setter' = [setter EXCEPT !["main"] = "player"]
        /\ \/ life' = life
           \/ life' = [life EXCEPT ![Order[created + 1]] = "running"]
    BY <1>13 DEF CreateThread
  <2>3. \A t \in Threads : life[t] = "running" => life'[t] = "running"
    BY <1>0, <2>1, <2>2 DEF TypeOK
  <2>4. setter["main"] = "none" /\ held["main"] = {}
    BY <1>0, <2>2 DEF MainInv, HoldInv
  <2>5. setter'["wtdg"] = "none"
    BY <1>0, <2>2 DEF HoldInv, TypeOK
  <2> QED
    BY <2>2, <2>3, <2>4, <2>5 DEF HoldInv
<1>14. CASE WaitPlayer
  <2>1. /\ mainPc = "join" /\ mainPc' = "clear" /\ UNCHANGED <<held, life>>
        /\ setter' = [setter EXCEPT !["main"] = "player"]
    BY <1>14 DEF WaitPlayer
  <2>2. setter'["wtdg"] = "none" /\ setter'["main"] # "none"
    BY <1>0, <2>1 DEF TypeOK, HoldInv
  <2> QED
    BY <2>1, <2>2 DEF HoldInv
<1>15. CASE KillChild
  <2>1. UNCHANGED <<life, setter>>
    BY <1>15 DEF KillChild
  <2>2. CASE /\ mainPc = "lock" /\ mainPc' = "kill"
             /\ held' = [held EXCEPT !["main"] = {"play"}]
    <3>1. "play" \in Mutexes /\ setter["main"] = "none"
      BY <1>0, <2>2 DEF Mutexes, Sections, MainInv
    <3>2. held'["main"] = {"play"}
          /\ \A u \in Threads : u # "main" => held'[u] = held[u]
      BY <1>0, <2>2 DEF TypeOK
    <3> QED
      BY <2>1, <2>2, <3>1, <3>2 DEF HoldInv
  <2>3. CASE /\ mainPc' = "join_play"
             /\ held' = [held EXCEPT !["main"] = {}]
    <3>1. held'["main"] = {}
          /\ \A u \in Threads : u # "main" => held'[u] = held[u]
      BY <1>0, <2>3 DEF TypeOK
    <3> QED
      BY <2>1, <2>3, <3>1 DEF HoldInv
  <2> QED
    BY <1>15, <2>2, <2>3 DEF KillChild
<1>16. CASE FreePlayer
  BY <1>16 DEF FreePlayer, HoldInv, locks
<1> QED
  BY <1>2, <1>3, <1>4, <1>6, <1>7, <1>8, <1>9, <1>10, <1>11, <1>12, <1>13,
     <1>14, <1>15, <1>16 DEF Next, Handle, Worker, Main, Watchdog

LEMMA HoldInitial == Init => HoldInv
BY OrderFacts DEF Init, HoldInv

\* A step takes or frees mutexes of one thread, no handler is on top of it, and
\* it gets a mutex only when nobody has it.
HeldMoves ==
  \/ UNCHANGED held
  \/ /\ UNCHANGED handler
     /\ \E t \in Threads :
          /\ handler[t] = "none"
          /\ \A u \in Threads : u # t => held'[u] = held[u]
          /\ \/ held'[t] \subseteq held[t]
             \/ \E m : Unlocked(m) /\ held'[t] \subseteq held[t] \cup {m}

\* A handler does one thing at a time: it begins, gets through a section, ends.
HandlerMoves ==
  \/ UNCHANGED handler
  \/ \E t \in Threads :
       \/ handler' = [handler EXCEPT ![t] = "start"] /\ handler[t] = "none"
       \/ handler' = [handler EXCEPT ![t] = "player"] /\ handler[t] = "start"
       \/ handler' = [handler EXCEPT ![t] = "none"] /\ handler[t] = "stop"
       \/ /\ handler[t] \in Sections /\ Unlocked(handler[t])
          /\ handler' = [handler EXCEPT ![t] =
                           IF @ = "play" THEN "stop" ELSE After[@]]

LEMMA Moves ==
  ASSUME IInv, [Next]_vars
  PROVE  HeldMoves /\ HandlerMoves
<1> USE OrderFacts
<1>0. TypeOK
  BY DEF IInv
<1>1. UNCHANGED <<held, handler>> => HeldMoves /\ HandlerMoves
  BY DEF HeldMoves, HandlerMoves
<1>2. ASSUME NEW t \in Threads, Interrupt(t)
      PROVE  HeldMoves /\ HandlerMoves
  BY <1>2 DEF Interrupt, Runs, locks, HeldMoves, HandlerMoves
<1>3. ASSUME NEW t \in Threads, HandlerStarts(t)
      PROVE  HeldMoves /\ HandlerMoves
  BY <1>3 DEF HandlerStarts, locks, HeldMoves, HandlerMoves
<1>4. ASSUME NEW t \in Threads, HandlerSets(t)
      PROVE  HeldMoves /\ HandlerMoves
  BY <1>4 DEF HandlerSets, locks, HeldMoves, HandlerMoves
<1>5. ASSUME NEW t \in Threads, HandlerStops(t)
      PROVE  HeldMoves /\ HandlerMoves
  BY <1>5 DEF HandlerStops, locks, HeldMoves, HandlerMoves
<1>6. ASSUME NEW t \in Threads, handler[t] = "none", UNCHANGED handler,
             NEW S, held' = [held EXCEPT ![t] = S],
             S \subseteq held[t] \/ \E m : Unlocked(m) /\ S \subseteq held[t] \cup {m}
      PROVE  HeldMoves /\ HandlerMoves
  <2>1. held'[t] = S /\ \A u \in Threads : u # t => held'[u] = held[u]
    BY <1>0, <1>6 DEF TypeOK
  <2> QED
    BY <1>6, <2>1 DEF HeldMoves, HandlerMoves
<1>7. ASSUME NEW t \in Threads, Lock(t)
      PROVE  HeldMoves /\ HandlerMoves
  <2>1. PICK m : Unlocked(m) /\ held' = [held EXCEPT ![t] = held[t] \cup {m}]
    BY <1>7 DEF Lock
  <2>2. handler[t] = "none" /\ UNCHANGED handler
    BY <1>7 DEF Lock, Runs
  <2> QED
    BY <1>6, <2>1, <2>2
<1>8. ASSUME NEW t \in Threads, Unlock(t)
      PROVE  HeldMoves /\ HandlerMoves
  <2> DEFINE S == IF "player" \in held[t] THEN held[t] \ {"player"} ELSE {}
  <2>1. held' = [held EXCEPT ![t] = S] /\ S \subseteq held[t]
    BY <1>8 DEF Unlock
  <2>2. handler[t] = "none" /\ UNCHANGED handler
    BY <1>8 DEF Unlock, Runs
  <2> QED
    BY <1>6, <2>1, <2>2
<1>9. ASSUME NEW t \in Threads, SetterLocks(t)
      PROVE  HeldMoves /\ HandlerMoves
  <2>1. Unlocked(setter[t]) /\ held' = [held EXCEPT ![t] = {setter[t]}]
    BY <1>9 DEF SetterLocks
  <2>2. handler[t] = "none" /\ UNCHANGED handler
    BY <1>9 DEF SetterLocks, Runs
  <2> QED
    BY <1>6, <2>1, <2>2
<1>10. ASSUME NEW t \in Threads, SetterUnlocks(t)
       PROVE  HeldMoves /\ HandlerMoves
  <2>1. /\ held' = [held EXCEPT ![t] = {}]
        /\ handler[t] = "none" /\ UNCHANGED handler
    BY <1>10 DEF SetterUnlocks, Runs
  <2> QED
    BY <1>6, <2>1
<1>11. CASE KillChild
  <2>1. handler["main"] = "none" /\ UNCHANGED handler
    BY <1>11 DEF KillChild, Runs
  <2>2. \/ Unlocked("play") /\ held' = [held EXCEPT !["main"] = {"play"}]
        \/ held' = [held EXCEPT !["main"] = {}]
    BY <1>11 DEF KillChild
  <2>3. CASE Unlocked("play") /\ held' = [held EXCEPT !["main"] = {"play"}]
    <3>1. \E m : Unlocked(m) /\ {"play"} \subseteq held["main"] \cup {m}
      BY <2>3
    <3> QED
      BY <1>6, <2>1, <2>3, <3>1
  <2>4. CASE held' = [held EXCEPT !["main"] = {}]
    BY <1>6, <2>1, <2>4
  <2> QED
    BY <2>2, <2>3, <2>4
<1>12. CASE \/ \E t \in Threads : Finish(t)
            \/ CreateThread \/ WaitPlayer \/ FreePlayer \/ Return
            \/ AwaitStart \/ Watch \/ Expire \/ WatchdogInterrupted
            \/ UNCHANGED vars
  BY <1>1, <1>12 DEF Finish, CreateThread, WaitPlayer, FreePlayer, Return,
     AwaitStart, Watch, Expire, WatchdogInterrupted, vars, locks
<1> QED
  BY <1>2, <1>3, <1>4, <1>5, <1>7, <1>8, <1>9, <1>10, <1>11, <1>12
     DEF Next, Handle, Worker, Main, Watchdog

LEMMA ExcludeStep ==
  ASSUME IInv, ExcludeInv, PassedInv, [Next]_vars
  PROVE  ExcludeInv' /\ PassedInv'
<1> USE OrderFacts
<1>0. TypeOK /\ HeldMoves /\ HandlerMoves
  BY Moves DEF IInv
<1>1. ExcludeInv'
  <2>1. CASE UNCHANGED held
    BY <2>1 DEF ExcludeInv
  <2>2. ASSUME NEW t \in Threads, \A u \in Threads : u # t => held'[u] = held[u],
               \/ held'[t] \subseteq held[t]
               \/ \E m : Unlocked(m) /\ held'[t] \subseteq held[t] \cup {m}
        PROVE  ExcludeInv'
    <3>1. \A u \in Threads : u # t => held'[t] \cap held[u] = {}
      BY <2>2 DEF ExcludeInv, Unlocked
    <3> QED
      BY <2>2, <3>1 DEF ExcludeInv
  <2> QED
    BY <1>0, <2>1, <2>2 DEF HeldMoves
<1>2. PassedInv'
  <2>1. CASE UNCHANGED <<held, handler>>
    BY <2>1 DEF PassedInv
  <2>2. CASE held' # held
    <3>1. PICK t \in Threads : /\ handler[t] = "none" /\ UNCHANGED handler
                               /\ \A u \in Threads : u # t => held'[u] = held[u]
      BY <1>0, <2>2 DEF HeldMoves
    <3>2. Passed("none") = {}
      BY DEF Passed
    <3> QED
      BY <3>1, <3>2 DEF PassedInv
  <2>3. CASE handler' # handler /\ UNCHANGED held
    <3> DEFINE Is(t, pc) ==
                 /\ handler' = [handler EXCEPT ![t] = pc]
                 /\ \/ pc \in {"start", "player", "none"}
                    \/ /\ handler[t] \in Sections /\ Unlocked(handler[t])
                       /\ pc = IF handler[t] = "play" THEN "stop"
                               ELSE After[handler[t]]
    <3>0. PICK t \in Threads : \E pc : Is(t, pc)
      BY <1>0, <2>3 DEF HandlerMoves
    <3>1. PICK pc : Is(t, pc)
      BY <3>0
    <3>2. held[t] \cap Passed(pc) = {}
      <4>1. CASE pc \in {"start", "player", "none"}
        BY <4>1 DEF Passed
      <4>2. CASE handler[t] \in Sections /\ Unlocked(handler[t])
                 /\ pc = IF handler[t] = "play" THEN "stop" ELSE After[handler[t]]
        <5>1. held[t] \cap Passed(handler[t]) = {} /\ handler[t] \notin held[t]
          BY <4>2 DEF PassedInv, Unlocked
        <5>2. CASE handler[t] = "player"
          BY <4>2, <5>1, <5>2 DEF Passed, After
        <5>3. CASE handler[t] = "queue"
          BY <4>2, <5>1, <5>3 DEF Passed, After
        <5>4. CASE handler[t] = "play"
          BY <4>2, <5>1, <5>4 DEF Passed, Sections
        <5> QED
          BY <4>2, <5>2, <5>3, <5>4 DEF Sections
      <4> QED
        BY <3>1, <4>1, <4>2
    <3>3. handler'[t] = pc /\ \A u \in Threads : u # t => handler'[u] = handler[u]
      BY <1>0, <3>1 DEF TypeOK
    <3> QED
      BY <2>3, <3>2, <3>3 DEF PassedInv
  <2> QED
    BY <2>1, <2>2, <2>3
<1> QED
  BY <1>1, <1>2

LEMMA AloneStep ==
  ASSUME IInv, AloneInv, [Next]_vars
  PROVE  AloneInv'
<1> USE OrderFacts
<1>0. TypeOK /\ HandlerMoves
  BY Moves DEF IInv
<1>1. CASE Handling' \subseteq Handling /\ UNCHANGED overlap
  BY <1>1 DEF AloneInv
<1>2. ASSUME NEW t \in Threads, Interrupt(t)
      PROVE  AloneInv'
  <2>1. CASE Handling # {} \/ overlap
    BY <1>2, <2>1 DEF Interrupt, AloneInv
  <2>2. CASE Handling = {}
    <3>1. \A u \in Threads : u # t => handler'[u] = "none"
      BY <1>0, <1>2, <2>2 DEF Interrupt, Handling, TypeOK
    <3> QED
      BY <3>1 DEF AloneInv, Handling
  <2> QED
    BY <2>1, <2>2
<1>3. CASE ~\E t \in Threads : Interrupt(t)
  <2>1. UNCHANGED overlap
    BY <1>3 DEF Next, Handle, HandlerStarts, HandlerSets, HandlerStops, Worker,
       Lock, Unlock, Finish, SetterLocks, SetterUnlocks, Main, CreateThread,
       WaitPlayer, KillChild, FreePlayer, Return, Watchdog, AwaitStart, Watch,
       Expire, WatchdogInterrupted, history, vars
  <2>2. UNCHANGED handler \/ \E t \in Threads : Handle(t)
    BY <1>3 DEF Next, Worker, Lock, Unlock, Finish, SetterLocks, SetterUnlocks,
       Main, CreateThread, WaitPlayer, KillChild, FreePlayer, Return, Watchdog,
       AwaitStart, Watch, Expire, WatchdogInterrupted, vars
  <2>3. CASE UNCHANGED handler
    BY <1>1, <2>1, <2>3 DEF Handling
  <2>4. ASSUME NEW t \in Threads, Handle(t)
        PROVE  Handling' \subseteq Handling
    <3>1. handler[t] # "none" /\ \E pc : handler' = [handler EXCEPT ![t] = pc]
      BY <2>4 DEF Handle, HandlerStarts, HandlerSets, HandlerStops, Sections
    <3> QED
      BY <1>0, <3>1 DEF Handling, TypeOK
  <2> QED
    BY <1>1, <2>1, <2>2, <2>3, <2>4
<1> QED
  BY <1>2, <1>3

\* A mutex has one holder, a thread that lives, and only the play thread holds
\* two: play_mutex, then player_mutex (set_player_running, run_player).
THEOREM OneHolder == Spec => []MutexesExclude
<1>1. Init => HoldInv /\ ExcludeInv /\ PassedInv
  BY HoldInitial DEF Init, ExcludeInv, PassedInv
<1>2. IInv /\ HoldInv /\ ExcludeInv /\ PassedInv /\ [Next]_vars
      => HoldInv' /\ ExcludeInv' /\ PassedInv'
  BY HoldStep, ExcludeStep
<1>3. HoldInv /\ ExcludeInv => MutexesExclude
  <2> SUFFICES ASSUME HoldInv, ExcludeInv, NEW t \in Threads
               PROVE  /\ held[t] # {} => life[t] = "running"
                      /\ \A m \in held[t] : \A u \in Threads \ {t} : m \notin held[u]
                      /\ \A m, n \in held[t] :
                           m # n => t = "play" /\ {m, n} = {"play", "player"}
    BY DEF MutexesExclude
  <2>1. held[t] # {} => life[t] = "running"
    BY DEF HoldInv
  <2>2. \A m \in held[t] : \A u \in Threads \ {t} : m \notin held[u]
    BY DEF ExcludeInv
  <2>3. \A m, n \in held[t] : m # n => t = "play" /\ {m, n} = {"play", "player"}
    BY DEF HoldInv
  <2> QED
    BY <2>1, <2>2, <2>3
<1> QED
  BY Invariance, <1>1, <1>2, <1>3, PTL DEF Spec

\* A handler waits for the thread it interrupted or for one that gets on; it is
\* the watchdog that ends the first case (signal_handler, run_watchdog).
THEOREM StuckOnItself == Spec => []HandlerWaitsForItself
<1>1. Init => HoldInv /\ ExcludeInv /\ PassedInv /\ AloneInv
  BY HoldInitial DEF Init, ExcludeInv, PassedInv, AloneInv, Handling
<1>2. /\ IInv /\ HoldInv /\ ExcludeInv /\ PassedInv /\ AloneInv
      /\ [Next]_vars
      => HoldInv' /\ ExcludeInv' /\ PassedInv' /\ AloneInv'
  BY HoldStep, ExcludeStep, AloneStep
<1>3. IInv /\ HoldInv /\ ExcludeInv /\ PassedInv /\ AloneInv
      => HandlerWaitsForItself
  <2> SUFFICES ASSUME IInv, HoldInv, ExcludeInv, PassedInv, AloneInv, Alive,
                      ~overlap, NEW t \in Handling, NEW u \in Threads \ {t},
                      handler[t] \in held[u]
               PROVE  Runs(u) /\ "player" \notin held[t]
    BY DEF HandlerWaitsForItself
  <2>1. life[u] = "running" /\ handler[u] = "none" /\ t \in Threads
    BY DEF HoldInv, AloneInv, Handling
  <2>2. handler[t] \in {"player", "queue", "play"}
    BY <2>1 DEF IInv, TypeOK, Handling, Sections, Mutexes
  <2>3. "player" \notin held[t]
    <3>1. CASE handler[t] = "player"
      BY <2>1, <3>1 DEF ExcludeInv
    <3>2. CASE handler[t] \in {"queue", "play"}
      BY <2>1, <3>2 DEF PassedInv, Passed
    <3> QED
      BY <2>2, <3>1, <3>2
  <2> QED
    BY <2>1, <2>3 DEF Runs
<1> QED
  BY Invariance, <1>1, <1>2, <1>3, PTL DEF Spec

-----------------------------------------------------------------------------
Regular == Alive /\ ~overlap /\ ~freed /\ life["wtdg"] # "ended"

\* The watchdog thread is created once, after the early ones.
CreatedInv == created <= Len(Early) => life["wtdg"] = "none"

LEMMA WatchdogPlace ==
  /\ Len(Early) \in Nat
  /\ \A i \in 1..Len(Order) : Order[i] = "wtdg" <=> i = Len(Early) + 1
<1> DEFINE S == {"strm", "serv", "resp", "wtdg", "play"}
<1>1. Early \in Seq(S) /\ <<"wtdg", "play">> \in Seq(S)
      /\ Len(<<"wtdg", "play">>) = 2
  BY StopAssumption
<1>2. /\ Len(Early) \in Nat /\ DOMAIN Early = 1..Len(Early)
      /\ Len(Order) = Len(Early) + 2
      /\ \A i \in 1..Len(Early) : Order[i] = Early[i]
      /\ Order[Len(Early) + 1] = "wtdg" /\ Order[Len(Early) + 2] = "play"
  BY <1>1 DEF Order
<1>3. \A i \in 1..Len(Early) : Order[i] # "wtdg"
  BY <1>2, StopAssumption
<1> QED
  BY <1>2, <1>3

LEMMA CreatedStep ==
  ASSUME IInv, CreatedInv, [Next]_vars
  PROVE  CreatedInv' /\ (life["wtdg"] = "ended" => life'["wtdg"] = "ended")
<1> USE OrderFacts, WatchdogPlace
<1>0. TypeOK /\ created \in Nat
  BY DEF IInv, TypeOK
<1>1. UNCHANGED <<created, life>>
      => CreatedInv' /\ (life["wtdg"] = "ended" => life'["wtdg"] = "ended")
  BY DEF CreatedInv
<1>2. ASSUME NEW t \in Threads, UNCHANGED created, life[t] = "running",
             life' = [life EXCEPT ![t] = "ended"]
      PROVE  CreatedInv' /\ (life["wtdg"] = "ended" => life'["wtdg"] = "ended")
  BY <1>0, <1>2 DEF TypeOK, CreatedInv
<1>3. CASE CreateThread
  <2>1. created + 1 \in 1..Len(Order)
    BY <1>0, <1>3 DEF CreateThread, TypeOK
  <2>2. CASE UNCHANGED <<created, life>>
    BY <1>1, <2>2
  <2>3. CASE /\ created' = created + 1
             /\ life' = [life EXCEPT ![Order[created + 1]] = "running"]
    <3>1. CASE created = Len(Early)
      BY <1>0, <2>1, <2>3, <3>1 DEF CreatedInv
    <3>2. CASE created # Len(Early)
      <4>1. Order[created + 1] # "wtdg"
        BY <1>0, <2>1, <3>2
      <4>2. life'["wtdg"] = life["wtdg"]
        BY <1>0, <2>3, <4>1 DEF TypeOK
      <4>3. created' <= Len(Early) => created <= Len(Early)
        BY <1>0, <2>3
      <4> QED
        BY <4>2, <4>3 DEF CreatedInv
    <3> QED
      BY <3>1, <3>2
  <2> QED
    BY <1>3, <2>2, <2>3 DEF CreateThread
<1>4. ASSUME NEW t \in Threads, SetterUnlocks(t)
      PROVE  CreatedInv' /\ (life["wtdg"] = "ended" => life'["wtdg"] = "ended")
  BY <1>1, <1>2, <1>4 DEF SetterUnlocks, Runs
<1>5. ASSUME NEW t \in Threads, HandlerStops(t)
      PROVE  CreatedInv' /\ (life["wtdg"] = "ended" => life'["wtdg"] = "ended")
  <2>1. life[t] = "running"
    BY <1>5 DEF HandlerStops, IInv, HandlerInv
  <2> QED
    BY <1>1, <1>2, <1>5, <2>1 DEF HandlerStops
<1>6. CASE WatchdogInterrupted
  BY <1>2, <1>6 DEF WatchdogInterrupted, Runs
<1>7. CASE \/ \E t \in Threads :
                \/ Interrupt(t) \/ HandlerStarts(t) \/ HandlerSets(t)
                \/ Lock(t) \/ Unlock(t) \/ Finish(t) \/ SetterLocks(t)
           \/ WaitPlayer \/ KillChild \/ FreePlayer \/ Return
           \/ AwaitStart \/ Watch \/ Expire \/ UNCHANGED vars
  BY <1>1, <1>7 DEF Interrupt, HandlerStarts, HandlerSets, Lock, Unlock, Finish,
     SetterLocks, WaitPlayer, KillChild, FreePlayer, Return, AwaitStart, Watch,
     Expire, vars, threads
<1> QED
  BY <1>3, <1>4, <1>5, <1>6, <1>7 DEF Next, Handle, Worker, Main, Watchdog

\* Once it is over with, it is over with.
LEMMA RegularBefore ==
  ASSUME IInv, CreatedInv, [Next]_vars, Regular'
  PROVE  Regular
<1>1. overlap => overlap'
  BY DEF IInv, TypeOK, Next, Interrupt, Handle, HandlerStarts, HandlerSets, HandlerStops,
     Worker, Lock, Unlock, Finish, SetterLocks, SetterUnlocks, Main, CreateThread,
     WaitPlayer, KillChild, FreePlayer, Return, Watchdog, AwaitStart, Watch,
     Expire, WatchdogInterrupted, history, vars
<1>2. freed => freed'
  BY DEF Next, Interrupt, Handle, HandlerStarts, HandlerSets, HandlerStops,
     Worker, Lock, Unlock, Finish, SetterLocks, SetterUnlocks, Main, CreateThread,
     WaitPlayer, KillChild, FreePlayer, Return, Watchdog, AwaitStart, Watch,
     Expire, WatchdogInterrupted, vars
<1>3. ~Alive => UNCHANGED exit
  BY DEF Next, Interrupt, Handle, HandlerStarts, HandlerSets, HandlerStops,
     Worker, Lock, Unlock, Finish, SetterLocks, SetterUnlocks, Main, CreateThread,
     WaitPlayer, KillChild, FreePlayer, Return, Watchdog, AwaitStart, Watch,
     Expire, WatchdogInterrupted, vars, Runs
<1> QED
  BY <1>1, <1>2, <1>3, CreatedStep DEF Regular, Alive

\* WatchInv by its parts: a handler that begins, one that goes on, none.
Begins == \A t \in Threads : handler[t] = "start" => pending = {} /\ wtdgPc = "wait"
GoesOn ==
  \A t \in Threads : handler[t] \in Sections \cup {"stop"} =>
    /\ life["wtdg"] = "running"
    /\ \/ pending = {"USR1"} /\ wtdgPc = "wait"
       \/ pending = {} /\ wtdgPc # "wait"
Rests ==
  Handling = {} => \/ pending = {} /\ wtdgPc = "wait"
                   \/ pending = {"USR1", "USR2"} /\ wtdgPc = "wait"
                   \/ pending = {"USR2"} /\ wtdgPc # "wait"
NotYet == life["wtdg"] = "none" => pending = {} /\ wtdgPc = "wait"

LEMMA WatchSplit ==
  /\ WatchInv <=> (Regular => Begins /\ GoesOn /\ Rests /\ NotYet)
  /\ WatchInv' <=> (Regular' => Begins' /\ GoesOn' /\ Rests' /\ NotYet')
BY DEF WatchInv, Regular, Begins, GoesOn, Rests, NotYet

LEMMA WatchStep ==
  ASSUME IInv, CreatedInv, AloneInv, WatchInv, [Next]_vars
  PROVE  WatchInv'
<1> SUFFICES ASSUME Regular'
             PROVE  Begins' /\ GoesOn' /\ Rests' /\ NotYet'
  BY WatchSplit
<1> USE OrderFacts, SectionFacts
<1>0. /\ TypeOK /\ Alive /\ ~overlap /\ ~freed /\ life["wtdg"] # "ended"
      /\ Begins /\ GoesOn /\ Rests /\ NotYet
  BY RegularBefore, WatchSplit DEF IInv, Regular
<1>1. ASSUME NEW t \in Threads, Interrupt(t)
      PROVE  Begins' /\ GoesOn' /\ Rests' /\ NotYet'
  <2>1. /\ Handling = {} /\ pending = {} /\ UNCHANGED <<pending, wtdgPc, life>>
        /\ handler' = [handler EXCEPT ![t] = "start"]
    BY <1>0, <1>1 DEF Interrupt, Regular, TypeOK, watchdog, threads
  <2>2. wtdgPc = "wait"
    BY <1>0, <2>1 DEF Rests
  <2>3. \A u \in Threads : handler'[u] = IF u = t THEN "start" ELSE "none"
    BY <1>0, <2>1 DEF TypeOK, Handling
  <2> QED
    BY <2>1, <2>2, <2>3 DEF Begins, GoesOn, Rests, NotYet, Handling
<1>2. ASSUME NEW t \in Threads, HandlerStarts(t)
      PROVE  Begins' /\ GoesOn' /\ Rests' /\ NotYet'
  <2>1. /\ handler[t] = "start" /\ handler' = [handler EXCEPT ![t] = "player"]
        /\ UNCHANGED <<wtdgPc, life>> /\ SignalWatchdog("USR1")
    BY <1>2 DEF HandlerStarts, threads
  <2>2. pending = {} /\ wtdgPc = "wait"
    BY <1>0, <2>1 DEF Begins
  <2>3. life["wtdg"] = "running" /\ pending' = {"USR1"}
    <3>1. life["wtdg"] # "none"
      BY <1>0, <2>1 DEF SignalWatchdog, Regular, Alive
    <3>2. life["wtdg"] = "running"
      BY <1>0, <3>1 DEF TypeOK
    <3> QED
      BY <1>0, <2>1, <2>2, <3>2 DEF SignalWatchdog
  <2>4. \A u \in Threads : u # t => handler[u] = "none"
    BY <1>0, <2>1 DEF AloneInv, Handling
  <2>5. \A u \in Threads : handler'[u] = IF u = t THEN "player" ELSE "none"
    BY <1>0, <2>1, <2>4 DEF TypeOK
  <2> QED
    BY <2>1, <2>2, <2>3, <2>5 DEF Begins, GoesOn, Rests, NotYet, Handling
<1>3. ASSUME NEW t \in Threads, HandlerSets(t)
      PROVE  Begins' /\ GoesOn' /\ Rests' /\ NotYet'
  <2>1. /\ handler[t] \in Sections /\ UNCHANGED <<pending, wtdgPc, life>>
        /\ \E pc \in Sections \cup {"stop"} : handler' = [handler EXCEPT ![t] = pc]
    BY <1>3 DEF HandlerSets, watchdog, threads, Sections, After
  <2>2. PICK pc \in Sections \cup {"stop"} : handler' = [handler EXCEPT ![t] = pc]
    BY <2>1
  <2>3. handler'[t] = pc /\ \A u \in Threads : u # t => handler'[u] = handler[u]
    BY <1>0, <2>2 DEF TypeOK
  <2>4. handler'[t] # "start" /\ handler'[t] # "none"
    BY <2>3 DEF Sections
  <2> QED
    BY <1>0, <2>1, <2>3, <2>4 DEF Begins, GoesOn, Rests, NotYet, Handling
<1>4. ASSUME NEW t \in Threads, HandlerStops(t)
      PROVE  Begins' /\ GoesOn' /\ Rests' /\ NotYet'
  <2>1. /\ handler[t] = "stop" /\ handler' = [handler EXCEPT ![t] = "none"]
        /\ UNCHANGED wtdgPc /\ SignalWatchdog("USR2")
    BY <1>4 DEF HandlerStops
  <2>2. life' = life
    BY <1>0, <1>4 DEF HandlerStops, Regular, TypeOK, IInv, HandlerInv
  <2>3. /\ life["wtdg"] = "running"
        /\ \/ pending = {"USR1"} /\ wtdgPc = "wait"
           \/ pending = {} /\ wtdgPc # "wait"
    BY <1>0, <2>1 DEF GoesOn
  <2>4. pending' = pending \cup {"USR2"}
    BY <1>0, <2>1, <2>3 DEF SignalWatchdog
  <2>5. \A u \in Threads : handler'[u] = "none"
    BY <1>0, <2>1 DEF AloneInv, Handling, TypeOK
  <2> QED
    BY <2>1, <2>2, <2>3, <2>4, <2>5 DEF Begins, GoesOn, Rests, NotYet, Sections
<1>5. CASE AwaitStart
  <2>1. life["wtdg"] = "running" /\ wtdgPc = "wait" /\ UNCHANGED <<handler, life>>
    BY <1>5 DEF AwaitStart, Runs, threads
  <2>2. /\ \/ pending = {"USR1", "USR2"} /\ Handling = {}
           \/ pending = {"USR1"} /\ Handling # {}
        /\ Begins'
    <3>1. pending # {}
      BY <1>5 DEF AwaitStart, Took
    <3>2. \A t \in Threads : handler[t] # "start"
      BY <1>0, <3>1 DEF Begins
    <3>3. CASE Handling = {}
      BY <1>0, <2>1, <3>1, <3>2, <3>3 DEF Rests, Begins
    <3>4. CASE Handling # {}
      <4>1. PICK t \in Threads : handler[t] \in Sections \cup {"stop"}
        BY <1>0, <3>2, <3>4 DEF Handling, TypeOK
      <4> QED
        BY <1>0, <2>1, <3>1, <3>2, <3>4, <4>1 DEF GoesOn, Begins
    <3> QED
      BY <3>3, <3>4
  <2>3. wtdgPc' = "watch" /\ pending' = pending \ {"USR1"}
    BY <1>5, <2>2 DEF AwaitStart, Took
  <2> QED
    BY <1>0, <2>1, <2>2, <2>3 DEF Begins, GoesOn, Rests, NotYet, Handling, Sections
<1>6. CASE Watch
  <2>1. life["wtdg"] = "running" /\ wtdgPc = "watch" /\ UNCHANGED <<handler, life>>
    BY <1>6 DEF Watch, Runs, threads
  <2>2. \A t \in Threads : handler[t] # "start"
    BY <1>0, <2>1 DEF Begins
  <2>3. CASE Handling = {}
    <3>1. pending = {"USR2"}
      BY <1>0, <2>1, <2>3 DEF Rests
    <3>2. wtdgPc' = "wait" /\ pending' = {}
      BY <1>6, <3>1 DEF Watch, Took
    <3>3. \A t \in Threads : handler[t] = "none"
      BY <2>3 DEF Handling
    <3> QED
      BY <2>1, <2>3, <3>2, <3>3 DEF Begins, GoesOn, Rests, NotYet, Sections
  <2>4. CASE Handling # {}
    <3>1. PICK t \in Threads : handler[t] \in Sections \cup {"stop"}
      BY <1>0, <2>2, <2>4 DEF Handling, TypeOK
    <3>2. pending = {}
      BY <1>0, <2>1, <3>1 DEF GoesOn
    <3>3. wtdgPc' = "watch" /\ pending' = {}
      BY <1>6, <2>1, <3>2 DEF Watch, Took
    <3> QED
      BY <2>1, <2>2, <2>4, <3>3 DEF Begins, GoesOn, Rests, NotYet, Handling
  <2> QED
    BY <2>3, <2>4
<1>7. CASE Expire
  <2>1. /\ life["wtdg"] = "running" /\ wtdgPc = "watch" /\ wtdgPc' = "broadcast"
        /\ UNCHANGED <<handler, life, pending>>
    BY <1>0, <1>7 DEF Expire, Runs, threads, Regular, Alive
  <2> QED
    BY <1>0, <2>1 DEF Begins, GoesOn, Rests, NotYet, Handling
<1>8. CASE WatchdogInterrupted
  BY <1>0, <1>8 DEF WatchdogInterrupted, TypeOK, Regular
<1>9. ASSUME UNCHANGED <<handler, pending, wtdgPc>>,
             life'["wtdg"] \in {life["wtdg"], "running"}
      PROVE  Begins' /\ GoesOn' /\ Rests' /\ NotYet'
  BY <1>0, <1>9 DEF Begins, GoesOn, Rests, NotYet, Handling
<1>10. CASE CreateThread
  <2>1. created + 1 \in 1..Len(Order)
    BY <1>0, <1>10 DEF CreateThread, TypeOK
  <2>2. life'["wtdg"] \in {life["wtdg"], "running"}
    BY <1>0, <1>10, <2>1 DEF CreateThread, TypeOK
  <2> QED
    BY <1>9, <1>10, <2>2 DEF CreateThread, watchdog
<1>11. ASSUME NEW t \in Threads, SetterUnlocks(t)
       PROVE  Begins' /\ GoesOn' /\ Rests' /\ NotYet'
  <2>1. life'["wtdg"] = life["wtdg"]
    BY <1>0, <1>11 DEF SetterUnlocks, TypeOK, Regular
  <2> QED
    BY <1>9, <1>11, <2>1 DEF SetterUnlocks, watchdog
<1>12. CASE \/ \E t \in Threads :
                 Lock(t) \/ Unlock(t) \/ Finish(t) \/ SetterLocks(t)
            \/ WaitPlayer \/ KillChild \/ FreePlayer \/ Return
            \/ UNCHANGED vars
  <2>1. UNCHANGED <<handler, pending, wtdgPc, life>>
    BY <1>12 DEF Lock, Unlock, Finish, SetterLocks, WaitPlayer, KillChild,
       FreePlayer, Return, vars, threads, watchdog
  <2> QED
    BY <1>9, <2>1
<1> QED
  BY <1>1, <1>2, <1>3, <1>4, <1>5, <1>6, <1>7, <1>8, <1>10, <1>11, <1>12
     DEF Next, Handle, Worker, Main, Watchdog

\* Once a handler has called pthread_kill the watchdog watches it, and it never
\* counts down, or ends the server, for anything but a handler (signal_handler,
\* run_watchdog).
THEOREM HandlersAreWatched == Spec => []HandlerIsWatched
<1>1. Init => CreatedInv /\ AloneInv /\ WatchInv
  <2>1. Init => CreatedInv /\ AloneInv
    BY OrderFacts DEF Init, CreatedInv, AloneInv, Handling
  <2>2. Init => Begins /\ GoesOn /\ Rests /\ NotYet
    BY DEF Init, Begins, GoesOn, Rests, NotYet, Sections
  <2> QED
    BY <2>1, <2>2, WatchSplit
<1>2. IInv /\ CreatedInv /\ AloneInv /\ WatchInv /\ [Next]_vars
      => CreatedInv' /\ AloneInv' /\ WatchInv'
  BY CreatedStep, AloneStep, WatchStep
<1>3. IInv /\ WatchInv => HandlerIsWatched
  <2> SUFFICES ASSUME IInv, WatchInv, Regular
               PROVE  /\ \A t \in Handling : handler[t] # "start" =>
                           "USR1" \in pending \/ wtdgPc # "wait"
                      /\ wtdgPc # "wait" => Handling # {} \/ "USR2" \in pending
    BY DEF HandlerIsWatched, Regular
  <2>1. Begins /\ GoesOn /\ Rests
    BY WatchSplit
  <2>2. ASSUME NEW t \in Handling, handler[t] # "start"
        PROVE  "USR1" \in pending \/ wtdgPc # "wait"
    <3>1. t \in Threads /\ handler[t] \in Sections \cup {"stop"}
      BY <2>2 DEF IInv, TypeOK, Handling
    <3> QED
      BY <2>1, <3>1 DEF GoesOn
  <2> QED
    BY <2>1, <2>2 DEF Rests
<1> QED
  BY Invariance, <1>1, <1>2, <1>3, PTL DEF Spec
=============================================================================
