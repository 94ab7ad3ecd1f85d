------------------------------- MODULE Player -------------------------------
(***************************************************************************)
(* The playback core of the server: the play thread (run_player), which    *)
(* forks one gst-launch process per playlist entry and waits for it; the   *)
(* response thread, which executes the clients' commands against it        *)
(* (cmd_* and command_player) and waits for them in dequeue; the stream    *)
(* and the server thread, of which only the end is here, and the handlers  *)
(* of SIGINT, all of which call set_player_running(false); and the main    *)
(* thread, which joins the four and runs clear_player.  The process is     *)
(* external: the kernel's view of it is in proc.                           *)
(*                                                                         *)
(* One action is one critical section of a mutex, or the code between two  *)
(* of them; such code reads or writes at most one variable that other      *)
(* threads write.                                                          *)
(***************************************************************************)
EXTENDS Integers

CONSTANTS
  Pids,          \* process ids the kernel hands out
  MAX_FILENUM,   \* capacity of the playlist
  Stoppers       \* SIGINTs whose handler calls set_player_running(false)

ASSUME PidsAssumption == Pids \subseteq Nat \ {0}
ASSUME FilenumAssumption == MAX_FILENUM \in Nat \ {0}

VARIABLES
  filenum, loop,     \* the playlist's size and mode, fixed before start_player
  cur_idx,           \* playlist->cur_idx
  running,           \* player->running
  queue_running,     \* player->queue->running
  child_pid, child_paused, child_stopped, pending_command,
  playPc,            \* where the play thread is
  pid, pending,      \* locals of run_player, 0 and NONE once they are dead
  respPc,            \* where the response thread is
  command,           \* the argument of its call of command_player
  stopPc,            \* where each caller is in set_player_running(false)
  mainPc,            \* where the main thread is
  proc               \* what the kernel knows of each process id

playlist == <<filenum, loop, cur_idx>>
child == <<child_pid, child_paused, child_stopped, pending_command>>
playLocals == <<pid, pending>>
response == <<respPc, command>>
flags == <<running, queue_running>>
vars == <<playlist, flags, child, playPc, playLocals, response, stopPc,
          mainPc, proc>>

Commands == {"NONE", "NEXT", "PREV", "STOP", "PAUSE", "RESUME", "REPLAY"}

\* The handlers, and the threads that call set_player_running as they end.
Callers == Stoppers \cup {"strm", "serv"}

\* The commands that end the running child.
Interrupts == {"NEXT", "PREV", "STOP", "REPLAY"}

PlayPcs == {"head", "wait", "wake_next", "wake_prev", "spawn", "publish",
            "waitpid", "cleanup", "decide", "ending", "exit", "done"}
RespPcs == {"loop", "dequeue", "wait", "woken", "ready", "call", "done"}

Live == {"running", "stopped", "terminating", "stopped_term"}
ProcStates == Live \cup {"none", "dead"}

-----------------------------------------------------------------------------
(* The process, as kill(2), fork(2) and waitpid(2) see it.  SIGTERM does   *)
(* not end it at once.  spawn_child leaves SIGTERM at its default action,  *)
(* but the program it execs may install a handler: a SIGSTOP that follows  *)
(* a SIGTERM may therefore find the process already doomed, or stop it.    *)

Sigcont(s) ==
  IF s = "stopped" THEN "running"
  ELSE IF s = "stopped_term" THEN "terminating" ELSE s

Sigterm(s) ==
  IF s = "running" THEN "terminating"
  ELSE IF s = "stopped" THEN "stopped_term" ELSE s

Sigstop(s) ==
  IF s = "running" THEN {"stopped"}
  ELSE IF s = "terminating" THEN {"terminating", "stopped_term"} ELSE {s}

\* The process ends: its media is over, it failed, or it obeyed SIGTERM.
ChildExits(p) ==
  /\ proc[p] \in {"running", "terminating"}
  /\ proc' = [proc EXCEPT ![p] = "dead"]
  /\ UNCHANGED <<playlist, flags, child, playPc, playLocals, response,
                 stopPc, mainPc>>

-----------------------------------------------------------------------------
(* create_player, prepare_player and start_player have run.                *)

Init ==
  /\ filenum \in 1..MAX_FILENUM
  /\ loop \in BOOLEAN
  /\ cur_idx = 0
  /\ running = TRUE /\ queue_running = TRUE
  /\ child_pid = 0
  /\ child_paused = FALSE
  /\ child_stopped = FALSE
  /\ pending_command = "NONE"
  /\ playPc = "head"
  /\ pid = 0
  /\ pending = "NONE"
  /\ respPc = "loop"
  /\ command = "NONE"
  /\ stopPc = [s \in Callers |-> "idle"]
  /\ mainPc = "wait"
  /\ proc = [p \in Pids |-> "none"]

\* Mutant of PlaySignalled: the signal is forgotten.
PlaySignalled_Forgotten == playPc

\* pthread_cond_signal(&play_cond): only the play thread ever waits on it.
PlaySignalled == IF playPc = "wait" THEN "head" ELSE playPc

\* pthread_cond_signal(&queue_cond): only the response thread waits on it.
RespSignalled == IF respPc = "wait" THEN "woken" ELSE respPc

-----------------------------------------------------------------------------
(* The play thread.                                                        *)

\* forward_playlist has somewhere to go, and where.
CanForward == cur_idx + 1 < filenum \/ loop
ForwardIdx == IF cur_idx + 1 < filenum THEN cur_idx + 1 ELSE 0
\* Mutant of BackwardIdx: no guard at the first entry.
BackwardIdx_Unguarded == cur_idx - 1
\* backward_playlist: at the first entry it stays there.
BackwardIdx == IF cur_idx > 0 THEN cur_idx - 1 ELSE cur_idx

\* The head of the play loop: the while condition and the cond_wait loop
\* under play_mutex.  The reads of running that precede the last one change
\* nothing, since running never becomes true again.
LoopExit ==
  /\ playPc = "head" /\ ~running
  /\ playPc' = "exit"
  /\ UNCHANGED <<playlist, flags, child, playLocals, response, stopPc,
                 mainPc, proc>>

\* Mutant of LoopWait: pending_command is not looked at before the wait.
LoopWait_Blind ==
  /\ playPc = "head" /\ running /\ child_stopped
  /\ playPc' = "wait"
  /\ UNCHANGED <<playlist, flags, child, playLocals, response, stopPc,
                 mainPc, proc>>

LoopWait ==
  /\ playPc = "head" /\ running
  /\ child_stopped /\ pending_command = "NONE"
  /\ playPc' = "wait"
  /\ UNCHANGED <<playlist, flags, child, playLocals, response, stopPc,
                 mainPc, proc>>

\* Mutant of LoopWake: child_stopped is not reset.
LoopWake_StaysStopped ==
  /\ playPc = "head" /\ running
  /\ child_stopped /\ pending_command # "NONE"
  /\ pending_command' = "NONE"
  /\ playPc' = "spawn"
  /\ UNCHANGED <<playlist, flags, child_pid, child_paused, child_stopped,
                 playLocals, response, stopPc, mainPc, proc>>

LoopWake ==
  /\ playPc = "head" /\ running
  /\ child_stopped /\ pending_command # "NONE"
  /\ pending_command' = "NONE"
  /\ child_stopped' = FALSE
  /\ \/ pending_command = "NEXT" /\ playPc' = "wake_next"
     \/ pending_command = "PREV" /\ playPc' = "wake_prev"
     \/ pending_command \notin {"NEXT", "PREV"} /\ playPc' = "spawn"
  /\ UNCHANGED <<playlist, flags, child_pid, child_paused, playLocals,
                 response, stopPc, mainPc, proc>>

LoopGo ==
  /\ playPc = "head" /\ running /\ ~child_stopped
  /\ playPc' = "spawn"
  /\ UNCHANGED <<playlist, flags, child, playLocals, response, stopPc,
                 mainPc, proc>>

\* The move that a NEXT or a PREV asks of a stopped player; its result is
\* not looked at.
WakeForward ==
  /\ playPc = "wake_next"
  /\ cur_idx' = IF CanForward THEN ForwardIdx ELSE cur_idx
  /\ playPc' = "spawn"
  /\ UNCHANGED <<filenum, loop, flags, child, playLocals, response, stopPc,
                 mainPc, proc>>

WakeBackward ==
  /\ playPc = "wake_prev"
  /\ cur_idx' = BackwardIdx
  /\ playPc' = "spawn"
  /\ UNCHANGED <<filenum, loop, flags, child, playLocals, response, stopPc,
                 mainPc, proc>>

\* spawn_child; when fork fails the thread sleeps and tries again.
Spawn ==
  /\ playPc = "spawn"
  /\ \E p \in Pids :
       /\ proc[p] = "none"
       /\ pid' = p
       /\ proc' = [proc EXCEPT ![p] = "running"]
  /\ playPc' = "publish"
  /\ UNCHANGED <<playlist, flags, child, pending, response, stopPc, mainPc>>

SpawnFails ==
  /\ playPc = "spawn"
  /\ playPc' = "head"
  /\ UNCHANGED <<playlist, flags, child, playLocals, response, stopPc,
                 mainPc, proc>>

Publish ==
  /\ playPc = "publish"
  /\ child_pid' = pid
  /\ child_paused' = FALSE
  /\ playPc' = "waitpid"
  /\ UNCHANGED <<playlist, flags, child_stopped, pending_command,
                 playLocals, response, stopPc, mainPc, proc>>

\* Mutant of WaitPid: an interrupted call is not repeated.
WaitPid_NoRetry ==
  /\ playPc = "waitpid"
  /\ playPc' = "cleanup"
  /\ proc' = IF proc[pid] = "dead" THEN [proc EXCEPT ![pid] = "none"] ELSE proc
  /\ UNCHANGED <<playlist, flags, child, playLocals, response, stopPc,
                 mainPc>>

\* waitpid: the child is reaped, or a SIGCHLD for its SIGSTOP or SIGCONT
\* interrupts the call, which is then repeated.
WaitPid ==
  /\ playPc = "waitpid"
  /\ \/ /\ proc[pid] = "dead"
        /\ proc' = [proc EXCEPT ![pid] = "none"]
        /\ playPc' = "cleanup"
     \/ /\ proc[pid] # "dead"
        /\ UNCHANGED <<proc, playPc>>
  /\ UNCHANGED <<playlist, flags, child, playLocals, response, stopPc,
                 mainPc>>

Cleanup ==
  /\ playPc = "cleanup"
  /\ pending' = pending_command
  /\ pending_command' = "NONE"
  /\ child_pid' = 0
  /\ child_paused' = FALSE
  /\ pid' = 0
  /\ playPc' = "decide"
  /\ UNCHANGED <<playlist, flags, child_stopped, response, stopPc,
                 mainPc, proc>>

\* What the command taken by Cleanup asks for; no command, or any other
\* command, is the end of the stream.
DecideExit ==
  /\ playPc = "decide" /\ ~running
  /\ playPc' = "exit"
  /\ pending' = "NONE"
  /\ UNCHANGED <<playlist, flags, child, pid, response, stopPc,
                 mainPc, proc>>

\* Mutant of DecideStop: the playlist moves on before the player stops.
DecideStop_Moves ==
  /\ playPc = "decide" /\ running /\ pending = "STOP"
  /\ child_stopped' = TRUE
  /\ cur_idx' = IF CanForward THEN ForwardIdx ELSE cur_idx
  /\ playPc' = "head"
  /\ pending' = "NONE"
  /\ UNCHANGED <<filenum, loop, flags, child_pid, child_paused,
                 pending_command, pid, response, stopPc, mainPc, proc>>

DecideStop ==
  /\ playPc = "decide" /\ running /\ pending = "STOP"
  /\ child_stopped' = TRUE
  /\ playPc' = "head"
  /\ pending' = "NONE"
  /\ UNCHANGED <<playlist, flags, child_pid, child_paused, pending_command,
                 pid, response, stopPc, mainPc, proc>>

DecideBackward ==
  /\ playPc = "decide" /\ running /\ pending = "PREV"
  /\ cur_idx' = BackwardIdx
  /\ playPc' = "head"
  /\ pending' = "NONE"
  /\ UNCHANGED <<filenum, loop, flags, child, pid, response, stopPc,
                 mainPc, proc>>

DecideReplay ==
  /\ playPc = "decide" /\ running /\ pending = "REPLAY"
  /\ playPc' = "head"
  /\ pending' = "NONE"
  /\ UNCHANGED <<playlist, flags, child, pid, response, stopPc,
                 mainPc, proc>>

DecideForward ==
  /\ playPc = "decide" /\ running /\ pending \notin {"STOP", "PREV", "REPLAY"}
  /\ CanForward
  /\ cur_idx' = ForwardIdx
  /\ playPc' = "head"
  /\ pending' = "NONE"
  /\ UNCHANGED <<filenum, loop, flags, child, pid, response, stopPc,
                 mainPc, proc>>

DecideEnd ==
  /\ playPc = "decide" /\ running /\ pending \notin {"STOP", "PREV", "REPLAY"}
  /\ ~CanForward
  /\ running' = FALSE
  /\ playPc' = "ending"
  /\ pending' = "NONE"
  /\ UNCHANGED <<playlist, queue_running, child, pid, response, stopPc,
                 mainPc, proc>>

\* The queue's section of set_player_running(false), which the thread calls
\* at the end of the playlist and once more when it has left its loop; its own
\* signal to play_cond finds nobody.
EndSignals ==
  /\ playPc = "ending"
  /\ queue_running' = FALSE /\ respPc' = RespSignalled
  /\ playPc' = "exit"
  /\ UNCHANGED <<playlist, running, child, playLocals, command, stopPc, mainPc,
                 proc>>

PlayExit ==
  /\ playPc = "exit"
  /\ queue_running' = FALSE /\ respPc' = RespSignalled
  /\ playPc' = "done"
  /\ UNCHANGED <<playlist, running, child, playLocals, command, stopPc, mainPc,
                 proc>>

PlayThread ==
  \/ LoopExit \/ LoopWait \/ LoopWake \/ LoopGo
  \/ WakeForward \/ WakeBackward \/ Spawn \/ SpawnFails \/ Publish \/ WaitPid \/ Cleanup
  \/ DecideExit \/ DecideStop \/ DecideBackward \/ DecideReplay
  \/ DecideForward \/ DecideEnd \/ EndSignals \/ PlayExit

-----------------------------------------------------------------------------
(* The response thread.  The commands it executes come from the clients;   *)
(* whether there is one in the queue is their choice.                      *)

RespLoop ==
  /\ respPc = "loop" /\ running
  /\ respPc' = "dequeue"
  /\ UNCHANGED <<playlist, flags, child, playPc, playLocals, command,
                 stopPc, mainPc, proc>>

\* dequeue looks at queue->running after a wait, and only then.
MayDequeue == respPc = "dequeue" \/ (respPc = "woken" /\ queue_running)

RespTakes ==
  /\ MayDequeue
  /\ respPc' = "ready"
  /\ UNCHANGED <<playlist, flags, child, playPc, playLocals, command,
                 stopPc, mainPc, proc>>

RespWaits ==
  /\ MayDequeue
  /\ respPc' = "wait"
  /\ UNCHANGED <<playlist, flags, child, playPc, playLocals, command,
                 stopPc, mainPc, proc>>

\* enqueue signals, or pthread_cond_wait returns without a signal.
RespWoken ==
  /\ respPc = "wait"
  /\ respPc' = "woken"
  /\ UNCHANGED <<playlist, flags, child, playPc, playLocals, command,
                 stopPc, mainPc, proc>>

\* The thread ends; its set_player_running(false) signals the play thread.
RespExit ==
  /\ \/ respPc = "loop" /\ ~running
     \/ respPc = "woken" /\ ~queue_running
  /\ respPc' = "done"
  /\ queue_running' = FALSE
  /\ playPc' = PlaySignalled
  /\ UNCHANGED <<playlist, running, child, playLocals, command, stopPc, mainPc,
                 proc>>

\* A cmd_* function calls command_player with c, or answers without a call.
Calls(c) == respPc' = "call" /\ command' = c
Answers == respPc' = "loop" /\ UNCHANGED command

\* cmd_play looks at the child in a critical section of its own.
CmdPlay ==
  /\ respPc = "ready"
  /\ IF child_paused
       THEN Calls("RESUME")
       ELSE IF child_pid = 0 THEN Calls("REPLAY") ELSE Answers
  /\ UNCHANGED <<playlist, flags, child, playPc, playLocals, stopPc,
                 mainPc, proc>>

CmdStop ==
  /\ respPc = "ready"
  /\ Calls("STOP")
  /\ UNCHANGED <<playlist, flags, child, playPc, playLocals, stopPc,
                 mainPc, proc>>

CmdPause ==
  /\ respPc = "ready"
  /\ Calls("PAUSE")
  /\ UNCHANGED <<playlist, flags, child, playPc, playLocals, stopPc,
                 mainPc, proc>>

\* cmd_next and cmd_prev read cur_idx without a lock.
CmdNext ==
  /\ respPc = "ready"
  /\ IF CanForward THEN Calls("NEXT") ELSE Answers
  /\ UNCHANGED <<playlist, flags, child, playPc, playLocals, stopPc,
                 mainPc, proc>>

CmdPrev ==
  /\ respPc = "ready"
  /\ IF cur_idx - 1 >= 0 THEN Calls("PREV") ELSE Answers
  /\ UNCHANGED <<playlist, flags, child, playPc, playLocals, stopPc,
                 mainPc, proc>>

\* The commands that touch nothing: none, quit, seek, time, uri and ack.
CmdQuery ==
  /\ respPc = "ready"
  /\ Answers
  /\ UNCHANGED <<playlist, flags, child, playPc, playLocals, stopPc,
                 mainPc, proc>>

\* Mutant of Terminates: a paused child is not continued first.
Terminates_Frozen(c) ==
  /\ c \in Interrupts
  /\ proc' = [proc EXCEPT ![child_pid] = Sigterm(@)]
  /\ child_paused' = FALSE

\* What command_player does to the child it finds published: c's signals.
Terminates(c) ==
  /\ c \in Interrupts
  /\ proc' = [proc EXCEPT ![child_pid] =
                Sigterm(IF child_paused THEN Sigcont(@) ELSE @)]
  /\ child_paused' = FALSE

\* Mutant of Pauses: the pause is not recorded.
Pauses_Unrecorded(c) ==
  /\ c = "PAUSE" /\ ~child_paused
  /\ \E s \in Sigstop(proc[child_pid]) :
       proc' = [proc EXCEPT ![child_pid] = s]
  /\ UNCHANGED child_paused

Pauses(c) ==
  /\ c = "PAUSE" /\ ~child_paused
  /\ \E s \in Sigstop(proc[child_pid]) :
       proc' = [proc EXCEPT ![child_pid] = s]
  /\ child_paused' = TRUE

Resumes(c) ==
  /\ c = "RESUME" /\ child_paused
  /\ proc' = [proc EXCEPT ![child_pid] = Sigcont(@)]
  /\ child_paused' = FALSE

LeavesChild(c) ==
  /\ \/ child_pid = 0
     \/ c = "PAUSE" /\ child_paused
     \/ c = "RESUME" /\ ~child_paused
  /\ UNCHANGED <<proc, child_paused>>

CommandPlayer ==
  /\ respPc = "call"
  /\ pending_command' = command
  /\ playPc' = PlaySignalled
  /\ \/ child_pid > 0 /\ (Terminates(command) \/ Pauses(command)
                          \/ Resumes(command))
     \/ LeavesChild(command)
  /\ respPc' = "loop"
  /\ command' = "NONE"
  /\ UNCHANGED <<playlist, flags, child_pid, child_stopped, playLocals,
                 stopPc, mainPc>>

ResponseThread ==
  \/ RespLoop \/ RespTakes \/ RespWaits \/ RespWoken \/ RespExit
  \/ CmdPlay \/ CmdStop \/ CmdPause \/ CmdNext \/ CmdPrev \/ CmdQuery
  \/ CommandPlayer

-----------------------------------------------------------------------------
(* set_player_running(false) by a handler of SIGINT, or by the stream or   *)
(* the server thread when it is told to end or fails: the flag, then the   *)
(* queue's flag with its signal, and only then the signal to play_cond.    *)

ClearRunning(s) ==
  /\ stopPc[s] = "idle" /\ mainPc = "wait"
  /\ running' = FALSE
  /\ stopPc' = [stopPc EXCEPT ![s] = "flagged"]
  /\ UNCHANGED <<playlist, queue_running, child, playPc, playLocals, response,
                 mainPc, proc>>

SignalQueue(s) ==
  /\ stopPc[s] = "flagged"
  /\ queue_running' = FALSE /\ respPc' = RespSignalled
  /\ stopPc' = [stopPc EXCEPT ![s] = "queued"]
  /\ UNCHANGED <<playlist, running, child, playPc, playLocals, command, mainPc,
                 proc>>

SignalPlay(s) ==
  /\ stopPc[s] = "queued"
  /\ playPc' = PlaySignalled
  /\ stopPc' = [stopPc EXCEPT ![s] = "done"]
  /\ UNCHANGED <<playlist, flags, child, playLocals, response, mainPc, proc>>

\* The stream thread's sendto to a client that never reads again does not
\* return; one that returns late is only a late ClearRunning.
StreamBlocks ==
  /\ stopPc["strm"] = "idle" /\ mainPc = "wait"
  /\ stopPc' = [stopPc EXCEPT !["strm"] = "blocked"]
  /\ UNCHANGED <<playlist, flags, child, playPc, playLocals, response, mainPc,
                 proc>>

(* The main thread: wait_player joins the threads, clear_player follows.   *)

\* Mutant of WaitPlayer: the play thread is not joined.
WaitPlayer_NoPlayJoin ==
  /\ mainPc = "wait"
  /\ \A s \in Stoppers : stopPc[s] \notin {"flagged", "queued"}
  /\ stopPc["strm"] = "done" /\ stopPc["serv"] = "done"
  /\ respPc = "done"
  /\ mainPc' = "clear"
  /\ UNCHANGED <<playlist, flags, child, playPc, playLocals, response,
                 stopPc, proc>>

WaitPlayer ==
  /\ mainPc = "wait"
  /\ \A s \in Stoppers : stopPc[s] \notin {"flagged", "queued"}
  /\ stopPc["strm"] = "done" /\ stopPc["serv"] = "done"
  /\ respPc = "done"
  /\ playPc = "done"
  /\ mainPc' = "clear"
  /\ UNCHANGED <<playlist, flags, child, playPc, playLocals, response,
                 stopPc, proc>>

\* clear_player signals and joins threads that wait_player has joined, which
\* is undefined: pthread_join finds the stale thread id (ESRCH), or the stack
\* it points into is gone.
ClearPlayer ==
  /\ mainPc = "clear"
  /\ running' = FALSE /\ queue_running' = FALSE
  /\ playPc' = PlaySignalled
  /\ \/ child_pid > 0 /\ Terminates("STOP")
     \/ child_pid = 0 /\ UNCHANGED <<proc, child_paused>>
  /\ mainPc' \in {"cleared", "crashed"}
  /\ UNCHANGED <<playlist, child_pid, child_stopped, pending_command,
                 playLocals, response, stopPc>>

-----------------------------------------------------------------------------

Next ==
  \/ PlayThread
  \/ ResponseThread
  \/ \E s \in Callers : ClearRunning(s) \/ SignalQueue(s) \/ SignalPlay(s)
  \/ StreamBlocks
  \/ WaitPlayer
  \/ ClearPlayer
  \/ \E p \in Pids : ChildExits(p)

Spec == Init /\ [][Next]_vars

\* A node that dequeue returned is executed.
Execute == CmdPlay \/ CmdStop \/ CmdPause \/ CmdNext \/ CmdPrev \/ CmdQuery

\* The threads run, a call that has begun goes on, SIGUSR1 takes the stream
\* and the server thread out of pselect, and a process that is neither stopped
\* nor reaped ends.  Nothing makes a client send a command, a user press
\* Ctrl-C or fork fail or succeed.
Fairness ==
  /\ WF_vars(PlayThread)
  /\ WF_vars(RespLoop) /\ WF_vars(RespTakes \/ RespWaits) /\ WF_vars(RespExit)
  /\ WF_vars(Execute) /\ WF_vars(CommandPlayer)
  /\ \A s \in Callers : WF_vars(SignalQueue(s)) /\ WF_vars(SignalPlay(s))
  /\ \A s \in {"strm", "serv"} : WF_vars(~running /\ ClearRunning(s))
  /\ WF_vars(WaitPlayer) /\ WF_vars(ClearPlayer)
  /\ \A p \in Pids : WF_vars(ChildExits(p))

FairSpec == Spec /\ Fairness

-----------------------------------------------------------------------------
(* Properties.                                                             *)

TypeOK ==
  /\ filenum \in 1..MAX_FILENUM
  /\ loop \in BOOLEAN
  /\ cur_idx \in 0..filenum - 1
  /\ running \in BOOLEAN /\ queue_running \in BOOLEAN
  /\ child_pid \in Pids \cup {0}
  /\ child_paused \in BOOLEAN
  /\ child_stopped \in BOOLEAN
  /\ pending_command \in Commands
  /\ playPc \in PlayPcs
  /\ pid \in Pids \cup {0}
  /\ pending \in Commands
  /\ respPc \in RespPcs
  /\ command \in Commands
  /\ stopPc \in [Callers -> {"idle", "blocked", "flagged", "queued", "done"}]
  /\ mainPc \in {"wait", "clear", "cleared", "crashed"}
  /\ proc \in [Pids -> ProcStates]

\* The player never has two gst-launch processes at once, not even a zombie
\* beside a live one: run_player forks only after waitpid returned the last
\* child, whatever signals interrupted that wait (player.c:636-657).
AtMostOneChild ==
  \A p, q \in Pids : proc[p] # "none" /\ proc[q] # "none" => p = q

\* A frozen process can be thawed: a process is in SIGSTOP only while its pid
\* is published and child_paused is set, so that cmd_play sends SIGCONT; and
\* a process that runs is never taken for paused (player.c:345-386).
PausedChildCanBeResumed ==
  \A p \in Pids :
    /\ proc[p] \in {"stopped", "stopped_term"} => child_pid = p /\ child_paused
    /\ proc[p] = "running" /\ child_pid = p => ~child_paused

\* After a STOP the screen is dark: while child_stopped is set there is no
\* process and none is published, and the play thread is at or in its
\* cond_wait loop or is leaving (player.c:573-608, 677-684).
StoppedMeansSilent ==
  child_stopped =>
    /\ \A p \in Pids : proc[p] = "none"
    /\ child_pid = 0
    /\ playPc \in {"head", "wait", "exit", "done"}

\* The play thread never sleeps through its wake-up: in cond_wait there is no
\* command for it, and if the player is to stop, a thread that cleared the
\* flag has its signal still to send (player.c:295-317, 573-580).
NoLostWakeup ==
  playPc = "wait" =>
    /\ pending_command = "NONE"
    /\ running \/ \E s \in Callers : stopPc[s] \in {"flagged", "queued"}

\* When main gets to clear_player, no process is left: its SIGCONT and
\* SIGTERM never have anybody to go to, and the exit orphans no gst-launch
\* (player.c:229-252, 272-280).
ClearFindsNoChild ==
  mainPc # "wait" => child_pid = 0 /\ \A p \in Pids : proc[p] = "none"

\* What the user sees of all this.
Screen ==
  IF \E p \in Pids : proc[p] \in {"stopped", "stopped_term"} THEN "paused"
  ELSE IF \E p \in Pids : proc[p] \in Live THEN "playing"
  ELSE "silent"

PB == INSTANCE Playback WITH
        track <- cur_idx,
        screen <- Screen,
        chosen <- playPc = "spawn" \/ (playPc = "head" /\ ~child_stopped),
        over <- playPc \in {"ending", "exit", "done"}

\* The player implements Playback: one track at a time, one choice of
\* neighbour between two tracks, none while a process is alive, and the play
\* loop is left only in silence (run_player and command_player together).
ImplementsPlayback == PB!Spec

\* A command that ends the child ends it: a process sent SIGTERM is reaped,
\* unless a PAUSE freezes it on its way out (player.c:349-360, 636-657).
TerminatedIsReaped ==
  \A p \in Pids : proc[p] = "terminating" ~> (proc[p] = "none" \/ child_paused)

\* A stopped player that is sent a command leaves the stopped state
\* (player.c:573-608).
StoppedPlayerWakes ==
  child_stopped /\ pending_command # "NONE" ~> ~child_stopped \/ ~running

\* The program is over.
Ended == mainPc \in {"cleared", "crashed"}

\* The response thread went to sleep after the last thread that could tell it
\* of the stop had signalled: dequeue tests the flag only behind its wait.
StopMissed == respPc = "wait" /\ ~queue_running
StreamBlocked == stopPc["strm"] = "blocked"

\* Once running is false the program ends, unless from then on the child is
\* paused, the response thread has missed every signal, or the stream thread
\* is stuck in sendto (player.c:229-318, 714; queue.c:163-178).
ShutdownUnlessStuck ==
  ~running ~> Ended \/ [](child_paused \/ StopMissed \/ StreamBlocked)

-----------------------------------------------------------------------------
(* What the code's comments say and the code does not do.                  *)

\* player.c:588, "Case: STOP -> NEXT | PREV", and agmp_cmds.c:42 and 53,
\* "Terminate the running child.", "SIGSTOP to the child.": a stopped player
\* is started again by NEXT and PREV, and by play (REPLAY), not by a second
\* STOP or by a PAUSE.
OnlyNavigationRestarts ==
  [][child_stopped /\ ~child_stopped'
       => pending_command \in {"NEXT", "PREV", "REPLAY"}]_vars

\* player.c:235, "Ensure any running child got signals and exited.": a player
\* told to stop ends, paused child or not, if no other thread holds it up.
ShutdownTerminates == ~running ~> Ended \/ [](StopMissed \/ StreamBlocked)
=============================================================================
