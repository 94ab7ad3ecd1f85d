---------------------------- MODULE PlayerProofs ----------------------------
(***************************************************************************)
(* Proofs about Player, for every set of process ids, every capacity of    *)
(* the playlist and every set of threads that stop the player.             *)
(***************************************************************************)
EXTENDS Player, TLAPS

\* Where the play thread stands tells which process there is and which pid
\* is published; the rest of the safety argument follows from that.

HasChild == playPc \in {"publish", "waitpid"}

\* Outside of fork ... waitpid there is no process; inside, there is one, pid.
ProcInv ==
  /\ HasChild => pid \in Pids /\ \A p \in Pids \ {pid} : proc[p] = "none"
  /\ ~HasChild => \A p \in Pids : proc[p] = "none"

\* The pid is published from Publish to Cleanup.
PidInv ==
  /\ playPc \in {"waitpid", "cleanup"} => child_pid = pid /\ pid \in Pids
  /\ playPc \notin {"waitpid", "cleanup"} => child_pid = 0 /\ ~child_paused

\* Nobody signals a process that is not published, and child_paused follows
\* the signals of one that is.
PauseInv ==
  /\ playPc = "publish" => proc[pid] \in {"running", "dead"}
  /\ playPc = "waitpid" =>
       /\ proc[pid] # "none"
       /\ proc[pid] = "running" => ~child_paused
       /\ proc[pid] \in {"stopped", "stopped_term"} => child_paused

\* The play thread sleeps in cond_wait only while child_stopped is set.
StopInv ==
  /\ child_stopped => playPc \in {"head", "wait", "exit", "done"}
  /\ playPc = "wait" => child_stopped

\* The threads that main has joined stay where they are.
MainInv ==
  mainPc # "wait" => playPc = "done"

IInv ==
  TypeOK /\ ProcInv /\ PidInv /\ PauseInv /\ StopInv /\ NoLostWakeup /\ MainInv

-----------------------------------------------------------------------------

\* What the three signals do to a process: none creates or reaps one, only
\* SIGSTOP stops one, and only a process without a SIGTERM runs on.
LEMMA SignalsOnStates ==
  ASSUME NEW s \in ProcStates
  PROVE  /\ Sigcont(s) \in ProcStates \ {"stopped", "stopped_term"}
         /\ Sigterm(s) \in ProcStates \ {"running", "stopped"}
         /\ Sigstop(s) \subseteq ProcStates \ {"running"}
         /\ Sigcont(s) = "none" <=> s = "none"
         /\ Sigterm(s) = "none" <=> s = "none"
         /\ "none" \in Sigstop(s) => s = "none"
         /\ s = "none" => Sigstop(s) = {"none"}
         /\ Sigterm(s) = "stopped_term" => s \in {"stopped", "stopped_term"}
  BY DEF Sigcont, Sigterm, Sigstop, ProcStates, Live

\* The playlist's moves stay in the playlist.
LEMMA MovesInRange ==
  ASSUME TypeOK
  PROVE  /\ ForwardIdx \in 0..filenum - 1
         /\ BackwardIdx \in 0..filenum - 1
  BY FilenumAssumption DEF TypeOK, ForwardIdx, BackwardIdx

\* What a command does to the process whose pid is published, in one fact for
\* the proofs below.
LEMMA CommandOnChild ==
  ASSUME IInv, CommandPlayer
  PROVE  /\ proc' \in [Pids -> ProcStates]
         /\ child_paused' \in BOOLEAN
         /\ \A p \in Pids : (proc[p] = "none" <=> proc'[p] = "none")
         /\ \A p \in Pids : p # child_pid => proc'[p] = proc[p]
         /\ child_pid = 0 => UNCHANGED <<proc, child_paused>>
         /\ playPc = "waitpid" =>
              /\ proc'[pid] = "running" => ~child_paused'
              /\ proc'[pid] \in {"stopped", "stopped_term"} => child_paused'
<1> USE DEF IInv, TypeOK
<1>1. CASE LeavesChild(command)
  BY <1>1 DEF LeavesChild, PidInv, PauseInv
<1>2. ASSUME child_pid > 0 PROVE child_pid \in Pids /\ proc[child_pid] \in ProcStates
  BY <1>2
<1>3. CASE child_pid > 0 /\ Terminates(command)
  <2>1. PICK s \in ProcStates :
          /\ proc' = [proc EXCEPT ![child_pid] = Sigterm(s)]
          /\ s = "none" <=> proc[child_pid] = "none"
          /\ playPc = "waitpid" => s \notin {"stopped", "stopped_term"}
    <3>1. CASE child_paused
      <4>1. proc' = [proc EXCEPT ![child_pid] = Sigterm(Sigcont(proc[child_pid]))]
        BY <1>3, <3>1 DEF Terminates
      <4>2. QED
        BY <1>2, <1>3, <4>1, SignalsOnStates
    <3>2. CASE ~child_paused
      <4>1. proc' = [proc EXCEPT ![child_pid] = Sigterm(proc[child_pid])]
        BY <1>3, <3>2 DEF Terminates
      <4>2. QED
        BY <1>2, <1>3, <3>2, <4>1 DEF PauseInv, PidInv
    <3>3. QED
      BY <3>1, <3>2
  <2>2. Sigterm(s) \in ProcStates \ {"running", "stopped"}
    BY SignalsOnStates
  <2>3. Sigterm(s) = "none" <=> s = "none"
    BY SignalsOnStates
  <2>4. playPc = "waitpid" => Sigterm(s) # "stopped_term"
    BY <2>1, SignalsOnStates
  <2>5. child_paused' = FALSE
    BY <1>3 DEF Terminates
  <2>6. QED
    BY <1>2, <1>3, <2>1, <2>2, <2>3, <2>4, <2>5, PidsAssumption DEF PidInv
<1>4. CASE child_pid > 0 /\ Pauses(command)
  <2>1. PICK s \in Sigstop(proc[child_pid]) :
          proc' = [proc EXCEPT ![child_pid] = s]
    BY <1>4 DEF Pauses
  <2>2. s \in ProcStates \ {"running"}
    BY <1>2, <1>4, <2>1, SignalsOnStates
  <2>3. s = "none" <=> proc[child_pid] = "none"
    BY <1>2, <1>4, <2>1, SignalsOnStates
  <2>4. child_paused' = TRUE
    BY <1>4 DEF Pauses
  <2>5. QED
    BY <1>2, <1>4, <2>1, <2>2, <2>3, <2>4, PidsAssumption DEF PidInv
<1>5. CASE child_pid > 0 /\ Resumes(command)
  <2>1. proc' = [proc EXCEPT ![child_pid] = Sigcont(proc[child_pid])]
    BY <1>5 DEF Resumes
  <2>2. /\ Sigcont(proc[child_pid]) \in ProcStates \ {"stopped", "stopped_term"}
        /\ Sigcont(proc[child_pid]) = "none" <=> proc[child_pid] = "none"
    BY <1>2, <1>5, SignalsOnStates
  <2>3. child_paused' = FALSE
    BY <1>5 DEF Resumes
  <2>4. QED
    BY <1>2, <1>5, <2>1, <2>2, <2>3, PidsAssumption DEF PidInv
<1>6. QED
  BY <1>1, <1>3, <1>4, <1>5 DEF CommandPlayer

-----------------------------------------------------------------------------

\* The provers that know arithmetic are weak on Boolean variables, so some
\* steps below prove the two halves of TypeOK one after the other.
BoolTypes ==
  /\ loop \in BOOLEAN
  /\ running \in BOOLEAN
  /\ queue_running \in BOOLEAN
  /\ child_paused \in BOOLEAN
  /\ child_stopped \in BOOLEAN

OtherTypes ==
  /\ filenum \in 1..MAX_FILENUM
  /\ cur_idx \in 0..filenum - 1
  /\ child_pid \in Pids \cup {0}
  /\ pending_command \in Commands
  /\ playPc \in PlayPcs
  /\ pid \in Pids \cup {0}
  /\ pending \in Commands
  /\ respPc \in RespPcs
  /\ command \in Commands
  /\ stopPc \in [Callers -> {"idle", "blocked", "flagged", "queued", "done"}]
  /\ mainPc \in {"wait", "clear", "cleared", "crashed"}
  /\ proc \in [Pids -> ProcStates]

\* TypeOK is its two halves.
LEMMA TypeHalves == (TypeOK <=> BoolTypes /\ OtherTypes) /\ (TypeOK' <=> BoolTypes' /\ OtherTypes')
  BY DEF TypeOK, BoolTypes, OtherTypes

\* Type correctness, one step per action; MovesInRange and SignalsOnStates do
\* the arithmetic and the signals.
LEMMA TypeStep ==
  ASSUME IInv, [Next]_vars
  PROVE  TypeOK'
<1> USE TypeHalves DEF IInv, BoolTypes, OtherTypes, Commands, PlayPcs, RespPcs, Callers, flags, child,
            playlist, playLocals, response
<1>1. CASE LoopExit
  BY <1>1 DEF LoopExit
<1>2. CASE LoopWait
  BY <1>2 DEF LoopWait
<1>3. CASE LoopWake
  <2>1. BoolTypes'
    BY <1>3 DEF LoopWake
  <2>2. OtherTypes'
    BY <1>3 DEF LoopWake
  <2>3. QED
    BY <2>1, <2>2
<1>4. CASE LoopGo
  BY <1>4 DEF LoopGo
<1>5. CASE WakeForward
  BY <1>5, MovesInRange DEF WakeForward
<1>6. CASE WakeBackward
  BY <1>6, MovesInRange DEF WakeBackward
<1>7. CASE Spawn
  BY <1>7 DEF Spawn, ProcStates, Live
<1>8. CASE SpawnFails
  BY <1>8 DEF SpawnFails
<1>9. CASE Publish
  <2>1. BoolTypes'
    BY <1>9 DEF Publish
  <2>2. OtherTypes'
    BY <1>9 DEF Publish
  <2>3. QED
    BY <2>1, <2>2
<1>10. CASE WaitPid
  BY <1>10 DEF WaitPid, ProcStates, ProcInv, HasChild
<1>11. CASE Cleanup
  <2>1. BoolTypes'
    BY <1>11 DEF Cleanup
  <2>2. OtherTypes'
    BY <1>11 DEF Cleanup
  <2>3. QED
    BY <2>1, <2>2
<1>12. CASE DecideExit
  BY <1>12 DEF DecideExit
<1>13. CASE DecideStop
  BY <1>13 DEF DecideStop
<1>14. CASE DecideBackward
  BY <1>14, MovesInRange DEF DecideBackward
<1>15. CASE DecideReplay
  BY <1>15 DEF DecideReplay
<1>16. CASE DecideForward
  BY <1>16, MovesInRange DEF DecideForward
<1>17. CASE DecideEnd
  <2>1. BoolTypes'
    BY <1>17 DEF DecideEnd
  <2>2. OtherTypes'
    BY <1>17 DEF DecideEnd
  <2>3. QED
    BY <2>1, <2>2
<1>18. CASE EndSignals \/ PlayExit
  <2>1. BoolTypes'
    BY <1>18 DEF EndSignals, PlayExit
  <2>2. OtherTypes'
    BY <1>18 DEF EndSignals, PlayExit, RespSignalled
  <2>3. QED
    BY <2>1, <2>2
<1>19. CASE RespLoop \/ RespTakes \/ RespWaits \/ RespWoken
  BY <1>19 DEF RespLoop, RespTakes, RespWaits, RespWoken
<1>20. CASE RespExit
  <2>1. BoolTypes'
    BY <1>20 DEF RespExit
  <2>2. OtherTypes'
    BY <1>20 DEF RespExit, PlaySignalled
  <2>3. QED
    BY <2>1, <2>2
<1>21. CASE CmdPlay
  BY <1>21 DEF CmdPlay, Calls, Answers, PlaySignalled
<1>22. CASE CmdStop
  BY <1>22 DEF CmdStop, Calls, Answers, PlaySignalled
<1>23. CASE CmdPause
  BY <1>23 DEF CmdPause, Calls, Answers, PlaySignalled
<1>24. CASE CmdNext
  BY <1>24 DEF CmdNext, Calls, Answers, PlaySignalled
<1>25. CASE CmdPrev
  BY <1>25 DEF CmdPrev, Calls, Answers, PlaySignalled
<1>26. CASE CmdQuery
  BY <1>26 DEF CmdQuery, Calls, Answers, PlaySignalled
<1>27. CASE CommandPlayer
  BY <1>27, CommandOnChild DEF CommandPlayer, PlaySignalled
<1>28. ASSUME NEW s \in Callers, ClearRunning(s) \/ SignalQueue(s) \/ SignalPlay(s)
         PROVE  TypeOK'
  <2>1. BoolTypes'
    BY <1>28 DEF ClearRunning, SignalQueue, SignalPlay
  <2>2. OtherTypes'
    BY <1>28 DEF ClearRunning, SignalQueue, SignalPlay, RespSignalled, PlaySignalled
  <2>3. QED
    BY <2>1, <2>2
<1>29. CASE WaitPlayer
  BY <1>29 DEF WaitPlayer
<1>30. CASE ClearPlayer
  <2>1. child_pid = 0
    BY <1>30 DEF ClearPlayer, PidInv, MainInv
  <2>2. UNCHANGED <<proc, child_paused>>
    BY <1>30, <2>1 DEF ClearPlayer
  <2>3. BoolTypes'
    BY <1>30, <2>2 DEF ClearPlayer
  <2>4. OtherTypes'
    BY <1>30, <2>2 DEF ClearPlayer, PlaySignalled
  <2>5. QED
    BY <2>3, <2>4
<1>31. ASSUME NEW p \in Pids, ChildExits(p)
         PROVE  TypeOK'
  BY <1>31 DEF ChildExits, ProcStates
<1>32. CASE UNCHANGED vars
  BY <1>32 DEF vars
<1>33. CASE StreamBlocks
  BY <1>33 DEF StreamBlocks
<1>34. QED
  BY <1>1, <1>2, <1>3, <1>4, <1>5, <1>6, <1>7, <1>8, <1>9, <1>10, <1>11, <1>12,
     <1>13, <1>14, <1>15, <1>16, <1>17, <1>18, <1>19, <1>20, <1>21, <1>22,
     <1>23, <1>24, <1>25, <1>26, <1>27, <1>28, <1>29, <1>30, <1>31, <1>32, <1>33 DEF
     Next, PlayThread, ResponseThread

-----------------------------------------------------------------------------

\* The rest of the inductive invariant.
LEMMA InvStep ==
  ASSUME IInv, [Next]_vars
  PROVE  (ProcInv /\ PidInv /\ PauseInv /\ StopInv /\ NoLostWakeup /\ MainInv)'
<1> USE DEF IInv, TypeOK, ProcInv, PidInv, PauseInv, StopInv, NoLostWakeup,
            MainInv, HasChild, flags, child, playLocals, response
<1>1. CASE LoopExit
  BY <1>1, PidsAssumption DEF LoopExit
<1>2. CASE LoopWait
  BY <1>2, PidsAssumption DEF LoopWait
<1>3. CASE LoopWake
  BY <1>3, PidsAssumption DEF LoopWake
<1>4. CASE LoopGo
  BY <1>4, PidsAssumption DEF LoopGo
<1>5. CASE WakeForward
  BY <1>5, PidsAssumption DEF WakeForward
<1>6. CASE WakeBackward
  BY <1>6, PidsAssumption DEF WakeBackward
<1>7. CASE Spawn
  BY <1>7, PidsAssumption DEF Spawn
<1>8. CASE SpawnFails
  BY <1>8, PidsAssumption DEF SpawnFails
<1>9. CASE Publish
  BY <1>9, PidsAssumption DEF Publish
<1>10. CASE WaitPid
  BY <1>10, PidsAssumption DEF WaitPid
<1>11. CASE Cleanup
  BY <1>11, PidsAssumption DEF Cleanup
<1>12. CASE DecideExit
  BY <1>12, PidsAssumption DEF DecideExit
<1>13. CASE DecideStop
  BY <1>13, PidsAssumption DEF DecideStop
<1>14. CASE DecideBackward
  BY <1>14, PidsAssumption DEF DecideBackward
<1>15. CASE DecideReplay
  BY <1>15, PidsAssumption DEF DecideReplay
<1>16. CASE DecideForward
  BY <1>16, PidsAssumption DEF DecideForward
<1>17. CASE DecideEnd
  BY <1>17, PidsAssumption DEF DecideEnd
<1>18. CASE EndSignals \/ PlayExit
  BY <1>18, PidsAssumption DEF EndSignals, PlayExit
<1>19. CASE RespLoop \/ RespTakes \/ RespWaits \/ RespWoken
  BY <1>19 DEF RespLoop, RespTakes, RespWaits, RespWoken
<1>20. CASE RespExit
  BY <1>20 DEF RespExit, PlaySignalled
<1>21. CASE CmdPlay
  BY <1>21 DEF CmdPlay, PlaySignalled
<1>22. CASE CmdStop
  BY <1>22 DEF CmdStop, PlaySignalled
<1>23. CASE CmdPause
  BY <1>23 DEF CmdPause, PlaySignalled
<1>24. CASE CmdNext
  BY <1>24 DEF CmdNext, PlaySignalled
<1>25. CASE CmdPrev
  BY <1>25 DEF CmdPrev, PlaySignalled
<1>26. CASE CmdQuery
  BY <1>26 DEF CmdQuery, PlaySignalled
<1>27. CASE CommandPlayer
  BY <1>27, CommandOnChild DEF CommandPlayer, PlaySignalled
<1>28. ASSUME NEW s \in Callers, ClearRunning(s) \/ SignalQueue(s) \/ SignalPlay(s)
         PROVE  (ProcInv /\ PidInv /\ PauseInv /\ StopInv /\ NoLostWakeup /\ MainInv)'
  BY <1>28 DEF ClearRunning, SignalQueue, SignalPlay, PlaySignalled
<1>29. CASE WaitPlayer
  BY <1>29 DEF WaitPlayer
<1>30. CASE ClearPlayer
  <2>1. child_pid = 0
    BY <1>30 DEF ClearPlayer
  <2>2. UNCHANGED <<proc, child_paused>>
    BY <1>30, <2>1 DEF ClearPlayer
  <2>3. QED
    BY <1>30, <2>2 DEF ClearPlayer, PlaySignalled
<1>31. ASSUME NEW p \in Pids, ChildExits(p)
         PROVE  (ProcInv /\ PidInv /\ PauseInv /\ StopInv /\ NoLostWakeup /\ MainInv)'
  BY <1>31 DEF ChildExits
<1>32. CASE UNCHANGED vars
  BY <1>32 DEF vars
<1>33. CASE StreamBlocks
  BY <1>33 DEF StreamBlocks
<1>34. QED
  BY <1>1, <1>2, <1>3, <1>4, <1>5, <1>6, <1>7, <1>8, <1>9, <1>10, <1>11, <1>12,
     <1>13, <1>14, <1>15, <1>16, <1>17, <1>18, <1>19, <1>20, <1>21, <1>22,
     <1>23, <1>24, <1>25, <1>26, <1>27, <1>28, <1>29, <1>30, <1>31, <1>32, <1>33 DEF
     Next, PlayThread, ResponseThread

\* The initial state has the invariant.
LEMMA InvInit == Init => IInv
<1>1. Init => BoolTypes
  BY DEF Init, BoolTypes
<1>2. Init => OtherTypes
  BY FilenumAssumption DEF Init, OtherTypes, Commands, PlayPcs, RespPcs, Callers, ProcStates
<1>3. Init => ProcInv /\ PidInv /\ PauseInv /\ StopInv /\ NoLostWakeup /\ MainInv
  BY DEF Init, ProcInv, PidInv, PauseInv, StopInv, NoLostWakeup, MainInv,
     HasChild
<1>4. QED
  BY <1>1, <1>2, <1>3, TypeHalves DEF IInv

\* The inductive invariant holds throughout.
THEOREM Invariance == Spec => []IInv
<1>1. IInv /\ [Next]_vars => IInv'
  BY TypeStep, InvStep DEF IInv
<1>2. QED
  BY InvInit, <1>1, PTL DEF Spec

\* Type correctness: among the rest, cur_idx never leaves the playlist.
THEOREM TypeCorrect == Spec => []TypeOK
  BY Invariance, PTL DEF IInv

\* There are never two gst-launch processes (player.c:619-657).
THEOREM OneChild == Spec => []AtMostOneChild
<1>1. IInv => AtMostOneChild
  BY DEF IInv, ProcInv, AtMostOneChild
<1>2. QED
  BY <1>1, Invariance, PTL

\* A frozen process is always one that cmd_play will thaw (player.c:345-386).
THEOREM Resumable == Spec => []PausedChildCanBeResumed
<1>1. IInv => PausedChildCanBeResumed
  <2> SUFFICES
        ASSUME IInv, NEW p \in Pids
        PROVE  /\ proc[p] \in {"stopped", "stopped_term"}
                    => (child_pid = p /\ child_paused)
               /\ (proc[p] = "running" /\ child_pid = p) => ~child_paused
    BY DEF PausedChildCanBeResumed
  <2>1. CASE playPc = "waitpid"
    BY <2>1 DEF IInv, ProcInv, PidInv, PauseInv, HasChild
  <2>2. CASE playPc = "publish"
    BY <2>2, PidsAssumption DEF IInv, ProcInv, PidInv, PauseInv, HasChild
  <2>3. CASE playPc \notin {"publish", "waitpid"}
    BY <2>3 DEF IInv, ProcInv, HasChild
  <2>4. QED
    BY <2>1, <2>2, <2>3
<1>2. QED
  BY <1>1, Invariance, PTL

\* After a STOP there is no process until the player is woken
\* (player.c:573-608, 677-684).
THEOREM Silence == Spec => []StoppedMeansSilent
<1>1. IInv => StoppedMeansSilent
  BY DEF IInv, ProcInv, PidInv, StopInv, HasChild, StoppedMeansSilent
<1>2. QED
  BY <1>1, Invariance, PTL

\* The play thread's cond_wait loses no command and no shutdown
\* (player.c:295-317, 573-580).
THEOREM WakeupsArrive == Spec => []NoLostWakeup
  BY Invariance, PTL DEF IInv

\* clear_player has nobody to signal: the exit leaves no process behind
\* (player.c:229-280).
THEOREM NoOrphan == Spec => []ClearFindsNoChild
<1>1. IInv => ClearFindsNoChild
  BY DEF IInv, ProcInv, PidInv, MainInv, HasChild, ClearFindsNoChild
<1>2. QED
  BY <1>1, Invariance, PTL

-----------------------------------------------------------------------------
(* Player implements Playback.                                             *)

\* What is on the screen depends on the one process there is.
ScreenOf(s) ==
  IF s \in {"stopped", "stopped_term"} THEN "paused"
  ELSE IF s \in {"running", "terminating"} THEN "playing"
  ELSE "silent"

LEMMA ScreenIsChild ==
  /\ IInv => Screen = IF HasChild THEN ScreenOf(proc[pid]) ELSE "silent"
  /\ IInv' => Screen' = IF HasChild' THEN ScreenOf(proc'[pid']) ELSE "silent"
  BY DEF Screen, ScreenOf, Live, IInv, ProcInv, HasChild

\* The tracks that the playlist moves to are neighbours of the current one.
LEMMA MovesAreNeighbours ==
  ASSUME IInv
  PROVE  /\ cur_idx \in PB!Neighbours(cur_idx)
         /\ BackwardIdx \in PB!Neighbours(cur_idx)
         /\ CanForward => ForwardIdx \in PB!Neighbours(cur_idx)
  BY FilenumAssumption
     DEF IInv, TypeOK, PB!Neighbours, BackwardIdx, CanForward, ForwardIdx

\* A step that changes neither the processes, nor the playlist, nor the play
\* thread's place leaves the screen as it is.
LEMMA QuietStep ==
  ASSUME UNCHANGED <<playlist, child_stopped, playPc, proc>>
  PROVE  UNCHANGED PB!vars
  BY DEF PB!vars, Screen, playlist

\* The initial state is one of Playback.
LEMMA PlaybackInit == Init => PB!Init
  BY FilenumAssumption DEF Init, PB!Init, Screen, Live

\* A step of the player is a step or a stutter of Playback.
LEMMA PlaybackStep ==
  ASSUME IInv, IInv', [Next]_vars
  PROVE  [PB!Next]_(PB!vars)
<1> DEFINE chosen == playPc = "spawn" \/ (playPc = "head" /\ ~child_stopped)
<1> DEFINE over == playPc \in {"ending", "exit", "done"}
<1> USE DEF HasChild, playlist, flags, child
<1>1. Screen = IF HasChild THEN ScreenOf(proc[pid]) ELSE "silent"
  BY ScreenIsChild
<1>2. Screen' = IF HasChild' THEN ScreenOf(proc'[pid']) ELSE "silent"
  BY ScreenIsChild
<1>3. CASE LoopExit
  <2>1. PB!Leave
    BY <1>3, <1>1, <1>2, MovesAreNeighbours DEF LoopExit, PB!Leave, IInv,
       StopInv
  <2>2. QED
    BY <2>1 DEF PB!Next
<1>4. CASE LoopWait
  BY <1>4, <1>1, <1>2 DEF LoopWait, PB!vars, IInv, StopInv, ProcInv, ScreenOf,
     TypeOK, playLocals
<1>5. CASE LoopWake
  <2>1. CASE playPc' = "spawn"
    <3>1. PB!Choose
      BY <1>5, <2>1, <1>1, <1>2, MovesAreNeighbours DEF LoopWake, PB!Choose
    <3>2. QED
      BY <3>1 DEF PB!Next
  <2>2. CASE playPc' # "spawn"
    BY <1>5, <2>2, <1>1, <1>2 DEF LoopWake, PB!vars
  <2>3. QED
    BY <2>1, <2>2
<1>6. CASE LoopGo
  BY <1>6, <1>1, <1>2 DEF LoopGo, PB!vars, IInv, StopInv, ProcInv, ScreenOf,
     TypeOK, playLocals
<1>7. CASE WakeForward
  <2>1. PB!Choose
    BY <1>7, <1>1, <1>2, MovesAreNeighbours DEF WakeForward, PB!Choose, IInv,
       StopInv
  <2>2. QED
    BY <2>1 DEF PB!Next
<1>8. CASE WakeBackward
  <2>1. PB!Choose
    BY <1>8, <1>1, <1>2, MovesAreNeighbours DEF WakeBackward, PB!Choose, IInv,
       StopInv
  <2>2. QED
    BY <2>1 DEF PB!Next
<1>9. CASE Spawn
  <2>1. pid' \in Pids /\ proc'[pid'] = "running"
    BY <1>9 DEF Spawn, IInv, TypeOK
  <2>2. PB!Start
    BY <1>9, <2>1, <1>1, <1>2 DEF Spawn, PB!Start, ScreenOf
  <2>3. QED
    BY <2>2 DEF PB!Next
<1>10. CASE SpawnFails
  BY <1>10, <1>1, <1>2 DEF SpawnFails, PB!vars, IInv, StopInv, ProcInv,
     ScreenOf, TypeOK, playLocals
<1>11. CASE Publish
  BY <1>11, <1>1, <1>2 DEF Publish, PB!vars, IInv, StopInv, ProcInv, ScreenOf,
     TypeOK, playLocals
<1>12. CASE WaitPid
  BY <1>12, <1>1, <1>2 DEF WaitPid, PB!vars, IInv, StopInv, ProcInv, ScreenOf,
     TypeOK, playLocals
<1>13. CASE Cleanup
  BY <1>13, <1>1, <1>2 DEF Cleanup, PB!vars, IInv, StopInv, ProcInv, ScreenOf,
     TypeOK, playLocals
<1>14. CASE DecideExit
  <2>1. PB!Leave
    BY <1>14, <1>1, <1>2, MovesAreNeighbours DEF DecideExit, PB!Leave, IInv,
       StopInv
  <2>2. QED
    BY <2>1 DEF PB!Next
<1>15. CASE DecideStop
  BY <1>15, <1>1, <1>2 DEF DecideStop, PB!vars, IInv, StopInv, ProcInv,
     ScreenOf, TypeOK, playLocals
<1>16. CASE DecideBackward
  <2>1. PB!Choose
    BY <1>16, <1>1, <1>2, MovesAreNeighbours DEF DecideBackward, PB!Choose,
       IInv, StopInv
  <2>2. QED
    BY <2>1 DEF PB!Next
<1>17. CASE DecideReplay
  <2>1. PB!Choose
    BY <1>17, <1>1, <1>2, MovesAreNeighbours DEF DecideReplay, PB!Choose, IInv,
       StopInv
  <2>2. QED
    BY <2>1 DEF PB!Next
<1>18. CASE DecideForward
  <2>1. PB!Choose
    BY <1>18, <1>1, <1>2, MovesAreNeighbours DEF DecideForward, PB!Choose,
       IInv, StopInv
  <2>2. QED
    BY <2>1 DEF PB!Next
<1>19. CASE DecideEnd
  <2>1. PB!Leave
    BY <1>19, <1>1, <1>2, MovesAreNeighbours DEF DecideEnd, PB!Leave, IInv,
       StopInv
  <2>2. QED
    BY <2>1 DEF PB!Next
<1>20. CASE EndSignals \/ PlayExit
  BY <1>20, <1>1, <1>2 DEF EndSignals, PlayExit, PB!vars, IInv, StopInv, ProcInv, ScreenOf,
     TypeOK, playLocals
<1>21. CASE RespLoop \/ RespTakes \/ RespWaits \/ RespWoken
  BY <1>21, QuietStep DEF RespLoop, RespTakes, RespWaits, RespWoken
<1>22. CASE RespExit
  BY <1>22, <1>1, <1>2 DEF RespExit, PlaySignalled, IInv, StopInv, playLocals,
     PB!vars
<1>23. CASE CmdPlay
  BY <1>23, QuietStep DEF CmdPlay
<1>24. CASE CmdStop
  BY <1>24, QuietStep DEF CmdStop
<1>25. CASE CmdPause
  BY <1>25, QuietStep DEF CmdPause
<1>26. CASE CmdNext
  BY <1>26, QuietStep DEF CmdNext
<1>27. CASE CmdPrev
  BY <1>27, QuietStep DEF CmdPrev
<1>28. CASE CmdQuery
  BY <1>28, QuietStep DEF CmdQuery
<1>29. CASE CommandPlayer
  <2>1. UNCHANGED <<filenum, loop, cur_idx, chosen, over, HasChild, pid>>
    BY <1>29 DEF CommandPlayer, PlaySignalled, IInv, StopInv, playLocals
  <2>2. CASE ~HasChild
    BY <2>1, <2>2, <1>1, <1>2 DEF PB!vars
  <2>3. CASE playPc = "publish"
    <3>1. UNCHANGED proc
      BY <1>29, <2>3, CommandOnChild DEF IInv, PidInv
    <3>2. QED
      BY <3>1, <2>1, <1>1, <1>2 DEF PB!vars
  <2>4. CASE playPc = "waitpid"
    <3>1. child_pid = pid /\ proc[pid] \in ProcStates /\ proc'[pid] \in ProcStates
      BY <1>29, <2>4, CommandOnChild DEF IInv, TypeOK, PidInv
    <3>2. \/ proc'[pid] = proc[pid]
          \/ ScreenOf(proc[pid]) = "playing" /\ ScreenOf(proc'[pid]) \in {"playing", "paused"}
          \/ ScreenOf(proc[pid]) = "paused" /\ ScreenOf(proc'[pid]) \in {"playing", "paused"}
      BY <1>29, <2>4, <3>1 DEF CommandPlayer, LeavesChild, Terminates, Pauses,
         Resumes, Sigcont, Sigterm, Sigstop, ScreenOf, ProcStates, Live, IInv,
         TypeOK
    <3>3. \/ UNCHANGED Screen
          \/ Screen = "playing" /\ Screen' = "paused"
          \/ Screen = "paused" /\ Screen' = "playing"
      BY <2>1, <2>4, <3>2, <1>1, <1>2
    <3>4. PB!Pause \/ PB!Resume \/ UNCHANGED PB!vars
      BY <2>1, <3>3 DEF PB!Pause, PB!Resume, PB!vars
    <3>5. QED
      BY <3>4 DEF PB!Next
  <2>5. QED
    BY <2>2, <2>3, <2>4
<1>30. ASSUME NEW s \in Callers, ClearRunning(s) \/ SignalQueue(s)
         PROVE  UNCHANGED PB!vars
  BY <1>30, QuietStep DEF ClearRunning, SignalQueue
<1>31. ASSUME NEW s \in Callers, SignalPlay(s)
         PROVE  UNCHANGED PB!vars
  BY <1>31, <1>1, <1>2 DEF SignalPlay, PlaySignalled, IInv, StopInv,
     playLocals, PB!vars
<1>32. CASE WaitPlayer
  BY <1>32, QuietStep DEF WaitPlayer
<1>33. CASE ClearPlayer
  <2>1. child_pid = 0 /\ playPc = "done"
    BY <1>33 DEF ClearPlayer, IInv, PidInv, MainInv
  <2>2. UNCHANGED <<playlist, child_stopped, playPc, proc>>
    BY <1>33, <2>1 DEF ClearPlayer, PlaySignalled
  <2>3. QED
    BY <2>2, QuietStep
<1>34. ASSUME NEW p \in Pids, ChildExits(p)
         PROVE  [PB!Next]_(PB!vars)
  <2>1. p = pid /\ HasChild /\ HasChild' /\ pid' = pid
    BY <1>34 DEF ChildExits, IInv, ProcInv, playLocals
  <2>2. proc'[pid] = "dead"
    BY <1>34, <2>1 DEF ChildExits, IInv, TypeOK
  <2>3. PB!End
    BY <1>34, <2>1, <2>2, <1>1, <1>2 DEF ChildExits, PB!End, ScreenOf
  <2>4. QED
    BY <2>3 DEF PB!Next
<1>35. CASE UNCHANGED vars
  BY <1>35, QuietStep DEF vars
<1>36. CASE StreamBlocks
  BY <1>36, QuietStep DEF StreamBlocks
<1>37. QED
  BY <1>3, <1>4, <1>5, <1>6, <1>7, <1>8, <1>9, <1>10, <1>11, <1>12, <1>13,
     <1>14, <1>15, <1>16, <1>17, <1>18, <1>19, <1>20, <1>21, <1>22, <1>23,
     <1>24, <1>25, <1>26, <1>27, <1>28, <1>29, <1>30, <1>31, <1>32, <1>33,
     <1>34, <1>35, <1>36 DEF Next, PlayThread, ResponseThread

\* The threads, the signals and the races of Player show the user nothing but
\* what Playback allows.
THEOREM Implements == Spec => ImplementsPlayback
<1>1. IInv /\ IInv' /\ [Next]_vars => [PB!Next]_(PB!vars)
  BY PlaybackStep
<1>2. QED
  BY PlaybackInit, Invariance, <1>1, PTL DEF Spec, PB!Spec, ImplementsPlayback

-----------------------------------------------------------------------------
(* What the other threads may rely on when they signal child_pid, and what *)
(* the play thread does between two children.                              *)

\* The pid that command_player signals is the play thread's own child, beside
\* which there is no other process of the player; it names a process that was
\* reaped, whose number the kernel may give away, only from waitpid to the
\* critical section that follows it (player.c:636-664).
PublishedPidIsOwn ==
  child_pid # 0 =>
    /\ child_pid = pid
    /\ \A p \in Pids \ {child_pid} : proc[p] = "none"
    /\ proc[child_pid] = "none" => playPc = "cleanup"

\* The playlist moves only while there is no process, not even a zombie: the
\* track on the screen is always the one at cur_idx, which cmd_uri reports
\* without a lock.
TrackChangesBetweenChildren ==
  [][cur_idx' # cur_idx =>
       child_pid = 0 /\ \A p \in Pids : proc[p] = "none" /\ proc'[p] = "none"]_vars

\* Once running is cleared, the play thread forks at most once more: if it has
\* a child, or has had one since it last looked at running, it never comes back
\* to its fork, whatever command it was sent.
PastFork == {"publish", "waitpid", "cleanup", "decide", "ending", "exit", "done"}
NoForkAfterStop ==
  [][~running /\ playPc \in PastFork => ~running' /\ playPc' \in PastFork]_vars

\* For every set of process ids.
THEOREM SignalsReachOwnChild == Spec => []PublishedPidIsOwn
<1>1. IInv => PublishedPidIsOwn
  BY DEF IInv, ProcInv, PidInv, PauseInv, HasChild, PublishedPidIsOwn
<1>2. QED
  BY <1>1, Invariance, PTL

\* The steps that move in the playlist.
LEMMA OnlyMoves ==
  ASSUME [Next]_vars, cur_idx' # cur_idx
  PROVE  WakeForward \/ WakeBackward \/ DecideBackward \/ DecideForward
<1> USE DEF playlist
<1>1. CASE PlayThread
  BY <1>1 DEF PlayThread, LoopExit, LoopWait, LoopWake, LoopGo, Spawn, SpawnFails,
     Publish, WaitPid, Cleanup, DecideExit, DecideStop, DecideReplay, DecideEnd,
     EndSignals, PlayExit
<1>2. ASSUME ResponseThread PROVE FALSE
  BY <1>2 DEF ResponseThread, RespLoop, RespTakes, RespWaits, RespWoken, RespExit, CmdPlay, CmdStop, CmdPause,
     CmdNext, CmdPrev, CmdQuery, CommandPlayer
<1>3. ASSUME NEW s \in Callers, ClearRunning(s) \/ SignalQueue(s) \/ SignalPlay(s) PROVE FALSE
  BY <1>3 DEF ClearRunning, SignalQueue, SignalPlay
<1>4. ASSUME StreamBlocks \/ WaitPlayer \/ ClearPlayer PROVE FALSE
  BY <1>4 DEF StreamBlocks, WaitPlayer, ClearPlayer
<1>5. ASSUME NEW p \in Pids, ChildExits(p) PROVE FALSE
  BY <1>5 DEF ChildExits
<1>6. ASSUME UNCHANGED vars PROVE FALSE
  BY <1>6 DEF vars
<1>7. QED
  BY <1>1, <1>2, <1>3, <1>4, <1>5, <1>6 DEF Next

\* A track never changes under the process that plays it.
THEOREM TracksChangeInSilence == Spec => TrackChangesBetweenChildren
<1>1. IInv /\ [Next]_vars =>
        [cur_idx' # cur_idx =>
           child_pid = 0 /\ \A p \in Pids : proc[p] = "none" /\ proc'[p] = "none"]_vars
  <2>1. SUFFICES ASSUME IInv, [Next]_vars, cur_idx' # cur_idx
                 PROVE  /\ child_pid = 0
                        /\ \A p \in Pids : proc[p] = "none" /\ proc'[p] = "none"
    OBVIOUS
  <2>2. playPc \in {"wake_next", "wake_prev", "decide"} /\ UNCHANGED proc
    BY <2>1, OnlyMoves DEF WakeForward, WakeBackward, DecideBackward, DecideForward
  <2>3. QED
    BY <2>1, <2>2 DEF IInv, ProcInv, PidInv, HasChild
<1>2. QED
  BY <1>1, Invariance, PTL DEF Spec, TrackChangesBetweenChildren

\* Whatever the commands, a stop ends the playlist.
THEOREM StopEndsPlaylist == Spec => NoForkAfterStop
<1>1. ASSUME [Next]_vars, ~running, playPc \in PastFork
      PROVE  ~running' /\ playPc' \in PastFork
  <2> USE <1>1 DEF PastFork, flags, child, playLocals, response, PlaySignalled
  <2>1. CASE LoopExit \/ LoopWait \/ LoopWake \/ LoopGo \/ WakeForward
             \/ WakeBackward \/ Spawn \/ SpawnFails
    BY <2>1 DEF LoopExit, LoopWait, LoopWake, LoopGo, WakeForward, WakeBackward,
       Spawn, SpawnFails
  <2>2. CASE Publish \/ WaitPid \/ Cleanup
    BY <2>2 DEF Publish, WaitPid, Cleanup
  <2>3. CASE DecideExit \/ DecideStop \/ DecideBackward \/ DecideReplay
             \/ DecideForward \/ DecideEnd \/ EndSignals \/ PlayExit
    BY <2>3 DEF DecideExit, DecideStop, DecideBackward, DecideReplay,
       DecideForward, DecideEnd, EndSignals, PlayExit
  <2>4. CASE ResponseThread
    BY <2>4 DEF ResponseThread, RespLoop, RespTakes, RespWaits, RespWoken, RespExit, CmdPlay, CmdStop, CmdPause,
       CmdNext, CmdPrev, CmdQuery, CommandPlayer
  <2>5. ASSUME NEW s \in Callers, ClearRunning(s) \/ SignalQueue(s) \/ SignalPlay(s)
        PROVE  ~running' /\ playPc' \in PastFork
    BY <2>5 DEF ClearRunning, SignalQueue, SignalPlay
  <2>6. CASE StreamBlocks \/ WaitPlayer \/ ClearPlayer
    BY <2>6 DEF StreamBlocks, WaitPlayer, ClearPlayer
  <2>7. ASSUME NEW p \in Pids, ChildExits(p) PROVE ~running' /\ playPc' \in PastFork
    BY <2>7 DEF ChildExits
  <2>8. CASE UNCHANGED vars
    BY <2>8 DEF vars
  <2>9. QED
    BY <2>1, <2>2, <2>3, <2>4, <2>5, <2>6, <2>7, <2>8 DEF Next, PlayThread
<1>2. [Next]_vars =>
        [~running /\ playPc \in PastFork => ~running' /\ playPc' \in PastFork]_vars
  BY <1>1
<1>3. QED
  BY <1>2, PTL DEF Spec, NoForkAfterStop

-----------------------------------------------------------------------------
(* The stop and the response thread.                                       *)

\* A response thread that sleeps in dequeue though the player is to stop has
\* either begun its wait after the flag of the queue was cleared, or the thread
\* that cleared running has not come to the queue: it will clear the flag and
\* signal in one critical section (player.c:299-309).
StopIsMissedOrComes ==
  respPc = "wait" /\ ~running =>
    \/ StopMissed
    \/ playPc = "ending" \/ \E s \in Callers : stopPc[s] = "flagged"

\* The same of the flags alone, wherever the response thread is.
FlagsInv ==
  ~running /\ queue_running =>
    playPc = "ending" \/ \E s \in Callers : stopPc[s] = "flagged"

LEMMA FlagsStep ==
  ASSUME TypeOK, FlagsInv, [Next]_vars
  PROVE  FlagsInv'
<1> USE DEF FlagsInv, TypeOK, flags, playLocals, response, child, playlist,
            PlaySignalled
<1>1. CASE LoopExit \/ LoopWait \/ LoopWake \/ LoopGo \/ WakeForward
           \/ WakeBackward \/ Spawn \/ SpawnFails \/ Publish \/ WaitPid
           \/ Cleanup
  BY <1>1 DEF LoopExit, LoopWait, LoopWake, LoopGo, WakeForward, WakeBackward,
     Spawn, SpawnFails, Publish, WaitPid, Cleanup
<1>2. CASE DecideExit \/ DecideStop \/ DecideBackward \/ DecideReplay
           \/ DecideForward
  BY <1>2 DEF DecideExit, DecideStop, DecideBackward, DecideReplay,
     DecideForward
<1>3. CASE DecideEnd \/ EndSignals \/ PlayExit
  BY <1>3 DEF DecideEnd, EndSignals, PlayExit
<1>4. CASE ResponseThread
  BY <1>4 DEF ResponseThread, RespLoop, RespTakes, RespWaits, RespWoken,
     RespExit, CmdPlay, CmdStop, CmdPause, CmdNext, CmdPrev, CmdQuery,
     CommandPlayer
<1>5. ASSUME NEW s \in Callers, ClearRunning(s) PROVE FlagsInv'
  BY <1>5 DEF ClearRunning
<1>6. ASSUME NEW s \in Callers, SignalQueue(s) PROVE FlagsInv'
  BY <1>6 DEF SignalQueue
<1>7. ASSUME NEW s \in Callers, SignalPlay(s) PROVE FlagsInv'
  BY <1>7 DEF SignalPlay
<1>8. CASE StreamBlocks
  BY <1>8 DEF StreamBlocks, Callers
<1>9. CASE WaitPlayer \/ ClearPlayer
  BY <1>9 DEF WaitPlayer, ClearPlayer
<1>10. ASSUME NEW p \in Pids, ChildExits(p) PROVE FlagsInv'
  BY <1>10 DEF ChildExits
<1>11. CASE UNCHANGED vars
  BY <1>11 DEF vars
<1>12. QED
  BY <1>1, <1>2, <1>3, <1>4, <1>5, <1>6, <1>7, <1>8, <1>9, <1>10, <1>11
     DEF Next, PlayThread

\* Whoever sleeps over a stop has missed it or is about to be told of it.
THEOREM StopMissedOrComes == Spec => []StopIsMissedOrComes
<1>1. Init => FlagsInv
  BY DEF Init, FlagsInv
<1>2. IInv /\ FlagsInv /\ [Next]_vars => FlagsInv'
  BY FlagsStep DEF IInv
<1>3. FlagsInv => StopIsMissedOrComes
  BY DEF FlagsInv, StopIsMissedOrComes, StopMissed
<1>4. QED
  BY <1>1, <1>2, <1>3, Invariance, PTL DEF Spec
=============================================================================
