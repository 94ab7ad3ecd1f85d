------------------------------ MODULE Playback ------------------------------
(***************************************************************************)
(* What the media player promises to whoever watches the screen, with no   *)
(* threads, processes or commands in it.  A playlist of filenum tracks is  *)
(* played one track at a time.  When a track ends, the next one is chosen  *)
(* exactly once: the same track, its successor or its predecessor; nothing *)
(* is on the screen while that choice is made.  Player implements this     *)
(* module.                                                                 *)
(***************************************************************************)
EXTENDS Integers

CONSTANT MAX_FILENUM   \* capacity of the playlist

VARIABLES
  filenum,   \* number of tracks, fixed
  loop,      \* is the playlist circular?, fixed
  track,     \* the track that plays, or that will be chosen next to
  screen,    \* "silent", "playing" or "paused"
  chosen,    \* has the track to play next been decided?
  over       \* the player has left its play loop

vars == <<filenum, loop, track, screen, chosen, over>>

Init ==
  /\ filenum \in 1..MAX_FILENUM
  /\ loop \in BOOLEAN
  /\ track = 0
  /\ screen = "silent"
  /\ chosen = TRUE
  /\ over = FALSE

\* The tracks the player may turn to from t: t again, the one after it (the
\* first one after the last, if the playlist loops) and the one before it.
Neighbours(t) ==
  {u \in 0..filenum - 1 :
     u \in {t - 1, t, t + 1} \/ (loop /\ t = filenum - 1 /\ u = 0)}

Choose ==
  /\ screen = "silent" /\ ~chosen /\ ~over
  /\ track' \in Neighbours(track)
  /\ chosen' = TRUE
  /\ UNCHANGED <<filenum, loop, screen, over>>

Start ==
  /\ screen = "silent" /\ chosen
  /\ screen' = "playing"
  /\ chosen' = FALSE
  /\ UNCHANGED <<filenum, loop, track, over>>

Pause ==
  /\ screen = "playing"
  /\ screen' = "paused"
  /\ UNCHANGED <<filenum, loop, track, chosen, over>>

Resume ==
  /\ screen = "paused"
  /\ screen' = "playing"
  /\ UNCHANGED <<filenum, loop, track, chosen, over>>

\* The end of the track: its natural end, or a command cut it short.  A
\* paused track does not end.
End ==
  /\ screen = "playing"
  /\ screen' = "silent"
  /\ UNCHANGED <<filenum, loop, track, chosen, over>>

\* The play loop is left only between two tracks.
Leave ==
  /\ screen = "silent" /\ ~over
  /\ over' = TRUE
  /\ chosen' = FALSE
  /\ UNCHANGED <<filenum, loop, track, screen>>

Next == Choose \/ Start \/ Pause \/ Resume \/ End \/ Leave

Spec == Init /\ [][Next]_vars
=============================================================================
