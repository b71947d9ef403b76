------------------------------ MODULE Playlist ------------------------------
(***************************************************************************)
(* What the music player promises its callers, whatever threads it uses: a *)
(* list of tracks that is replaced as a whole, dropped as a whole, or      *)
(* played from its first track on, one track at a time.  A new list aborts *)
(* the track being played ("new message interrupts: clear the queue and    *)
(* abort the current playback", include/music_player.h).                   *)
(***************************************************************************)
EXTENDS Naturals, Sequences

CONSTANTS Tracks,     \* what can be played
          NoTrack     \* nothing is playing

VARIABLES list,       \* the tracks still to be played, in order
          current,    \* the track being played, or NoTrack
          closed,     \* the player has been stopped
          epoch       \* how many calls have replaced or dropped the list

pvars == <<list, current, closed, epoch>>

PInit == /\ list = <<>>
         /\ current = NoTrack
         /\ closed = FALSE
         /\ epoch = 0

\* A call supersedes the list and the track being played by a new list
\* (the empty one when the call only interrupts).
Replace == /\ epoch' = epoch + 1
           /\ list' \in Seq(Tracks)
           /\ current' = NoTrack
           /\ UNCHANGED closed

\* The first track of the list starts; the others keep their order.
StartNext == /\ ~closed
             /\ current = NoTrack
             /\ list # <<>>
             /\ current' = Head(list)
             /\ list' = Tail(list)
             /\ UNCHANGED <<closed, epoch>>

\* The current track ends.
EndTrack == /\ current # NoTrack
            /\ current' = NoTrack
            /\ UNCHANGED <<list, closed, epoch>>

Shutdown == /\ closed' = TRUE
            /\ list' = <<>>
            /\ current' = NoTrack
            /\ UNCHANGED epoch

Launch == /\ closed' = FALSE
          /\ UNCHANGED <<list, current, epoch>>

PNext == Replace \/ StartNext \/ EndTrack \/ Shutdown \/ Launch

PSpec == PInit /\ [][PNext]_pvars
=============================================================================
