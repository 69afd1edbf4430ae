---------------------------- MODULE NativePlay ----------------------------
(***************************************************************************)
(* What the service sees of the native context: its state, and whether a   *)
(* pause has kept its mutex.  AudioCtx, with its sections and decoders,     *)
(* implements it, and Playlist is written over it.                         *)
(***************************************************************************)
VARIABLES
    state,   \* ctx->state, "none" while there is no context
    kept     \* audioPause has returned with ctx->mutex locked

Init == state \in {"none", "STOPPED"} /\ kept = FALSE

\* audioInit stores STOPPED without the mutex; a new context has nothing kept.
Reset == state' = "STOPPED" /\ kept' = kept

\* A decoder that gets the mutex plays: it waits while a pause keeps it.
Begin == state # "none" /\ ~kept /\ state' = "PLAYING" /\ kept' = FALSE

\* The end of a track, or audio_stop, whatever has become of the track since it looked
\* at the state: the lock of a pause is taken over.
End == state # "none" /\ state' = "STOPPED" /\ kept' = FALSE

\* audioPause, whatever has become of the track since it looked at the state.
Pause == state # "none" /\ ~kept /\ state' = "PAUSED" /\ kept' = TRUE

\* audioResume, likewise.
Resume == state # "none" /\ state' = "PLAYING" /\ kept' = FALSE

\* audioExit.
Exit == state # "none" /\ state' = "none" /\ kept' = FALSE

Next == Reset \/ Begin \/ End \/ Pause \/ Resume \/ Exit
Spec == Init /\ [][Next]_<<state, kept>>
===========================================================================
