----------------------------- MODULE Playlist -----------------------------
(***************************************************************************)
(* The playlist of the service AndLessSrv: the PlayThread that plays the   *)
(* tracks one after another, and the clients that load, play, stop and     *)
(* pause, each from a thread of its own.  The fields of the playlist have  *)
(* no lock: an access whose place among those of the others matters is a   *)
(* step of its own.                                                        *)
(*                                                                         *)
(* A track is decoded by xxxPlay, or given to the MediaPlayer of Android;  *)
(* the tracks of a cue sheet are one file, and a timer counts cur_pos up.  *)
(* Of the native context there is what AudioCtx shows of it: its state,    *)
(* and whether a pause has kept its mutex (module NativePlay).             *)
(*                                                                         *)
(* Three things slip away from their caller, and slipped says which have:  *)
(* a thread that stop() gives up on after some three seconds ("thread"), a *)
(* timer whose task still runs when it is cancelled, or when the client    *)
(* has been told that the list is over ("timer"), and a track that ends    *)
(* while it is paused or in the middle of a pause or a resume, or that     *)
(* onPrepared starts although it has been paused ("track").                *)
(***************************************************************************)
EXTENDS Integers, FiniteSets

CONSTANTS
    Threads,      \* bound: PlayThreads alive at a time
    Clients,      \* callers of the service, each with one call at a time
    Does,         \* the commands of each client
    Kinds,        \* "native": xxxPlay; "ext": MediaPlayer; "m4a": first the one
    Sheets,       \* whether the list is a cue sheet: a subset of BOOLEAN
    Len,          \* tracks in the list
    NoThread,     \* th is null
    TracksEnd,    \* whether a track may end, or break, by itself
    MaySlip,      \* what may slip: a subset of {"thread", "timer", "track"}
    MaxCommands   \* bound: calls in a behaviour

Stopping == {"load", "play", "next", "prev", "stop", "shutdown"}
Pausing == {"pause", "resume", "button", "ring", "hang", "unplug", "plug"}

ASSUME ThreadsAssumption == NoThread \notin Threads /\ Threads \cap Clients = {}
ASSUME ChoicesAssumption ==
    /\ Does \in [Clients -> SUBSET (Stopping \cup Pausing)]
    /\ Kinds \subseteq {"native", "ext", "m4a"} /\ Sheets \subseteq BOOLEAN
    /\ TracksEnd \in BOOLEAN /\ MaySlip \subseteq {"thread", "timer", "track"}
ASSUME BoundsAssumption == Len \in Nat \ {0} /\ MaxCommands \in Nat

VARIABLES
    state,      \* ctx->state, "none" while ctx is 0
    kept,       \* audioPause has returned with ctx->mutex locked
    mplayer,    \* the MediaPlayer: "none", or its state
    files,      \* the kind of each track
    filled,     \* entries of files that have been added, -1 while files is null
    cue,        \* names[0] # null: the list is a cue sheet
    cup,        \* there is a CueUpdater
    timer,      \* its timer: "off", "armed", "fired" or "shown" (the task runs), "held"
    cur_pos,    \* index of the current track
    th,         \* the PlayThread, or NoThread
    running,    \* "either playing or paused"
    paused,
    wakeLock,   \* the device must not go to sleep
    told,       \* the last playItemChanged: a track, or NoTrack
    pc,         \* where each thread is
    k,          \* result of a thread's last track; initially 1, "none"
    track,      \* the track a thread has taken up last; before, the one ahead of its first
    op,         \* the command a client carries out
    arg,        \* and its n: the track to play
    needResume, \* of the phone's and of the headset's listener
    preparing,  \* the main thread: onPrepared is "posted", or is "running"
    slipped,
    commands    \* calls made so far

native == <<state, kept>>
list == <<files, filled, cue>>
updater == <<cup, timer>>
flags == <<th, running, paused>>
seen == <<wakeLock, told>>
own == <<k, track>>
commanded == <<op, arg, needResume, commands>>
calls == <<commanded, preparing>>
vars == <<native, mplayer, list, updater, cur_pos, flags, seen, pc, own, calls, slipped>>

Tracks == 0 .. Len - 1
NoTrack == -1
Alive == {t \in Threads : pc[t] \notin {"dead", "crashed"}}

\* Whether the list that is loaded may be a cue sheet, or plain.
MaySheet == {s \in Sheets : s => \A i \in Tracks : files[i] = "native"}

\* Nothing is loaded yet, or a client has loaded a list and nothing was played.
Init ==
    /\ state = "none" /\ kept = FALSE /\ mplayer = "none"
    /\ files \in [Tracks -> Kinds] /\ filled \in {-1, Len}
    /\ IF filled = -1 THEN cue = FALSE ELSE cue \in MaySheet
    /\ cup = FALSE /\ timer = "off" /\ cur_pos = IF filled = -1 THEN 0 ELSE -1
    /\ th = NoThread /\ running = FALSE /\ paused = FALSE
    /\ wakeLock = FALSE /\ told = NoTrack
    /\ pc = [t \in Threads \cup Clients |-> IF t \in Threads THEN "dead" ELSE "idle"]
    /\ k = [t \in Threads |-> "none"] /\ track = [t \in Threads |-> NoTrack]
    /\ op = [c \in Clients |-> "stop"] /\ arg = [c \in Clients |-> 0]
    /\ needResume = {} /\ preparing = {}
    /\ slipped = {} /\ commands = 0

Goto(t, step) == pc' = [pc EXCEPT ![t] = step]

\* The process ends, and its threads with it.
Die ==
    /\ pc' = [t \in Threads \cup Clients |-> "crashed"]
    /\ timer' = "off" /\ mplayer' = "none" /\ preparing' = {}
Crashed == \E t \in Threads \cup Clients : pc[t] = "crashed"

\* Something has slipped away, where the bound allows it.
Slip(what) == what \in MaySlip /\ slipped' = slipped \cup {what}

---------------------------------------------------------------------------
\* The native context, and the timer of a cue sheet.

\* audio_stop: nothing when there is nothing to stop; it takes a pause's lock over.
AudioStop ==
    IF state \in {"none", "STOPPED"} THEN UNCHANGED native
    ELSE state' = "STOPPED" /\ kept' = FALSE

\* Mutant: cup = null, and the timer goes on.
ShutdownForgets == cup' = FALSE /\ UNCHANGED <<timer, slipped>>

\* CueUpdater.shutdown, which cannot take back a task that runs.
Shutdown ==
    /\ cup' = FALSE
    /\ IF cup /\ timer \in {"fired", "shown"}
       THEN Slip("timer") /\ UNCHANGED timer
       ELSE timer' = (IF cup THEN "off" ELSE timer) /\ UNCHANGED slipped

\* CUETimerTask.run: the next track is counted, the client hears of it, and then
\* the timer is set for the one after it.
TimerFires ==
    /\ timer = "armed" /\ timer' = "fired" /\ cur_pos' = cur_pos + 1
    /\ UNCHANGED <<native, mplayer, list, cup, flags, seen, pc, own, calls, slipped>>

\* The client has been told that the thread is over, or that it failed.
SaidOver == th = NoThread \/ pc[th] \in {"done", "dead"} \/ (pc[th] = "exit" /\ k[th] # "ok")

\* Mutant: the track is counted but the client not told.
TimerSilent ==
    /\ timer = "fired" /\ timer' = "shown"
    /\ UNCHANGED <<native, mplayer, list, cup, cur_pos, flags, seen, pc, own, calls, slipped>>

TimerTells ==
    /\ timer = "fired" /\ timer' = "shown"
    /\ told' = IF cur_pos \in 0 .. filled - 1 THEN cur_pos ELSE told
    /\ IF SaidOver THEN Slip("timer") ELSE UNCHANGED slipped
    /\ UNCHANGED <<native, mplayer, list, cup, cur_pos, flags, wakeLock, pc, own, calls>>

TimerAgain ==
    /\ timer = "shown" /\ (cur_pos \in 0 .. filled - 2 \/ cur_pos + 1 >= Len)
    /\ timer' = IF cur_pos + 1 < Len THEN "armed" ELSE "off"
    /\ UNCHANGED <<native, mplayer, list, cup, cur_pos, flags, seen, pc, own, calls, slipped>>

\* The time of a track that has not been added yet makes a negative delay.
TimerThrows ==
    /\ timer = "shown" /\ cur_pos \notin 0 .. filled - 2 /\ cur_pos + 1 < Len /\ Die
    /\ UNCHANGED <<native, list, cup, cur_pos, flags, seen, own, commanded, slipped>>

---------------------------------------------------------------------------
\* PlayThread.run.

Run(t) ==
    /\ pc[t] = "new" /\ running' = TRUE /\ wakeLock' = TRUE
    /\ k' = [k EXCEPT ![t] = "none"] /\ Goto(t, "test")
    /\ UNCHANGED <<native, mplayer, list, updater, cur_pos, th, paused, told, track, calls, slipped>>

\* Mutant: cur_pos <= files.length.
TestPast(t) ==
    /\ pc[t] = "test"
    /\ Goto(t, IF running /\ cur_pos <= Len THEN "try" ELSE "exit")
    /\ UNCHANGED <<native, mplayer, list, updater, cur_pos, flags, seen, own, calls, slipped>>

Test(t) ==
    /\ pc[t] = "test"
    /\ Goto(t, IF running /\ cur_pos < Len THEN "try" ELSE "exit")
    /\ UNCHANGED <<native, mplayer, list, updater, cur_pos, flags, seen, own, calls, slipped>>

\* The log line is outside the try block: an index out of range ends the process.
Crash(t) ==
    /\ pc[t] = "try" /\ cur_pos \notin Tracks /\ Die
    /\ UNCHANGED <<native, list, cup, cur_pos, flags, seen, own, commanded, slipped>>

\* The native code uses the context another thread has freed.
UseFreed(t) ==
    /\ pc[t] \in {"begin", "lock", "play", "drain"} /\ state = "none" /\ Die
    /\ UNCHANGED <<native, list, cup, cur_pos, flags, seen, own, commanded, slipped>>

\* The client hears of the track; a cue sheet that goes on gets its timer.
Try(t) ==
    /\ pc[t] = "try" /\ cur_pos \in 0 .. filled - 1
    /\ told' = cur_pos /\ track' = [track EXCEPT ![t] = cur_pos]
    /\ Goto(t, IF files[cur_pos] = "ext" THEN "initExt" ELSE "init")
    /\ IF cue /\ cur_pos + 1 < filled THEN cup' = TRUE /\ timer' = "armed" ELSE UNCHANGED updater
    /\ UNCHANGED <<native, mplayer, list, cur_pos, flags, wakeLock, k, calls, slipped>>

\* An entry that is null: the exception is caught and the loop goes on.
TryNull(t) ==
    /\ pc[t] = "try" /\ cur_pos \in Tracks /\ cur_pos >= filled
    /\ cur_pos' = cur_pos + 1 /\ track' = [track EXCEPT ![t] = cur_pos] /\ Goto(t, "test")
    /\ UNCHANGED <<native, mplayer, list, updater, flags, seen, k, calls, slipped>>

\* audioInit: audio_stop or a new context; a failure leaves k as it was.
initAudioMode(t) ==
    /\ pc[t] \in {"init", "initExt"} /\ AudioStop
    /\ Goto(t, IF pc[t] = "init" THEN "reset" ELSE "resetExt")
    /\ UNCHANGED <<mplayer, list, updater, cur_pos, flags, seen, own, calls, slipped>>

InitFails(t) ==
    /\ pc[t] \in {"init", "initExt"} /\ Goto(t, "back")
    /\ UNCHANGED <<native, mplayer, list, updater, cur_pos, flags, seen, own, calls, slipped>>

\* The end of audioInit stores the state without the mutex.
Reset(t) ==
    /\ pc[t] \in {"reset", "resetExt"} /\ state' = "STOPPED"
    /\ Goto(t, IF pc[t] = "reset" THEN "begin" ELSE "ext")
    /\ UNCHANGED <<kept, mplayer, list, updater, cur_pos, flags, seen, own, calls, slipped>>

\* xxxPlay calls audio_stop once more; then it fails, an m4a perhaps because it is a
\* file for the MediaPlayer, or it gets the lock and plays.
Open(t) ==
    /\ pc[t] = "begin" /\ AudioStop /\ Goto(t, "lock")
    /\ UNCHANGED <<mplayer, list, updater, cur_pos, flags, seen, own, calls, slipped>>

OpenFails(t) ==
    /\ pc[t] = "lock" /\ k' = [k EXCEPT ![t] = "error"]
    /\ Goto(t, IF files[track[t]] = "m4a" THEN "initExt" ELSE "back")
    /\ UNCHANGED <<native, mplayer, list, updater, cur_pos, flags, seen, track, calls, slipped>>

Begin(t) ==
    /\ pc[t] = "lock" /\ state # "none" /\ ~kept
    /\ state' = "PLAYING" /\ Goto(t, "play")
    /\ UNCHANGED <<kept, mplayer, list, updater, cur_pos, flags, seen, own, calls, slipped>>

\* The end of the track, or an error; a decoder that gets there while it is
\* paused takes the lock of the pause over.
PlayEnds(t) ==
    /\ pc[t] = "play" /\ TracksEnd /\ state \in {"PLAYING", "PAUSED"}
    /\ AudioStop /\ Goto(t, "drain")
    /\ IF state = "PAUSED" THEN Slip("track") ELSE UNCHANGED slipped
    /\ UNCHANGED <<mplayer, list, updater, cur_pos, flags, seen, own, calls>>

\* xxxPlay has ended or was stopped, which some decoders take for an error.
PlayReturns(t) ==
    /\ pc[t] = "drain" \/ (pc[t] = "play" /\ state = "STOPPED")
    /\ Goto(t, "back") /\ \E r \in {"ok", "error"} : k' = [k EXCEPT ![t] = r]
    /\ UNCHANGED <<native, mplayer, list, updater, cur_pos, flags, seen, track, calls, slipped>>

\* A stop that has found the track playing, or the audio_stop of another thread, halts
\* the output under the drain: the callback that would end it does not come any more.
Stuck(t) ==
    /\ pc[t] = "drain" /\ Goto(t, "stuck")
    /\ \/ \E c \in Clients : pc[c] \in {"stopLock", "stopKept"}
       \/ /\ state \notin {"none", "STOPPED"}
          /\ \E u \in Threads : pc[u] \in {"init", "initExt", "begin"}
    /\ UNCHANGED <<native, mplayer, list, updater, cur_pos, flags, seen, own, calls, slipped>>

\* Unless the output plays for another thread, and its callback finds the ring empty.
Drained(t) ==
    /\ pc[t] = "stuck" /\ Goto(t, "back") /\ k' = [k EXCEPT ![t] = "ok"]
    /\ state = "PLAYING" \/ \E u \in Threads : pc[u] = "drain"
    /\ UNCHANGED <<native, mplayer, list, updater, cur_pos, flags, seen, track, calls, slipped>>

\* Mutant: the same track again.
AdvanceNot(t) ==
    /\ pc[t] = "back" /\ k[t] = "ok" /\ ~cue /\ Goto(t, "test")
    /\ UNCHANGED <<native, mplayer, list, updater, cur_pos, flags, seen, own, calls, slipped>>

\* After the track: the next one, the end of a cue sheet, or an error.
Advance(t) ==
    /\ pc[t] = "back" /\ k[t] = "ok" /\ ~cue
    /\ cur_pos' = cur_pos + 1 /\ Goto(t, "test")
    /\ UNCHANGED <<native, mplayer, list, updater, flags, seen, own, calls, slipped>>

SheetEnds(t) ==
    /\ pc[t] = "back" /\ k[t] = "ok" /\ cue /\ Goto(t, "exit")
    /\ UNCHANGED <<native, mplayer, list, updater, cur_pos, flags, seen, own, calls, slipped>>

Error(t) ==
    /\ pc[t] = "back" /\ k[t] # "ok"
    /\ running' = FALSE /\ told' = NoTrack /\ Goto(t, "exit")
    /\ UNCHANGED <<native, mplayer, list, updater, cur_pos, th, paused, wakeLock, own, calls, slipped>>

\* Mutant: the wake lock is kept.
ExitAwake(t) ==
    /\ pc[t] = "exit" /\ Goto(t, IF k[t] = "ok" THEN "tell" ELSE "done")
    /\ UNCHANGED <<native, mplayer, list, updater, cur_pos, flags, seen, own, calls, slipped>>

Exit(t) ==
    /\ pc[t] = "exit" /\ wakeLock' = FALSE
    /\ Goto(t, IF k[t] = "ok" THEN "tell" ELSE "done")
    /\ UNCHANGED <<native, mplayer, list, updater, cur_pos, flags, told, own, calls, slipped>>

Tell(t) ==
    /\ pc[t] = "tell" /\ told' = NoTrack /\ Goto(t, "done")
    /\ UNCHANGED <<native, mplayer, list, updater, cur_pos, flags, wakeLock, own, calls, slipped>>

Done(t) ==
    /\ pc[t] = "done" /\ Shutdown /\ running' = FALSE /\ Goto(t, "dead")
    /\ UNCHANGED <<native, mplayer, list, cur_pos, th, paused, seen, own, calls>>

---------------------------------------------------------------------------
\* extPlay and the MediaPlayer.

\* setDataSource throws when the MediaPlayer of another thread is there.
ExtNew(t) ==
    /\ pc[t] = "ext"
    /\ IF mplayer \in {"none", "idle"} THEN mplayer' = "idle" /\ Goto(t, "prepare")
                                       ELSE Goto(t, "failed") /\ UNCHANGED mplayer
    /\ UNCHANGED <<native, list, updater, cur_pos, flags, seen, own, calls, slipped>>

Prepare(t) ==
    /\ pc[t] = "prepare" /\ mplayer = "idle" /\ mplayer' = "prepared" /\ Goto(t, "wait")
    /\ preparing' = preparing \cup {"posted"}
    /\ UNCHANGED <<native, list, updater, cur_pos, flags, seen, own, commanded, slipped>>

PrepareFails(t) ==
    /\ pc[t] = "prepare" /\ Goto(t, "failed")
    /\ UNCHANGED <<native, mplayer, list, updater, cur_pos, flags, seen, own, calls, slipped>>

\* mplayer_lock.wait, once and without a condition.
Wait(t) ==
    /\ pc[t] = "wait" /\ Goto(t, "waiting")
    /\ UNCHANGED <<native, mplayer, list, updater, cur_pos, flags, seen, own, calls, slipped>>

\* The finally block of extPlay; a message for a player that is gone is dropped.
Release(t) ==
    /\ pc[t] \in {"woken", "failed"} /\ mplayer' = "none" /\ Goto(t, "back")
    /\ k' = [k EXCEPT ![t] = IF pc[t] = "woken" THEN "ok" ELSE "error"]
    /\ preparing' = preparing \ {"posted"}
    /\ UNCHANGED <<native, list, updater, cur_pos, flags, seen, track, commanded, slipped>>

\* mplayer_lock.notify: one waiting thread, or nobody.
Waiting == {t \in Threads : pc[t] = "waiting"}
Notify(p) ==
    IF Waiting = {} THEN pc' = p
    ELSE \E t \in Waiting : pc' = [p EXCEPT ![t] = "woken"]

\* The main thread calls one listener after another.  onPrepared uses mplayer several
\* times, without mplayer_lock: the finally block may come between.
onPrepared ==
    /\ preparing = {"posted"} /\ preparing' = {"running"}
    /\ UNCHANGED <<native, mplayer, list, updater, cur_pos, flags, seen, pc, own, commanded,
                   slipped>>

onPreparedStarts ==
    /\ "running" \in preparing /\ preparing' = preparing \ {"running"}
    /\ mplayer \notin {"none", "idle"} /\ mplayer' = "started"
    /\ IF mplayer \in {"paused", "completed"} THEN Slip("track") ELSE UNCHANGED slipped
    /\ UNCHANGED <<native, list, updater, cur_pos, flags, seen, pc, own, commanded>>

\* mplayer is null, or another one that is not prepared.
onPreparedThrows ==
    /\ "running" \in preparing /\ mplayer \in {"none", "idle"} /\ Die
    /\ UNCHANGED <<native, list, cup, cur_pos, flags, seen, own, commanded, slipped>>

onCompletion ==
    /\ "running" \notin preparing /\ TracksEnd
    /\ mplayer = "started" /\ mplayer' = "completed" /\ Notify(pc)
    /\ UNCHANGED <<native, list, updater, cur_pos, flags, seen, own, calls, slipped>>

onError ==
    /\ "running" \notin preparing /\ TracksEnd
    /\ mplayer \in {"prepared", "started"} /\ mplayer' = "none"
    /\ preparing' = {} /\ told' = NoTrack /\ Notify(pc)
    /\ UNCHANGED <<native, list, updater, cur_pos, flags, wakeLock, own, commanded, slipped>>

Callbacks ==
    \/ onPrepared \/ onPreparedStarts \/ onPreparedThrows \/ onCompletion \/ onError
    \/ TimerFires \/ TimerTells \/ TimerAgain \/ TimerThrows

PlayThread(t) ==
    \/ Run(t) \/ Test(t) \/ Crash(t) \/ UseFreed(t) \/ Try(t) \/ TryNull(t)
    \/ initAudioMode(t) \/ InitFails(t) \/ Reset(t) \/ Open(t) \/ OpenFails(t) \/ Begin(t)
    \/ PlayEnds(t) \/ PlayReturns(t) \/ Stuck(t) \/ Drained(t)
    \/ Advance(t) \/ SheetEnds(t) \/ Error(t) \/ Exit(t) \/ Tell(t) \/ Done(t)
    \/ ExtNew(t) \/ Prepare(t) \/ PrepareFails(t) \/ Wait(t) \/ Release(t)

---------------------------------------------------------------------------
\* The commands that stop() and perhaps play().

Call(c, what, first) ==
    /\ pc[c] = "idle" /\ what \in Does[c] /\ commands < MaxCommands
    /\ commands' = commands + 1 /\ op' = [op EXCEPT ![c] = what] /\ Goto(c, first)

\* play_next and play_prev read cur_pos before they stop.
Command(c) ==
    /\ \E what \in Stopping, n \in -1 .. Len + 2 :
          /\ Call(c, what, "stop") /\ arg' = [arg EXCEPT ![c] = n]
          /\ n = CASE what = "next" -> cur_pos + 1 [] what = "prev" -> cur_pos - 1
                   [] what = "play" -> n [] OTHER -> 0
          /\ what = "play" => n \in Tracks
    /\ UNCHANGED <<native, mplayer, list, updater, cur_pos, flags, seen, own, needResume, preparing,
                   slipped>>

Stop(c) ==
    /\ pc[c] = "stop" /\ running' = FALSE
    /\ Goto(c, IF th = NoThread THEN "stopped" ELSE "halt")
    /\ UNCHANGED <<native, mplayer, list, updater, cur_pos, th, paused, seen, own, calls, slipped>>

Halt(c) ==
    /\ pc[c] = "halt" /\ Shutdown /\ Goto(c, "which")
    /\ UNCHANGED <<native, mplayer, list, cur_pos, flags, seen, own, calls>>

Which(c) ==
    /\ pc[c] = "which" /\ Goto(c, IF mplayer = "none" THEN "audioStop" ELSE "notify")
    /\ UNCHANGED <<native, mplayer, list, updater, cur_pos, flags, seen, own, calls, slipped>>

\* audio_stop tests the state without the lock, and does not look again when it has it.
audioStop(c) ==
    /\ pc[c] = "audioStop"
    /\ Goto(c, CASE state = "PLAYING" -> "stopLock" [] state = "PAUSED" -> "stopKept"
                 [] OTHER -> "unpause")
    /\ UNCHANGED <<native, mplayer, list, updater, cur_pos, flags, seen, own, calls, slipped>>

StopOut(c) ==
    /\ pc[c] = "stopKept" \/ (pc[c] = "stopLock" /\ ~kept)
    /\ state # "none" /\ state' = "STOPPED" /\ kept' = FALSE /\ Goto(c, "unpause")
    /\ UNCHANGED <<mplayer, list, updater, cur_pos, flags, seen, own, calls, slipped>>

StopNotifies(c) ==
    /\ pc[c] = "notify" /\ Notify([pc EXCEPT ![c] = "unpause"])
    /\ UNCHANGED <<native, mplayer, list, updater, cur_pos, flags, seen, own, calls, slipped>>

\* Mutant: paused stays as it is.
UnpauseNot(c) ==
    /\ pc[c] = "unpause" /\ Goto(c, "join")
    /\ UNCHANGED <<native, mplayer, list, updater, cur_pos, flags, seen, own, calls, slipped>>

Unpause(c) ==
    /\ pc[c] = "unpause" /\ paused' = FALSE /\ Goto(c, "join")
    /\ UNCHANGED <<native, mplayer, list, updater, cur_pos, th, running, seen, own, calls, slipped>>

\* Mutant: stop() does not join.
JoinNot(c) ==
    /\ pc[c] = "join" /\ Goto(c, "forget")
    /\ UNCHANGED <<native, mplayer, list, updater, cur_pos, flags, seen, own, calls, slipped>>

\* th.join for about three seconds.
Join(c) ==
    /\ pc[c] = "join" /\ Goto(c, "forget")
    /\ IF th \in Alive THEN Slip("thread") ELSE UNCHANGED slipped
    /\ UNCHANGED <<native, mplayer, list, updater, cur_pos, flags, seen, own, calls>>

\* th = null; then what the command goes on with.
Forget(c) ==
    /\ pc[c] = "forget" /\ th' = NoThread /\ Goto(c, "stopped")
    /\ UNCHANGED <<native, mplayer, list, updater, cur_pos, running, paused, seen, own, calls, slipped>>

StopReturns(c) ==
    /\ pc[c] = "stopped" /\ op[c] = "stop" /\ Goto(c, "idle")
    /\ UNCHANGED <<native, mplayer, list, updater, cur_pos, flags, seen, own, calls, slipped>>

\* shutdown: audioExit frees the context.
audioExit(c) ==
    /\ pc[c] = "stopped" /\ op[c] = "shutdown" /\ Goto(c, "idle")
    /\ state' = "none" /\ kept' = FALSE
    /\ UNCHANGED <<mplayer, list, updater, cur_pos, flags, seen, own, calls, slipped>>

init_playlist(c) ==
    /\ pc[c] = "stopped" /\ op[c] = "load" /\ Goto(c, "add")
    /\ filled' = 0 /\ cur_pos' = -1 /\ th' = NoThread
    /\ paused' = FALSE /\ running' = FALSE /\ cup' = FALSE
    /\ files' \in [Tracks -> Kinds] /\ cue' = FALSE
    /\ UNCHANGED <<native, mplayer, timer, seen, own, calls, slipped>>

\* Mutant: pos is not compared with files.length.
AddAnywhere(c) ==
    /\ pc[c] = "add" /\ filled' = filled + 1
    /\ UNCHANGED <<native, mplayer, files, cue, updater, cur_pos, flags, seen, pc, own, calls, slipped>>

\* The client adds the tracks one by one, and plays them; it may be gone before.  The
\* first track has a name, or the list is plain.
add_to_playlist(c) ==
    /\ pc[c] = "add" /\ filled < Len /\ filled' = filled + 1
    /\ IF filled = 0 THEN cue' \in MaySheet ELSE UNCHANGED cue
    /\ UNCHANGED <<native, mplayer, files, updater, cur_pos, flags, seen, pc, own, calls, slipped>>

Loaded(c) ==
    /\ pc[c] = "add" /\ Goto(c, "idle")
    /\ UNCHANGED <<native, mplayer, list, updater, cur_pos, flags, seen, own, calls, slipped>>

NoSuchTrack(c) ==
    /\ pc[c] = "stopped" /\ op[c] \in {"play", "next", "prev"} /\ Goto(c, "idle")
    /\ filled = -1 \/ arg[c] \notin Tracks
    /\ UNCHANGED <<native, mplayer, list, updater, cur_pos, flags, seen, own, calls, slipped>>

play(c, t) ==
    /\ pc[c] = "stopped" /\ op[c] \in {"play", "next", "prev"} /\ pc[t] = "dead"
    /\ filled >= 0 /\ arg[c] \in Tracks
    /\ cur_pos' = arg[c] /\ th' = t /\ track' = [track EXCEPT ![t] = arg[c] - 1]
    /\ pc' = [pc EXCEPT ![c] = "idle", ![t] = "new"]
    /\ UNCHANGED <<native, mplayer, list, updater, running, paused, seen, k, calls, slipped>>

---------------------------------------------------------------------------
\* pause() and resume(), asked for by the user or by a listener.

Heard == {"ring", "hang", "unplug", "plug"}
Listener(what) == IF what \in {"ring", "hang"} THEN "phone" ELSE "headset"

Control(c) ==
    /\ \/ Call(c, "pause", "pause") \/ Call(c, "resume", "resume")
       \/ \E what \in {"button", "ring", "unplug"} : Call(c, what, "ask")
       \/ \E what \in {"hang", "plug"} : Listener(what) \in needResume /\ Call(c, what, "resume")
    /\ UNCHANGED <<native, mplayer, list, updater, cur_pos, flags, seen, own, arg, needResume,
                   preparing, slipped>>

\* running, then paused: a button pauses or resumes, a listener pauses or not.
Ask(c) ==
    /\ pc[c] = "ask"
    /\ Goto(c, IF running THEN "asked" ELSE IF op[c] = "button" THEN "resume" ELSE "idle")
    /\ UNCHANGED <<native, mplayer, list, updater, cur_pos, flags, seen, own, calls, slipped>>

Asked(c) ==
    /\ pc[c] = "asked"
    /\ Goto(c, IF ~paused THEN "pause" ELSE IF op[c] = "button" THEN "resume" ELSE "idle")
    /\ UNCHANGED <<native, mplayer, list, updater, cur_pos, flags, seen, own, calls, slipped>>

\* headset_mode may say that the event is not to be handled.
NotHandled(c) ==
    /\ \/ pc[c] = "pause" /\ op[c] = "unplug"
       \/ pc[c] = "resume" /\ op[c] = "plug"
    /\ Goto(c, "return")
    /\ UNCHANGED <<native, mplayer, list, updater, cur_pos, flags, seen, own, calls, slipped>>

Pause(c) ==
    /\ pc[c] = "pause"
    /\ Goto(c, IF filled = -1 \/ paused THEN "return" ELSE "pauseWhich")
    /\ UNCHANGED <<native, mplayer, list, updater, cur_pos, flags, seen, own, calls, slipped>>

PauseWhich(c) ==
    /\ pc[c] = "pauseWhich"
    /\ IF mplayer # "none" THEN paused' = TRUE /\ Goto(c, "pauseExt")
                           ELSE Goto(c, "pauseLook") /\ UNCHANGED paused
    /\ UNCHANGED <<native, mplayer, list, updater, cur_pos, th, running, seen, own, calls, slipped>>

\* The MediaPlayer refuses before it has started; at the end of the track it does not.
PauseExt(c) ==
    /\ pc[c] = "pauseExt" /\ Goto(c, "unwake")
    /\ IF mplayer \in {"started", "paused", "completed"}
       THEN mplayer' = "paused" /\ UNCHANGED paused
       ELSE paused' = FALSE /\ UNCHANGED mplayer
    /\ IF mplayer = "completed" THEN Slip("track") ELSE UNCHANGED slipped
    /\ UNCHANGED <<native, list, updater, cur_pos, th, running, seen, own, calls>>

PauseLook(c) ==
    /\ pc[c] = "pauseLook" /\ Goto(c, IF state = "PLAYING" THEN "pauseLock" ELSE "unwake")
    /\ UNCHANGED <<native, mplayer, list, updater, cur_pos, flags, seen, own, calls, slipped>>

\* Mutant: audioPause unlocks.
PauseUnlocks(c) ==
    /\ pc[c] = "pauseLock" /\ state # "none" /\ ~kept /\ state' = "PAUSED"
    /\ Goto(c, "pauseFlag")
    /\ IF state # "PLAYING" THEN Slip("track") ELSE UNCHANGED slipped
    /\ UNCHANGED <<kept, mplayer, list, updater, cur_pos, flags, seen, own, calls>>

\* audioPause has seen PLAYING; it does not look again when it has the lock.
PauseLock(c) ==
    /\ pc[c] = "pauseLock" /\ state # "none" /\ ~kept /\ state' = "PAUSED" /\ kept' = TRUE
    /\ Goto(c, "pauseFlag")
    /\ IF state # "PLAYING" THEN Slip("track") ELSE UNCHANGED slipped
    /\ UNCHANGED <<mplayer, list, updater, cur_pos, flags, seen, own, calls>>

PauseFlag(c) ==
    /\ pc[c] = "pauseFlag" /\ paused' = TRUE /\ Goto(c, "unwake")
    /\ UNCHANGED <<native, mplayer, list, updater, cur_pos, th, running, seen, own, calls, slipped>>

\* The wake lock goes, and the timer is held, whatever has become of the pause.
Unwake(c) ==
    /\ pc[c] = "unwake" /\ wakeLock' = FALSE /\ Goto(c, IF cup THEN "cupPause" ELSE "return")
    /\ UNCHANGED <<native, mplayer, list, updater, cur_pos, flags, told, own, calls, slipped>>

\* cup is null by now, or the old one, whose pause does nothing any more.
CupPause(c) ==
    /\ pc[c] = "cupPause"
    /\ Goto(c, "return") \/ (~cup /\ Goto(c, "thrown"))
    /\ timer' = IF cup /\ timer = "armed" THEN "held" ELSE timer
    /\ UNCHANGED <<native, mplayer, list, cup, cur_pos, flags, seen, own, calls, slipped>>

Resume(c) ==
    /\ pc[c] = "resume"
    /\ Goto(c, IF filled = -1 \/ ~paused THEN "return" ELSE "resumeWhich")
    /\ UNCHANGED <<native, mplayer, list, updater, cur_pos, flags, seen, own, calls, slipped>>

ResumeWhich(c) ==
    /\ pc[c] = "resumeWhich"
    /\ IF mplayer # "none" THEN paused' = FALSE /\ Goto(c, "resumeExt")
                           ELSE Goto(c, "resumeLook") /\ UNCHANGED paused
    /\ UNCHANGED <<native, mplayer, list, updater, cur_pos, th, running, seen, own, calls, slipped>>

ResumeExt(c) ==
    /\ pc[c] = "resumeExt" /\ Goto(c, "rewake")
    /\ IF mplayer \in {"none", "idle"} THEN paused' = TRUE /\ UNCHANGED mplayer
                                       ELSE mplayer' = "started" /\ UNCHANGED paused
    /\ UNCHANGED <<native, list, updater, cur_pos, th, running, seen, own, calls, slipped>>

ResumeLook(c) ==
    /\ pc[c] = "resumeLook" /\ Goto(c, IF state = "PAUSED" THEN "resumeState" ELSE "rewake")
    /\ UNCHANGED <<native, mplayer, list, updater, cur_pos, flags, seen, own, calls, slipped>>

ResumeState(c) ==
    /\ pc[c] = "resumeState" /\ state # "none" /\ state' = "PLAYING" /\ kept' = FALSE
    /\ Goto(c, "resumeFlag")
    /\ IF state # "PAUSED" THEN Slip("track") ELSE UNCHANGED slipped
    /\ UNCHANGED <<mplayer, list, updater, cur_pos, flags, seen, own, calls>>

ResumeFlag(c) ==
    /\ pc[c] = "resumeFlag" /\ paused' = FALSE /\ Goto(c, "rewake")
    /\ UNCHANGED <<native, mplayer, list, updater, cur_pos, th, running, seen, own, calls, slipped>>

\* The thread, if there is one, has given the wake lock back.
Over == th = NoThread \/ pc[th] \in {"tell", "done", "dead"}

Rewake(c) ==
    /\ pc[c] = "rewake" /\ wakeLock' = (wakeLock \/ ~paused)
    /\ Goto(c, IF cup THEN "cupResume" ELSE "return")
    /\ IF Over /\ ~paused THEN Slip("track") ELSE UNCHANGED slipped
    /\ UNCHANGED <<native, mplayer, list, updater, cur_pos, flags, told, own, calls>>

\* A timer that is not held throws: its task is scheduled already, its time is up, or it
\* is cancelled; or cup is null by now.
CupResume(c) ==
    /\ pc[c] = "cupResume"
    /\ IF cup /\ timer = "held" THEN timer' = "armed" /\ Goto(c, "return")
                                ELSE Goto(c, "thrown") /\ UNCHANGED timer
    /\ UNCHANGED <<native, mplayer, list, cup, cur_pos, flags, seen, own, calls, slipped>>

\* A client on the other side of the binder catches the exception, a listener does not.
Throw(c) ==
    /\ pc[c] = "thrown" /\ op[c] \notin Heard /\ Goto(c, "idle")
    /\ UNCHANGED <<native, mplayer, list, updater, cur_pos, flags, seen, own, calls, slipped>>
ThrowUncaught(c) ==
    /\ pc[c] = "thrown" /\ op[c] \in Heard /\ Die
    /\ UNCHANGED <<native, list, cup, cur_pos, flags, seen, own, commanded, slipped>>

\* A listener notes that it has paused, or that it has resumed.
Return(c) ==
    /\ pc[c] = "return" /\ Goto(c, "idle")
    /\ needResume' = CASE op[c] \in {"ring", "unplug"} -> needResume \cup {Listener(op[c])}
                       [] op[c] \in {"hang", "plug"} -> needResume \ {Listener(op[c])}
                       [] OTHER -> needResume
    /\ UNCHANGED <<native, mplayer, list, updater, cur_pos, flags, seen, own, op, arg, commands,
                   preparing, slipped>>

Commanding(c) ==
    \/ Stop(c) \/ Halt(c) \/ Which(c) \/ audioStop(c) \/ StopOut(c) \/ StopNotifies(c) \/ Unpause(c)
    \/ Join(c) \/ Forget(c) \/ StopReturns(c) \/ audioExit(c) \/ init_playlist(c)
    \/ add_to_playlist(c) \/ Loaded(c) \/ NoSuchTrack(c) \/ \E t \in Threads : play(c, t)
Controlling(c) ==
    \/ Ask(c) \/ Asked(c) \/ NotHandled(c)
    \/ Pause(c) \/ PauseWhich(c) \/ PauseExt(c) \/ PauseLook(c) \/ PauseLock(c)
    \/ PauseFlag(c) \/ Unwake(c) \/ CupPause(c)
    \/ Resume(c) \/ ResumeWhich(c) \/ ResumeExt(c) \/ ResumeLook(c) \/ ResumeState(c)
    \/ ResumeFlag(c) \/ Rewake(c) \/ CupResume(c) \/ Throw(c) \/ ThrowUncaught(c) \/ Return(c)

Next ==
    \/ \E t \in Threads : PlayThread(t)
    \/ \E c \in Clients : Command(c) \/ Commanding(c) \/ Control(c) \/ Controlling(c)
    \/ Callbacks

Spec == Init /\ [][Next]_vars

\* A thread or a call that can go on does: a track is finite, the timer and the
\* MediaPlayer call back.  Nobody has to give a command.
FairSpec ==
    /\ Spec
    /\ \A t \in Threads : WF_vars(PlayThread(t))
    /\ \A c \in Clients : WF_vars(Commanding(c) \/ Controlling(c))
    /\ WF_vars(Callbacks)

---------------------------------------------------------------------------
\* What the playlist promises.

Threading == {"dead", "crashed", "new", "test", "try", "init", "initExt", "reset", "resetExt",
    "begin", "lock", "play", "drain", "stuck", "ext", "prepare", "wait", "waiting", "woken", "failed",
    "back", "exit", "tell", "done"}
Calling == {"idle", "crashed", "stop", "halt", "which", "audioStop", "stopLock", "stopKept", "notify",
    "unpause", "join", "forget", "stopped", "add", "ask", "asked", "pause", "pauseWhich", "pauseExt",
    "pauseLook", "pauseLock", "pauseFlag", "unwake", "cupPause", "resume", "resumeWhich", "resumeExt",
    "resumeLook", "resumeState", "resumeFlag", "rewake", "cupResume", "thrown", "return"}

\* The types of the fields, and where a thread or a call can be in the code.
TypeOK ==
    /\ state \in {"none", "STOPPED", "PLAYING", "PAUSED"} /\ kept \in BOOLEAN
    /\ mplayer \in {"none", "idle", "prepared", "started", "paused", "completed"}
    /\ files \in [Tracks -> Kinds] /\ filled \in -1 .. Len /\ cue \in BOOLEAN
    /\ cup \in BOOLEAN /\ timer \in {"off", "armed", "fired", "shown", "held"}
    /\ cur_pos \in Int /\ told \in Int
    /\ th \in Threads \cup {NoThread} /\ running \in BOOLEAN /\ paused \in BOOLEAN
    /\ wakeLock \in BOOLEAN
    /\ pc \in [Threads \cup Clients -> Threading \cup Calling]
    /\ \A t \in Threads : pc[t] \in Threading
    /\ \A c \in Clients : pc[c] \in Calling
    /\ k \in [Threads -> {"none", "ok", "error"}] /\ track \in [Threads -> Int]
    /\ op \in [Clients -> Stopping \cup Pausing] /\ arg \in [Clients -> Int]
    /\ needResume \subseteq {"phone", "headset"} /\ preparing \subseteq {"posted", "running"}
    /\ slipped \in SUBSET {"thread", "timer", "track"} /\ commands \in Nat

AtRest == \A c \in Clients : pc[c] = "idle"

\* A PlayThread that lives is the one th points at: the next stop() reaches it,
\* and no two threads play over one context, unless a stop() has given up.
Owned == "thread" \notin slipped => Alive \subseteq {th}

\* A thread takes up the tracks of the list one after another from the one that
\* was asked for: no other call, timer or thread moves cur_pos under it.
InOrder == [][\A t \in Threads :
    slipped = {} /\ pc[t] = "try" /\ pc'[t] \notin {"try", "crashed"}
        => track'[t] = track[t] + 1]_vars

\* The track the client was last told of is the one at cur_pos, whether the
\* thread or the timer of a cue sheet came to it.
ShownIsPlayed == \A t \in Threads :
    slipped = {} /\ pc[t] \in {"play", "drain"} /\ timer # "fired" => told = cur_pos

\* After a stop() there is silence, the device may sleep, no timer is left, and
\* the client has been told that nothing is played.
StopIsSilent ==
    AtRest /\ th = NoThread /\ slipped = {} =>
        /\ state \in {"none", "STOPPED"} /\ mplayer = "none"
        /\ ~running /\ ~wakeLock /\ timer = "off"
        /\ told = NoTrack

\* When all calls have returned, paused says whether the output is paused: the
\* context with its mutex kept, or the MediaPlayer.
PausedIsKept == AtRest /\ slipped = {} => (paused <=> kept \/ mplayer = "paused")

\* No thread ends the process, and not the timer either while all tracks of the list
\* have been added: not by an index out of range, a negative delay or a context that
\* has been freed.  A listener may: that of a call or of the headset (CallSurvived), and
\* onPrepared whose MediaPlayer the thread has taken away.
ThreadsSurvive ==
    [][~Crashed /\ Crashed' /\ slipped = {} =>
          \/ \E c \in Clients : pc[c] = "thrown"
          \/ "running" \in preparing /\ mplayer \in {"none", "idle"}
          \/ timer = "shown" /\ filled < Len]_vars

\* "Pause when the phone rings, and resume after the call": the end of a call is no
\* exception that ends the service.
CallSurvived == \A c \in Clients : pc[c] = "thrown" => op[c] # "hang"

\* Every PlayThread ends, however stops give up on it, unless it is paused, or a stop at
\* the end of its track has halted the output under its drain.
ThreadsEnd == \A t \in Threads : t \in Alive ~> pc[t] \in {"dead", "stuck"} \/ kept \/ Crashed

Native == INSTANCE NativePlay
\* Of the native context the playlist asks no more than NativePlay.
UsesNative == Native!Spec
===========================================================================
