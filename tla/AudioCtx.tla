----------------------------- MODULE AudioCtx -----------------------------
(***************************************************************************)
(* The native audio context, msm_ctx of jni/main.h, and the threads that   *)
(* share it: the PlayThread of the service, which runs xxxPlay of a codec, *)
(* and the binder threads, which stop, pause, resume and set the volume.   *)
(*                                                                         *)
(* ctx->mutex is meant to guard state, fd and the output, but state and fd *)
(* are also read without it, audioPause returns holding it, and whoever    *)
(* finds the state PAUSED counts on that and unlocks it for the pauser.    *)
(* So each test of state or fd outside the mutex is a step of its own, and *)
(* an unlock frees the mutex whoever holds it.                             *)
(*                                                                         *)
(* The six decoders share one skeleton; what differs is which failures     *)
(* they have and what a failure does to ctx->fd.  The output is open or    *)
(* shut: libmediacb's cbstart (module CbRing), or the driver's descriptor. *)
(***************************************************************************)
EXTENDS Integers, FiniteSets

CONSTANTS
    Players,    \* threads that call audioInit and xxxPlay
    Binders,    \* threads that call audioStop, audioPause, ...
    Mode,       \* driver_mode of the service: "DIRECT" or "CALLBACK"
    Codecs,     \* the formats of the files in the playlist
    Commands,   \* what the client asks for
    Endings,    \* how decoding can end by itself: "end" of the track, "error"
    NoOne,      \* nobody holds ctx->mutex
    MaxPlays    \* bound: tracks played in a behaviour

ASSUME ThreadsAssumption ==
    Players \cap Binders = {} /\ NoOne \notin Players \cup Binders
ASSUME ChoicesAssumption ==
    /\ Mode \in {"DIRECT", "CALLBACK"}
    /\ Codecs \subseteq {"wav", "alac", "wv", "ape", "mpc", "flac"}
    /\ Commands \subseteq {"stop", "pause", "resume", "volume"}
    /\ Endings \subseteq {"end", "error"}
ASSUME BoundAssumption == MaxPlays \in Nat

VARIABLES
    state,    \* ctx->state
    mutex,    \* the thread that locked ctx->mutex, or NoOne
    fd,       \* ctx->fd: the number of an open() or -1
    fds,      \* the descriptors of the process that are open
    out,      \* the output: "open", or "shut" and every write to it fails
    halted,   \* the AudioTrack is paused and calls for no data
    pc,       \* where each thread is
    ret,      \* where it goes on after audio_stop
    codec,    \* the decoder a player runs
    how,      \* how its play ends: "end" of the track, or an error
    res,      \* what its play returns: "ok" (0) or "error"
    mine,     \* the descriptor its play opens, a number of its own
    hit,      \* a binder's audio_stop took hold of the context during it
    plays     \* tracks begun

ctx == <<state, mutex, fd, fds, out, halted>>
local == <<ret, codec, how, res, mine, hit, plays>>
vars == <<ctx, pc, local>>

Threads == Players \cup Binders

StopSteps == {"stopCheck", "stopPaused", "stopLock", "stopClose", "stopClear",
              "stopOut", "stopState", "stopUnlock"}
PlaySteps == {"play", "playing", "loop", "decode", "write", "writing"}
EndSteps == {"finish", "finishPaused", "finishLock", "finishClose", "finishClear",
             "finishState", "finishUnlock", "fdcheck", "fdclose", "fdclear",
             "drain", "drainWait"}
PlayerSteps == {"idle", "reset", "open", "header", "start"} \cup PlaySteps \cup EndSteps
BinderSteps == {"idle", "pauseLock", "pauseState", "pauseOut", "resumeOut",
                "resumeState", "resumeUnlock", "volumeLock", "volumeUnlock"}

Init ==
    /\ state = "STOPPED" /\ mutex = NoOne /\ fd = -1 /\ fds = {}
    /\ out = "shut" /\ halted = TRUE
    /\ pc = [t \in Threads |-> "idle"] /\ ret = [t \in Threads |-> "idle"]
    /\ codec \in [Players -> Codecs] /\ how = [p \in Players |-> "end"]
    /\ res = [p \in Players |-> "ok"] /\ mine = [p \in Players |-> 0]
    /\ hit = [p \in Players |-> FALSE] /\ plays = 0

---------------------------------------------------------------------------
Goto(t, step) == pc' = [pc EXCEPT ![t] = step]
Lock(t) == mutex = NoOne /\ mutex' = t
Unlock == mutex' = NoOne

\* close(ctx->fd), whatever the number stands for by now.
CloseFd == fds' = fds \ {fd}

---------------------------------------------------------------------------
\* audio_stop, called by audioStop, by audioInit and at the start of xxxPlay.

StopCheck(t) ==
    /\ pc[t] = "stopCheck"
    /\ Goto(t, IF state = "STOPPED" THEN ret[t] ELSE "stopPaused")
    /\ UNCHANGED <<ctx, local>>

StopPaused(t) ==
    /\ pc[t] = "stopPaused"
    /\ Goto(t, IF state = "PAUSED" THEN "stopClose" ELSE "stopLock")
    /\ UNCHANGED <<ctx, local>>

StopLock(t) ==
    /\ pc[t] = "stopLock" /\ Lock(t) /\ Goto(t, "stopClose")
    /\ UNCHANGED <<state, fd, fds, out, halted, local>>

\* The play of p is between its open() and its return.
Opened(p) == pc[p] \in {"header", "start"} \cup PlaySteps \cup EndSteps

StopClose(t) ==
    /\ pc[t] = "stopClose"
    /\ IF fd >= 0 THEN CloseFd /\ Goto(t, "stopClear")
                  ELSE Goto(t, "stopOut") /\ UNCHANGED fds
    /\ hit' = [p \in Players |-> hit[p] \/ (t \in Binders /\ Opened(p))]
    /\ UNCHANGED <<state, mutex, fd, out, halted, ret, codec, how, res, mine, plays>>

\* Mutant: ctx->fd keeps the number of the closed file.
StopStale(t) ==
    /\ pc[t] = "stopClear" /\ Goto(t, "stopOut")
    /\ UNCHANGED <<ctx, local>>

StopClear(t) ==
    /\ pc[t] = "stopClear" /\ fd' = -1 /\ Goto(t, "stopOut")
    /\ UNCHANGED <<state, mutex, fds, out, halted, local>>

\* libmediacb_stop, which sets the state too, or msm_stop.
StopOut(t) ==
    /\ pc[t] = "stopOut"
    /\ out' = "shut" /\ halted' = TRUE
    /\ state' = IF Mode = "CALLBACK" THEN "STOPPED" ELSE state
    /\ Goto(t, "stopState")
    /\ UNCHANGED <<mutex, fd, fds, local>>

StopState(t) ==
    /\ pc[t] = "stopState" /\ state' = "STOPPED" /\ Goto(t, "stopUnlock")
    /\ UNCHANGED <<mutex, fd, fds, out, halted, local>>

\* Mutant: audio_stop returns with the mutex locked.
StopKeepsMutex(t) ==
    /\ pc[t] = "stopUnlock" /\ Goto(t, ret[t])
    /\ UNCHANGED <<ctx, local>>

StopUnlock(t) ==
    /\ pc[t] = "stopUnlock" /\ Unlock /\ Goto(t, ret[t])
    /\ UNCHANGED <<state, fd, fds, out, halted, local>>

audio_stop(t) ==
    \/ StopCheck(t) \/ StopPaused(t) \/ StopLock(t) \/ StopClose(t)
    \/ StopClear(t) \/ StopOut(t) \/ StopState(t) \/ StopUnlock(t)

---------------------------------------------------------------------------
\* PlayThread: audioInit, then xxxPlay up to the decoding loop.

\* What a failure leaves: ctx->fd "open", closed but "stale", or "cleared".
HeaderLeaves(c) ==
    [wav |-> {"open"}, wv |-> {"open"}, flac |-> {"open"}, alac |-> {"cleared"},
     ape |-> {"open", "stale"}, mpc |-> {"stale"}][c]
StartLeaves(c) == IF c = "alac" THEN "cleared" ELSE "stale"

Leave(what) ==
    /\ fds' = IF what = "open" THEN fds ELSE fds \ {fd}
    /\ fd' = IF what = "cleared" THEN -1 ELSE fd

Return(p, r) ==
    /\ res' = [res EXCEPT ![p] = r] /\ Goto(p, "idle")

\* audioInit begins with audio_stop; the play begins here.
audioInit(p) ==
    /\ pc[p] = "idle" /\ plays < MaxPlays
    /\ plays' = plays + 1 /\ codec' \in {[codec EXCEPT ![p] = c] : c \in Codecs}
    /\ res' = [res EXCEPT ![p] = "ok"] /\ mine' = [mine EXCEPT ![p] = plays + 1]
    /\ hit' = [hit EXCEPT ![p] = FALSE] /\ how' = [how EXCEPT ![p] = "end"]
    /\ ret' = [ret EXCEPT ![p] = "reset"] /\ Goto(p, "stopCheck")
    /\ UNCHANGED ctx

\* The end of audioInit, without the mutex; then xxxPlay calls audio_stop.
Reset(p) ==
    /\ pc[p] = "reset" /\ state' = "STOPPED"
    /\ ret' = [ret EXCEPT ![p] = "open"] /\ Goto(p, "stopCheck")
    /\ UNCHANGED <<mutex, fd, fds, out, halted, codec, how, res, mine, hit, plays>>

OpenFile(p) ==
    /\ pc[p] = "open"
    /\ fd' = mine[p] /\ fds' = fds \cup {mine[p]} /\ Goto(p, "header")
    /\ UNCHANGED <<state, mutex, out, halted, local>>

\* Mutant: the error number is kept in ctx->fd.
NoFileErrno(p) ==
    /\ pc[p] = "open" /\ fd' = -2 /\ Return(p, "error")
    /\ UNCHANGED <<state, mutex, fds, out, halted, ret, codec, how, mine, hit, plays>>

NoFile(p) ==
    /\ pc[p] = "open" /\ fd' = -1 /\ Return(p, "error")
    /\ UNCHANGED <<state, mutex, fds, out, halted, ret, codec, how, mine, hit, plays>>

HeaderOk(p) ==
    /\ pc[p] = "header" /\ Goto(p, "start")
    /\ UNCHANGED <<ctx, local>>

HeaderBad(p) ==
    /\ pc[p] = "header" /\ Return(p, "error")
    /\ \E what \in HeaderLeaves(codec[p]) : Leave(what)
    /\ UNCHANGED <<state, mutex, out, halted, ret, codec, how, mine, hit, plays>>

audio_start(p) ==
    /\ pc[p] = "start" /\ out' = "open" /\ halted' = FALSE /\ Goto(p, "play")
    /\ UNCHANGED <<state, mutex, fd, fds, local>>

StartBad(p) ==
    /\ pc[p] = "start" /\ out' \in {"open", "shut"} /\ halted' = TRUE
    /\ Leave(StartLeaves(codec[p])) /\ Return(p, "error")
    /\ UNCHANGED <<state, mutex, ret, codec, how, mine, hit, plays>>

Play(p) ==
    /\ pc[p] = "play" /\ Lock(p) /\ state' = "PLAYING" /\ Goto(p, "playing")
    /\ UNCHANGED <<fd, fds, out, halted, local>>

Playing(p) ==
    /\ pc[p] = "playing" /\ Unlock /\ Goto(p, "loop")
    /\ UNCHANGED <<state, fd, fds, out, halted, local>>
---------------------------------------------------------------------------
\* The decoding loop.

\* The number a decoder reads from: alacPlay goes by the copy stream_create made.
Handle(p) == IF codec[p] = "alac" THEN mine[p] ELSE fd

\* The file is bad, or closed by audio_stop; wavPlay takes its end for an error.
Broken(p) ==
    \/ "error" \in Endings \/ Handle(p) \notin fds
    \/ "end" \in Endings /\ codec[p] = "wav"

LoopTest(p) ==
    /\ pc[p] = "loop"
    /\ Goto(p, IF state = "STOPPED" THEN "finish" ELSE "decode")
    /\ UNCHANGED <<ctx, local>>

\* Most decoders gather frames until they fill a buffer of the output.  alacPlay
\* has nothing read in advance.
DecodeData(p) ==
    /\ pc[p] = "decode" /\ (codec[p] = "alac" => Handle(p) \in fds)
    /\ \E step \in {"loop", "write"} : Goto(p, step)
    /\ UNCHANGED <<ctx, local>>

\* The end of the track, which some decoders also take a closed file for.
DecodeEnd(p) ==
    /\ pc[p] = "decode" /\ codec[p] # "wav" /\ Goto(p, "finish")
    /\ "end" \in Endings \/ (fd \notin fds /\ codec[p] \in {"wv", "ape", "mpc"})
    /\ UNCHANGED <<ctx, local>>

\* The errors after which ctx->fd tells whether the play was stopped; flacPlay
\* forgives a decode error near the end, the "tail" of the track.
ReadFails(p) ==
    /\ pc[p] = "decode" /\ Broken(p) /\ codec[p] \in {"wav", "ape", "flac"}
    /\ how' \in {[how EXCEPT ![p] = h] : h \in IF codec[p] = "flac" THEN {"io", "tail"}
                                                               ELSE {"io"}}
    /\ Goto(p, "finish")
    /\ UNCHANGED <<ctx, ret, codec, res, mine, hit, plays>>

\* The errors that are returned in any case.
DecodeFails(p) ==
    /\ pc[p] = "decode" /\ Broken(p) /\ codec[p] \in {"ape", "mpc"}
    /\ how' = [how EXCEPT ![p] = "decode"] /\ Goto(p, "finish")
    /\ UNCHANGED <<ctx, ret, codec, res, mine, hit, plays>>

\* After a failed read alacPlay looks at ctx->fd, after a bad table or a failed
\* realloc it does not; then it ends the track the normal way.
AlacBroken(p) ==
    /\ pc[p] = "decode" /\ Broken(p) /\ codec[p] = "alac"
    /\ \/ fd = -1 /\ UNCHANGED res
       \/ (fd # -1 \/ "error" \in Endings) /\ res' = [res EXCEPT ![p] = "error"]
    /\ Goto(p, "finish")
    /\ UNCHANGED <<ctx, ret, codec, how, mine, hit, plays>>

\* Mutant: audio_write without the mutex.
WriteUnlocked(p) ==
    /\ pc[p] = "write" /\ Goto(p, "writing")
    /\ UNCHANGED <<ctx, local>>

WriteLock(p) ==
    /\ pc[p] = "write" /\ Lock(p) /\ Goto(p, "writing")
    /\ UNCHANGED <<state, fd, fds, out, halted, local>>

\* alacPlay asks ctx->fd first, the others let the output refuse.
OutputTakes(p) == pc[p] = "writing" /\ out = "open" /\ (codec[p] = "alac" => fd >= 0)

\* What was gathered may fill several buffers; no test of the state in between.
WriteOk(p) ==
    /\ OutputTakes(p) /\ Unlock
    /\ \E step \in {"loop", "write"} : Goto(p, step)
    /\ UNCHANGED <<state, fd, fds, out, halted, local>>

\* Mutant: an early return without the unlock.
WriteShortLocked(p) ==
    /\ pc[p] = "writing" /\ codec[p] # "alac" /\ (out = "shut" \/ Mode = "DIRECT")
    /\ state' = "STOPPED" /\ Goto(p, "fdcheck")
    /\ UNCHANGED <<mutex, fd, fds, out, halted, local>>

\* A write comes back short when the output is shut, from the driver any time.
WriteShort(p) ==
    /\ pc[p] = "writing" /\ codec[p] # "alac" /\ (out = "shut" \/ Mode = "DIRECT")
    /\ state' = "STOPPED" /\ Unlock /\ Goto(p, "fdcheck")
    /\ UNCHANGED <<fd, fds, out, halted, local>>

\* No byte written, because the file is closed or by the driver, is no error.
AlacWriteShort(p) ==
    /\ pc[p] = "writing" /\ codec[p] = "alac" /\ Unlock
    /\ \/ /\ fd < 0 \/ (Mode = "DIRECT" /\ out = "open")
          /\ Goto(p, "loop") /\ UNCHANGED res
       \/ /\ fd >= 0 /\ (out = "shut" \/ Mode = "DIRECT")
          /\ Goto(p, "finish") /\ res' = [res EXCEPT ![p] = "error"]
    /\ UNCHANGED <<state, fd, fds, out, halted, ret, codec, how, mine, hit, plays>>

---------------------------------------------------------------------------
\* The end of xxxPlay: leave the state STOPPED and the descriptor closed.

Ended(p) ==
    IF how[p] = "decode" THEN Return(p, "error")
    ELSE Goto(p, IF how[p] = "end" THEN "drain" ELSE "fdcheck") /\ UNCHANGED res

Finish(p) ==
    /\ pc[p] = "finish"
    /\ IF state = "STOPPED" THEN Ended(p) ELSE Goto(p, "finishPaused") /\ UNCHANGED res
    /\ UNCHANGED <<ctx, ret, codec, how, mine, hit, plays>>

\* Mutant: every end closes the file.
CloseFirst(p) == "finishClose"

\* The normal end closes the file before it sets the state, a decode error
\* after, and a read error leaves it for later.
FirstOfFinish(p) == IF how[p] = "end" THEN "finishClose" ELSE "finishState"

\* Mutants: lock only if (state == PLAYING), and do not lock at all.
FinishIfPlaying(p) ==
    /\ pc[p] = "finishPaused"
    /\ Goto(p, IF state # "PLAYING" THEN FirstOfFinish(p) ELSE "finishLock")
    /\ UNCHANGED <<ctx, local>>
FinishUnlocked(p) ==
    /\ pc[p] = "finishPaused" /\ Goto(p, FirstOfFinish(p))
    /\ UNCHANGED <<ctx, local>>

FinishPaused(p) ==
    /\ pc[p] = "finishPaused"
    /\ Goto(p, IF state = "PAUSED" THEN FirstOfFinish(p) ELSE "finishLock")
    /\ UNCHANGED <<ctx, local>>

FinishLock(p) ==
    /\ pc[p] = "finishLock" /\ Lock(p) /\ Goto(p, FirstOfFinish(p))
    /\ UNCHANGED <<state, fd, fds, out, halted, local>>

\* Mutant: the file stays open.
FinishKeepsFile(p) ==
    /\ pc[p] = "finishClose" /\ Goto(p, "finishClear")
    /\ UNCHANGED <<ctx, local>>

FinishClose(p) ==
    /\ pc[p] = "finishClose" /\ Goto(p, "finishClear")
    /\ CloseFd
    /\ UNCHANGED <<state, mutex, fd, out, halted, local>>

FinishClear(p) ==
    /\ pc[p] = "finishClear" /\ fd' = -1
    /\ Goto(p, IF how[p] = "end" THEN "finishState" ELSE "finishUnlock")
    /\ UNCHANGED <<state, mutex, fds, out, halted, local>>

FinishState(p) ==
    /\ pc[p] = "finishState" /\ state' = "STOPPED"
    /\ Goto(p, IF how[p] = "decode" THEN "finishClose" ELSE "finishUnlock")
    /\ UNCHANGED <<mutex, fd, fds, out, halted, local>>

FinishUnlock(p) ==
    /\ pc[p] = "finishUnlock" /\ Unlock /\ Ended(p)
    /\ UNCHANGED <<state, fd, fds, out, halted, ret, codec, how, mine, hit, plays>>

\* After a failed read or write: was the play stopped from another thread?
FdCheck(p) ==
    /\ pc[p] = "fdcheck"
    /\ \/ fd = -1 /\ Return(p, "ok") /\ UNCHANGED how
       \/ fd # -1 /\ how[p] # "tail" /\ Goto(p, "fdclose") /\ UNCHANGED <<res, how>>
       \/ /\ fd # -1 /\ how[p] = "tail" /\ Goto(p, "finish")
          /\ how' = [how EXCEPT ![p] = "end"] /\ UNCHANGED res
    /\ UNCHANGED <<ctx, ret, codec, mine, hit, plays>>

FdClose(p) ==
    /\ pc[p] = "fdclose" /\ CloseFd /\ Goto(p, "fdclear")
    /\ UNCHANGED <<state, mutex, fd, out, halted, local>>

FdClear(p) ==
    /\ pc[p] = "fdclear" /\ fd' = -1 /\ Return(p, "error")
    /\ UNCHANGED <<state, mutex, fds, out, halted, ret, codec, how, mine, hit, plays>>

\* audio_wait_done: only a callback that finds the ring of a running AudioTrack
\* empty ends the wait, and only MODE_CALLBACK has one.
Drain(p) ==
    /\ pc[p] = "drain"
    /\ IF Mode = "DIRECT" \/ out = "shut" THEN Return(p, res[p])
       ELSE Goto(p, "drainWait") /\ UNCHANGED res
    /\ UNCHANGED <<ctx, ret, codec, how, mine, hit, plays>>

DrainDone(p) ==
    /\ pc[p] = "drainWait" /\ out = "open" /\ ~halted
    /\ Return(p, res[p])
    /\ UNCHANGED <<ctx, ret, codec, how, mine, hit, plays>>

Decode(p) ==
    \/ DecodeData(p) \/ DecodeEnd(p) \/ ReadFails(p) \/ DecodeFails(p) \/ AlacBroken(p)
audio_write(p) == WriteOk(p) \/ WriteShort(p) \/ AlacWriteShort(p)

xxxPlay(p) ==
    \/ OpenFile(p) \/ NoFile(p) \/ HeaderOk(p) \/ HeaderBad(p)
    \/ audio_start(p) \/ StartBad(p) \/ Play(p) \/ Playing(p)
    \/ LoopTest(p) \/ Decode(p) \/ WriteLock(p) \/ audio_write(p)
    \/ Finish(p) \/ FinishPaused(p) \/ FinishLock(p) \/ FinishClose(p)
    \/ FinishClear(p) \/ FinishState(p) \/ FinishUnlock(p)
    \/ FdCheck(p) \/ FdClose(p) \/ FdClear(p) \/ Drain(p) \/ DrainDone(p)

---------------------------------------------------------------------------
\* The binder threads.

audioStop(b) ==
    /\ pc[b] = "idle" /\ "stop" \in Commands
    /\ ret' = [ret EXCEPT ![b] = "idle"] /\ Goto(b, "stopCheck")
    /\ UNCHANGED <<ctx, codec, how, res, mine, hit, plays>>

audioPause(b) ==
    /\ pc[b] = "idle" /\ "pause" \in Commands /\ state = "PLAYING"
    /\ Goto(b, "pauseLock") /\ UNCHANGED <<ctx, local>>

PauseLock(b) ==
    /\ pc[b] = "pauseLock" /\ Lock(b) /\ Goto(b, "pauseState")
    /\ UNCHANGED <<state, fd, fds, out, halted, local>>

\* Mutant: audioPause unlocks.
PauseReleases(b) ==
    /\ pc[b] = "pauseState" /\ state' = "PAUSED" /\ Unlock
    /\ Goto(b, IF Mode = "CALLBACK" THEN "pauseOut" ELSE "idle")
    /\ UNCHANGED <<fd, fds, out, halted, local>>

PauseState(b) ==
    /\ pc[b] = "pauseState" /\ state' = "PAUSED"
    /\ Goto(b, IF Mode = "CALLBACK" THEN "pauseOut" ELSE "idle")
    /\ UNCHANGED <<mutex, fd, fds, out, halted, local>>

\* libmedia_pause; audioPause returns with the mutex locked.
PauseOut(b) ==
    /\ pc[b] = "pauseOut" /\ halted' = TRUE /\ Goto(b, "idle")
    /\ UNCHANGED <<state, mutex, fd, fds, out, local>>

audioResume(b) ==
    /\ pc[b] = "idle" /\ "resume" \in Commands /\ state = "PAUSED"
    /\ Goto(b, IF Mode = "CALLBACK" THEN "resumeOut" ELSE "resumeState")
    /\ UNCHANGED <<ctx, local>>

\* libmedia_resume.
ResumeOut(b) ==
    /\ pc[b] = "resumeOut" /\ halted' = FALSE /\ Goto(b, "resumeState")
    /\ UNCHANGED <<state, mutex, fd, fds, out, local>>

ResumeState(b) ==
    /\ pc[b] = "resumeState" /\ state' = "PLAYING" /\ Goto(b, "resumeUnlock")
    /\ UNCHANGED <<mutex, fd, fds, out, halted, local>>

\* Mutant: audioResume leaves the mutex locked.
ResumeKeeps(b) ==
    /\ pc[b] = "resumeUnlock" /\ Goto(b, "idle")
    /\ UNCHANGED <<ctx, local>>

ResumeUnlock(b) ==
    /\ pc[b] = "resumeUnlock" /\ Unlock /\ Goto(b, "idle")
    /\ UNCHANGED <<state, fd, fds, out, halted, local>>

audioSetVolume(b) ==
    /\ pc[b] = "idle" /\ "volume" \in Commands /\ state = "PLAYING" /\ Mode = "DIRECT"
    /\ Goto(b, "volumeLock") /\ UNCHANGED <<ctx, local>>

VolumeLock(b) ==
    /\ pc[b] = "volumeLock" /\ Lock(b) /\ Goto(b, "volumeUnlock")
    /\ UNCHANGED <<state, fd, fds, out, halted, local>>

VolumeUnlock(b) ==
    /\ pc[b] = "volumeUnlock" /\ Unlock /\ Goto(b, "idle")
    /\ UNCHANGED <<state, fd, fds, out, halted, local>>

BinderCalls(b) == audioStop(b) \/ audioPause(b) \/ audioResume(b) \/ audioSetVolume(b)
BinderWork(b) ==
    \/ PauseLock(b) \/ PauseState(b) \/ PauseOut(b)
    \/ ResumeOut(b) \/ ResumeState(b) \/ ResumeUnlock(b)
    \/ VolumeLock(b) \/ VolumeUnlock(b)

PlayerWork(p) == audio_stop(p) \/ Reset(p) \/ xxxPlay(p)

Next ==
    \/ \E p \in Players : audioInit(p) \/ PlayerWork(p)
    \/ \E b \in Binders : BinderCalls(b) \/ audio_stop(b) \/ BinderWork(b)

Spec == Init /\ [][Next]_vars

\* A thread inside a call goes on; a write into a halted ring may have to wait.
\* The PlayThread has priority AUDIO, stop() raises its own to URGENT_AUDIO: both get
\* the mutex in the end from threads that keep taking it.  A decoder that gathers
\* frames fills its buffer or fails.  Nobody has to play or to command.
Fairness ==
    /\ \A p \in Players :
          /\ WF_vars((pc[p] = "writing" => out = "shut" \/ ~halted) /\ PlayerWork(p))
          /\ SF_vars(WriteLock(p)) /\ SF_vars(FinishLock(p))
          /\ SF_vars(Decode(p) /\ pc'[p] # "loop")
    /\ \A b \in Binders :
          WF_vars(audio_stop(b)) /\ SF_vars(StopLock(b)) /\ WF_vars(BinderWork(b))

FairSpec == Spec /\ Fairness

\* The client keeps out of the way between two tracks: no call is at work in the
\* context, and no pause keeps it, when the next track begins.
AtRest == state = "STOPPED" /\ \A b \in Binders : pc[b] \in {"idle", "stopCheck"}
CalmNext ==
    \/ \E p \in Players : (AtRest /\ audioInit(p)) \/ PlayerWork(p)
    \/ \E b \in Binders : BinderCalls(b) \/ audio_stop(b) \/ BinderWork(b)

CalmSpec == Init /\ [][CalmNext]_vars

---------------------------------------------------------------------------
TypeOK ==
    /\ state \in {"STOPPED", "PLAYING", "PAUSED"}
    /\ mutex \in Threads \cup {NoOne}
    /\ fd \in Nat \cup {-1} /\ fds \subseteq Nat
    /\ out \in {"open", "shut"} /\ halted \in BOOLEAN
    /\ \A p \in Players : pc[p] \in PlayerSteps \cup StopSteps
    /\ \A b \in Binders : pc[b] \in BinderSteps \cup StopSteps
    /\ pc \in [Threads -> PlayerSteps \cup StopSteps \cup BinderSteps]
    /\ ret \in [Threads -> {"idle", "reset", "open"}]
    /\ codec \in [Players -> Codecs]
    /\ how \in [Players -> {"end", "io", "tail", "decode"}]
    /\ res \in [Players -> {"ok", "error"}]
    /\ mine \in [Players -> Nat] /\ hit \in [Players -> BOOLEAN] /\ plays \in Nat

\* The steps between a pthread_mutex_lock of ctx->mutex and its unlock, where
\* audioPause and audioResume share one such section.
Critical == {"stopClose", "stopClear", "stopOut", "stopState", "stopUnlock",
             "playing", "writing", "finishClose", "finishClear", "finishState",
             "finishUnlock", "pauseState", "volumeUnlock"}

\* A thread between a lock and its unlock is the one that locked: no unlock, of
\* audio_stop or of a decoder at the end of its track, frees another's section.
SectionsAreOwned == \A t \in Threads : pc[t] \in Critical => mutex = t

\* Once every call has returned the context is stopped and its mutex free: the
\* next play, which locks before it plays, cannot block (wav/main.c:139).
AtRestStopped ==
    (\A t \in Threads : pc[t] = "idle") => state = "STOPPED" /\ mutex = NoOne

\* The output takes data only while the context is PLAYING: a pause or a stop
\* that has returned leaves no decoder writing.
WritesOnlyWhilePlaying ==
    [][\A p \in Players : WriteOk(p) => state = "PLAYING"]_vars

\* Between its return and the resume a pause holds the mutex, and there is a
\* play for the resume to continue.
PauseHolds ==
    (state = "PAUSED" /\ \A b \in Binders : pc[b] = "idle") =>
        /\ mutex \in Binders
        /\ \E p \in Players : pc[p] \in PlaySteps \cup EndSteps

\* A play that returns 0 has closed its file.
EndedPlayClosed ==
    \A p \in Players : pc[p] = "idle" /\ res[p] = "ok" => mine[p] \notin fds

\* "if(ctx->fd == -1) return 0; // we were stopped from the main thread"
\* (wav/main.c:156): a missing descriptor does mean that the play was stopped.
NoFdMeansStopped ==
    [][\A p \in Players : FdCheck(p) /\ fd = -1 => hit[p]]_vars

\* Conversely a play that was stopped returns 0 and no error, which would end
\* the playlist with a message to the user (AndLessSrv.java:479).
StoppedPlayIsSilent ==
    [][\A p \in Players :
        (pc[p] \in EndSteps /\ pc'[p] = "idle" /\ hit[p]) => res'[p] = "ok"]_vars

\* Nobody closes a descriptor number a second time: by then it may be the file
\* of another thread.
ClosedOnce ==
    [][\A t \in Threads :
        (StopClose(t) \/ FinishClose(t) \/ FdClose(t)) => fd \in fds \cup {-1}]_vars

\* A stop that has got past its lock, or needs none, and has not stored STOPPED yet.
Closing == {"stopClose", "stopClear", "stopOut", "stopState"}

\* A stop that finds the context playing or paused ends the play, whatever the
\* decoder is doing and although the resume of another thread may store PLAYING over
\* it; stop() joins its thread (AndLessSrv.java:533).  What can keep the play is a
\* pause of another thread: while the stop waits at its lock, for a pause keeps the
\* mutex and the stop goes on waiting, or after the stop, in the wake of such a resume.
StopEndsPlay ==
    \A b \in Binders, p \in Players :
        pc[b] \in {"stopLock", "stopClose"} ~>
            (pc[p] = "idle" \/ (state = "PAUSED" /\ pc[b] \notin Closing))

\* Nobody works under the mutex that a binder thread has locked: the pause kept it.
Kept ==
    \/ state = "PAUSED"
    \/ mutex \in Binders /\ \A t \in Threads : pc[t] \notin Critical \cup {"resumeUnlock"}

\* The service, which sees the state and whether the next play will block, sees a
\* NativePlay: the steps of a stop, of the end of a track or of a pause that other
\* threads come between are one step of the contract Playlist is written over.
Native == INSTANCE NativePlay WITH kept <- Kept
ImplementsNative == Native!Spec
===========================================================================
