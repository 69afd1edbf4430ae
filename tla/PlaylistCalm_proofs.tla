------------------------ MODULE PlaylistCalm_proofs ------------------------
(***************************************************************************)
(* Theorems about Playlist while nothing has slipped away: what it promises *)
(* when one client loads, plays and stops, and any others pause and resume. *)
(***************************************************************************)
EXTENDS Playlist_proofs

---------------------------------------------------------------------------
\* Definitions.

\* s is the only client that loads, plays, stops or shuts down.
OnlyStops(s) == \A c \in Clients \ {s} : Does[c] \cap Stopping = {}

\* The steps of such a command.
StopSteps == {"stop", "halt", "which", "audioStop", "stopLock", "stopKept", "notify", "unpause", "join",
              "forget", "stopped", "add"}

\* Where the thread is that th points at.
At == IF th \in Threads THEN pc[th] ELSE "dead"

\* In the loop, ahead of a track; with a track, in the decoder or the MediaPlayer.
Ahead == {"new", "test", "try"}
Inside == {"init", "reset", "begin", "lock", "play", "drain", "stuck"}
Outside == {"initExt", "resetExt", "ext", "prepare", "wait", "waiting", "woken", "failed"}

\* The process has ended.
Ended == (\A x \in Threads \cup Clients : pc[x] = "crashed") /\ timer = "off" /\ mplayer = "none"
         /\ preparing = {}

\* Only s carries out a command that stops.
StopsAlone(s) == \A c \in Clients : pc[c] \in StopSteps => c = s

\* While no stop() has given up, a thread that lives is the one th points at, and
\* it is over when stop() has joined it.
OneThread(s) ==
    "thread" \notin slipped =>
        /\ Alive \subseteq {th}
        /\ pc[s] = "forget" => At = "dead"
        /\ pc[s] \in {"stopped", "add"} => th = NoThread

\* The context plays, or is paused, for the thread alone; a pause keeps the mutex.
ContextInv ==
    /\ state \in {"PLAYING", "PAUSED"} => At = "play"
    /\ kept => state = "PAUSED"
    /\ At \in {"begin", "lock", "play", "drain"} => state # "none"
    /\ mplayer # "none" => At \in {"prepare", "wait", "waiting", "woken", "failed"}

\* The flags say no more than what the thread does.
FlagsInv ==
    /\ running => At # "dead"
    /\ wakeLock => At \notin {"dead", "tell", "done"}

\* There is an updater for the one track that a cue sheet plays, and its timer
\* stays within the list.
UpdaterInv ==
    /\ cup => cue /\ At \notin {"dead"} \cup Ahead
    /\ timer # "off" => cup
    /\ timer \in {"armed", "held"} => cur_pos \in 0 .. filled - 2
    /\ timer \in {"fired", "shown"} => cur_pos \in 0 .. filled - 1

\* cur_pos is the track ahead of the thread, or the one it has taken up.
PosInv ==
    /\ At \in Ahead => cur_pos = track[th] + 1 /\ cur_pos >= 0
    /\ At = "try" => cur_pos < Len
    /\ At \in Inside \cup Outside \cup {"back"} /\ ~cue => cur_pos = track[th] /\ cur_pos >= 0

\* What the client was told last.
ToldInv ==
    /\ At \in Inside /\ timer # "fired" => told = cur_pos
    /\ At \in {"dead", "new", "done"} \/ (At \in {"test", "try", "exit"} /\ k[th] # "ok")
         => told = NoTrack

CalmInv == ContextInv /\ FlagsInv /\ UpdaterInv /\ PosInv /\ ToldInv
Calm == slipped = {} => CalmInv

Owner(s) == ~Crashed /\ StopsAlone(s) /\ OneThread(s)

\* The inductive invariant.
OwnInv(s) == TypeOK /\ (Ended \/ (Owner(s) /\ Calm))

\* With s the only client: what its call has found and done so far.
Out == kept \/ mplayer = "paused"
CallInv(s) ==
    /\ pc[s] \in {"idle", "ask", "asked", "pause", "unwake", "cupPause", "resume", "rewake",
                  "cupResume", "thrown", "return", "stop", "halt", "which", "audioStop",
                  "stopLock", "stopKept", "notify"} => (paused <=> Out)
    /\ pc[s] \in {"pauseWhich", "pauseLook", "pauseLock"} => ~paused /\ ~Out
    /\ pc[s] = "pauseExt" => paused /\ ~Out
    /\ pc[s] = "pauseFlag" => ~paused /\ kept
    /\ pc[s] = "resumeWhich" => paused /\ Out
    /\ pc[s] = "resumeExt" => ~paused /\ ~kept /\ mplayer = "paused"
    /\ pc[s] \in {"resumeLook", "resumeState"} => paused /\ kept
    /\ pc[s] = "resumeFlag" => paused /\ ~Out
    /\ pc[s] \in {"notify", "unpause", "join", "forget"} => ~kept
    /\ pc[s] \in {"join", "forget", "stopped", "add"} => ~paused

\* Until stop() wakes it, the thread waits for a MediaPlayer that is prepared.
WaitInv(s) ==
    mplayer \in {"prepared", "started", "paused"} /\ pc[s] \notin {"unpause", "join", "forget"}
        => At \in {"wait", "waiting"}
PauseInv(s) == OwnInv(s) /\ (~Crashed /\ slipped = {} => CallInv(s) /\ WaitInv(s))
---------------------------------------------------------------------------
\* While one client stops: one thread, and what the fields say of it.

\* The steps that end the process.
Dies ==
    \/ \E t \in Threads : Crash(t) \/ UseFreed(t)
    \/ \E c \in Clients : ThrowUncaught(c)
    \/ TimerThrows \/ onPreparedThrows

\* The thread that moves is the one th points at.
LEMMA ThreadAt ==
    ASSUME PcType, NEW t \in Threads, pc[t] \notin {"dead", "crashed"}, Alive \subseteq {th},
           UNCHANGED th, NEW step, Goto(t, step)
    PROVE  th = t /\ At = pc[t] /\ At' = step
BY DEF PcType, Alive, At, Goto

\* A call that moves leaves the thread where it is.
LEMMA CallAt ==
    ASSUME PcType, NEW c \in Clients, UNCHANGED th, NEW step, Goto(c, step)
    PROVE  At' = At
BY ThreadsAssumption DEF PcType, At, Goto

\* The context and the flags.
LEMMA ThreadContext ==
    ASSUME PcType, DataType, CalmInv, Alive \subseteq {th}, slipped' = {},
           NEW t \in Threads, PlayThread(t), ~Crash(t), ~UseFreed(t)
    PROVE  ContextInv' /\ FlagsInv'
<1> USE DEF CalmInv, ContextInv, FlagsInv, DataType, Inside, Outside, Ahead,
    native, list, updater, flags, seen, own, calls, commanded
<1>1. CASE Run(t)
  <2>1. At = "new" /\ At' = "test"
    BY <1>1, ThreadAt DEF Run
  <2> QED BY <1>1, <2>1 DEF Run
<1>2. CASE Test(t)
  <2>1. At = "test" /\ At' = IF running /\ cur_pos < Len THEN "try" ELSE "exit"
    BY <1>2, ThreadAt DEF Test
  <2> QED BY <1>2, <2>1 DEF Test
<1>3. CASE Crash(t)
  BY <1>3
<1>4. CASE UseFreed(t)
  BY <1>4
<1>5. CASE Try(t)
  <2>1. At = "try" /\ At' = IF files[cur_pos] = "ext" THEN "initExt" ELSE "init"
    BY <1>5, ThreadAt DEF Try
  <2> QED BY <1>5, <2>1 DEF Try
<1>6. CASE TryNull(t)
  <2>1. At = "try" /\ At' = "test"
    BY <1>6, ThreadAt DEF TryNull
  <2> QED BY <1>6, <2>1 DEF TryNull
<1>7. CASE initAudioMode(t)
  <2>1. At \in {"init", "initExt"} /\ At' = IF At = "init" THEN "reset" ELSE "resetExt"
    BY <1>7, ThreadAt DEF initAudioMode
  <2> QED BY <1>7, <2>1 DEF initAudioMode, AudioStop
<1>8. CASE InitFails(t)
  <2>1. At \in {"init", "initExt"} /\ At' = "back"
    BY <1>8, ThreadAt DEF InitFails
  <2> QED BY <1>8, <2>1 DEF InitFails
<1>9. CASE Reset(t)
  <2>1. At \in {"reset", "resetExt"} /\ At' = IF At = "reset" THEN "begin" ELSE "ext"
    BY <1>9, ThreadAt DEF Reset
  <2> QED BY <1>9, <2>1 DEF Reset
<1>10. CASE Open(t)
  <2>1. At = "begin" /\ At' = "lock"
    BY <1>10, ThreadAt DEF Open
  <2> QED BY <1>10, <2>1 DEF Open, AudioStop
<1>11. CASE OpenFails(t)
  <2>1. At = "lock" /\ At' \in {"initExt", "back"}
    BY <1>11, ThreadAt DEF OpenFails
  <2> QED BY <1>11, <2>1 DEF OpenFails
<1>12. CASE Begin(t)
  <2>1. At = "lock" /\ At' = "play"
    BY <1>12, ThreadAt DEF Begin
  <2> QED BY <1>12, <2>1 DEF Begin
<1>13. CASE PlayEnds(t)
  <2>1. At = "play" /\ At' = "drain"
    BY <1>13, ThreadAt DEF PlayEnds
  <2> QED BY <1>13, <2>1 DEF PlayEnds, AudioStop, Slip
<1>14. CASE PlayReturns(t)
  <2>1. (At = "drain" \/ (At = "play" /\ state = "STOPPED")) /\ At' = "back"
    BY <1>14, ThreadAt DEF PlayReturns
  <2> QED BY <1>14, <2>1 DEF PlayReturns
<1>15. CASE Advance(t)
  <2>1. At = "back" /\ At' = "test"
    BY <1>15, ThreadAt DEF Advance
  <2> QED BY <1>15, <2>1 DEF Advance
<1>16. CASE SheetEnds(t)
  <2>1. At = "back" /\ At' = "exit"
    BY <1>16, ThreadAt DEF SheetEnds
  <2> QED BY <1>16, <2>1 DEF SheetEnds
<1>17. CASE Error(t)
  <2>1. At = "back" /\ At' = "exit"
    BY <1>17, ThreadAt DEF Error
  <2> QED BY <1>17, <2>1 DEF Error
<1>18. CASE Exit(t)
  <2>1. At = "exit" /\ At' = IF k[th] = "ok" THEN "tell" ELSE "done"
    BY <1>18, ThreadAt DEF Exit
  <2> QED BY <1>18, <2>1 DEF Exit
<1>19. CASE Tell(t)
  <2>1. At = "tell" /\ At' = "done"
    BY <1>19, ThreadAt DEF Tell
  <2> QED BY <1>19, <2>1 DEF Tell
<1>20. CASE Done(t)
  <2>1. At = "done" /\ At' = "dead"
    BY <1>20, ThreadAt DEF Done
  <2> QED BY <1>20, <2>1 DEF Done, Shutdown, Slip
<1>21. CASE ExtNew(t)
  <2>1. At = "ext" /\ At' = IF mplayer \in {"none", "idle"} THEN "prepare" ELSE "failed"
    BY <1>21, ThreadAt DEF ExtNew
  <2> QED BY <1>21, <2>1 DEF ExtNew
<1>22. CASE Prepare(t)
  <2>1. At = "prepare" /\ At' = "wait"
    BY <1>22, ThreadAt DEF Prepare
  <2> QED BY <1>22, <2>1 DEF Prepare
<1>23. CASE PrepareFails(t)
  <2>1. At = "prepare" /\ At' = "failed"
    BY <1>23, ThreadAt DEF PrepareFails
  <2> QED BY <1>23, <2>1 DEF PrepareFails
<1>24. CASE Wait(t)
  <2>1. At = "wait" /\ At' = "waiting"
    BY <1>24, ThreadAt DEF Wait
  <2> QED BY <1>24, <2>1 DEF Wait
<1>25. CASE Release(t)
  <2>1. At \in {"woken", "failed"} /\ At' = "back"
    BY <1>25, ThreadAt DEF Release
  <2> QED BY <1>25, <2>1 DEF Release
<1>26. CASE Stuck(t)
  <2>1. At = "drain" /\ At' = "stuck"
    BY <1>26, ThreadAt DEF Stuck
  <2> QED BY <1>26, <2>1 DEF Stuck
<1>27. CASE Drained(t)
  <2>1. th = t /\ At = "stuck" /\ At' = "back"
    BY <1>27, ThreadAt DEF Drained
  <2> QED BY <1>27, <2>1 DEF Drained
<1> QED BY <1>1, <1>2, <1>3, <1>4, <1>5, <1>6, <1>7, <1>8, <1>9, <1>10, <1>11,
           <1>12, <1>13, <1>14, <1>15, <1>16, <1>17, <1>18, <1>19, <1>20, <1>21,
           <1>22, <1>23, <1>24, <1>25, <1>26, <1>27 DEF PlayThread

\* The updater and the position.
LEMMA ThreadPos ==
    ASSUME PcType, DataType, CalmInv, Alive \subseteq {th}, slipped' = {},
           NEW t \in Threads, PlayThread(t), ~Crash(t), ~UseFreed(t)
    PROVE  UpdaterInv' /\ PosInv'
<1> USE BoundsAssumption
    DEF CalmInv, ContextInv, UpdaterInv, PosInv, DataType, Inside, Outside, Ahead,
    Tracks, native, list, updater, flags, seen, own, calls, commanded
<1>1. CASE Run(t)
  <2>1. th = t /\ At = "new" /\ At' = "test"
    BY <1>1, ThreadAt DEF Run
  <2> QED BY <1>1, <2>1 DEF Run
<1>2. CASE Test(t)
  <2>1. At = "test" /\ At' = IF running /\ cur_pos < Len THEN "try" ELSE "exit"
    BY <1>2, ThreadAt DEF Test
  <2> QED BY <1>2, <2>1 DEF Test
<1>3. CASE Crash(t)
  BY <1>3
<1>4. CASE UseFreed(t)
  BY <1>4
<1>5. CASE Try(t)
  <2>1. th = t /\ At = "try" /\ At' = IF files[cur_pos] = "ext" THEN "initExt" ELSE "init"
    BY <1>5, ThreadAt DEF Try
  <2> QED BY <1>5, <2>1 DEF Try
<1>6. CASE TryNull(t)
  <2>1. th = t /\ At = "try" /\ At' = "test"
    BY <1>6, ThreadAt DEF TryNull
  <2> QED BY <1>6, <2>1 DEF TryNull
<1>7. CASE initAudioMode(t)
  <2>1. At \in {"init", "initExt"} /\ At' = IF At = "init" THEN "reset" ELSE "resetExt"
    BY <1>7, ThreadAt DEF initAudioMode
  <2> QED BY <1>7, <2>1 DEF initAudioMode, AudioStop
<1>8. CASE InitFails(t)
  <2>1. At \in {"init", "initExt"} /\ At' = "back"
    BY <1>8, ThreadAt DEF InitFails
  <2> QED BY <1>8, <2>1 DEF InitFails
<1>9. CASE Reset(t)
  <2>1. At \in {"reset", "resetExt"} /\ At' = IF At = "reset" THEN "begin" ELSE "ext"
    BY <1>9, ThreadAt DEF Reset
  <2> QED BY <1>9, <2>1 DEF Reset
<1>10. CASE Open(t)
  <2>1. At = "begin" /\ At' = "lock"
    BY <1>10, ThreadAt DEF Open
  <2> QED BY <1>10, <2>1 DEF Open, AudioStop
<1>11. CASE OpenFails(t)
  <2>1. th = t /\ At = "lock" /\ At' \in {"initExt", "back"}
    BY <1>11, ThreadAt DEF OpenFails
  <2> QED BY <1>11, <2>1 DEF OpenFails
<1>12. CASE Begin(t)
  <2>1. At = "lock" /\ At' = "play"
    BY <1>12, ThreadAt DEF Begin
  <2> QED BY <1>12, <2>1 DEF Begin
<1>13. CASE PlayEnds(t)
  <2>1. At = "play" /\ At' = "drain"
    BY <1>13, ThreadAt DEF PlayEnds
  <2> QED BY <1>13, <2>1 DEF PlayEnds, AudioStop, Slip
<1>14. CASE PlayReturns(t)
  <2>1. th = t /\ (At = "drain" \/ (At = "play" /\ state = "STOPPED")) /\ At' = "back"
    BY <1>14, ThreadAt DEF PlayReturns
  <2> QED BY <1>14, <2>1 DEF PlayReturns
<1>15. CASE Advance(t)
  <2>1. th = t /\ At = "back" /\ At' = "test"
    BY <1>15, ThreadAt DEF Advance
  <2> QED BY <1>15, <2>1 DEF Advance
<1>16. CASE SheetEnds(t)
  <2>1. At = "back" /\ At' = "exit"
    BY <1>16, ThreadAt DEF SheetEnds
  <2> QED BY <1>16, <2>1 DEF SheetEnds
<1>17. CASE Error(t)
  <2>1. th = t /\ At = "back" /\ At' = "exit"
    BY <1>17, ThreadAt DEF Error
  <2> QED BY <1>17, <2>1 DEF Error
<1>18. CASE Exit(t)
  <2>1. th = t /\ At = "exit" /\ At' = IF k[th] = "ok" THEN "tell" ELSE "done"
    BY <1>18, ThreadAt DEF Exit
  <2> QED BY <1>18, <2>1 DEF Exit
<1>19. CASE Tell(t)
  <2>1. At = "tell" /\ At' = "done"
    BY <1>19, ThreadAt DEF Tell
  <2> QED BY <1>19, <2>1 DEF Tell
<1>20. CASE Done(t)
  <2>1. At = "done" /\ At' = "dead"
    BY <1>20, ThreadAt DEF Done
  <2> QED BY <1>20, <2>1 DEF Done, Shutdown, Slip
<1>21. CASE ExtNew(t)
  <2>1. At = "ext" /\ At' = IF mplayer \in {"none", "idle"} THEN "prepare" ELSE "failed"
    BY <1>21, ThreadAt DEF ExtNew
  <2> QED BY <1>21, <2>1 DEF ExtNew
<1>22. CASE Prepare(t)
  <2>1. At = "prepare" /\ At' = "wait"
    BY <1>22, ThreadAt DEF Prepare
  <2> QED BY <1>22, <2>1 DEF Prepare
<1>23. CASE PrepareFails(t)
  <2>1. At = "prepare" /\ At' = "failed"
    BY <1>23, ThreadAt DEF PrepareFails
  <2> QED BY <1>23, <2>1 DEF PrepareFails
<1>24. CASE Wait(t)
  <2>1. At = "wait" /\ At' = "waiting"
    BY <1>24, ThreadAt DEF Wait
  <2> QED BY <1>24, <2>1 DEF Wait
<1>25. CASE Release(t)
  <2>1. th = t /\ At \in {"woken", "failed"} /\ At' = "back"
    BY <1>25, ThreadAt DEF Release
  <2> QED BY <1>25, <2>1 DEF Release
<1>26. CASE Stuck(t)
  <2>1. At = "drain" /\ At' = "stuck"
    BY <1>26, ThreadAt DEF Stuck
  <2> QED BY <1>26, <2>1 DEF Stuck
<1>27. CASE Drained(t)
  <2>1. th = t /\ At = "stuck" /\ At' = "back"
    BY <1>27, ThreadAt DEF Drained
  <2> QED BY <1>27, <2>1 DEF Drained
<1> QED BY <1>1, <1>2, <1>3, <1>4, <1>5, <1>6, <1>7, <1>8, <1>9, <1>10, <1>11,
           <1>12, <1>13, <1>14, <1>15, <1>16, <1>17, <1>18, <1>19, <1>20, <1>21,
           <1>22, <1>23, <1>24, <1>25, <1>26, <1>27 DEF PlayThread

\* What the client hears.
LEMMA ThreadTold ==
    ASSUME PcType, DataType, CalmInv, Alive \subseteq {th}, slipped' = {},
           NEW t \in Threads, PlayThread(t), ~Crash(t), ~UseFreed(t)
    PROVE  ToldInv'
<1> USE DEF CalmInv, ContextInv, ToldInv, DataType, Inside, Outside, Ahead,
    NoTrack, native, list, updater, flags, seen, own, calls, commanded
<1>1. CASE Run(t)
  <2>1. th = t /\ At = "new" /\ At' = "test"
    BY <1>1, ThreadAt DEF Run
  <2> QED BY <1>1, <2>1 DEF Run
<1>2. CASE Test(t)
  <2>1. At = "test" /\ At' = IF running /\ cur_pos < Len THEN "try" ELSE "exit"
    BY <1>2, ThreadAt DEF Test
  <2> QED BY <1>2, <2>1 DEF Test
<1>3. CASE Crash(t)
  BY <1>3
<1>4. CASE UseFreed(t)
  BY <1>4
<1>5. CASE Try(t)
  <2>1. th = t /\ At = "try" /\ At' = IF files[cur_pos] = "ext" THEN "initExt" ELSE "init"
    BY <1>5, ThreadAt DEF Try
  <2> QED BY <1>5, <2>1 DEF Try
<1>6. CASE TryNull(t)
  <2>1. th = t /\ At = "try" /\ At' = "test"
    BY <1>6, ThreadAt DEF TryNull
  <2> QED BY <1>6, <2>1 DEF TryNull
<1>7. CASE initAudioMode(t)
  <2>1. At \in {"init", "initExt"} /\ At' = IF At = "init" THEN "reset" ELSE "resetExt"
    BY <1>7, ThreadAt DEF initAudioMode
  <2> QED BY <1>7, <2>1 DEF initAudioMode
<1>8. CASE InitFails(t)
  <2>1. At \in {"init", "initExt"} /\ At' = "back"
    BY <1>8, ThreadAt DEF InitFails
  <2> QED BY <1>8, <2>1 DEF InitFails
<1>9. CASE Reset(t)
  <2>1. At \in {"reset", "resetExt"} /\ At' = IF At = "reset" THEN "begin" ELSE "ext"
    BY <1>9, ThreadAt DEF Reset
  <2> QED BY <1>9, <2>1 DEF Reset
<1>10. CASE Open(t)
  <2>1. At = "begin" /\ At' = "lock"
    BY <1>10, ThreadAt DEF Open
  <2> QED BY <1>10, <2>1 DEF Open
<1>11. CASE OpenFails(t)
  <2>1. th = t /\ At = "lock" /\ At' \in {"initExt", "back"}
    BY <1>11, ThreadAt DEF OpenFails
  <2> QED BY <1>11, <2>1 DEF OpenFails
<1>12. CASE Begin(t)
  <2>1. At = "lock" /\ At' = "play"
    BY <1>12, ThreadAt DEF Begin
  <2> QED BY <1>12, <2>1 DEF Begin
<1>13. CASE PlayEnds(t)
  <2>1. At = "play" /\ At' = "drain"
    BY <1>13, ThreadAt DEF PlayEnds
  <2> QED BY <1>13, <2>1 DEF PlayEnds
<1>14. CASE PlayReturns(t)
  <2>1. th = t /\ (At = "drain" \/ (At = "play" /\ state = "STOPPED")) /\ At' = "back"
    BY <1>14, ThreadAt DEF PlayReturns
  <2> QED BY <1>14, <2>1 DEF PlayReturns
<1>15. CASE Advance(t)
  <2>1. th = t /\ At = "back" /\ At' = "test"
    BY <1>15, ThreadAt DEF Advance
  <2> QED BY <1>15, <2>1 DEF Advance
<1>16. CASE SheetEnds(t)
  <2>1. th = t /\ At = "back" /\ At' = "exit"
    BY <1>16, ThreadAt DEF SheetEnds
  <2> QED BY <1>16, <2>1 DEF SheetEnds
<1>17. CASE Error(t)
  <2>1. th = t /\ At = "back" /\ At' = "exit"
    BY <1>17, ThreadAt DEF Error
  <2> QED BY <1>17, <2>1 DEF Error
<1>18. CASE Exit(t)
  <2>1. th = t /\ At = "exit" /\ At' = IF k[th] = "ok" THEN "tell" ELSE "done"
    BY <1>18, ThreadAt DEF Exit
  <2> QED BY <1>18, <2>1 DEF Exit
<1>19. CASE Tell(t)
  <2>1. At = "tell" /\ At' = "done"
    BY <1>19, ThreadAt DEF Tell
  <2> QED BY <1>19, <2>1 DEF Tell
<1>20. CASE Done(t)
  <2>1. At = "done" /\ At' = "dead"
    BY <1>20, ThreadAt DEF Done
  <2> QED BY <1>20, <2>1 DEF Done
<1>21. CASE ExtNew(t)
  <2>1. At = "ext" /\ At' = IF mplayer \in {"none", "idle"} THEN "prepare" ELSE "failed"
    BY <1>21, ThreadAt DEF ExtNew
  <2> QED BY <1>21, <2>1 DEF ExtNew
<1>22. CASE Prepare(t)
  <2>1. At = "prepare" /\ At' = "wait"
    BY <1>22, ThreadAt DEF Prepare
  <2> QED BY <1>22, <2>1 DEF Prepare
<1>23. CASE PrepareFails(t)
  <2>1. At = "prepare" /\ At' = "failed"
    BY <1>23, ThreadAt DEF PrepareFails
  <2> QED BY <1>23, <2>1 DEF PrepareFails
<1>24. CASE Wait(t)
  <2>1. At = "wait" /\ At' = "waiting"
    BY <1>24, ThreadAt DEF Wait
  <2> QED BY <1>24, <2>1 DEF Wait
<1>25. CASE Release(t)
  <2>1. th = t /\ At \in {"woken", "failed"} /\ At' = "back"
    BY <1>25, ThreadAt DEF Release
  <2> QED BY <1>25, <2>1 DEF Release
<1>26. CASE Stuck(t)
  <2>1. At = "drain" /\ At' = "stuck"
    BY <1>26, ThreadAt DEF Stuck
  <2> QED BY <1>26, <2>1 DEF Stuck
<1>27. CASE Drained(t)
  <2>1. th = t /\ At = "stuck" /\ At' = "back"
    BY <1>27, ThreadAt DEF Drained
  <2> QED BY <1>27, <2>1 DEF Drained
<1> QED BY <1>1, <1>2, <1>3, <1>4, <1>5, <1>6, <1>7, <1>8, <1>9, <1>10, <1>11,
           <1>12, <1>13, <1>14, <1>15, <1>16, <1>17, <1>18, <1>19, <1>20, <1>21,
           <1>22, <1>23, <1>24, <1>25, <1>26, <1>27 DEF PlayThread

\* mplayer_lock.notify finds the thread of th waiting, or moves no one.
LEMMA NotifyAt ==
    ASSUME PcType, UNCHANGED th,
           Notify(pc) \/ \E c \in Clients : Notify([pc EXCEPT ![c] = "unpause"])
    PROVE  At' = At \/ (At = "waiting" /\ At' = "woken")
<1>1. CASE th \notin Threads
  BY <1>1 DEF At
<1>2. ASSUME th \in Threads, NEW p, \A t \in Threads : p[t] = pc[t],
             p \in [Threads \cup Clients -> Threading \cup Calling], Notify(p)
      PROVE  At' = At \/ (At = "waiting" /\ At' = "woken")
  <2>1. CASE Waiting = {}
    BY <1>2, <2>1 DEF Notify, At
  <2>2. CASE Waiting # {}
    <3>1. PICK t \in Waiting : pc' = [p EXCEPT ![t] = "woken"]
      BY <1>2, <2>2 DEF Notify
    <3> QED BY <1>2, <3>1 DEF Waiting, At
  <2> QED BY <2>1, <2>2
<1>3. CASE th \in Threads /\ Notify(pc)
  BY <1>2, <1>3 DEF PcType
<1>4. ASSUME th \in Threads, NEW c \in Clients, Notify([pc EXCEPT ![c] = "unpause"])
      PROVE  At' = At \/ (At = "waiting" /\ At' = "woken")
  BY <1>2, <1>4, ThreadsAssumption DEF PcType, Calling
<1> QED BY <1>1, <1>3, <1>4

\* A client's command, which takes th away or starts a thread only after the join.
LEMMA CommandCalm ==
    ASSUME PcType, DataType, CalmInv, NEW c \in Clients, Commanding(c), slipped' = {},
           pc[c] = "forget" => At = "dead", pc[c] \in {"stopped", "add"} => At = "dead"
    PROVE  CalmInv'
<1> USE ThreadsAssumption, BoundsAssumption
    DEF CalmInv, ContextInv, FlagsInv, UpdaterInv, PosInv, ToldInv, DataType,
    Inside, Outside, Ahead, native, list, updater, flags, seen, own, calls, commanded
<1>1. CASE Stop(c)
  <2>1. At' = At
    BY <1>1, CallAt DEF Stop
  <2> QED BY <1>1, <2>1 DEF Stop
<1>2. CASE Halt(c)
  <2>1. At' = At
    BY <1>2, CallAt DEF Halt
  <2> QED BY <1>2, <2>1 DEF Halt, Shutdown, Slip
<1>3. CASE audioStop(c)
  <2>1. At' = At
    BY <1>3, CallAt DEF audioStop
  <2> QED BY <1>3, <2>1 DEF audioStop
<1>15. CASE Which(c)
  <2>1. At' = At
    BY <1>15, CallAt DEF Which
  <2> QED BY <1>15, <2>1 DEF Which
<1>16. CASE StopOut(c)
  <2>1. At' = At
    BY <1>16, CallAt DEF StopOut
  <2> QED BY <1>16, <2>1 DEF StopOut
<1>4. CASE StopNotifies(c)
  <2>1. At' = At \/ (At = "waiting" /\ At' = "woken")
    BY <1>4, NotifyAt DEF StopNotifies
  <2> QED BY <1>4, <2>1 DEF StopNotifies
<1>5. CASE Unpause(c)
  <2>1. At' = At
    BY <1>5, CallAt DEF Unpause
  <2> QED BY <1>5, <2>1 DEF Unpause
<1>6. CASE Join(c)
  <2>1. At' = At
    BY <1>6, CallAt DEF Join
  <2> QED BY <1>6, <2>1 DEF Join, Slip
<1>7. CASE Forget(c)
  <2>1. At = "dead" /\ At' = "dead"
    BY <1>7 DEF Forget, At
  <2> QED BY <1>7, <2>1 DEF Forget
<1>8. CASE StopReturns(c)
  <2>1. At' = At
    BY <1>8, CallAt DEF StopReturns
  <2> QED BY <1>8, <2>1 DEF StopReturns
<1>9. CASE audioExit(c)
  <2>1. At = "dead" /\ At' = "dead"
    BY <1>9, CallAt DEF audioExit
  <2> QED BY <1>9, <2>1 DEF audioExit
<1>10. CASE init_playlist(c)
  <2>1. At = "dead" /\ At' = "dead"
    BY <1>10 DEF init_playlist, At
  <2> QED BY <1>10, <2>1 DEF init_playlist
<1>11. CASE add_to_playlist(c)
  <2>1. At = "dead" /\ At' = "dead"
    BY <1>11 DEF add_to_playlist, At
  <2> QED BY <1>11, <2>1 DEF add_to_playlist
<1>12. CASE Loaded(c)
  <2>1. At' = At
    BY <1>12, CallAt DEF Loaded
  <2> QED BY <1>12, <2>1 DEF Loaded
<1>13. CASE NoSuchTrack(c)
  <2>1. At' = At
    BY <1>13, CallAt DEF NoSuchTrack
  <2> QED BY <1>13, <2>1 DEF NoSuchTrack
<1>14. ASSUME NEW t \in Threads, play(c, t) PROVE CalmInv'
  <2>1. At = "dead" /\ At' = "new" /\ th' = t
    BY <1>14 DEF play, At, PcType
  <2> QED BY <1>14, <2>1 DEF play, Tracks
<1> QED BY <1>1, <1>2, <1>3, <1>4, <1>5, <1>6, <1>7, <1>8, <1>9, <1>10, <1>11,
           <1>12, <1>13, <1>14, <1>15, <1>16 DEF Commanding

\* A pause or a resume.
LEMMA ControlCalm ==
    ASSUME PcType, DataType, CalmInv, NEW c \in Clients, Controlling(c), ~ThrowUncaught(c),
        slipped' = {}
    PROVE  CalmInv'
<1> USE ThreadsAssumption, BoundsAssumption
    DEF CalmInv, ContextInv, FlagsInv, UpdaterInv, PosInv, ToldInv, DataType,
    Inside, Outside, Ahead, native, list, updater, flags, seen, own, calls, commanded
<1>1. CASE Ask(c)
  <2>1. At' = At
    BY <1>1, CallAt DEF Ask
  <2> QED BY <1>1, <2>1 DEF Ask
<1>2. CASE Asked(c)
  <2>1. At' = At
    BY <1>2, CallAt DEF Asked
  <2> QED BY <1>2, <2>1 DEF Asked
<1>3. CASE NotHandled(c)
  <2>1. At' = At
    BY <1>3, CallAt DEF NotHandled
  <2> QED BY <1>3, <2>1 DEF NotHandled
<1>4. CASE Pause(c)
  <2>1. At' = At
    BY <1>4, CallAt DEF Pause
  <2> QED BY <1>4, <2>1 DEF Pause
<1>5. CASE PauseWhich(c)
  <2>1. At' = At
    BY <1>5, CallAt DEF PauseWhich
  <2> QED BY <1>5, <2>1 DEF PauseWhich
<1>6. CASE PauseExt(c)
  <2>1. At' = At
    BY <1>6, CallAt DEF PauseExt
  <2> QED BY <1>6, <2>1 DEF PauseExt, Slip
<1>7. CASE PauseLook(c)
  <2>1. At' = At
    BY <1>7, CallAt DEF PauseLook
  <2> QED BY <1>7, <2>1 DEF PauseLook
<1>8. CASE PauseLock(c)
  <2>1. At' = At
    BY <1>8, CallAt DEF PauseLock
  <2> QED BY <1>8, <2>1 DEF PauseLock, Slip
<1>9. CASE PauseFlag(c)
  <2>1. At' = At
    BY <1>9, CallAt DEF PauseFlag
  <2> QED BY <1>9, <2>1 DEF PauseFlag
<1>10. CASE Unwake(c)
  <2>1. At' = At
    BY <1>10, CallAt DEF Unwake
  <2> QED BY <1>10, <2>1 DEF Unwake
<1>11. CASE Resume(c)
  <2>1. At' = At
    BY <1>11, CallAt DEF Resume
  <2> QED BY <1>11, <2>1 DEF Resume
<1>12. CASE ResumeWhich(c)
  <2>1. At' = At
    BY <1>12, CallAt DEF ResumeWhich
  <2> QED BY <1>12, <2>1 DEF ResumeWhich
<1>13. CASE ResumeExt(c)
  <2>1. At' = At
    BY <1>13, CallAt DEF ResumeExt
  <2> QED BY <1>13, <2>1 DEF ResumeExt
<1>14. CASE ResumeLook(c)
  <2>1. At' = At
    BY <1>14, CallAt DEF ResumeLook
  <2> QED BY <1>14, <2>1 DEF ResumeLook
<1>15. CASE ResumeState(c)
  <2>1. At' = At
    BY <1>15, CallAt DEF ResumeState
  <2> QED BY <1>15, <2>1 DEF ResumeState, Slip
<1>16. CASE ResumeFlag(c)
  <2>1. At' = At
    BY <1>16, CallAt DEF ResumeFlag
  <2> QED BY <1>16, <2>1 DEF ResumeFlag
<1>17. CASE Rewake(c)
  <2>1. At' = At
    BY <1>17, CallAt DEF Rewake
  <2> QED BY <1>17, <2>1 DEF Rewake, Slip, Over, At
<1>18. CASE Throw(c)
  <2>1. At' = At
    BY <1>18, CallAt DEF Throw
  <2> QED BY <1>18, <2>1 DEF Throw
<1>19. CASE ThrowUncaught(c)
  BY <1>19
<1>20. CASE Return(c)
  <2>1. At' = At
    BY <1>20, CallAt DEF Return
  <2> QED BY <1>20, <2>1 DEF Return
<1>21. CASE CupPause(c)
  <2>1. At' = At
    BY <1>21, CallAt DEF CupPause
  <2> QED BY <1>21, <2>1 DEF CupPause
<1>22. CASE CupResume(c)
  <2>1. At' = At
    BY <1>22, CallAt DEF CupResume
  <2> QED BY <1>22, <2>1 DEF CupResume
<1> QED BY <1>1, <1>2, <1>3, <1>4, <1>5, <1>6, <1>7, <1>8, <1>9, <1>10, <1>11,
           <1>12, <1>13, <1>14, <1>15, <1>16, <1>17, <1>18, <1>19, <1>20, <1>21,
           <1>22 DEF Controlling

\* A call that begins.
LEMMA BeginCalm ==
    ASSUME PcType, CalmInv, NEW c \in Clients, Command(c) \/ Control(c)
    PROVE  CalmInv'
<1>1. At' = At
  <2>1. PICK step, what : Call(c, what, step)
    BY DEF Command, Control
  <2>2. UNCHANGED th
    BY DEF Command, Control, flags
  <2> QED BY <2>1, <2>2, CallAt, ThreadsAssumption DEF Call
<1>2. UNCHANGED <<native, mplayer, list, updater, cur_pos, flags, seen, own>>
  BY DEF Command, Control
<1> QED BY <1>1, <1>2 DEF CalmInv, ContextInv, FlagsInv, UpdaterInv, PosInv, ToldInv,
    Inside, Outside, Ahead, native, list, updater, flags, seen, own

\* The MediaPlayer and the timer.
LEMMA CallbackCalm ==
    ASSUME PcType, DataType, CalmInv, Callbacks, ~TimerThrows, ~onPreparedThrows, slipped' = {}
    PROVE  CalmInv'
<1> USE ThreadsAssumption, BoundsAssumption
    DEF CalmInv, ContextInv, FlagsInv, UpdaterInv, PosInv, ToldInv, DataType,
    Inside, Outside, Ahead, native, list, updater, flags, seen, own, calls, commanded
<1>1. CASE onPrepared
  <2>1. At' = At
    BY <1>1 DEF onPrepared, At
  <2> QED BY <1>1, <2>1 DEF onPrepared
<1>2. CASE onCompletion
  <2>1. At' = At \/ (At = "waiting" /\ At' = "woken")
    BY <1>2, NotifyAt DEF onCompletion
  <2> QED BY <1>2, <2>1 DEF onCompletion
<1>3. CASE onError
  <2>1. At' = At \/ (At = "waiting" /\ At' = "woken")
    BY <1>3, NotifyAt DEF onError
  <2> QED BY <1>3, <2>1 DEF onError, NoTrack
<1>4. CASE TimerFires
  <2>1. At' = At
    BY <1>4 DEF TimerFires, At
  <2> QED BY <1>4, <2>1 DEF TimerFires
<1>7. CASE TimerTells
  <2>1. At' = At /\ timer = "fired"
    BY <1>7 DEF TimerTells, At
  <2>2. At \notin {"dead", "done"} /\ (At = "exit" => k[th] = "ok")
    BY <1>7 DEF TimerTells, SaidOver, Slip, At
  <2>3. told' = cur_pos
    BY <1>7, <2>1 DEF TimerTells
  <2> QED BY <1>7, <2>1, <2>2, <2>3 DEF TimerTells
<1>8. CASE onPreparedStarts
  <2>1. At' = At
    BY <1>8 DEF onPreparedStarts, At
  <2> QED BY <1>8, <2>1 DEF onPreparedStarts
<1>9. CASE onPreparedThrows
  BY <1>9
<1>5. CASE TimerAgain
  <2>1. At' = At
    BY <1>5 DEF TimerAgain, At
  <2> QED BY <1>5, <2>1 DEF TimerAgain
<1>6. CASE TimerThrows
  BY <1>6
<1> QED BY <1>1, <1>2, <1>3, <1>4, <1>5, <1>6, <1>7, <1>8, <1>9 DEF Callbacks

---------------------------------------------------------------------------
\* One client stops: who carries out its steps, and which thread there is.

\* A step of the thread leaves th and the calls where they are.
LEMMA ThreadOwner ==
    ASSUME PcType, NEW s \in Clients, Owner(s), NEW t \in Threads,
           pc[t] # "dead", NEW step \in Threading \ {"crashed"}, Goto(t, step),
           UNCHANGED th, slipped \subseteq slipped'
    PROVE  Owner(s)'
<1>1. \A x \in Threads \cup Clients : pc'[x] = IF x = t THEN step ELSE pc[x]
  BY DEF Goto, PcType
<1>2. ~Crashed' /\ StopsAlone(s)'
  BY <1>1, ThreadsAssumption DEF Owner, Crashed, StopsAlone
<1>3. ASSUME "thread" \notin slipped PROVE th = t /\ pc[s] \notin {"forget", "stopped", "add"}
  BY <1>3, ThreadsAssumption DEF Owner, Crashed, OneThread, Alive, At
<1>4. OneThread(s)'
  BY <1>1, <1>3, ThreadsAssumption DEF Owner, OneThread, Alive, At
<1> QED BY <1>2, <1>4 DEF Owner

\* A step of a call that does not come to the end of a stop.
LEMMA CallOwner ==
    ASSUME PcType, NEW s \in Clients, Owner(s), NEW c \in Clients,
           NEW step \in Calling \ {"crashed", "forget", "stopped", "add"}, Goto(c, step),
           step \in StopSteps => c = s, UNCHANGED th, slipped \subseteq slipped'
    PROVE  Owner(s)'
<1>1. \A x \in Threads \cup Clients : pc'[x] = IF x = c THEN step ELSE pc[x]
  BY DEF Goto, PcType
<1>2. ~Crashed' /\ StopsAlone(s)'
  BY <1>1, ThreadsAssumption DEF Owner, Crashed, StopsAlone
<1>3. Alive' = Alive /\ At' = At
  BY <1>1, ThreadsAssumption DEF Alive, At
<1>4. OneThread(s)'
  BY <1>1, <1>3 DEF Owner, OneThread
<1> QED BY <1>2, <1>4 DEF Owner

\* mplayer_lock.notify wakes a thread that lives.
LEMMA NotifyOwner ==
    ASSUME PcType, NEW s \in Clients, Owner(s), UNCHANGED <<th, slipped>>,
           Notify(pc) \/ (pc[s] = "notify" /\ Notify([pc EXCEPT ![s] = "unpause"]))
    PROVE  Owner(s)'
<1>1. ASSUME NEW p \in [Threads \cup Clients -> Threading \cup Calling], Notify(p),
             \A x \in Threads \cup Clients : p[x] = pc[x] \/ (x = s /\ pc[s] = "notify" /\ p[s] = "unpause")
      PROVE  Owner(s)'
  <2>1. PICK woken \in SUBSET Waiting :
           \A x \in Threads \cup Clients : pc'[x] = IF x \in woken THEN "woken" ELSE p[x]
    <3>1. CASE Waiting = {}
      BY <1>1, <3>1 DEF Notify
    <3>2. CASE Waiting # {}
      <4>1. PICK t \in Waiting : pc' = [p EXCEPT ![t] = "woken"]
        BY <1>1, <3>2 DEF Notify
      <4> WITNESS {t} \in SUBSET Waiting
      <4> QED BY <1>1, <4>1 DEF Waiting
    <3> QED BY <3>1, <3>2
  <2>2. \A x \in woken : x \in Threads /\ pc[x] = "waiting"
    BY DEF Waiting
  <2>3. ~Crashed'
    BY <1>1, <2>1 DEF Owner, Crashed
  <2>4. \A c \in Clients : pc'[c] = p[c]
    BY <2>1, <2>2, ThreadsAssumption
  <2>5. StopsAlone(s)'
    BY <1>1, <2>4 DEF Owner, StopsAlone
  <2>6. Alive' = Alive
    BY <1>1, <2>1, <2>2, ThreadsAssumption DEF Alive
  <2>7. pc'[s] \in {"forget", "stopped", "add"} => pc'[s] = pc[s]
    BY <1>1, <2>4
  <2>8. At = "dead" => At' = "dead"
    BY <1>1, <2>1, <2>2, ThreadsAssumption DEF At
  <2>9. OneThread(s)'
    BY <2>6, <2>7, <2>8 DEF Owner, OneThread
  <2> QED BY <2>3, <2>5, <2>9 DEF Owner
<1>2. CASE Notify(pc)
  BY <1>1, <1>2 DEF PcType
<1>3. CASE pc[s] = "notify" /\ Notify([pc EXCEPT ![s] = "unpause"])
  BY <1>1, <1>3 DEF PcType, Calling
<1> QED BY <1>2, <1>3

\* Whatever slips away has slipped away for good.
LEMMA ThreadSteps ==
    ASSUME NEW t \in Threads, PlayThread(t), ~Crash(t), ~UseFreed(t)
    PROVE  /\ pc[t] # "dead" /\ UNCHANGED th /\ slipped \subseteq slipped'
           /\ \E step \in Threading \ {"crashed"} : Goto(t, step)
<1> USE DEF Threading, flags, calls, commanded
<1>1. CASE Run(t)
  BY <1>1 DEF Run
<1>2. CASE Test(t)
  BY <1>2 DEF Test
<1>3. CASE Crash(t)
  BY <1>3
<1>4. CASE UseFreed(t)
  BY <1>4
<1>5. CASE Try(t)
  BY <1>5 DEF Try
<1>6. CASE TryNull(t)
  BY <1>6 DEF TryNull
<1>7. CASE initAudioMode(t)
  BY <1>7 DEF initAudioMode
<1>8. CASE InitFails(t)
  BY <1>8 DEF InitFails
<1>9. CASE Reset(t)
  BY <1>9 DEF Reset
<1>10. CASE Open(t)
  BY <1>10 DEF Open
<1>11. CASE OpenFails(t)
  BY <1>11 DEF OpenFails
<1>12. CASE Begin(t)
  BY <1>12 DEF Begin
<1>13. CASE PlayEnds(t)
  BY <1>13 DEF PlayEnds, Slip
<1>14. CASE PlayReturns(t)
  BY <1>14 DEF PlayReturns
<1>15. CASE Advance(t)
  BY <1>15 DEF Advance
<1>16. CASE SheetEnds(t)
  BY <1>16 DEF SheetEnds
<1>17. CASE Error(t)
  BY <1>17 DEF Error
<1>18. CASE Exit(t)
  BY <1>18 DEF Exit
<1>19. CASE Tell(t)
  BY <1>19 DEF Tell
<1>20. CASE Done(t)
  BY <1>20 DEF Done, Shutdown, Slip
<1>21. CASE ExtNew(t)
  BY <1>21 DEF ExtNew
<1>22. CASE Prepare(t)
  BY <1>22 DEF Prepare
<1>23. CASE PrepareFails(t)
  BY <1>23 DEF PrepareFails
<1>24. CASE Wait(t)
  BY <1>24 DEF Wait
<1>25. CASE Release(t)
  BY <1>25 DEF Release
<1>26. CASE Stuck(t)
  BY <1>26 DEF Stuck
<1>27. CASE Drained(t)
  BY <1>27 DEF Drained
<1> QED BY <1>1, <1>2, <1>3, <1>4, <1>5, <1>6, <1>7, <1>8, <1>9, <1>10, <1>11,
           <1>12, <1>13, <1>14, <1>15, <1>16, <1>17, <1>18, <1>19, <1>20, <1>21,
           <1>22, <1>23, <1>24, <1>25, <1>26, <1>27 DEF PlayThread

\* No pause or resume goes on with a command.
LEMMA ControlSteps ==
    ASSUME NEW c \in Clients, Controlling(c), ~ThrowUncaught(c)
    PROVE  /\ UNCHANGED th /\ slipped \subseteq slipped'
           /\ \E step \in Calling \ ({"crashed"} \cup StopSteps) : Goto(c, step)
<1> USE DEF Calling, StopSteps, flags, calls, commanded
<1>1. CASE Ask(c)
  BY <1>1 DEF Ask
<1>2. CASE Asked(c)
  BY <1>2 DEF Asked
<1>3. CASE NotHandled(c)
  BY <1>3 DEF NotHandled
<1>4. CASE Pause(c)
  BY <1>4 DEF Pause
<1>5. CASE PauseWhich(c)
  BY <1>5 DEF PauseWhich
<1>6. CASE PauseExt(c)
  BY <1>6 DEF PauseExt, Slip
<1>7. CASE PauseLook(c)
  BY <1>7 DEF PauseLook
<1>8. CASE PauseLock(c)
  BY <1>8 DEF PauseLock, Slip
<1>9. CASE PauseFlag(c)
  BY <1>9 DEF PauseFlag
<1>10. CASE Unwake(c)
  BY <1>10 DEF Unwake
<1>11. CASE Resume(c)
  BY <1>11 DEF Resume
<1>12. CASE ResumeWhich(c)
  BY <1>12 DEF ResumeWhich
<1>13. CASE ResumeExt(c)
  BY <1>13 DEF ResumeExt
<1>14. CASE ResumeLook(c)
  BY <1>14 DEF ResumeLook
<1>15. CASE ResumeState(c)
  BY <1>15 DEF ResumeState, Slip
<1>16. CASE ResumeFlag(c)
  BY <1>16 DEF ResumeFlag
<1>17. CASE Rewake(c)
  BY <1>17 DEF Rewake, Slip
<1>18. CASE Throw(c)
  BY <1>18 DEF Throw
<1>19. CASE ThrowUncaught(c)
  BY <1>19
<1>20. CASE Return(c)
  BY <1>20 DEF Return
<1>21. CASE CupPause(c)
  BY <1>21 DEF CupPause
<1>22. CASE CupResume(c)
  BY <1>22 DEF CupResume
<1> QED BY <1>1, <1>2, <1>3, <1>4, <1>5, <1>6, <1>7, <1>8, <1>9, <1>10, <1>11,
           <1>12, <1>13, <1>14, <1>15, <1>16, <1>17, <1>18, <1>19, <1>20, <1>21,
           <1>22 DEF Controlling

\* A command is s's own.
LEMMA CommandIsOf ==
    ASSUME NEW s \in Clients, Owner(s), NEW c \in Clients, Commanding(c)
    PROVE  c = s
BY DEF Owner, StopsAlone, StopSteps, Commanding, Stop, Halt, Which, audioStop, StopOut, StopNotifies, Unpause,
       Join, Forget, StopReturns, audioExit, init_playlist, add_to_playlist, Loaded,
           NoSuchTrack, play

\* The steps of a command: the join comes to its end with the thread dead, or it
\* has slipped away; from there on th is null until a thread is started.
LEMMA CommandOwner ==
    ASSUME PcType, DataType, NEW s \in Clients, Owner(s), NEW c \in Clients, Commanding(c)
    PROVE  Owner(s)'
<1> USE ThreadsAssumption
<1>1. c = s
  BY CommandIsOf
<1>2. ASSUME NEW step \in Calling \ {"crashed", "forget", "stopped", "add"}, Goto(s, step),
             UNCHANGED th, slipped \subseteq slipped'
      PROVE  Owner(s)'
  BY <1>2, CallOwner
<1>3. ASSUME NEW step \in {"forget", "stopped", "add"}, Goto(s, step), slipped \subseteq slipped',
             OneThread(s)'
      PROVE  Owner(s)'
  <2>1. \A x \in Threads \cup Clients : pc'[x] = IF x = s THEN step ELSE pc[x]
    BY <1>3 DEF Goto, PcType
  <2> QED BY <1>3, <2>1 DEF Owner, Crashed, StopsAlone
<1>4. CASE Stop(c)
  <2>1. CASE th # NoThread
    BY <1>1, <1>2, <1>4, <2>1 DEF Stop, Calling
  <2>2. CASE th = NoThread
    <3>1. Goto(s, "stopped") /\ UNCHANGED <<th, slipped>>
      BY <1>1, <1>4, <2>2 DEF Stop
    <3>2. OneThread(s)'
      BY <2>2, <3>1 DEF OneThread, Owner, Alive, PcType, Goto
    <3> QED BY <1>3, <3>1, <3>2
  <2> QED BY <2>1, <2>2
<1>5. CASE Join(c)
  <2>1. Goto(s, "forget") /\ UNCHANGED th /\ slipped \subseteq slipped'
    BY <1>1, <1>5 DEF Join, Slip, flags
  <2>2. "thread" \notin slipped' => th \notin Alive
    BY <1>5 DEF Join, Slip
  <2>3. \A t \in Threads : pc'[t] = pc[t]
    BY <2>1 DEF Goto, PcType
  <2>4. pc'[s] = "forget"
    BY <2>1 DEF Goto, PcType
  <2>5. OneThread(s)'
    BY <2>1, <2>2, <2>3, <2>4 DEF OneThread, Owner, Alive, At, Crashed
  <2> QED BY <1>3, <2>1, <2>5
<1>6. CASE Forget(c)
  <2>1. Goto(s, "stopped") /\ th' = NoThread /\ UNCHANGED slipped /\ pc[s] = "forget"
    BY <1>1, <1>6 DEF Forget
  <2>2. \A t \in Threads : pc'[t] = pc[t]
    BY <2>1 DEF Goto, PcType
  <2>3. pc'[s] = "stopped"
    BY <2>1 DEF Goto, PcType
  <2>4. OneThread(s)'
    BY <2>1, <2>2, <2>3 DEF OneThread, Owner, Alive, At
  <2> QED BY <1>3, <2>1, <2>4
<1>7. CASE init_playlist(c)
  <2>1. Goto(s, "add") /\ th' = NoThread /\ UNCHANGED slipped /\ pc[s] = "stopped"
    BY <1>1, <1>7 DEF init_playlist
  <2>2. \A t \in Threads : pc'[t] = pc[t]
    BY <2>1 DEF Goto, PcType
  <2>3. pc'[s] = "add"
    BY <2>1 DEF Goto, PcType
  <2>4. OneThread(s)'
    BY <2>1, <2>2, <2>3 DEF OneThread, Owner, Alive
  <2> QED BY <1>3, <2>1, <2>4
<1>8. CASE add_to_playlist(c)
  BY <1>8 DEF add_to_playlist, Owner, Crashed, StopsAlone, OneThread, Alive, At, flags
<1>9. ASSUME NEW t \in Threads, play(c, t) PROVE Owner(s)'
  <2>1. /\ pc' = [pc EXCEPT ![s] = "idle", ![t] = "new"] /\ th' = t /\ UNCHANGED slipped
        /\ pc[s] = "stopped" /\ pc[t] = "dead"
    BY <1>1, <1>9 DEF play
  <2>2. \A x \in Threads \cup Clients :
           pc'[x] = IF x = t THEN "new" ELSE IF x = s THEN "idle" ELSE pc[x]
    BY <2>1 DEF PcType
  <2>3. ~Crashed' /\ StopsAlone(s)'
    BY <2>2 DEF Owner, Crashed, StopsAlone, StopSteps
  <2>4. pc'[s] = "idle"
    BY <2>2
  <2>5. Alive' \subseteq Alive \cup {t}
    BY <2>2 DEF Alive
  <2>6. "thread" \notin slipped => Alive = {}
    BY <2>1 DEF Owner, OneThread, Alive
  <2>7. OneThread(s)'
    BY <2>1, <2>4, <2>5, <2>6 DEF OneThread
  <2> QED BY <2>3, <2>7 DEF Owner
<1>10. CASE StopNotifies(c)
  BY <1>1, <1>10, NotifyOwner DEF StopNotifies, flags
<1>11. CASE \/ Halt(c) \/ Which(c) \/ audioStop(c) \/ StopOut(c) \/ Unpause(c) \/ StopReturns(c)
            \/ audioExit(c) \/ Loaded(c) \/ NoSuchTrack(c)
  BY <1>1, <1>2, <1>11
     DEF Halt, Which, audioStop, StopOut, Unpause, StopReturns, audioExit, Loaded, NoSuchTrack, Shutdown, Slip,
         flags, Calling
<1> QED BY <1>4, <1>5, <1>6, <1>7, <1>8, <1>9, <1>10, <1>11 DEF Commanding

\* Every step of the playlist: it keeps Owner, or it ends the process.
LEMMA StepOwner ==
    ASSUME TypeOK, NEW s \in Clients, OnlyStops(s), Owner(s), Next, ~Dies
    PROVE  Owner(s)' /\ slipped \subseteq slipped'
<1>0. PcType /\ DataType
  BY DEF TypeOK, PcType, DataType
<1>1. ASSUME NEW t \in Threads, PlayThread(t) PROVE Owner(s)' /\ slipped \subseteq slipped'
  BY <1>0, <1>1, ThreadSteps, ThreadOwner, ThreadsAssumption DEF Dies
<1>2. ASSUME NEW c \in Clients, Commanding(c) PROVE Owner(s)' /\ slipped \subseteq slipped'
  <2>1. slipped \subseteq slipped'
    BY <1>2 DEF Commanding, Stop, Halt, Which, audioStop, StopOut, StopNotifies, Unpause, Join, Forget, StopReturns,
       audioExit, init_playlist, add_to_playlist, Loaded, NoSuchTrack, play,
       Shutdown, Slip
  <2> QED BY <1>0, <1>2, <2>1, CommandOwner
<1>3. ASSUME NEW c \in Clients, Controlling(c) PROVE Owner(s)' /\ slipped \subseteq slipped'
  <2>1. PICK step \in Calling \ ({"crashed"} \cup StopSteps) : Goto(c, step)
    BY <1>3, ControlSteps DEF Dies
  <2>2. step \notin {"forget", "stopped", "add"}
    BY DEF StopSteps
  <2> QED BY <1>0, <1>3, <2>1, <2>2, ControlSteps, CallOwner, ThreadsAssumption DEF Dies
<1>4. ASSUME NEW c \in Clients, Command(c) PROVE Owner(s)' /\ slipped \subseteq slipped'
  <2>1. PICK what \in Stopping : Call(c, what, "stop")
    BY <1>4 DEF Command
  <2>2. c = s
    BY <2>1, ChoicesAssumption DEF Call, OnlyStops
  <2>3. UNCHANGED <<th, slipped>>
    BY <1>4 DEF Command, flags
  <2> QED BY <1>0, <2>1, <2>2, <2>3, CallOwner, ThreadsAssumption DEF Call, Calling
<1>5. ASSUME NEW c \in Clients, Control(c) PROVE Owner(s)' /\ slipped \subseteq slipped'
  <2>1. PICK step \in {"pause", "resume", "ask"} : Goto(c, step)
    BY <1>5 DEF Control, Call
  <2>2. UNCHANGED <<th, slipped>>
    BY <1>5 DEF Control, flags
  <2> QED BY <1>0, <2>1, <2>2, CallOwner, ThreadsAssumption DEF Calling, StopSteps
<1>6. CASE Callbacks
  <2>1. th' = th /\ slipped \subseteq slipped'
    BY <1>6 DEF Callbacks, onPrepared, onPreparedStarts, onPreparedThrows, onCompletion, onError,
        TimerFires, TimerTells, TimerAgain, TimerThrows, Slip, flags
  <2>2. CASE UNCHANGED pc
    BY <2>1, <2>2 DEF Owner, Crashed, StopsAlone, OneThread, Alive, At
  <2>3. CASE Notify(pc) /\ slipped' = slipped
    BY <1>0, <2>1, <2>3, NotifyOwner, ThreadsAssumption
  <2> QED BY <1>6, <2>1, <2>2, <2>3
          DEF Dies, Callbacks, onPrepared, onPreparedStarts, onCompletion, onError, TimerFires,
              TimerTells, TimerAgain
<1> QED BY <1>1, <1>2, <1>3, <1>4, <1>5, <1>6 DEF Next

---------------------------------------------------------------------------
\* The invariant, and what follows from it.

\* Every step keeps what the fields say, while nothing slips away.
LEMMA StepCalm ==
    ASSUME TypeOK, NEW s \in Clients, Owner(s), CalmInv, Next, ~Dies, slipped = {}, slipped' = {}
    PROVE  CalmInv'
<1>0. PcType /\ DataType
  BY DEF TypeOK, PcType, DataType
<1>1. Alive \subseteq {th}
  BY DEF Owner, OneThread
<1>2. ASSUME NEW t \in Threads, PlayThread(t) PROVE CalmInv'
  BY <1>0, <1>1, <1>2, ThreadContext, ThreadPos, ThreadTold DEF Dies, CalmInv
<1>3. ASSUME NEW c \in Clients, Commanding(c) PROVE CalmInv'
  <2>1. c = s
    BY <1>3, CommandIsOf
  <2>2. pc[c] = "forget" => At = "dead"
    BY <2>1 DEF Owner, OneThread
  <2>3. pc[c] \in {"stopped", "add"} => At = "dead"
    BY <2>1, ThreadsAssumption DEF Owner, OneThread, At
  <2> QED BY <1>0, <1>3, <2>2, <2>3, CommandCalm
<1>4. ASSUME NEW c \in Clients, Controlling(c) PROVE CalmInv'
  BY <1>0, <1>4, ControlCalm DEF Dies
<1>5. ASSUME NEW c \in Clients, Command(c) \/ Control(c) PROVE CalmInv'
  BY <1>0, <1>5, BeginCalm
<1>6. CASE Callbacks
  BY <1>0, <1>6, CallbackCalm DEF Dies
<1> QED BY <1>2, <1>3, <1>4, <1>5, <1>6 DEF Next

\* A process that has ended does nothing more.
LEMMA EndedStays == ASSUME NEW s \in Clients, Ended, [Next]_vars PROVE Ended'
<1>1. ~\E t \in Threads : PlayThread(t)
  BY DEF Ended, PlayThread, Run, Test, Crash, UseFreed, Try, TryNull, initAudioMode, InitFails,
      Reset, Open,
       OpenFails, Begin, PlayEnds, PlayReturns, Stuck, Drained, Advance, SheetEnds, Error, Exit,
       Tell, Done, ExtNew, Prepare, PrepareFails, Wait, Release
<1>2. ~\E c \in Clients : Commanding(c)
  BY DEF Ended, Commanding, Stop, Halt, Which, audioStop, StopOut, StopNotifies, Unpause, Join, Forget, StopReturns,
       audioExit, init_playlist, add_to_playlist, Loaded, NoSuchTrack, play
<1>3. ~\E c \in Clients : Controlling(c)
  BY DEF Ended, Controlling, Ask, Asked, NotHandled, Pause, PauseWhich, PauseExt, PauseLook,
      PauseLock,
       PauseFlag, Unwake, CupPause, CupResume, Resume, ResumeWhich, ResumeExt, ResumeLook, ResumeState,
       ResumeFlag, Rewake, Throw, ThrowUncaught, Return
<1>4. ~\E c \in Clients : Command(c) \/ Control(c)
  BY DEF Ended, Command, Control, Call
<1>5. ~Callbacks
  BY DEF Ended, Callbacks, onPrepared, onPreparedStarts, onPreparedThrows, onCompletion, onError,
       TimerFires, TimerTells, TimerAgain, TimerThrows
<1>6. UNCHANGED <<pc, timer, mplayer, preparing>>
  BY <1>1, <1>2, <1>3, <1>4, <1>5 DEF Next, vars, updater, calls
<1> QED BY <1>6 DEF Ended

\* What ends the process leaves nothing to move.
LEMMA DiesEnds == ASSUME Dies PROVE Ended' /\ Die
BY DEF Dies, Crash, UseFreed, ThrowUncaught, TimerThrows, onPreparedThrows, Die, Ended

\* OwnInv is inductive.
LEMMA StepOwn ==
    ASSUME NEW s \in Clients, OnlyStops(s), OwnInv(s), [Next]_vars
    PROVE  OwnInv(s)'
<1>1. TypeOK'
  BY StepType DEF OwnInv
<1>2. CASE Ended
  BY <1>1, <1>2, EndedStays DEF OwnInv
<1>3. CASE ~Ended /\ Dies
  BY <1>1, <1>3, DiesEnds DEF OwnInv
<1>4. CASE ~Ended /\ ~Dies /\ Next
  <2>1. TypeOK /\ Owner(s) /\ Calm
    BY <1>4 DEF OwnInv
  <2>2. Owner(s)' /\ slipped \subseteq slipped'
    BY <1>4, <2>1, StepOwner
  <2>3. Calm'
    BY <1>4, <2>1, <2>2, StepCalm DEF Calm
  <2> QED BY <1>1, <2>2, <2>3 DEF OwnInv
<1>5. CASE UNCHANGED vars
  <2>1. UNCHANGED <<native, mplayer, list, updater, cur_pos, flags, seen, pc, own, calls, slipped>>
    BY <1>5 DEF vars
  <2>2. At' = At /\ Alive' = Alive
    BY <2>1 DEF At, Alive, flags
  <2>3. Ended' = Ended /\ Owner(s)' = Owner(s)
    BY <2>1, <2>2 DEF Ended, updater, calls, Owner, Crashed, StopsAlone, OneThread, flags
  <2>4. CalmInv' = CalmInv
    BY <2>1, <2>2 DEF CalmInv, ContextInv, FlagsInv, UpdaterInv, PosInv, ToldInv,
       native, list, updater, flags, seen, own
  <2>5. Calm' = Calm
    BY <2>1, <2>4 DEF Calm
  <2> QED BY <1>1, <2>3, <2>5 DEF OwnInv
<1> QED BY <1>2, <1>3, <1>4, <1>5

\* It holds at first, and so always.
LEMMA InitOwn == ASSUME NEW s \in Clients, Init PROVE OwnInv(s)
<1>1. At = "dead" /\ Alive = {}
  BY ThreadsAssumption DEF Init, At, Alive
<1>2. ~Crashed /\ StopsAlone(s) /\ pc[s] = "idle"
  BY ThreadsAssumption DEF Init, Crashed, StopsAlone, StopSteps
<1>3. Owner(s)
  BY <1>1, <1>2 DEF Owner, OneThread
<1>4. CalmInv
  BY <1>1 DEF Init, CalmInv, ContextInv, FlagsInv, UpdaterInv, PosInv, ToldInv, Inside, Outside,
      Ahead
<1> QED BY <1>3, <1>4, InitType DEF OwnInv, Calm, TypeOK, PcType, DataType

LEMMA SpecOwn == ASSUME NEW s \in Clients, OnlyStops(s) PROVE Spec => []OwnInv(s)
<1>1. Init => OwnInv(s)
  BY InitOwn
<1>2. OwnInv(s) /\ [Next]_vars => OwnInv(s)'
  BY StepOwn
<1> QED BY <1>1, <1>2, PTL DEF Spec

\* With one client that stops, and any that pause: while no stop() has given up its
\* join, no thread lives but the one th points at.
THEOREM PlaylistOwned == ASSUME NEW s \in Clients, OnlyStops(s) PROVE Spec => []Owned
<1>1. OwnInv(s) => Owned
  BY DEF OwnInv, Ended, Owner, OneThread, Owned, Alive
<1> QED BY <1>1, SpecOwn, PTL

\* While nothing slips away, a track that is decoded is the one the client was told of.
THEOREM PlaylistShown == ASSUME NEW s \in Clients, OnlyStops(s) PROVE Spec => []ShownIsPlayed
<1>1. OwnInv(s) => ShownIsPlayed
  <2> SUFFICES ASSUME OwnInv(s), NEW t \in Threads, slipped = {}, pc[t] \in {"play", "drain"},
                      timer # "fired"
               PROVE  told = cur_pos
    BY DEF ShownIsPlayed
  <2>1. Owner(s) /\ CalmInv
    BY DEF OwnInv, Ended, Calm
  <2>2. At = pc[t]
    BY <2>1 DEF Owner, OneThread, Alive, At
  <2> QED BY <2>1, <2>2 DEF CalmInv, ToldInv, Inside
<1> QED BY <1>1, SpecOwn, PTL

\* After a stop() there is silence: no output, no timer, no wake lock, and the client
\* has been told.
THEOREM PlaylistSilent == ASSUME NEW s \in Clients, OnlyStops(s) PROVE Spec => []StopIsSilent
<1>1. OwnInv(s) => StopIsSilent
  <2> SUFFICES ASSUME OwnInv(s), AtRest, th = NoThread, slipped = {}
               PROVE  /\ state \in {"none", "STOPPED"} /\ mplayer = "none"
                      /\ ~running /\ ~wakeLock /\ timer = "off"
                      /\ told = NoTrack
    BY DEF StopIsSilent
  <2>1. CalmInv /\ TypeOK
    BY DEF OwnInv, Ended, Calm, AtRest
  <2>2. At = "dead"
    BY ThreadsAssumption DEF At
  <2> QED BY <2>1, <2>2 DEF CalmInv, ContextInv, FlagsInv, UpdaterInv, ToldInv, TypeOK
<1> QED BY <1>1, SpecOwn, PTL

\* What moves a thread that is about to take up a track.
LEMMA TryIsMine ==
    ASSUME TypeOK, NEW s \in Clients, Owner(s), "thread" \notin slipped, Next, ~Dies,
           NEW t \in Threads, pc[t] = "try", pc'[t] # "try"
    PROVE  Try(t) \/ TryNull(t)
<1>0. PcType /\ DataType
  BY DEF TypeOK, PcType, DataType
<1>1. th = t /\ pc[s] \notin {"forget", "stopped", "add"}
  BY ThreadsAssumption DEF Owner, OneThread, Alive, At
<1>2. ASSUME NEW x \in Threads \cup Clients, NEW step, Goto(x, step) PROVE x = t
  BY <1>0, <1>2 DEF Goto, PcType
<1>3. ASSUME NEW p, p[t] = "try", Notify(p),
    p \in [Threads \cup Clients -> Threading \cup Calling] PROVE FALSE
  <2>1. CASE Waiting = {}
    BY <1>3, <2>1 DEF Notify
  <2>2. CASE Waiting # {}
    BY <1>3, <2>2 DEF Notify, Waiting
  <2> QED BY <2>1, <2>2
<1>4. ASSUME NEW u \in Threads, PlayThread(u) PROVE u = t
  BY <1>2, <1>4, ThreadSteps DEF Dies
<1>5. ASSUME NEW c \in Clients, Commanding(c) PROVE FALSE
  <2>1. c = s
    BY <1>5, CommandIsOf
  <2>2. c # t
    BY ThreadsAssumption
  <2>3. ASSUME NEW step, Goto(c, step) PROVE FALSE
    BY <1>2, <2>2, <2>3
  <2>4. ~StopNotifies(c)
    <3>1. [pc EXCEPT ![c] = "unpause"] \in [Threads \cup Clients -> Threading \cup Calling]
      BY <1>0 DEF PcType, Calling
    <3>2. [pc EXCEPT ![c] = "unpause"][t] = "try"
      BY <1>0, <2>2 DEF PcType
    <3> QED BY <1>3, <3>1, <3>2 DEF StopNotifies
  <2> QED BY <1>1, <1>5, <2>1, <2>3, <2>4
      DEF Commanding, Stop, Halt, Which, audioStop, StopOut, Unpause, Join, Forget, StopReturns,
       audioExit, init_playlist, add_to_playlist, Loaded, NoSuchTrack, play
<1>6. ASSUME NEW c \in Clients, Controlling(c) PROVE FALSE
  BY <1>2, <1>6, ControlSteps, ThreadsAssumption DEF Dies
<1>7. ASSUME NEW c \in Clients, Command(c) \/ Control(c) PROVE FALSE
  BY <1>2, <1>7, ThreadsAssumption DEF Command, Control, Call
<1>8. ASSUME Callbacks PROVE FALSE
  BY <1>0, <1>3, <1>8 DEF PcType, Dies, Callbacks, onPrepared, onPreparedStarts, onCompletion,
      onError, TimerFires, TimerTells, TimerAgain, seen
<1>9. PlayThread(t)
  BY <1>4, <1>5, <1>6, <1>7, <1>8 DEF Next
<1> QED BY <1>9 DEF Dies, PlayThread, Run, Test, Crash, UseFreed, initAudioMode, InitFails,
    Reset, Open, OpenFails,
       Begin, PlayEnds, PlayReturns, Stuck, Drained, Advance, SheetEnds, Error, Exit, Tell, Done,
       ExtNew, Prepare, PrepareFails, Wait, Release

\* The tracks are taken up one after another from the one that was asked for.
THEOREM PlaylistInOrder == ASSUME NEW s \in Clients, OnlyStops(s) PROVE Spec => InOrder
<1> DEFINE Order == \A t \in Threads :
       slipped = {} /\ pc[t] = "try" /\ pc'[t] \notin {"try", "crashed"} => track'[t] = track[t] + 1
<1>1. OwnInv(s) /\ [Next]_vars => [Order]_vars
  <2> SUFFICES ASSUME OwnInv(s), Next, NEW t \in Threads,
                      slipped = {}, pc[t] = "try", pc'[t] \notin {"try", "crashed"}
               PROVE  track'[t] = track[t] + 1
    OBVIOUS
  <2>1. TypeOK /\ Owner(s) /\ CalmInv
    BY DEF OwnInv, Ended, Calm
  <2>2. th = t /\ At = "try"
    BY <2>1 DEF Owner, OneThread, Alive, At
  <2>3. cur_pos = track[t] + 1
    BY <2>1, <2>2 DEF CalmInv, PosInv, Ahead
  <2>4. ~Dies
    BY DiesEnds DEF Ended
  <2>5. Try(t) \/ TryNull(t)
    BY <2>1, <2>4, TryIsMine
  <2> QED BY <2>1, <2>3, <2>5 DEF Try, TryNull, TypeOK
<1> QED BY <1>1, SpecOwn, PTL DEF Spec, InOrder

\* Neither a thread nor, in a list with all its tracks, the timer ends the process.
THEOREM PlaylistSurvives == ASSUME NEW s \in Clients, OnlyStops(s) PROVE Spec => ThreadsSurvive
<1> DEFINE Survives == ~Crashed /\ Crashed' /\ slipped = {} =>
       \/ \E c \in Clients : pc[c] = "thrown"
       \/ "running" \in preparing /\ mplayer \in {"none", "idle"}
       \/ timer = "shown" /\ filled < Len
<1>1. OwnInv(s) /\ [Next]_vars => [Survives]_vars
  <2> SUFFICES ASSUME OwnInv(s), Next, ~Crashed, Crashed', slipped = {}
               PROVE  \/ \E c \in Clients : pc[c] = "thrown"
                      \/ "running" \in preparing /\ mplayer \in {"none", "idle"}
                      \/ timer = "shown" /\ filled < Len
    OBVIOUS
  <2>1. TypeOK /\ Owner(s) /\ CalmInv
    BY DEF OwnInv, Ended, Calm, Crashed
  <2>2. Dies
    BY <2>1, StepOwner DEF Owner
  <2>3. ASSUME NEW t \in Threads, pc[t] \in {"try", "begin", "lock", "play", "drain"}
        PROVE  At = pc[t]
    BY <2>1, <2>3 DEF Owner, OneThread, Alive, At
  <2>4. ASSUME NEW t \in Threads PROVE ~Crash(t)
    BY <2>1, <2>3, BoundsAssumption DEF Crash, CalmInv, PosInv, Ahead, Tracks, TypeOK
  <2>5. ASSUME NEW t \in Threads PROVE ~UseFreed(t)
    BY <2>1, <2>3 DEF UseFreed, CalmInv, ContextInv
  <2>6. CASE \E c \in Clients : ThrowUncaught(c)
    BY <2>6 DEF ThrowUncaught
  <2>7. CASE TimerThrows
    BY <2>1, <2>7, BoundsAssumption DEF TimerThrows, CalmInv, UpdaterInv, TypeOK
  <2>8. CASE onPreparedThrows
    BY <2>8 DEF onPreparedThrows
  <2> QED BY <2>2, <2>4, <2>5, <2>6, <2>7, <2>8 DEF Dies
<1> QED BY <1>1, SpecOwn, PTL DEF Spec, ThreadsSurvive

---------------------------------------------------------------------------
\* With one client: whether the output is paused.

\* The thread and the callbacks pause nothing, and what is paused stays so until
\* stop() has woken the thread.
LEMMA ThreadPauses ==
    ASSUME PcType, DataType, CalmInv, Alive \subseteq {th}, slipped' = {},
           NEW t \in Threads, PlayThread(t), ~Crash(t), ~UseFreed(t)
    PROVE  /\ paused' = paused /\ kept' = kept
           /\ mplayer' = "paused" => mplayer = "paused"
           /\ mplayer = "paused" => mplayer' = "paused" \/ At \notin {"wait", "waiting"}
           /\ mplayer' \in {"prepared", "started", "paused"} =>
                 \/ mplayer' = mplayer /\ (At \in {"wait", "waiting"} => At' = "waiting")
                 \/ At' = "wait"
<1> USE DEF CalmInv, ContextInv, DataType, native, list, updater, flags, seen, own, calls, commanded
<1>1. CASE Run(t)
  <2>1. At = "new" /\ At' = "test"
    BY <1>1, ThreadAt DEF Run
  <2> QED BY <1>1, <2>1 DEF Run
<1>2. CASE Test(t)
  <2>1. At = "test" /\ At' = IF running /\ cur_pos < Len THEN "try" ELSE "exit"
    BY <1>2, ThreadAt DEF Test
  <2> QED BY <1>2, <2>1 DEF Test
<1>3. CASE Crash(t)
  BY <1>3
<1>4. CASE UseFreed(t)
  BY <1>4
<1>5. CASE Try(t)
  <2>1. At = "try" /\ At' = IF files[cur_pos] = "ext" THEN "initExt" ELSE "init"
    BY <1>5, ThreadAt DEF Try
  <2> QED BY <1>5, <2>1 DEF Try
<1>6. CASE TryNull(t)
  <2>1. At = "try" /\ At' = "test"
    BY <1>6, ThreadAt DEF TryNull
  <2> QED BY <1>6, <2>1 DEF TryNull
<1>7. CASE initAudioMode(t)
  <2>1. At \in {"init", "initExt"} /\ At' = IF At = "init" THEN "reset" ELSE "resetExt"
    BY <1>7, ThreadAt DEF initAudioMode
  <2> QED BY <1>7, <2>1 DEF initAudioMode, AudioStop
<1>8. CASE InitFails(t)
  <2>1. At \in {"init", "initExt"} /\ At' = "back"
    BY <1>8, ThreadAt DEF InitFails
  <2> QED BY <1>8, <2>1 DEF InitFails
<1>9. CASE Reset(t)
  <2>1. At \in {"reset", "resetExt"} /\ At' = IF At = "reset" THEN "begin" ELSE "ext"
    BY <1>9, ThreadAt DEF Reset
  <2> QED BY <1>9, <2>1 DEF Reset
<1>10. CASE Open(t)
  <2>1. At = "begin" /\ At' = "lock"
    BY <1>10, ThreadAt DEF Open
  <2> QED BY <1>10, <2>1 DEF Open, AudioStop
<1>11. CASE OpenFails(t)
  <2>1. At = "lock" /\ At' \in {"initExt", "back"}
    BY <1>11, ThreadAt DEF OpenFails
  <2> QED BY <1>11, <2>1 DEF OpenFails
<1>12. CASE Begin(t)
  <2>1. At = "lock" /\ At' = "play"
    BY <1>12, ThreadAt DEF Begin
  <2> QED BY <1>12, <2>1 DEF Begin
<1>13. CASE PlayEnds(t)
  <2>1. At = "play" /\ At' = "drain"
    BY <1>13, ThreadAt DEF PlayEnds
  <2> QED BY <1>13, <2>1 DEF PlayEnds, AudioStop, Slip
<1>14. CASE PlayReturns(t)
  <2>1. (At = "drain" \/ (At = "play" /\ state = "STOPPED")) /\ At' = "back"
    BY <1>14, ThreadAt DEF PlayReturns
  <2> QED BY <1>14, <2>1 DEF PlayReturns
<1>15. CASE Advance(t)
  <2>1. At = "back" /\ At' = "test"
    BY <1>15, ThreadAt DEF Advance
  <2> QED BY <1>15, <2>1 DEF Advance
<1>16. CASE SheetEnds(t)
  <2>1. At = "back" /\ At' = "exit"
    BY <1>16, ThreadAt DEF SheetEnds
  <2> QED BY <1>16, <2>1 DEF SheetEnds
<1>17. CASE Error(t)
  <2>1. At = "back" /\ At' = "exit"
    BY <1>17, ThreadAt DEF Error
  <2> QED BY <1>17, <2>1 DEF Error
<1>18. CASE Exit(t)
  <2>1. At = "exit" /\ At' = IF k[th] = "ok" THEN "tell" ELSE "done"
    BY <1>18, ThreadAt DEF Exit
  <2> QED BY <1>18, <2>1 DEF Exit
<1>19. CASE Tell(t)
  <2>1. At = "tell" /\ At' = "done"
    BY <1>19, ThreadAt DEF Tell
  <2> QED BY <1>19, <2>1 DEF Tell
<1>20. CASE Done(t)
  <2>1. At = "done" /\ At' = "dead"
    BY <1>20, ThreadAt DEF Done
  <2> QED BY <1>20, <2>1 DEF Done
<1>21. CASE ExtNew(t)
  <2>1. At = "ext" /\ At' = IF mplayer \in {"none", "idle"} THEN "prepare" ELSE "failed"
    BY <1>21, ThreadAt DEF ExtNew
  <2> QED BY <1>21, <2>1 DEF ExtNew
<1>22. CASE Prepare(t)
  <2>1. At = "prepare" /\ At' = "wait"
    BY <1>22, ThreadAt DEF Prepare
  <2> QED BY <1>22, <2>1 DEF Prepare
<1>23. CASE PrepareFails(t)
  <2>1. At = "prepare" /\ At' = "failed"
    BY <1>23, ThreadAt DEF PrepareFails
  <2> QED BY <1>23, <2>1 DEF PrepareFails
<1>24. CASE Wait(t)
  <2>1. At = "wait" /\ At' = "waiting"
    BY <1>24, ThreadAt DEF Wait
  <2> QED BY <1>24, <2>1 DEF Wait
<1>25. CASE Release(t)
  <2>1. At \in {"woken", "failed"} /\ At' = "back"
    BY <1>25, ThreadAt DEF Release
  <2> QED BY <1>25, <2>1 DEF Release
<1>26. CASE Stuck(t)
  <2>1. At = "drain" /\ At' = "stuck"
    BY <1>26, ThreadAt DEF Stuck
  <2> QED BY <1>26, <2>1 DEF Stuck
<1>27. CASE Drained(t)
  <2>1. th = t /\ At = "stuck" /\ At' = "back"
    BY <1>27, ThreadAt DEF Drained
  <2> QED BY <1>27, <2>1 DEF Drained
<1> QED BY <1>1, <1>2, <1>3, <1>4, <1>5, <1>6, <1>7, <1>8, <1>9, <1>10, <1>11,
           <1>12, <1>13, <1>14, <1>15, <1>16, <1>17, <1>18, <1>19, <1>20, <1>21,
           <1>22, <1>23, <1>24, <1>25, <1>26, <1>27 DEF PlayThread

\* Nor do the callbacks pause anything.
LEMMA CallbackPauses ==
    ASSUME Callbacks, ~TimerThrows, ~onPreparedThrows, slipped' = {}, PcType, DataType
    PROVE  /\ paused' = paused /\ kept' = kept /\ (mplayer' = "paused" <=> mplayer = "paused")
           /\ \/ mplayer' \notin {"prepared", "started", "paused"}
              \/ At' = At /\ (mplayer' # mplayer => mplayer \in {"prepared", "started"})
<1> USE DEF native, flags, calls, commanded, own, At
<1>1. CASE onPrepared
  BY <1>1 DEF onPrepared
<1>2. CASE onCompletion
  BY <1>2 DEF onCompletion
<1>3. CASE onError
  BY <1>3 DEF onError
<1>4. CASE TimerFires
  BY <1>4 DEF TimerFires
<1>5. CASE TimerAgain
  BY <1>5 DEF TimerAgain
<1>6. CASE TimerThrows
  BY <1>6
<1>7. CASE TimerTells
  BY <1>7 DEF TimerTells
<1>8. CASE onPreparedStarts
  BY <1>8 DEF onPreparedStarts, Slip, DataType
<1>9. CASE onPreparedThrows
  BY <1>9
<1> QED BY <1>1, <1>2, <1>3, <1>4, <1>5, <1>6, <1>7, <1>8, <1>9 DEF Callbacks

\* A call goes from what it has found to what it does about it.
LEMMA CommandPauses ==
    ASSUME PcType, DataType, NEW s \in Clients, Owner(s), CalmInv, CalmInv', CallInv(s), WaitInv(s),
           slipped = {}, slipped' = {}, Commanding(s)
    PROVE  CallInv(s)' /\ WaitInv(s)'
<1> USE ThreadsAssumption DEF CallInv, WaitInv, Out, CalmInv, ContextInv, DataType, native,
    list, updater, flags, seen, own, calls, commanded
<1>0. ASSUME NEW step, Goto(s, step) PROVE pc'[s] = step
  BY <1>0 DEF Goto, PcType
<1>1. CASE Stop(s)
  <2>1. At' = At
    BY <1>1, CallAt DEF Stop
  <2>2. pc'[s] = IF th = NoThread THEN "stopped" ELSE "halt"
    BY <1>0, <1>1 DEF Stop
  <2>3. th = NoThread => At = "dead"
    BY DEF At
  <2> QED BY <1>1, <2>1, <2>2, <2>3 DEF Stop
<1>2. CASE Halt(s)
  <2>1. At' = At
    BY <1>2, CallAt DEF Halt
  <2>2. pc'[s] = "which"
    BY <1>0, <1>2 DEF Halt
  <2> QED BY <1>2, <2>1, <2>2 DEF Halt
<1>15. CASE Which(s)
  <2>1. At' = At
    BY <1>15, CallAt DEF Which
  <2>2. pc'[s] = IF mplayer = "none" THEN "audioStop" ELSE "notify"
    BY <1>0, <1>15 DEF Which
  <2> QED BY <1>15, <2>1, <2>2 DEF Which
<1>3. CASE audioStop(s)
  <2>1. At' = At
    BY <1>3, CallAt DEF audioStop
  <2>2. pc'[s] = CASE state = "PLAYING" -> "stopLock" [] state = "PAUSED" -> "stopKept"
                   [] OTHER -> "unpause"
    BY <1>0, <1>3 DEF audioStop
  <2> QED BY <1>3, <2>1, <2>2 DEF audioStop
<1>16. CASE StopOut(s)
  <2>1. At' = At
    BY <1>16, CallAt DEF StopOut
  <2>2. pc'[s] = "unpause"
    BY <1>0, <1>16 DEF StopOut
  <2> QED BY <1>16, <2>1, <2>2 DEF StopOut
<1>4. CASE StopNotifies(s)
  <2>1. pc'[s] = "unpause"
    BY <1>4 DEF StopNotifies, Notify, Waiting, PcType
  <2> QED BY <1>4, <2>1 DEF StopNotifies
<1>5. CASE Unpause(s)
  <2>1. At' = At
    BY <1>5, CallAt DEF Unpause
  <2>2. pc'[s] = "join"
    BY <1>0, <1>5 DEF Unpause
  <2> QED BY <1>5, <2>1, <2>2 DEF Unpause
<1>6. CASE Join(s)
  <2>1. At' = At
    BY <1>6, CallAt DEF Join
  <2>2. pc'[s] = "forget"
    BY <1>0, <1>6 DEF Join
  <2> QED BY <1>6, <2>1, <2>2 DEF Join
<1>7. CASE Forget(s)
  <2>1. At' = "dead"
    BY <1>7 DEF Forget, At
  <2>2. pc'[s] = "stopped"
    BY <1>0, <1>7 DEF Forget
  <2> QED BY <1>7, <2>1, <2>2 DEF Forget
<1>8. CASE StopReturns(s)
  <2>1. At' = At
    BY <1>8, CallAt DEF StopReturns
  <2>2. pc'[s] = "idle"
    BY <1>0, <1>8 DEF StopReturns
  <2>3. At = "dead"
    BY <1>8 DEF StopReturns, At, Owner, OneThread
  <2> QED BY <1>8, <2>1, <2>2, <2>3 DEF StopReturns
<1>9. CASE audioExit(s)
  <2>1. At' = At
    BY <1>9, CallAt DEF audioExit
  <2>2. pc'[s] = "idle"
    BY <1>0, <1>9 DEF audioExit
  <2>3. At = "dead"
    BY <1>9 DEF audioExit, At, Owner, OneThread
  <2> QED BY <1>9, <2>1, <2>2, <2>3 DEF audioExit
<1>10. CASE init_playlist(s)
  <2>1. At' = "dead"
    BY <1>10 DEF init_playlist, At
  <2>2. pc'[s] = "add"
    BY <1>0, <1>10 DEF init_playlist
  <2> QED BY <1>10, <2>1, <2>2 DEF init_playlist
<1>11. CASE add_to_playlist(s)
  <2>1. pc' = pc /\ At' = At
    BY <1>11 DEF add_to_playlist, At
  <2> QED BY <1>11, <2>1 DEF add_to_playlist
<1>12. CASE Loaded(s)
  <2>1. At' = At
    BY <1>12, CallAt DEF Loaded
  <2>2. pc'[s] = "idle"
    BY <1>0, <1>12 DEF Loaded
  <2>3. At = "dead"
    BY <1>12 DEF Loaded, At, Owner, OneThread
  <2> QED BY <1>12, <2>1, <2>2, <2>3 DEF Loaded
<1>13. CASE NoSuchTrack(s)
  <2>1. At' = At
    BY <1>13, CallAt DEF NoSuchTrack
  <2>2. pc'[s] = "idle"
    BY <1>0, <1>13 DEF NoSuchTrack
  <2>3. At = "dead"
    BY <1>13 DEF NoSuchTrack, At, Owner, OneThread
  <2> QED BY <1>13, <2>1, <2>2, <2>3 DEF NoSuchTrack
<1>14. ASSUME NEW t \in Threads, play(s, t) PROVE CallInv(s)' /\ WaitInv(s)'
  <2>1. pc'[s] = "idle" /\ At' = "new" /\ At = "dead"
    BY <1>14 DEF play, PcType, At, Owner, OneThread
  <2> QED BY <1>14, <2>1 DEF play
<1> QED BY <1>1, <1>2, <1>3, <1>4, <1>5, <1>6, <1>7, <1>8, <1>9, <1>10, <1>11,
           <1>12, <1>13, <1>14, <1>15, <1>16 DEF Commanding

\* A pause sets the flag and pauses what plays; a resume undoes both.
LEMMA ControlPauses ==
    ASSUME PcType, DataType, NEW s \in Clients, CalmInv, CalmInv', CallInv(s), WaitInv(s),
           slipped = {}, slipped' = {}, Controlling(s), ~ThrowUncaught(s)
    PROVE  CallInv(s)' /\ WaitInv(s)'
<1> USE ThreadsAssumption DEF CallInv, WaitInv, Out, CalmInv, ContextInv, DataType, native,
    list, updater, flags, seen, own, calls, commanded
<1>0. ASSUME NEW step, Goto(s, step) PROVE pc'[s] = step
  BY <1>0 DEF Goto, PcType
<1>1. CASE Ask(s)
  <2>1. At' = At
    BY <1>1, CallAt DEF Ask
  <2>2. pc'[s] = IF running THEN "asked" ELSE IF op[s] = "button" THEN "resume" ELSE "idle"
    BY <1>0, <1>1 DEF Ask
  <2> QED BY <1>1, <2>1, <2>2 DEF Ask
<1>2. CASE Asked(s)
  <2>1. At' = At
    BY <1>2, CallAt DEF Asked
  <2>2. pc'[s] = IF ~paused THEN "pause" ELSE IF op[s] = "button" THEN "resume" ELSE "idle"
    BY <1>0, <1>2 DEF Asked
  <2> QED BY <1>2, <2>1, <2>2 DEF Asked
<1>3. CASE NotHandled(s)
  <2>1. At' = At
    BY <1>3, CallAt DEF NotHandled
  <2>2. pc'[s] = "return"
    BY <1>0, <1>3 DEF NotHandled
  <2> QED BY <1>3, <2>1, <2>2 DEF NotHandled
<1>4. CASE Pause(s)
  <2>1. At' = At
    BY <1>4, CallAt DEF Pause
  <2>2. pc'[s] = IF filled = -1 \/ paused THEN "return" ELSE "pauseWhich"
    BY <1>0, <1>4 DEF Pause
  <2> QED BY <1>4, <2>1, <2>2 DEF Pause
<1>5. CASE PauseWhich(s)
  <2>1. At' = At
    BY <1>5, CallAt DEF PauseWhich
  <2>2. pc'[s] = IF mplayer # "none" THEN "pauseExt" ELSE "pauseLook"
    BY <1>0, <1>5 DEF PauseWhich
  <2> QED BY <1>5, <2>1, <2>2 DEF PauseWhich
<1>6. CASE PauseExt(s)
  <2>1. At' = At
    BY <1>6, CallAt DEF PauseExt
  <2>2. pc'[s] = "unwake"
    BY <1>0, <1>6 DEF PauseExt
  <2> QED BY <1>6, <2>1, <2>2 DEF PauseExt, Slip
<1>7. CASE PauseLook(s)
  <2>1. At' = At
    BY <1>7, CallAt DEF PauseLook
  <2>2. pc'[s] = IF state = "PLAYING" THEN "pauseLock" ELSE "unwake"
    BY <1>0, <1>7 DEF PauseLook
  <2> QED BY <1>7, <2>1, <2>2 DEF PauseLook
<1>8. CASE PauseLock(s)
  <2>1. At' = At
    BY <1>8, CallAt DEF PauseLock
  <2>2. pc'[s] = "pauseFlag"
    BY <1>0, <1>8 DEF PauseLock
  <2> QED BY <1>8, <2>1, <2>2 DEF PauseLock, Slip
<1>9. CASE PauseFlag(s)
  <2>1. At' = At
    BY <1>9, CallAt DEF PauseFlag
  <2>2. pc'[s] = "unwake"
    BY <1>0, <1>9 DEF PauseFlag
  <2> QED BY <1>9, <2>1, <2>2 DEF PauseFlag
<1>10. CASE Unwake(s)
  <2>1. At' = At
    BY <1>10, CallAt DEF Unwake
  <2>2. pc'[s] = IF cup THEN "cupPause" ELSE "return"
    BY <1>0, <1>10 DEF Unwake
  <2> QED BY <1>10, <2>1, <2>2 DEF Unwake
<1>11. CASE Resume(s)
  <2>1. At' = At
    BY <1>11, CallAt DEF Resume
  <2>2. pc'[s] = IF filled = -1 \/ ~paused THEN "return" ELSE "resumeWhich"
    BY <1>0, <1>11 DEF Resume
  <2> QED BY <1>11, <2>1, <2>2 DEF Resume
<1>12. CASE ResumeWhich(s)
  <2>1. At' = At
    BY <1>12, CallAt DEF ResumeWhich
  <2>2. pc'[s] = IF mplayer # "none" THEN "resumeExt" ELSE "resumeLook"
    BY <1>0, <1>12 DEF ResumeWhich
  <2> QED BY <1>12, <2>1, <2>2 DEF ResumeWhich
<1>13. CASE ResumeExt(s)
  <2>1. At' = At
    BY <1>13, CallAt DEF ResumeExt
  <2>2. pc'[s] = "rewake"
    BY <1>0, <1>13 DEF ResumeExt
  <2> QED BY <1>13, <2>1, <2>2 DEF ResumeExt
<1>14. CASE ResumeLook(s)
  <2>1. At' = At
    BY <1>14, CallAt DEF ResumeLook
  <2>2. pc'[s] = IF state = "PAUSED" THEN "resumeState" ELSE "rewake"
    BY <1>0, <1>14 DEF ResumeLook
  <2> QED BY <1>14, <2>1, <2>2 DEF ResumeLook
<1>15. CASE ResumeState(s)
  <2>1. At' = At
    BY <1>15, CallAt DEF ResumeState
  <2>2. pc'[s] = "resumeFlag"
    BY <1>0, <1>15 DEF ResumeState
  <2> QED BY <1>15, <2>1, <2>2 DEF ResumeState, Slip
<1>16. CASE ResumeFlag(s)
  <2>1. At' = At
    BY <1>16, CallAt DEF ResumeFlag
  <2>2. pc'[s] = "rewake"
    BY <1>0, <1>16 DEF ResumeFlag
  <2> QED BY <1>16, <2>1, <2>2 DEF ResumeFlag
<1>17. CASE Rewake(s)
  <2>1. At' = At
    BY <1>17, CallAt DEF Rewake
  <2>2. pc'[s] = IF cup THEN "cupResume" ELSE "return"
    BY <1>0, <1>17 DEF Rewake
  <2> QED BY <1>17, <2>1, <2>2 DEF Rewake, Slip
<1>18. CASE Throw(s)
  <2>1. At' = At
    BY <1>18, CallAt DEF Throw
  <2>2. pc'[s] = "idle"
    BY <1>0, <1>18 DEF Throw
  <2> QED BY <1>18, <2>1, <2>2 DEF Throw
<1>19. CASE ThrowUncaught(s)
  BY <1>19
<1>20. CASE Return(s)
  <2>1. At' = At
    BY <1>20, CallAt DEF Return
  <2>2. pc'[s] = "idle"
    BY <1>0, <1>20 DEF Return
  <2> QED BY <1>20, <2>1, <2>2 DEF Return
<1>21. CASE CupPause(s)
  <2>1. At' = At
    BY <1>21, CallAt DEF CupPause
  <2>2. pc'[s] \in {"return", "thrown"}
    BY <1>0, <1>21 DEF CupPause
  <2> QED BY <1>21, <2>1, <2>2 DEF CupPause
<1>22. CASE CupResume(s)
  <2>1. At' = At
    BY <1>22, CallAt DEF CupResume
  <2>2. pc'[s] \in {"return", "thrown"}
    BY <1>0, <1>22 DEF CupResume
  <2> QED BY <1>22, <2>1, <2>2 DEF CupResume
<1> QED BY <1>1, <1>2, <1>3, <1>4, <1>5, <1>6, <1>7, <1>8, <1>9, <1>10, <1>11,
           <1>12, <1>13, <1>14, <1>15, <1>16, <1>17, <1>18, <1>19, <1>20, <1>21,
           <1>22 DEF Controlling

\* mplayer_lock.notify moves no call.
LEMMA NotifyCalls ==
    ASSUME PcType, Notify(pc), NEW c \in Clients
    PROVE  pc'[c] = pc[c]
BY ThreadsAssumption DEF Notify, Waiting, PcType

\* PauseInv is inductive.
LEMMA StepPause ==
    ASSUME NEW s \in Clients, Clients = {s}, PauseInv(s), [Next]_vars
    PROVE  PauseInv(s)'
<1>1. OnlyStops(s)
  BY DEF OnlyStops
<1>2. OwnInv(s)'
  BY <1>1, StepOwn DEF PauseInv
<1>3. ASSUME ~Crashed', slipped' = {}, Next PROVE CallInv(s)' /\ WaitInv(s)'
  <2>1. ~Ended
    BY <1>3, EndedStays DEF Ended, Crashed
  <2>2. ~Dies
    BY <1>3, DiesEnds DEF Ended, Crashed
  <2>3. TypeOK /\ Owner(s) /\ Calm
    BY <2>1 DEF PauseInv, OwnInv
  <2>4. slipped = {}
    BY <1>1, <1>3, <2>2, <2>3, StepOwner
  <2>5. CalmInv /\ CallInv(s) /\ WaitInv(s)
    BY <2>3, <2>4 DEF Calm, PauseInv, Owner
  <2>6. CalmInv'
    BY <1>2, <1>3 DEF OwnInv, Ended, Crashed, Calm
  <2>7. PcType /\ DataType
    BY <2>3 DEF TypeOK, PcType, DataType
  <2>8. Alive \subseteq {th}
    BY <2>3, <2>4 DEF Owner, OneThread
  <2>9. ASSUME NEW t \in Threads, PlayThread(t) PROVE CallInv(s)' /\ WaitInv(s)'
    <3>1. pc'[s] = pc[s]
      BY <2>2, <2>7, <2>9, ThreadSteps, ThreadsAssumption DEF Dies, Goto, PcType
    <3>2. mplayer = "paused" => At \in {"wait", "waiting"} \/ pc[s] \in {"unpause", "join"}
      BY <2>3, <2>4, <2>5 DEF WaitInv, CalmInv, ContextInv, Owner, OneThread
    <3>3. /\ paused' = paused /\ kept' = kept
          /\ mplayer' = "paused" => mplayer = "paused"
          /\ mplayer = "paused" => mplayer' = "paused" \/ At \notin {"wait", "waiting"}
          /\ mplayer' \in {"prepared", "started", "paused"} =>
                \/ mplayer' = mplayer /\ (At \in {"wait", "waiting"} => At' = "waiting")
                \/ At' = "wait"
      BY <1>3, <2>2, <2>5, <2>7, <2>8, <2>9, ThreadPauses DEF Dies
    <3>4. CallInv(s)'
      BY <2>5, <3>1, <3>2, <3>3 DEF CallInv, Out
    <3>5. WaitInv(s)'
      BY <2>5, <3>1, <3>3 DEF WaitInv
    <3> QED BY <3>4, <3>5
  <2>10. CASE Commanding(s)
    BY <1>3, <2>3, <2>4, <2>5, <2>6, <2>7, <2>10, CommandPauses
  <2>11. CASE Controlling(s)
    BY <1>3, <2>2, <2>4, <2>5, <2>6, <2>7, <2>11, ControlPauses DEF Dies
  <2>12. CASE Command(s) \/ Control(s)
    <3>1. PICK step \in {"stop", "pause", "resume", "ask"} : pc[s] = "idle" /\ Goto(s, step)
      BY <2>12 DEF Command, Control, Call
    <3>2. UNCHANGED <<th, paused, kept, mplayer>>
      BY <2>12 DEF Command, Control, flags, native
    <3>3. At' = At /\ pc'[s] = step
      BY <2>7, <3>1, <3>2, CallAt, ThreadsAssumption DEF Goto, PcType
    <3> QED BY <2>5, <3>1, <3>2, <3>3 DEF CallInv, WaitInv, Out
  <2>13. CASE Callbacks
    <3>1. pc'[s] = pc[s]
      BY <2>2, <2>7, <2>13, NotifyCalls, ThreadsAssumption DEF Dies, Callbacks, onPrepared,
          onPreparedStarts, onCompletion, onError, TimerFires, TimerTells, TimerAgain, seen
    <3>2. /\ paused' = paused /\ kept' = kept /\ (mplayer' = "paused" <=> mplayer = "paused")
          /\ \/ mplayer' \notin {"prepared", "started", "paused"}
             \/ At' = At /\ (mplayer' # mplayer => mplayer \in {"prepared", "started"})
      BY <1>3, <2>2, <2>7, <2>13, CallbackPauses DEF Dies
    <3>3. Out' <=> Out
      BY <3>2 DEF Out
    <3>4. CallInv(s)'
      BY <2>5, <3>1, <3>2, <3>3 DEF CallInv
    <3>5. WaitInv(s)'
      BY <2>5, <3>1, <3>2 DEF WaitInv
    <3> QED BY <3>4, <3>5
  <2> QED BY <1>3, <2>9, <2>10, <2>11, <2>12, <2>13 DEF Next
<1>4. CASE Next
  BY <1>2, <1>3, <1>4 DEF PauseInv
<1>5. CASE UNCHANGED vars
  <2>1. UNCHANGED <<kept, paused, mplayer, th, pc, slipped>>
    BY <1>5 DEF vars, native, flags
  <2>2. Out' = Out /\ At' = At /\ Crashed' = Crashed
    BY <2>1 DEF Out, At, Crashed
  <2>3. CallInv(s)' = CallInv(s) /\ WaitInv(s)' = WaitInv(s)
    BY <2>1, <2>2 DEF CallInv, WaitInv
  <2> QED BY <1>2, <2>1, <2>2, <2>3 DEF PauseInv
<1> QED BY <1>4, <1>5

\* With one client: when its call has returned, paused says whether the context or
\* the MediaPlayer is paused.
THEOREM PlaylistPauses == ASSUME NEW s \in Clients, Clients = {s} PROVE Spec => []PausedIsKept
<1>1. Init => PauseInv(s)
  <2> SUFFICES ASSUME Init PROVE PauseInv(s)
    OBVIOUS
  <2>1. OwnInv(s)
    BY InitOwn
  <2>2. pc[s] = "idle" /\ ~paused /\ ~kept /\ mplayer = "none"
    BY ThreadsAssumption DEF Init
  <2> QED BY <2>1, <2>2 DEF PauseInv, CallInv, WaitInv, Out
<1>2. PauseInv(s) /\ [Next]_vars => PauseInv(s)'
  BY StepPause
<1>3. PauseInv(s) => PausedIsKept
  <2> SUFFICES ASSUME PauseInv(s), pc[s] = "idle", slipped = {}
               PROVE  paused <=> kept \/ mplayer = "paused"
    BY DEF PausedIsKept, AtRest
  <2>1. ~Crashed
    BY DEF PauseInv, OwnInv, Ended, Owner
  <2> QED BY <2>1 DEF PauseInv, CallInv, Out
<1> QED BY <1>1, <1>2, <1>3, PTL DEF Spec
===========================================================================
