-------------------------- MODULE Playlist_proofs --------------------------
(***************************************************************************)
(* Theorems about Playlist, for any threads, clients, lists and numbers of  *)
(* calls, and whatever slips away: its types, and that it asks no more of   *)
(* the native context than NativePlay.                                      *)
(***************************************************************************)
EXTENDS Playlist, TLAPS

---------------------------------------------------------------------------
\* Types.  Every thread is at a step of a thread, and every call at one of a call.
PcType ==
    /\ pc \in [Threads \cup Clients -> Threading \cup Calling]
    /\ \A t \in Threads : pc[t] \in Threading
    /\ \A c \in Clients : pc[c] \in Calling

\* The rest of TypeOK.
DataType ==
    /\ state \in {"none", "STOPPED", "PLAYING", "PAUSED"} /\ kept \in BOOLEAN
    /\ mplayer \in {"none", "idle", "prepared", "started", "paused", "completed"}
    /\ files \in [Tracks -> Kinds] /\ filled \in -1 .. Len /\ cue \in BOOLEAN
    /\ cup \in BOOLEAN /\ timer \in {"off", "armed", "fired", "shown", "held"}
    /\ cur_pos \in Int /\ told \in Int
    /\ th \in Threads \cup {NoThread} /\ running \in BOOLEAN /\ paused \in BOOLEAN
    /\ wakeLock \in BOOLEAN
    /\ k \in [Threads -> {"none", "ok", "error"}] /\ track \in [Threads -> Int]
    /\ op \in [Clients -> Stopping \cup Pausing] /\ arg \in [Clients -> Int]
    /\ needResume \subseteq {"phone", "headset"} /\ preparing \subseteq {"posted", "running"}
    /\ slipped \in SUBSET {"thread", "timer", "track"} /\ commands \in Nat

\* A step that moves a thread to a step of a thread, or a call to one of a call.
LEMMA GotoType ==
    ASSUME PcType, NEW x \in Threads \cup Clients, NEW step,
           x \in Threads => step \in Threading, x \in Clients => step \in Calling,
           Goto(x, step)
    PROVE  PcType'
<1>1. pc' = [pc EXCEPT ![x] = step]
  BY DEF Goto
<1>2. step \in Threading \cup Calling
  OBVIOUS
<1>3. \A y \in Threads \cup Clients : pc'[y] = IF y = x THEN step ELSE pc[y]
  BY <1>1 DEF PcType
<1> QED BY <1>1, <1>2, <1>3 DEF PcType

\* The end of the process.
LEMMA DieType == ASSUME Die PROVE PcType'
BY DEF Die, PcType, Threading, Calling

\* mplayer_lock.notify, by a callback or by the client c that goes on with stop().
LEMMA NotifyType ==
    ASSUME PcType,
           Notify(pc) \/ \E c \in Clients : Notify([pc EXCEPT ![c] = "unpause"])
    PROVE  PcType'
<1>1. CASE Notify(pc)
  <2>1. CASE Waiting = {}
    BY <1>1, <2>1 DEF Notify, PcType
  <2>2. CASE Waiting # {}
    <3>1. PICK t \in Waiting : pc' = [pc EXCEPT ![t] = "woken"]
      BY <1>1, <2>2 DEF Notify
    <3> QED BY <3>1, GotoType, ThreadsAssumption DEF Waiting, Goto, Threading
  <2> QED BY <2>1, <2>2
<1>2. ASSUME NEW c \in Clients, Notify([pc EXCEPT ![c] = "unpause"])
      PROVE  PcType'
  <2> DEFINE p == [pc EXCEPT ![c] = "unpause"]
  <2>1. p \in [Threads \cup Clients -> Threading \cup Calling]
    BY DEF PcType, Calling
  <2>2. \A y \in Threads \cup Clients : p[y] = IF y = c THEN "unpause" ELSE pc[y]
    BY DEF PcType
  <2>3. CASE Waiting = {}
    BY <1>2, <2>1, <2>2, <2>3, ThreadsAssumption DEF Notify, PcType, Calling
  <2>4. CASE Waiting # {}
    <3>1. PICK t \in Waiting : pc' = [p EXCEPT ![t] = "woken"]
      BY <1>2, <2>4 DEF Notify
    <3>2. pc' \in [Threads \cup Clients -> Threading \cup Calling]
      BY <2>1, <3>1 DEF Threading
    <3>3. \A y \in Threads \cup Clients : pc'[y] = IF y = t THEN "woken" ELSE p[y]
      BY <2>1, <3>1
    <3> QED BY <2>2, <3>2, <3>3, ThreadsAssumption DEF PcType, Waiting, Threading, Calling
  <2> QED BY <2>3, <2>4
<1> QED BY <1>1, <1>2

\* The thread goes on to a step of its own, or the process ends.
LEMMA ThreadPc ==
    ASSUME PcType, NEW t \in Threads, PlayThread(t)
    PROVE  PcType'
<1> SUFFICES ASSUME ~Die PROVE \E step \in Threading : Goto(t, step)
  BY GotoType, DieType, ThreadsAssumption
<1> USE DEF Threading
<1>1. CASE Run(t)
  BY <1>1 DEF Run
<1>2. CASE Test(t)
  BY <1>2 DEF Test
<1>3. CASE Crash(t)
  BY <1>3 DEF Crash
<1>4. CASE UseFreed(t)
  BY <1>4 DEF UseFreed
<1>5. CASE Try(t)
  BY <1>5 DEF Try
<1>6. CASE TryNull(t)
  BY <1>6 DEF TryNull
<1>7. CASE initAudioMode(t)
  BY <1>7 DEF initAudioMode
<1>8. CASE InitFails(t)
  BY <1>8 DEF InitFails
<1>9. CASE Reset(t)
  BY <1>9 DEF Reset
<1>10. CASE Open(t)
  BY <1>10 DEF Open
<1>11. CASE OpenFails(t)
  BY <1>11 DEF OpenFails
<1>12. CASE Begin(t)
  BY <1>12 DEF Begin
<1>13. CASE PlayEnds(t)
  BY <1>13 DEF PlayEnds
<1>14. CASE PlayReturns(t)
  BY <1>14 DEF PlayReturns
<1>15. CASE Advance(t)
  BY <1>15 DEF Advance
<1>16. CASE SheetEnds(t)
  BY <1>16 DEF SheetEnds
<1>17. CASE Error(t)
  BY <1>17 DEF Error
<1>18. CASE Exit(t)
  BY <1>18 DEF Exit
<1>19. CASE Tell(t)
  BY <1>19 DEF Tell
<1>20. CASE Done(t)
  BY <1>20 DEF Done
<1>21. CASE ExtNew(t)
  BY <1>21 DEF ExtNew
<1>22. CASE Prepare(t)
  BY <1>22 DEF Prepare
<1>23. CASE PrepareFails(t)
  BY <1>23 DEF PrepareFails
<1>24. CASE Wait(t)
  BY <1>24 DEF Wait
<1>25. CASE Release(t)
  BY <1>25 DEF Release
<1>26. CASE Stuck(t)
  BY <1>26 DEF Stuck
<1>27. CASE Drained(t)
  BY <1>27 DEF Drained
<1> QED BY <1>1, <1>2, <1>3, <1>4, <1>5, <1>6, <1>7, <1>8, <1>9, <1>10, <1>11,
           <1>12, <1>13, <1>14, <1>15, <1>16, <1>17, <1>18, <1>19, <1>20, <1>21,
           <1>22, <1>23, <1>24, <1>25, <1>26, <1>27 DEF PlayThread

\* What audio_stop leaves in the context.
LEMMA StopType ==
    ASSUME DataType, AudioStop
    PROVE  state' \in {"none", "STOPPED", "PLAYING", "PAUSED"} /\ kept' \in BOOLEAN
BY DEF DataType, AudioStop, native

\* What a step of a thread writes, of the fields it changes.
LEMMA ThreadData ==
    ASSUME DataType, NEW t \in Threads, PlayThread(t)
    PROVE  DataType'
<1> USE ChoicesAssumption, BoundsAssumption
    DEF DataType, native, list, updater, flags, seen, own, calls, commanded
<1>1. CASE Run(t)
  BY <1>1 DEF Run
<1>2. CASE Test(t)
  BY <1>2 DEF Test
<1>3. CASE Crash(t)
  BY <1>3 DEF Crash, Die
<1>4. CASE UseFreed(t)
  BY <1>4 DEF UseFreed, Die
<1>5. CASE Try(t)
  <2>1. cup' \in BOOLEAN /\ timer' \in {"off", "armed", "fired", "shown", "held"}
    BY <1>5 DEF Try, updater
  <2>2. told' \in Int /\ track' \in [Threads -> Int]
    BY <1>5 DEF Try
  <2>3. UNCHANGED <<native, mplayer, list, cur_pos, flags, wakeLock, k, calls, slipped>>
    BY <1>5 DEF Try
  <2> QED BY <2>1, <2>2, <2>3
<1>6. CASE TryNull(t)
  BY <1>6 DEF TryNull
<1>7. CASE initAudioMode(t)
  BY <1>7, StopType DEF initAudioMode
<1>8. CASE InitFails(t)
  BY <1>8 DEF InitFails
<1>9. CASE Reset(t)
  BY <1>9 DEF Reset
<1>10. CASE Open(t)
  BY <1>10, StopType DEF Open
<1>11. CASE OpenFails(t)
  BY <1>11 DEF OpenFails
<1>12. CASE Begin(t)
  BY <1>12 DEF Begin
<1>13. CASE PlayEnds(t)
  <2>1. state' \in {"none", "STOPPED", "PLAYING", "PAUSED"} /\ kept' \in BOOLEAN
    BY <1>13, StopType DEF PlayEnds
  <2>2. slipped' \in SUBSET {"thread", "timer", "track"}
    BY <1>13 DEF PlayEnds, Slip
  <2>3. UNCHANGED <<mplayer, list, updater, cur_pos, flags, seen, own, calls>>
    BY <1>13 DEF PlayEnds
  <2> QED BY <2>1, <2>2, <2>3
<1>14. CASE PlayReturns(t)
  BY <1>14 DEF PlayReturns
<1>15. CASE Advance(t)
  BY <1>15 DEF Advance
<1>16. CASE SheetEnds(t)
  BY <1>16 DEF SheetEnds
<1>17. CASE Error(t)
  <2>1. running' \in BOOLEAN
    BY <1>17 DEF Error
  <2>2. told' \in Int
    BY <1>17 DEF Error, NoTrack
  <2>3. UNCHANGED <<native, mplayer, list, updater, cur_pos, th, paused, wakeLock, own, calls,
      slipped>>
    BY <1>17 DEF Error
  <2> QED BY <2>1, <2>2, <2>3
<1>18. CASE Exit(t)
  <2>1. wakeLock' \in BOOLEAN
    BY <1>18 DEF Exit
  <2>2. UNCHANGED <<native, mplayer, list, updater, cur_pos, flags, told, own, calls, slipped>>
    BY <1>18 DEF Exit
  <2> QED BY <2>1, <2>2
<1>19. CASE Tell(t)
  BY <1>19 DEF Tell, NoTrack
<1>20. CASE Done(t)
  <2>1. running' \in BOOLEAN
    BY <1>20 DEF Done
  <2>2. cup' \in BOOLEAN
    BY <1>20 DEF Done, Shutdown
  <2>3. timer' \in {"off", "armed", "fired", "shown", "held"}
    BY <1>20 DEF Done, Shutdown
  <2>4. slipped' \in SUBSET {"thread", "timer", "track"}
    BY <1>20 DEF Done, Shutdown, Slip
  <2>5. UNCHANGED <<native, mplayer, list, cur_pos, th, paused, seen, own, calls>>
    BY <1>20 DEF Done
  <2> QED BY <2>1, <2>2, <2>3, <2>4, <2>5
<1>21. CASE ExtNew(t)
  BY <1>21 DEF ExtNew
<1>22. CASE Prepare(t)
  BY <1>22 DEF Prepare
<1>23. CASE PrepareFails(t)
  BY <1>23 DEF PrepareFails
<1>24. CASE Wait(t)
  BY <1>24 DEF Wait
<1>25. CASE Release(t)
  BY <1>25 DEF Release
<1>26. CASE Stuck(t)
  BY <1>26 DEF Stuck
<1>27. CASE Drained(t)
  BY <1>27 DEF Drained
<1> QED BY <1>1, <1>2, <1>3, <1>4, <1>5, <1>6, <1>7, <1>8, <1>9, <1>10, <1>11,
           <1>12, <1>13, <1>14, <1>15, <1>16, <1>17, <1>18, <1>19, <1>20, <1>21,
           <1>22, <1>23, <1>24, <1>25, <1>26, <1>27 DEF PlayThread

\* So does a call.
LEMMA CommandPc ==
    ASSUME PcType, NEW c \in Clients, Commanding(c)
    PROVE  PcType'
<1>0. ASSUME NEW step \in Calling, Goto(c, step) PROVE PcType'
  BY <1>0, GotoType, ThreadsAssumption
<1>1. CASE Stop(c)
  BY <1>0, <1>1 DEF Stop, Calling
<1>2. CASE Halt(c)
  BY <1>0, <1>2 DEF Halt, Calling
<1>3. CASE audioStop(c)
  BY <1>0, <1>3 DEF audioStop, Calling
<1>4. CASE StopNotifies(c)
  BY <1>4, NotifyType, ThreadsAssumption DEF StopNotifies
<1>5. CASE Unpause(c)
  BY <1>0, <1>5 DEF Unpause, Calling
<1>6. CASE Join(c)
  BY <1>0, <1>6 DEF Join, Calling
<1>7. CASE Forget(c)
  BY <1>0, <1>7 DEF Forget, Calling
<1>8. CASE StopReturns(c)
  BY <1>0, <1>8 DEF StopReturns, Calling
<1>9. CASE audioExit(c)
  BY <1>0, <1>9 DEF audioExit, Calling
<1>10. CASE init_playlist(c)
  BY <1>0, <1>10 DEF init_playlist, Calling
<1>11. CASE add_to_playlist(c)
  BY <1>11 DEF add_to_playlist, PcType
<1>12. CASE Loaded(c)
  BY <1>0, <1>12 DEF Loaded, Calling
<1>13. CASE NoSuchTrack(c)
  BY <1>0, <1>13 DEF NoSuchTrack, Calling
<1>14. ASSUME NEW t \in Threads, play(c, t) PROVE PcType'
  <2>1. /\ pc' = [pc EXCEPT ![c] = "idle", ![t] = "new"]
        /\ pc' \in [Threads \cup Clients -> Threading \cup Calling]
    BY <1>14 DEF play, PcType, Threading, Calling
  <2>2. \A x \in Threads \cup Clients :
           pc'[x] = IF x = t THEN "new" ELSE IF x = c THEN "idle" ELSE pc[x]
    BY <2>1 DEF PcType
  <2> QED BY <2>1, <2>2, ThreadsAssumption DEF PcType, Threading, Calling
<1>15. CASE Which(c)
  BY <1>0, <1>15 DEF Which, Calling
<1>16. CASE StopOut(c)
  BY <1>0, <1>16 DEF StopOut, Calling
<1> QED BY <1>1, <1>2, <1>3, <1>4, <1>5, <1>6, <1>7, <1>8, <1>9, <1>10, <1>11,
           <1>12, <1>13, <1>14, <1>15, <1>16 DEF Commanding

\* So does a pause or a resume.
LEMMA ControlPc ==
    ASSUME PcType, NEW c \in Clients, Controlling(c)
    PROVE  PcType'
<1>0. ASSUME NEW step \in Calling, Goto(c, step) PROVE PcType'
  BY <1>0, GotoType, ThreadsAssumption
<1>1. CASE Ask(c)
  BY <1>0, <1>1 DEF Ask, Calling
<1>2. CASE Asked(c)
  BY <1>0, <1>2 DEF Asked, Calling
<1>3. CASE NotHandled(c)
  BY <1>0, <1>3 DEF NotHandled, Calling
<1>4. CASE Pause(c)
  BY <1>0, <1>4 DEF Pause, Calling
<1>5. CASE PauseWhich(c)
  BY <1>0, <1>5 DEF PauseWhich, Calling
<1>6. CASE PauseExt(c)
  BY <1>0, <1>6 DEF PauseExt, Calling
<1>7. CASE PauseLook(c)
  BY <1>0, <1>7 DEF PauseLook, Calling
<1>8. CASE PauseLock(c)
  BY <1>0, <1>8 DEF PauseLock, Calling
<1>9. CASE PauseFlag(c)
  BY <1>0, <1>9 DEF PauseFlag, Calling
<1>10. CASE Unwake(c)
  BY <1>0, <1>10 DEF Unwake, Calling
<1>11. CASE Resume(c)
  BY <1>0, <1>11 DEF Resume, Calling
<1>12. CASE ResumeWhich(c)
  BY <1>0, <1>12 DEF ResumeWhich, Calling
<1>13. CASE ResumeExt(c)
  BY <1>0, <1>13 DEF ResumeExt, Calling
<1>14. CASE ResumeLook(c)
  BY <1>0, <1>14 DEF ResumeLook, Calling
<1>15. CASE ResumeState(c)
  BY <1>0, <1>15 DEF ResumeState, Calling
<1>16. CASE ResumeFlag(c)
  BY <1>0, <1>16 DEF ResumeFlag, Calling
<1>17. CASE Rewake(c)
  BY <1>0, <1>17 DEF Rewake, Calling
<1>18. CASE Throw(c)
  BY <1>0, <1>18 DEF Throw, Calling
<1>19. CASE ThrowUncaught(c)
  BY <1>19, DieType DEF ThrowUncaught
<1>20. CASE Return(c)
  BY <1>0, <1>20 DEF Return, Calling
<1>21. CASE CupPause(c)
  BY <1>0, <1>21 DEF CupPause, Calling
<1>22. CASE CupResume(c)
  BY <1>0, <1>22 DEF CupResume, Calling
<1> QED BY <1>1, <1>2, <1>3, <1>4, <1>5, <1>6, <1>7, <1>8, <1>9, <1>10, <1>11,
           <1>12, <1>13, <1>14, <1>15, <1>16, <1>17, <1>18, <1>19, <1>20, <1>21,
           <1>22 DEF Controlling

\* What a command writes, and what a pause or a resume does.
LEMMA CommandData ==
    ASSUME DataType, NEW c \in Clients, Commanding(c)
    PROVE  DataType'
<1> USE ThreadsAssumption, ChoicesAssumption, BoundsAssumption
    DEF DataType, native, list, updater, flags, seen, own, calls, commanded
<1>1. CASE Stop(c)
  <2>1. running' \in BOOLEAN
    BY <1>1 DEF Stop
  <2>2. UNCHANGED <<native, mplayer, list, updater, cur_pos, th, paused, seen, own, calls, slipped>>
    BY <1>1 DEF Stop
  <2> QED BY <2>1, <2>2
<1>2. CASE Halt(c)
  <2>1. cup' \in BOOLEAN
    BY <1>2 DEF Halt, Shutdown
  <2>2. timer' \in {"off", "armed", "fired", "shown", "held"}
    BY <1>2 DEF Halt, Shutdown
  <2>3. slipped' \in SUBSET {"thread", "timer", "track"}
    BY <1>2 DEF Halt, Shutdown, Slip
  <2>4. UNCHANGED <<native, mplayer, list, cur_pos, flags, seen, own, calls>>
    BY <1>2 DEF Halt
  <2> QED BY <2>1, <2>2, <2>3, <2>4
<1>3. CASE audioStop(c)
  BY <1>3 DEF audioStop
<1>4. CASE StopNotifies(c)
  BY <1>4 DEF StopNotifies
<1>5. CASE Unpause(c)
  <2>1. paused' \in BOOLEAN
    BY <1>5 DEF Unpause
  <2>2. UNCHANGED <<native, mplayer, list, updater, cur_pos, th, running, seen, own, calls,
      slipped>>
    BY <1>5 DEF Unpause
  <2> QED BY <2>1, <2>2
<1>6. CASE Join(c)
  <2>1. slipped' \in SUBSET {"thread", "timer", "track"}
    BY <1>6 DEF Join, Slip
  <2>2. UNCHANGED <<native, mplayer, list, updater, cur_pos, flags, seen, own, calls>>
    BY <1>6 DEF Join
  <2> QED BY <2>1, <2>2
<1>7. CASE Forget(c)
  BY <1>7 DEF Forget
<1>8. CASE StopReturns(c)
  BY <1>8 DEF StopReturns
<1>9. CASE audioExit(c)
  BY <1>9 DEF audioExit
<1>10. CASE init_playlist(c)
  <2>1. paused' \in BOOLEAN /\ running' \in BOOLEAN
    BY <1>10 DEF init_playlist
  <2>2. cup' \in BOOLEAN
    BY <1>10 DEF init_playlist
  <2>3. filled' \in -1 .. Len /\ cur_pos' \in Int /\ th' = NoThread
    BY <1>10 DEF init_playlist
  <2>4. files' \in [Tracks -> Kinds] /\ cue' \in BOOLEAN
    BY <1>10 DEF init_playlist
  <2>5. UNCHANGED <<native, mplayer, timer, seen, own, calls, slipped>>
    BY <1>10 DEF init_playlist
  <2> QED BY <2>1, <2>2, <2>3, <2>4, <2>5
<1>11. CASE add_to_playlist(c)
  <2>1. filled' \in -1 .. Len
    BY <1>11 DEF add_to_playlist
  <2>2. cue' \in BOOLEAN
    BY <1>11 DEF add_to_playlist, MaySheet
  <2>3. UNCHANGED <<native, mplayer, files, updater, cur_pos, flags, seen, own, calls, slipped>>
    BY <1>11 DEF add_to_playlist
  <2> QED BY <2>1, <2>2, <2>3
<1>12. CASE Loaded(c)
  BY <1>12 DEF Loaded
<1>13. CASE NoSuchTrack(c)
  BY <1>13 DEF NoSuchTrack
<1>14. ASSUME NEW t \in Threads, play(c, t) PROVE DataType'
  BY <1>14 DEF play, Tracks
<1>15. CASE Which(c)
  BY <1>15 DEF Which
<1>16. CASE StopOut(c)
  <2>1. state' \in {"none", "STOPPED", "PLAYING", "PAUSED"} /\ kept' \in BOOLEAN
    BY <1>16 DEF StopOut
  <2>2. UNCHANGED <<mplayer, list, updater, cur_pos, flags, seen, own, calls, slipped>>
    BY <1>16 DEF StopOut
  <2> QED BY <2>1, <2>2
<1> QED BY <1>1, <1>2, <1>3, <1>4, <1>5, <1>6, <1>7, <1>8, <1>9, <1>10, <1>11,
           <1>12, <1>13, <1>14, <1>15, <1>16 DEF Commanding

LEMMA ControlData ==
    ASSUME DataType, NEW c \in Clients, Controlling(c)
    PROVE  DataType'
<1> USE ThreadsAssumption, ChoicesAssumption, BoundsAssumption
    DEF DataType, native, list, updater, flags, seen, own, calls, commanded
<1>1. CASE Ask(c)
  BY <1>1 DEF Ask
<1>2. CASE Asked(c)
  BY <1>2 DEF Asked
<1>3. CASE NotHandled(c)
  BY <1>3 DEF NotHandled
<1>4. CASE Pause(c)
  BY <1>4 DEF Pause
<1>5. CASE PauseWhich(c)
  <2>1. paused' \in BOOLEAN
    BY <1>5 DEF PauseWhich
  <2>2. UNCHANGED <<native, mplayer, list, updater, cur_pos, th, running, seen, own, calls,
      slipped>>
    BY <1>5 DEF PauseWhich
  <2> QED BY <2>1, <2>2
<1>6. CASE PauseExt(c)
  <2>1. paused' \in BOOLEAN
    BY <1>6 DEF PauseExt
  <2>2. mplayer' \in {"none", "idle", "prepared", "started", "paused", "completed"}
    BY <1>6 DEF PauseExt
  <2>3. slipped' \in SUBSET {"thread", "timer", "track"}
    BY <1>6 DEF PauseExt, Slip
  <2>4. UNCHANGED <<native, list, updater, cur_pos, th, running, seen, own, calls>>
    BY <1>6 DEF PauseExt
  <2> QED BY <2>1, <2>2, <2>3, <2>4
<1>7. CASE PauseLook(c)
  BY <1>7 DEF PauseLook
<1>8. CASE PauseLock(c)
  <2>1. state' \in {"none", "STOPPED", "PLAYING", "PAUSED"} /\ kept' \in BOOLEAN
    BY <1>8 DEF PauseLock
  <2>2. slipped' \in SUBSET {"thread", "timer", "track"}
    BY <1>8 DEF PauseLock, Slip
  <2>3. UNCHANGED <<mplayer, list, updater, cur_pos, flags, seen, own, calls>>
    BY <1>8 DEF PauseLock
  <2> QED BY <2>1, <2>2, <2>3
<1>9. CASE PauseFlag(c)
  BY <1>9 DEF PauseFlag
<1>10. CASE Unwake(c)
  <2>1. wakeLock' \in BOOLEAN
    BY <1>10 DEF Unwake
  <2>2. UNCHANGED <<native, mplayer, list, updater, cur_pos, flags, told, own, calls, slipped>>
    BY <1>10 DEF Unwake
  <2> QED BY <2>1, <2>2
<1>11. CASE Resume(c)
  BY <1>11 DEF Resume
<1>12. CASE ResumeWhich(c)
  <2>1. paused' \in BOOLEAN
    BY <1>12 DEF ResumeWhich
  <2>2. UNCHANGED <<native, mplayer, list, updater, cur_pos, th, running, seen, own, calls,
      slipped>>
    BY <1>12 DEF ResumeWhich
  <2> QED BY <2>1, <2>2
<1>13. CASE ResumeExt(c)
  <2>1. paused' \in BOOLEAN
    BY <1>13 DEF ResumeExt
  <2>2. mplayer' \in {"none", "idle", "prepared", "started", "paused", "completed"}
    BY <1>13 DEF ResumeExt
  <2>3. UNCHANGED <<native, list, updater, cur_pos, th, running, seen, own, calls, slipped>>
    BY <1>13 DEF ResumeExt
  <2> QED BY <2>1, <2>2, <2>3
<1>14. CASE ResumeLook(c)
  BY <1>14 DEF ResumeLook
<1>15. CASE ResumeState(c)
  <2>1. state' \in {"none", "STOPPED", "PLAYING", "PAUSED"} /\ kept' \in BOOLEAN
    BY <1>15 DEF ResumeState
  <2>2. slipped' \in SUBSET {"thread", "timer", "track"}
    BY <1>15 DEF ResumeState, Slip
  <2>3. UNCHANGED <<mplayer, list, updater, cur_pos, flags, seen, own, calls>>
    BY <1>15 DEF ResumeState
  <2> QED BY <2>1, <2>2, <2>3
<1>16. CASE ResumeFlag(c)
  <2>1. paused' \in BOOLEAN
    BY <1>16 DEF ResumeFlag
  <2>2. UNCHANGED <<native, mplayer, list, updater, cur_pos, th, running, seen, own, calls,
      slipped>>
    BY <1>16 DEF ResumeFlag
  <2> QED BY <2>1, <2>2
<1>17. CASE Rewake(c)
  <2>1. wakeLock' \in BOOLEAN
    BY <1>17 DEF Rewake
  <2>2. slipped' \in SUBSET {"thread", "timer", "track"}
    BY <1>17 DEF Rewake, Slip
  <2>3. UNCHANGED <<native, mplayer, list, updater, cur_pos, flags, told, own, calls>>
    BY <1>17 DEF Rewake
  <2> QED BY <2>1, <2>2, <2>3
<1>18. CASE Throw(c)
  BY <1>18 DEF Throw
<1>19. CASE ThrowUncaught(c)
  BY <1>19 DEF ThrowUncaught, Die
<1>20. CASE Return(c)
  BY <1>20 DEF Return, Listener
<1>21. CASE CupPause(c)
  <2>1. timer' \in {"off", "armed", "fired", "shown", "held"}
    BY <1>21 DEF CupPause
  <2>2. UNCHANGED <<native, mplayer, list, cup, cur_pos, flags, seen, own, calls, slipped>>
    BY <1>21 DEF CupPause
  <2> QED BY <2>1, <2>2
<1>22. CASE CupResume(c)
  <2>1. timer' \in {"off", "armed", "fired", "shown", "held"}
    BY <1>22 DEF CupResume
  <2>2. UNCHANGED <<native, mplayer, list, cup, cur_pos, flags, seen, own, calls, slipped>>
    BY <1>22 DEF CupResume
  <2> QED BY <2>1, <2>2
<1> QED BY <1>1, <1>2, <1>3, <1>4, <1>5, <1>6, <1>7, <1>8, <1>9, <1>10, <1>11,
           <1>12, <1>13, <1>14, <1>15, <1>16, <1>17, <1>18, <1>19, <1>20, <1>21,
           <1>22 DEF Controlling

\* A call that begins.
LEMMA CallType ==
    ASSUME PcType, DataType, NEW c \in Clients, Command(c) \/ Control(c)
    PROVE  PcType' /\ DataType'
<1>1. PICK step \in Calling, what \in Stopping \cup Pausing : Call(c, what, step)
  BY DEF Command, Control, Calling, Stopping, Pausing
<1>2. PcType'
  BY <1>1, GotoType, ThreadsAssumption DEF Call
<1>3. op' \in [Clients -> Stopping \cup Pausing] /\ commands' \in Nat
  BY <1>1 DEF Call, DataType
<1>4. arg' \in [Clients -> Int]
  <2>1. CASE Control(c)
    BY <2>1 DEF Control, DataType
  <2>2. CASE Command(c)
    BY <2>2, BoundsAssumption DEF Command, DataType
  <2> QED BY <2>1, <2>2
<1>5. UNCHANGED <<native, mplayer, list, updater, cur_pos, flags, seen, own, needResume, preparing,
                  slipped>>
  BY DEF Command, Control
<1> QED BY <1>2, <1>3, <1>4, <1>5
        DEF DataType, native, list, updater, flags, seen, own

\* The MediaPlayer and the timer call back.
LEMMA CallbackType ==
    ASSUME PcType, DataType, Callbacks
    PROVE  PcType' /\ DataType'
<1> USE ThreadsAssumption, ChoicesAssumption, BoundsAssumption
    DEF DataType, native, list, updater, flags, seen, own, calls, commanded
<1>1. CASE onPrepared
  <2>1. PcType'
    BY <1>1 DEF onPrepared, PcType
  <2>2. DataType'
    BY <1>1 DEF onPrepared
  <2> QED BY <2>1, <2>2
<1>7. CASE onPreparedStarts
  <2>1. PcType'
    BY <1>7 DEF onPreparedStarts, PcType
  <2>2. slipped' \in SUBSET {"thread", "timer", "track"}
    BY <1>7 DEF onPreparedStarts, Slip
  <2>3. /\ mplayer' = "started" /\ preparing' \subseteq {"posted", "running"}
        /\ UNCHANGED <<native, list, updater, cur_pos, flags, seen, own, commanded>>
    BY <1>7 DEF onPreparedStarts
  <2>4. DataType'
    BY <2>2, <2>3
  <2> QED BY <2>1, <2>4
<1>8. CASE onPreparedThrows
  <2>1. PcType'
    BY <1>8, DieType DEF onPreparedThrows
  <2>2. DataType'
    BY <1>8 DEF onPreparedThrows, Die
  <2> QED BY <2>1, <2>2
<1>2. CASE onCompletion
  <2>1. PcType'
    BY <1>2, NotifyType DEF onCompletion
  <2>2. DataType'
    BY <1>2 DEF onCompletion
  <2> QED BY <2>1, <2>2
<1>3. CASE onError
  <2>1. PcType'
    BY <1>3, NotifyType DEF onError
  <2>2. DataType'
    BY <1>3 DEF onError, NoTrack
  <2> QED BY <2>1, <2>2
<1>4. CASE TimerFires
  <2>1. PcType'
    BY <1>4 DEF TimerFires, PcType
  <2>2. DataType'
    BY <1>4 DEF TimerFires
  <2> QED BY <2>1, <2>2
<1>9. CASE TimerTells
  <2>1. PcType'
    BY <1>9 DEF TimerTells, PcType
  <2>2. slipped' \in SUBSET {"thread", "timer", "track"}
    BY <1>9 DEF TimerTells, Slip
  <2>3. /\ timer' = "shown" /\ told' \in Int
        /\ UNCHANGED <<native, mplayer, list, cup, cur_pos, flags, wakeLock, own, calls>>
    BY <1>9 DEF TimerTells
  <2>4. DataType'
    BY <2>2, <2>3
  <2> QED BY <2>1, <2>4
<1>5. CASE TimerAgain
  <2>1. PcType'
    BY <1>5 DEF TimerAgain, PcType
  <2>2. DataType'
    BY <1>5 DEF TimerAgain
  <2> QED BY <2>1, <2>2
<1>6. CASE TimerThrows
  <2>1. PcType'
    BY <1>6, DieType DEF TimerThrows
  <2>2. DataType'
    BY <1>6 DEF TimerThrows, Die
  <2> QED BY <2>1, <2>2
<1> QED BY <1>1, <1>2, <1>3, <1>4, <1>5, <1>6, <1>7, <1>8, <1>9 DEF Callbacks

\* Every step keeps the types.
LEMMA StepType ==
    ASSUME TypeOK, [Next]_vars
    PROVE  TypeOK'
<1>1. TypeOK <=> PcType /\ DataType
  BY DEF TypeOK, PcType, DataType
<1>2. TypeOK' <=> PcType' /\ DataType'
  BY DEF TypeOK, PcType, DataType
<1>3. CASE Next
  BY <1>1, <1>2, <1>3, ThreadPc, ThreadData, CommandPc, CommandData, ControlPc, ControlData,
     CallType, CallbackType DEF Next
<1>4. CASE UNCHANGED vars
  BY <1>4 DEF vars, native, list, updater, flags, seen, own, calls, commanded, TypeOK
<1> QED BY <1>3, <1>4

\* A service that has just been created.
LEMMA InitType == Init => PcType /\ DataType
<1> SUFFICES ASSUME Init PROVE PcType /\ DataType
  OBVIOUS
<1> USE ThreadsAssumption, ChoicesAssumption, BoundsAssumption DEF Init
<1>1. PcType
  BY DEF PcType, Threading, Calling
<1>2. files \in [Tracks -> Kinds] /\ filled \in -1 .. Len /\ cur_pos \in Int /\ told \in Int
  BY DEF NoTrack
<1>3. cue \in BOOLEAN
  BY DEF MaySheet
<1>4. /\ k \in [Threads -> {"none", "ok", "error"}] /\ track \in [Threads -> Int]
      /\ op \in [Clients -> Stopping \cup Pausing] /\ arg \in [Clients -> Int]
  BY DEF NoTrack, Stopping
<1>5. cup \in BOOLEAN /\ kept \in BOOLEAN
  OBVIOUS
<1>6. running \in BOOLEAN /\ paused \in BOOLEAN /\ wakeLock \in BOOLEAN
  OBVIOUS
<1>7. commands \in Nat /\ slipped = {} /\ needResume = {} /\ preparing = {} /\ th = NoThread
  OBVIOUS
<1> QED BY <1>1, <1>2, <1>3, <1>4, <1>5, <1>6, <1>7 DEF DataType

\* The fields of the playlist keep their types, and every thread and every call is
\* at one of its steps.
THEOREM PlaylistTypes == Spec => []TypeOK
<1>1. Init => TypeOK
  BY InitType DEF TypeOK, PcType, DataType
<1>2. TypeOK /\ [Next]_vars => TypeOK'
  BY StepType
<1> QED BY <1>1, <1>2, PTL DEF Spec

---------------------------------------------------------------------------
\* The refinement of NativePlay.

\* There is no pause of a context that is not there.
NoneKept == state = "none" => ~kept

\* audio_stop is NativePlay's End, or finds nothing to stop.
LEMMA StopRefines ==
    ASSUME DataType, AudioStop
    PROVE  Native!End \/ UNCHANGED native
BY DEF DataType, AudioStop, Native!End

\* What a thread does to the context: audio_stop, and two steps of its own.
LEMMA ThreadRefines ==
    ASSUME NEW t \in Threads, PlayThread(t), NoneKept, kept \in BOOLEAN
    PROVE  AudioStop \/ Native!Reset \/ Native!Begin \/ UNCHANGED native
<1>1. CASE Reset(t)
  BY <1>1 DEF Reset, Native!Reset
<1>2. CASE Begin(t)
  <2>1. kept = FALSE /\ kept' = kept
    BY <1>2 DEF Begin
  <2> QED BY <1>2, <2>1 DEF Begin, Native!Begin
<1>3. CASE initAudioMode(t) \/ Open(t) \/ PlayEnds(t)
  BY <1>3 DEF initAudioMode, Open, PlayEnds
<1>4. CASE ~(Reset(t) \/ Begin(t) \/ initAudioMode(t) \/ Open(t) \/ PlayEnds(t))
  BY <1>4 DEF PlayThread, Run, Test, Crash, UseFreed, Try, TryNull, InitFails, OpenFails,
      PlayReturns, Stuck, Drained,
       Advance, SheetEnds, Error, Exit, Tell, Done, ExtNew, Prepare, PrepareFails,
       Wait, Release
<1> QED BY <1>1, <1>2, <1>3, <1>4

\* What a call does to it.
LEMMA CallRefines ==
    ASSUME NEW c \in Clients, Command(c) \/ Commanding(c) \/ Control(c) \/ Controlling(c),
        NoneKept, kept \in BOOLEAN
    PROVE  Native!End \/ Native!Pause \/ Native!Resume \/ Native!Exit \/ UNCHANGED native
<1>1. CASE StopOut(c)
  BY <1>1 DEF StopOut, Native!End
<1>2. CASE audioExit(c)
  <2>1. state' = "none" /\ kept' = FALSE
    BY <1>2 DEF audioExit
  <2>2. CASE state = "none"
    <3>1. kept = FALSE
      BY <2>2 DEF NoneKept
    <3> QED BY <2>1, <2>2, <3>1 DEF native
  <2>3. CASE state # "none"
    BY <2>1, <2>3 DEF Native!Exit
  <2> QED BY <2>2, <2>3
<1>3. CASE PauseLock(c)
  BY <1>3 DEF PauseLock, Native!Pause
<1>4. CASE ResumeState(c)
  BY <1>4 DEF ResumeState, Native!Resume
<1>5. CASE ~(StopOut(c) \/ audioExit(c) \/ PauseLock(c) \/ ResumeState(c))
  <2>1. CASE Commanding(c)
    BY <1>5, <2>1 DEF Commanding, Stop, Halt, Which, audioStop, StopNotifies, Unpause, Join, Forget, StopReturns,
        init_playlist,
       add_to_playlist, Loaded, NoSuchTrack, play
  <2>2. CASE Controlling(c)
    BY <1>5, <2>2 DEF Controlling, Ask, Asked, NotHandled, Pause, PauseWhich, PauseExt,
        PauseLook, PauseFlag,
       Unwake, CupPause, Resume, ResumeWhich, ResumeExt, ResumeLook, ResumeFlag, Rewake, CupResume,
       Throw, ThrowUncaught, Return
  <2> QED BY <2>1, <2>2 DEF Command, Control
<1> QED BY <1>1, <1>2, <1>3, <1>4, <1>5

\* Every step is one of NativePlay's, or leaves the context alone.
LEMMA NativeSteps ==
    ASSUME TypeOK, NoneKept, [Next]_vars
    PROVE  [Native!Next]_native
<1>1. DataType
  BY DEF TypeOK, DataType
<1>2. CASE \E t \in Threads : PlayThread(t)
  BY <1>1, <1>2, StopRefines, ThreadRefines DEF DataType, Native!Next
<1>3. CASE \E c \in Clients : Command(c) \/ Commanding(c) \/ Control(c) \/ Controlling(c)
  BY <1>1, <1>3, CallRefines DEF DataType, Native!Next
<1>4. CASE Callbacks
  BY <1>4 DEF Callbacks, onPrepared, onPreparedStarts, onPreparedThrows, onCompletion, onError,
     TimerFires, TimerTells, TimerAgain, TimerThrows
<1>5. CASE UNCHANGED vars
  BY <1>5 DEF vars
<1> QED BY <1>2, <1>3, <1>4, <1>5 DEF Next

\* The playlist asks no more of the native context than NativePlay does, whatever
\* its threads and clients do: every step is a step of NativePlay or leaves it alone.
THEOREM PlaylistUsesNative == Spec => UsesNative
<1>1. Init => Native!Init /\ NoneKept
  BY DEF Init, Native!Init, NoneKept
<1>2. TypeOK /\ NoneKept /\ [Next]_vars => [Native!Next]_<<state, kept>>
  BY NativeSteps DEF native
<1>3. TypeOK /\ NoneKept /\ [Next]_vars => NoneKept'
  <2>1. ASSUME NoneKept, [Native!Next]_native PROVE NoneKept'
    BY <2>1 DEF NoneKept, native, Native!Next, Native!Reset, Native!Begin, Native!End,
       Native!Pause, Native!Resume, Native!Exit
  <2> QED BY <2>1, NativeSteps
<1> QED BY <1>1, <1>2, <1>3, PlaylistTypes, PTL DEF Spec, UsesNative, Native!Spec
===========================================================================
